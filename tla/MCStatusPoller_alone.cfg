SPECIFICATION Spec
CONSTANTS
  m1 = m1  m2 = m2
  s1 = s1  s2 = s2
  h1 = h1  h2 = h2
  Msgs = {m1, m2}
  Senders = {s1, s2}
  Polled = {s1, s2}
  Sender <- MCSender2
  Statuses = {"delivered", "read"}
  BatchLimit = 2
  Concurrency = 2
  ForwardChunk = 2
  Hooks = {}
  MaxWebhooks = 0
  MaxFaults = 1
CHECK_DEADLOCK FALSE
INVARIANTS LadderReported RepeatedOnlyAfterFault FinalStopsPolling
