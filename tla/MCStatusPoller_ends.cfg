SPECIFICATION AgingSpec
CONSTANTS
  m1 = m1  m2 = m2
  s1 = s1  s2 = s2
  h1 = h1  h2 = h2
  Msgs = {m1}
  Senders = {s1}
  Polled = {s1}
  Sender <- MCSender
  Statuses = {"delivered", "read"}
  BatchLimit = 1
  Concurrency = 1
  ForwardChunk = 1
  Hooks = {h1}
  MaxWebhooks = 2
  MaxFaults = 1
CHECK_DEADLOCK FALSE
INVARIANT RecordedWasReported
PROPERTY PollingEnds
