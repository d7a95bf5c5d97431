SPECIFICATION MCSpec
CONSTANTS
  p1 = p1  p2 = p2  d1 = d1  d2 = d2  f1 = f1  f2 = f2
  People = {p1, p2}
  Runs = {d1}
  Refreshes = {f1, f2}
  MaxFaults = 1
  u1 = u1  u2 = u2  c1 = c1  c2 = c2  k1 = k1
  Campaigns = {c1, c2}
  Urls = {u1, u2}
  Readers = {k1}
  WarmLimit = 2
  KeepDays = 1
  MaxPending = 2
  MaxRegistryFaults = 1
  w1 = w1  w2 = w2  e1 = e1  e2 = e2  e3 = e3  l1 = l1  l2 = l2
  Wires = {w1, w2}
  Dispatches = {e1, e2, e3}
  Payload <- MCPayload
  Lookups = {l1, l2}
  CacheMax = 1
  Mapped <- MCMapped
  Queued <- MCQueued
  PageSize = 2
  MaxProgramFaults = 1
  Lists = {"recipients", "events", "runs", "hub", "outbox", "lines", "sends", "logs", "rollup"}
  RowIds = {1, 2, 3}
  Owners = {1, 2}
  EventMarks = {"read", "deferred"}
  PageLimit = 1
  TimelineLimit = 2
  MaxNow = 2
  MaxWrites = 3
  MaxIssued = 2
SYMMETRY MCSymmetry
CHECK_DEADLOCK FALSE
INVARIANTS CountsHold CachesHold ConsoleHolds
PROPERTY NeverBackwardsAlone
