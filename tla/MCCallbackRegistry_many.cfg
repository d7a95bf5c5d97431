\* More campaigns than the warm load reads (5,000 in the code).
SPECIFICATION Spec
CONSTANTS
  Campaigns = {c1, c2}
  Urls = {u1, u2}
  Readers = {k1}
  WarmLimit = 1
  KeepDays = 1
  Pooled = FALSE
  MaxPending = 2
  MaxFaults = 1
INVARIANTS RestartKeepsCorrelation
CHECK_DEADLOCK FALSE
