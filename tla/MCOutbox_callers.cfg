SPECIFICATION Spec
CONSTANTS
  r1 = r1  r2 = r2  r3 = r3
  d1 = d1  d2 = d2
  w1 = w1  w2 = w2
  Rows = {r1, r2, r3}
  Dests = {d1, d2}
  Dest <- MCDest
  Workers = {w1, w2}
  Mode = "sync"
  BatchLimit = 2
  MaxAttempts = 2
  Lease = 1
  BackoffBase = 1
  BackoffCap = 1
  MaxFaults = 1
  AttemptBound = 3
CHECK_DEADLOCK FALSE
SYMMETRY MCSymmetry
INVARIANTS NothingLost EveryPostCounted
PROPERTY ImplementsPromise
