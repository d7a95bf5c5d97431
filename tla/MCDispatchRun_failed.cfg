SPECIFICATION Spec
CONSTANTS
  d1 = d1  d2 = d2
  u1 = u1  u2 = u2
  Runs = {d1}
  Users = {u1, u2}
  Linked = {}
  Setups <- MCEmail
  MaxFaults = 1
CHECK_DEADLOCK FALSE
INVARIANT FailedRunSentNothing
