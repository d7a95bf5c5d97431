SPECIFICATION FairSpec
CONSTANTS
  d1 = d1  d2 = d2
  u1 = u1  u2 = u2
  Runs = {d1, d2}
  Users = {u1, u2}
  Linked = {}
  Setups <- MCMixed
  MaxFaults = 0
CHECK_DEADLOCK FALSE
PROPERTY EveryRunSettles
