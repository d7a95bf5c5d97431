SPECIFICATION Spec
CONSTANTS
  d1 = d1  d2 = d2
  u1 = u1  u2 = u2
  Runs = {d1, d2}
  Users = {u1, u2}
  Linked = {u1}
  Setups <- MCBoth
  MaxFaults = 1
CHECK_DEADLOCK FALSE
INVARIANTS AtMostOneUntold CompletedAccountsForAll LinksAreKnown DevRepeatsOnlyIfOverlapping InFlightUnlessPooled
