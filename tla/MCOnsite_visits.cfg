\* Overlapping redeems, visits and receipts of two browsers; a tick is half the
\* life of a session.
SPECIFICATION MCSpec
CONSTANTS
  a1 = a1
  a2 = a2
  Acts = {a1, a2}
  EachWindow = 2
  Window <- MCWindow
  Browsers = {b1, b2}
  Sessions = {s1, s2}
  Requests = {q1, q2}
  IdleLimit = 1
  AbsoluteLimit = 2
  KeepExpired = 1
  KeepDecision = 3
  Patience = 0
  MaxFaults = 1
  owner = owner  guest = guest  i1 = i1
  rotate1 = rotate1  rotate2 = rotate2  revoke = revoke
  Emails = {owner, guest}
  Owner = owner
  Invites = {i1}
  To <- MCTo
  Visitors = {v1, v2}
  KeyOps = {rotate1, rotate2, revoke}
  Rotates = {rotate1, rotate2}
  MaxAccountFaults = 2
  FlushRows = 2
  MaxPending = 3
  MaxInflight = 1
  MaxLines = 5
  MaxLogFaults = 1
  Tabs = {1, 2}
  Categories = {"newsletter", "promotional"}
  LinkSettings <- MCSettings
  DefaultReasons = {"spam"}
  LinkRetries = 1
  MaxTime = 2
  MaxPresses = 2
  MaxLinkFaults = 1
INVARIANTS OffersHold AcknowledgedIsTold AccountsHold SinksSound LinksHold
SYMMETRY MCSymmetry
CHECK_DEADLOCK FALSE
