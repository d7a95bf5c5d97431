SPECIFICATION Spec
CONSTANTS
  s1 = s1  s2 = s2  s3 = s3
  w1 = w1  w2 = w2  w3 = w3
  p1 = p1  p2 = p2
  NoPin = NoPin
  Senders = {s1, s2}
  Weighted = {s1, s2}
  Runs = {w1, w2}
  Channel <- MCChannel
  Recipients = {p1, p2}
  Pin <- MCNoPins
  Strict <- MCStrict
  MaxAttempts = 2
  OnTimeout = FALSE
  OnIdentityError = FALSE
  Threshold = 1
  Cooldown = 1
  MaxFailures = 2
CHECK_DEADLOCK FALSE
INVARIANT OneProbe
