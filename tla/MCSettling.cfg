SPECIFICATION MCSpec
CONSTANTS
  r1 = r1  r2 = r2  s1 = s1  k1 = k1  m1 = m1
  Mode = "few"
  N = 5
  MaxRetries = 1
  MaxDown = 4
  Names = {"a", "b"}
  SystemNames = {"sys"}
  Seeds = {"a", "b", "sys"}
  Schemas = {m1}
  Keys = {k1}
  Secrets = {s1}
  Inputs <- MCInputs
  Slots = {r1, r2}
  SqlModes = {TRUE, FALSE}
  MaxFaults = 1
CHECK_DEADLOCK FALSE
INVARIANTS RegistryHolds AttachmentsHold ForwardHolds
PROPERTIES AnswersSettle RecursionEnds
