SPECIFICATION MCSpec
CONSTANTS
  Yaml <- MCYaml
  Envs <- MCEnvs
  Contents <- MCContents
  Recipients <- MCRecipients
  OnTimeout = FALSE
  MaxAttempts = 2
  Configs <- MCConfigs
  Requests = {r1, r2}
  MaxRetries = 1
  MaxClock = 2
  MaxInboundFaults = 2
  MaxRepeats = 1
  Sent <- MCSent
  Refs <- MCRefs
  Bodies <- MCBodies
  Callers = {k1, k2}
  MaxEvents = 3
  MaxBatch = 2
  MaxClientFaults = 2
  MaxElsewhere = 1
  Asked <- MCAsked
  Canonical <- MCCanonical
  NoId = "none"
  Records <- MCRecords
  ChunkSize = 1
  LookupRetries = 1
  Def <- MCDef
  Content <- MCContent
  MetaValue <- MCMetaValue
  Concurrency = 2
  MaxSwaps = 1
  Subjects = {s1, s2}
  Samples <- MCSamples
  Bounds <- MCBounds
  MaxGroups = 2
  InsertChunk = 1
  Resolution = 2
  KeepMinutes = 1
  Window = 2
  LastMinute = 3
  MaxSamples = 3
  MaxMetricFaults = 1
  Variables = {"ATLAS", "SECRET", "HOME"}
  AtlasKeyVar = "ATLAS"
  Bindings <- MCBindings
  Injected = {"unset", "blank", "platform"}
  Files <- MCFiles
SYMMETRY MCSymmetry
INVARIANTS SendsHold InboundHolds ClientHolds ResolverHolds ReportHolds SettingsHold
CHECK_DEADLOCK FALSE
