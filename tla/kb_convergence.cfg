\* Every disturbance, and then none; a suspended KnowledgeBase may stop.
SPECIFICATION FairSpec
CONSTANTS
  Specs <- MCSpecs
  InitialSpec = "A"
  Edits <- EditToOversize
  OversizeSpecs = {"C"}
  SecretVersions = {"s1", "s2"}
  Chunkings <- MCChunkings
  SpecChunking <- MCSpecChunking
  NextChunking <- MCNextChunking
  Recalls = {90}
  Target = 60
  EvalEnabled = TRUE
  AutoTune = FALSE
  MaxAttempts = 2
  IngestMode = "incremental"
  PodsLinger = FALSE
  Faults = {"crash", "quota", "identity", "undeleted", "fail", "lose", "gc", "rotate", "overdue", "tick", "suspend"}
  MaxDisturbances = 2
  None = None
PROPERTIES
  Converges
CHECK_DEADLOCK FALSE
