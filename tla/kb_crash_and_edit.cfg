\* A crash between creating a Job and recording it, then a spec edit.
SPECIFICATION Spec
CONSTANTS
  Specs <- MCSpecs
  InitialSpec = "A"
  Edits <- EditOnce
  OversizeSpecs = {}
  SecretVersions = {"s1"}
  Chunkings <- MCChunkings
  SpecChunking <- MCSpecChunking
  NextChunking <- MCNextChunking
  Recalls = {40, 90}
  Target = 60
  EvalEnabled = FALSE
  AutoTune = FALSE
  MaxAttempts = 2
  IngestMode = "incremental"
  PodsLinger = FALSE
  Faults = {"crash"}
  MaxDisturbances = 2
  None = None
INVARIANTS
  NoSharedShadow
