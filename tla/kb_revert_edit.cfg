\* An edit taken back while its Job runs.
SPECIFICATION Spec
CONSTANTS
  Specs <- MCSpecs
  InitialSpec = "A"
  Edits <- EditAndRevert
  OversizeSpecs = {}
  SecretVersions = {"s1"}
  Chunkings <- MCChunkings
  SpecChunking <- MCSpecChunking
  NextChunking <- MCNextChunking
  Recalls = {40, 90}
  Target = 60
  EvalEnabled = FALSE
  AutoTune = FALSE
  MaxAttempts = 2
  IngestMode = "incremental"
  PodsLinger = FALSE
  Faults = {}
  MaxDisturbances = 2
  None = None
INVARIANTS
  IngestingHasJob
