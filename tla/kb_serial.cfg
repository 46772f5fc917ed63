\* Spec edits, credential rotations and failing Jobs whose pods outlive them, with a
\* reconciler that does not crash.
SPECIFICATION Spec
CONSTANTS
  Specs <- MCSpecs
  InitialSpec = "A"
  Edits <- EditOnce
  OversizeSpecs = {}
  SecretVersions = {"s1", "s2"}
  Chunkings <- MCChunkings
  SpecChunking <- MCSpecChunking
  NextChunking <- MCNextChunking
  Recalls = {40, 90}
  Target = 60
  EvalEnabled = TRUE
  AutoTune = TRUE
  MaxAttempts = 1
  IngestMode = "incremental"
  PodsLinger = TRUE
  Faults = {"fail", "lose", "gc", "rotate", "overdue"}
  MaxDisturbances = 2
  None = None
INVARIANTS
  IngestingHasJob
  OneJobInFlight
  NoSharedShadow

  
