\* Auto-tune and scheduled re-syncs under one disturbance of any kind or a spec edit.
SPECIFICATION Spec
CONSTANTS
  Specs <- MCSpecs
  InitialSpec = "A"
  Edits <- EditOnce
  OversizeSpecs = {}
  SecretVersions = {"s1", "s2"}
  Chunkings <- MCChunkings
  SpecChunking <- MCSpecChunking
  NextChunking <- MCNextChunking
  Recalls = {20, 40, 90}
  Target = 60
  EvalEnabled = TRUE
  AutoTune = TRUE
  MaxAttempts = 2
  IngestMode = "incremental"
  PodsLinger = FALSE
  Faults = {"crash", "fail", "tick", "evalTick", "lose", "gc", "rotate", "overdue"}
  MaxDisturbances = 1
  None = None
INVARIANTS
  TypeOK
  SettledOnBest
  ServedAsRecorded
  RetuneIsUnevaluated
  TuningIsBounded
PROPERTIES
  DeferredTickRuns
  IncrementalOnlyWhenUnchanged
