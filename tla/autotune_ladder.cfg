\* Every request on the grid, tuned for ever.
SPECIFICATION FairSpec
CONSTANTS
  Requested <- MCRequested
  None = None
INVARIANTS
  TunedIsAdmitted
PROPERTIES
  StepProgresses
  EveryStrategyTried
