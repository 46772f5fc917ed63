\* Two sources that may change once, with a version that has no text; two pods per Job.
SPECIFICATION FairSpec
CONSTANTS
  NumSources = 2
  MaxVersion = 2
  EmptyVersions = {2}
  BackoffLimit = 1
  None = None
INVARIANTS
  TypeOK
  
  
PROPERTIES
  
  JobsEnd
