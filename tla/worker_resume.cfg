\* One interruption is enough: the next pod resumes from the checkpoint.
SPECIFICATION Spec
CONSTANTS
  NumSources = 2
  MaxVersion = 2
  EmptyVersions = {2}
  BackoffLimit = 1
  None = None
INVARIANT AlwaysWhole
