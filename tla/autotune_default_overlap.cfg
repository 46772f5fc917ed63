\* A request for small chunks without overlap.
SPECIFICATION Spec
CONSTANTS
  Requested <- MCRequested
  None = None
INVARIANTS
  InUseIsAdmitted
