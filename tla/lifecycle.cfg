\* Everything but a cleanup Job whose deletion fails; five ids are more than are used.
SPECIFICATION Spec
CONSTANTS
  MaxIds = 5
  Pages = 2
  Faults <- MCFaults
  MaxDisturbances = 2
  None = None
INVARIANTS
  TypeOK
  ReportedIsUploaded
  ServesWhole
  DetachedBeforeGone
PROPERTIES
  RestorePromotesBackup
  Settles
  DeletionFinishes
CHECK_DEADLOCK FALSE
