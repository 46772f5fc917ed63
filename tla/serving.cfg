\* One edit or fault, of any kind and at any point, and what repairs it.
SPECIFICATION Spec
CONSTANTS
  Models <- MCModels
  Stores <- MCStores
  StoreType <- MCStoreType
  Secrets = {"k1", "k2"}
  StoreKey <- MCStoreKey
  ModelKey <- MCModelKey
  Width <- MCWidth
  Expected <- MCExpected
  KbSpecs <- MCKbSpecs
  FirstSpec <- MCFirst
  KbEdits <- MCKbEdits
  Versions = {1, 2}
  Faults = {"suspend", "delete", "ingestFails", "collection", "outage", "secret", "retriever", "secretRead", "apiError", "crash", "drift", "unready", "load"}
  MaxDisturbances = 1
  None = None
  Hosts = {"host"}
  MaxReplicas = 2
  RetrieverSpecs <- MCRetrieverSpecs
  FirstRetriever <- MCFull
INVARIANTS
  TypeOK
  QuietMeansConverged
PROPERTIES
  Converges
  
  AvailabilityFollowsHealth
  
  SecretsRolledOut
  
