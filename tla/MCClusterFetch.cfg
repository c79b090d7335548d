SPECIFICATION Spec
CONSTANTS
  MaxChanges = 1
  MaxFileSize = 1
  MaxDocsPerFile = 1
  Clusters <- MCClusters
  Creatable <- MCCreatable
  Namespaces <- MCNamespaces
INVARIANTS
  TypeOK
  NothingMissedSilently
  NothingInvented
  FailsForMandatoryOnly
PROPERTIES
  DumpsRemoved
CHECK_DEADLOCK FALSE
