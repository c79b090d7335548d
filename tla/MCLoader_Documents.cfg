SPECIFICATION Spec
CONSTANTS
  MaxSegments = 0
  MaxFileSize = 1
  MaxDocsPerFile = 4
  MaxNesting = 2
  Documents <- MCDocuments
  Excluded <- MCExcluded
  Inputs <- MCInputs
INVARIANTS
  EveryDocumentRead
CHECK_DEADLOCK FALSE
