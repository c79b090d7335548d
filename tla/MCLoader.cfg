SPECIFICATION Spec
CONSTANTS
  MaxSegments = 2
  MaxFileSize = 1
  MaxDocsPerFile = 4
  MaxNesting = 2
  Documents <- MCDocuments
  Excluded <- MCExcluded
  Inputs <- MCInputs
INVARIANTS
  TypeOK
  LoadContract
  LossesReported
PROPERTIES
  Returns
CHECK_DEADLOCK FALSE
