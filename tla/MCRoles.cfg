SPECIFICATION Spec
CONSTANTS
  MaxRules = 3
  Inputs <- MCInputs
INVARIANTS
  TypeOK
  ScanContract
  WildcardNeverMasked
  PowersExact
  AccessExact
PROPERTIES
  ScanReturns
CHECK_DEADLOCK FALSE
