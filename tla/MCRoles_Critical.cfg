SPECIFICATION Spec
CONSTANTS
  MaxRules = 2
  Inputs <- MCInputs
INVARIANTS
  WildcardFindingsCritical
CHECK_DEADLOCK FALSE
