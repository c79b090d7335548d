SPECIFICATION Spec
CONSTANTS
  MaxRules = 1
  Inputs <- MCInputs
INVARIANTS
  RuleReportedOnce
CHECK_DEADLOCK FALSE
