SPECIFICATION Spec
CONSTANTS
  Inputs <- MCInputs
INVARIANTS
  TypeOK
  VerdictShown
PROPERTIES
  GateSteps
  GateEnds
CHECK_DEADLOCK FALSE
