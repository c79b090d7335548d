SPECIFICATION RunsSpec
CONSTANTS
  MaxBindings = 2
  Inputs <- MCInputs
INVARIANTS
  FindingsRepeat
CHECK_DEADLOCK FALSE
