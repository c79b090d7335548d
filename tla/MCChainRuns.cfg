SPECIFICATION RunsSpec
CONSTANTS
  MaxBindings = 2
  Inputs <- MCInputs
INVARIANTS
  TypeOK
  ChainsReported
  DescriptionsTrue
  UsersNamed
  VerdictsRepeat
  FindingsRepeatUnlessShared
PROPERTIES
  RunsReturn
CHECK_DEADLOCK FALSE
