SPECIFICATION Spec
CONSTANTS
  Inputs <- MCInputs
  LabelNames = {"app"}
  LabelValues = {"x", "y"}
  AddressBits <- MCAddressBits
  HostLabels = {"a", "b", "com", "z"}
  Unnamed = "z"
  MaxLabels = 3
INVARIANTS
  CatchAllsReported
CHECK_DEADLOCK FALSE
