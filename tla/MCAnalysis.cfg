SPECIFICATION Spec
CONSTANTS
  Inputs <- MCInputs
  LabelNames = {"app"}
  LabelValues = {"x", "y"}
  AddressBits <- MCAddressBits
  HostLabels = {"a", "b", "com", "z"}
  Unnamed = "z"
  MaxLabels = 3
INVARIANTS
  TypeOK
  SeverityFollowsBindings
  EveryRoleReported
  PoliciesJudged
  PodsJudged
  SCCsJudged
  ExposureJudged
  SecretsJudged
CHECK_DEADLOCK FALSE
