SPECIFICATION Spec
CONSTANTS
  Instances = {i1, i2}
  Workers = {w1, w2}
  Options <- MCOptions
  MaxTries = 2
  MaxInvocations = 2
  TornWrites = TRUE
  None = None
CHECK_DEADLOCK FALSE
INVARIANT GradedWhereItWorked
