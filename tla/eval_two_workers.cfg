SPECIFICATION Spec
CONSTANTS
  Instances = {i1, i2}
  Workers = {w1, w2}
  Options <- MCOptions
  MaxTries = 2
  MaxInvocations = 3
  TornWrites = TRUE
  None = None
INVARIANT PredictionMatchesTrajectory
INVARIANT ReportIsTrue
PROPERTY RunsAreAtomic
PROPERTY AllPredicted
CHECK_DEADLOCK FALSE
