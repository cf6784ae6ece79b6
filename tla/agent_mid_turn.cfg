SPECIFICATION Spec
CONSTANTS
  Strategies = {"truncation"}
  KeepN = 1
  KeepFirst = 4
  KeepLastTurns = 1
  CompressAtTokens = 8
  CompressAtTurns = 0
  StepLimit = 4
  MaxParallel = 2
  Outputs <- MCLongOutputs
  FormatErrors = 0
  KeepRecentSteps = 2
  Themes <- MCContractThemes
  LongOutput = 4
  PlaceholderSize = 2
  SummarySizes = {1, 3}
  DigestCap <- MCDigestCap
  None = None
INVARIANT NeverCutMidTurn
CHECK_DEADLOCK FALSE
