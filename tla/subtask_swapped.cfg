SPECIFICATION Spec
CONSTANTS
  Strategies = {"subtask"}
  KeepN = 1
  KeepFirst = 4
  KeepLastTurns = 1
  CompressAtTokens = 8
  CompressAtTurns = 0
  StepLimit = 5
  MaxParallel = 1
  Outputs <- MCTaggedOutputs
  FormatErrors = 0
  KeepRecentSteps = 2
  Themes <- MCSwappedThemes
  LongOutput = 4
  PlaceholderSize = 2
  SummarySizes = {1, 3}
  DigestCap <- MCDigestCap
  None = None
INVARIANT CurrentWorkReadable
CHECK_DEADLOCK FALSE
