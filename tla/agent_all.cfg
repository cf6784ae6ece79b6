SPECIFICATION BoundedSpec
CONSTANTS
  Strategies = {"none", "truncation", "mask", "model", "cliff", "subtask"}
  KeepN = 1
  KeepFirst = 4
  KeepLastTurns = 1
  CompressAtTokens = 8
  CompressAtTurns = 0
  StepLimit = 5
  MaxParallel = 2
  Outputs <- MCTaggedOutputs
  FormatErrors = 1
  KeepRecentSteps = 2
  Themes <- MCLenientThemes
  LongOutput = 4
  PlaceholderSize = 2
  SummarySizes = {1, 3}
  DigestCap <- MCDigestCap
  None = None
INVARIANT HeadVerbatim
INVARIANT RecentTurnsVerbatim
INVARIANT NoContextLost
INVARIANT BugContextKept
INVARIANT AuditComplete
INVARIANT CurrentWorkReadable
INVARIANT WellFormed
PROPERTY ThemeSummariesStay
CHECK_DEADLOCK FALSE
