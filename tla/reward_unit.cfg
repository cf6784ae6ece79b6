SPECIFICATION Spec
CONSTANTS
  KeepN = 0
  LongOutput = 4
  PlaceholderSize = 1
  KeepRecentSteps = 1
  SummarySizes = {1, 2}
  DigestCap <- MCDigestCap
  Themes <- MCThemes
  Callers = {"random", "threshold", "sweep"}
  MaxTurns = 4
  Runs <- MCRuns
  EventFrame = 1
  CallSize = 1
  MinPrefix = 1
  MinSuffix = 1
  SplitAt = 16
  Budget = 10
  MinSummary = 1
  KeepFirst = 4
  MaxSize = 12
  NTurns = 2
  WindowMin = 6
  WindowMax = 11
  Specs <- MCSpecs
  None = None
INVARIANT WholeTurns
INVARIANT SamePast
INVARIANT SameTokens
INVARIANT FitsWindow
CHECK_DEADLOCK FALSE
