SPECIFICATION OfflineSpec
CONSTANTS
  Instances = {i1, i2}
  Workers = {w1, w2}
  RunsPerInstance = 2
  MaxInvocations = 3
  None = None
  NTrajs = 3
  Turns <- MCTurns
  Specs = {h2t0, h2t3}
  NShards = 2
  Concurrency = 2
  MaxLaunches = 2
  NoSpec = NoSpec
INVARIANT CollectsWhatWasAsked
INVARIANT KeysOnce
INVARIANT SkippedUnitsComplete
PROPERTY AllSwept
CHECK_DEADLOCK FALSE
