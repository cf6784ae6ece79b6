SPECIFICATION TrainingSpec
CONSTANTS
  Modes <- MCModes
  NumEpochs = 2
  BatchSize = 2
  SaveEvery = 2
  EvalEvery = 2
  BaseSize = 6
  Splittable = 3
  MaxLaunches = 4
  Nothing = Nothing
  Sizes <- SmallBatches
  Rewards <- ThreeRewards
  MinSpread = 1
  Snap = 2
  None = None
INVARIANT CheckpointCounts
INVARIANT FewUpdatesUndone
INVARIANT EvalMatchesStep
INVARIANT Covered
INVARIANT OnlySoundDatums
INVARIANT AdvantageIsCentred
PROPERTY BatchEnds
CHECK_DEADLOCK FALSE
