SPECIFICATION Spec
CONSTANTS
  Symbols = {"own", "other"}
  Fifo = TRUE
  Own = "own"
  Capacity = 2
  MinSamples = 2
  InvalidStreak = 3
  CrowdedStreak = 4
  ForceExitStreak = 2
  MaxLosses = 2
  Early = 1
  Mid = 1
  Final = 1
  StepTicks = {1}
  Lags <- MCLags
  Frames <- MCFrames
  Foreign <- MCForeign
  Judgements <- MCDoubtful
  Failures <- MCFailures
  Feed = {TRUE}
  Prices = {100, 200}
  Cost = 10
  Expected = 90
  MaxEntries = 2
  MaxQty = 1
  StageCap = 1
  DropCap = 1
  MaxOrders = 2
  MaxForeign = 1
  MaxFailures = 1
CHECK_DEADLOCK FALSE
INVARIANT UncertainMeetsThresholds
