CONSTANTS
  BranchCounts <- MCBranchCounts
  MaxSamples = 4
  MaxPush = 2
  Priority <- EvenFirst
  HasInit = TRUE
  HasFinalize = TRUE
  NodesFail = TRUE
  AlgFails = TRUE
  MaxRuns = 2
SPECIFICATION FairSpec
INVARIANT InUseIsRunning
INVARIANT NoSampleWaits
INVARIANT AlgorithmReleased
PROPERTY LoopEnds
CHECK_DEADLOCK FALSE
