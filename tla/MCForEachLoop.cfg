CONSTANTS
  Size = 4
  BranchCounts <- MCBranchCounts
  HasInit = TRUE
  HasFinalize = TRUE
  Failures <- AnyStage
  Patient = TRUE
  MaxRuns = 3
SPECIFICATION FairSpec
INVARIANT SamplesKept
PROPERTY IsSamples
PROPERTY LoopEnds
CHECK_DEADLOCK FALSE
