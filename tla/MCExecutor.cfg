CONSTANTS
  a = a  b = b  c = c  d = d  e = e  p = p
  NoPool = NoPool
  Tasks <- Diamond
  Links <- DiamondLinks
  After <- DiamondAfter
  Invalid = {}
  Pools <- MCPools
  PoolOf <- DiamondPoolOf
  Workers <- OneWorker
  Failures <- DiamondFailures
  MaxThreads = 3
  MaxNbThreads = 1
  ProblemLimit = 1
  Commands = {}
  MaxCommands = 0
  Careful = TRUE
  Spurious = TRUE
SPECIFICATION FairSpec
INVARIANT RunningConsistent
INVARIANT LimitsRespected
INVARIANT FinishedMeansOver
INVARIANT DependenciesRespected
INVARIANT BlocOutcome
PROPERTY RunEnds
PROPERTY IsWorkflow
CHECK_DEADLOCK TRUE
