CONSTANTS
  a = a  b = b  c = c  d = d  e = e  p = p
  NoPool = NoPool
  Tasks <- Small
  Links <- SmallLinks
  After <- SmallAfter
  Invalid = {b, c}
  Pools <- NoPools
  PoolOf <- NoPoolOf
  Workers <- NoWorkers
  Failures <- MayFail
  MaxThreads = 2
  MaxNbThreads = 2
  ProblemLimit = 1
  Commands <- AllCommands
  MaxCommands = 3
  Careful = TRUE
  Spurious = FALSE
SPECIFICATION FairSpec
INVARIANT AsleepHasRunning
PROPERTY NothingStartsInPause
PROPERTY StopTakesEffect
PROPERTY WaitEndsWithRun
CHECK_DEADLOCK FALSE
