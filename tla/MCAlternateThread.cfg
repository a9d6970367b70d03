CONSTANTS
  Spurious = FALSE
  MaxAsks = 6
  MaxSlaves = 2
SPECIFICATION FairThreads
INVARIANT Alternate
PROPERTY SlavesAreJoined
CHECK_DEADLOCK FALSE
