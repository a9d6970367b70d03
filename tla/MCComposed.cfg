CONSTANTS
  Nodes <- MCNodes
  Schemas <- MCSchemas
  NoNode = ""
  Father <- MCFather
  Kind <- MCKind
  Links <- MCLinks
  FakeOf <- MCFakeOf
  Branches <- MCBranches
  Options <- MCOptions
  Leaving = {"S.sw"}
  MayFail <- MCMayFail
  Unloadable <- MCUnloadable
  KeepGoings <- MCKeepGoings
  MaxTurns = 3
  MaxRestarts = 1
SPECIFICATION FairSpec
INVARIANT RunsInOrder
INVARIANT DoneMeansQuiet
INVARIANT FailureReachesRoot
INVARIANT EndsWithItsGraph
PROPERTY DoneIsKept
PROPERTY RunEnds
CHECK_DEADLOCK TRUE
