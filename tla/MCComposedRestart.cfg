CONSTANTS
  Nodes <- MCNodes
  Schemas <- ForSchema
  NoNode = ""
  Father <- MCFather
  Kind <- MCKind
  Links <- MCLinks
  FakeOf <- MCFakeOf
  Branches <- MCBranches
  Options <- MCOptions
  Leaving = {}
  MayFail = {"F.d"}
  Unloadable = {"F.d"}
  KeepGoings <- ForKeepGoings
  MaxTurns = 3
  MaxRestarts = 1
SPECIFICATION Spec
INVARIANT RestartRepairs
CHECK_DEADLOCK TRUE
