CONSTANTS
  Nodes <- WhileNodes
  Schemas <- WhileSchema
  NoNode = ""
  Father <- WhileFather
  Kind <- WhileKind
  Links <- WhileLinks
  FakeOf <- WhileFakeOf
  Branches <- WhileBranches
  Options <- WhileOptions
  Leaving = {}
  MayFail = {}
  Unloadable = {}
  KeepGoings <- WhileKeepGoings
  MaxTurns = 3
  MaxRestarts = 0
SPECIFICATION Spec
INVARIANT LoopsEnd
CHECK_DEADLOCK TRUE
