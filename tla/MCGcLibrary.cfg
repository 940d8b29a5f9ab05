SPECIFICATION LibrarySpec
CONSTANTS
  StackBottom = 8
  GlobalStart = 11
  GlobalStop = 11
  Words <- MCWords
  Images <- MCImages
  MinCapacity = 4
  Bases = {90}
  LocalP = 12
  LocalQ = 13
  ArgumentP = 14
  ArgumentQ = 15
  ArgssOffset = 2
  MaxExtraRoots = 2
  MaxLen = 2
  MaxLocals = 1
  StringLens = {0,1}
  MaxDepth = 2
  MaxAllocs = 3
INVARIANTS
  MutatorNoCrash
  RequestsWellFormed
PROPERTIES
  CallsReturn
  ImplementsLibrary
\* The process may exit.
CHECK_DEADLOCK FALSE
