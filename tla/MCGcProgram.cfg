SPECIFICATION RefinementSpec
CONSTANTS
  StackBottom <- MCStackBottom
  GlobalStart <- MCGlobalStart
  GlobalStop <- MCGlobalStop
  Words <- MCWords
  Images <- MCImages
  MinCapacity = 4
  Bases = {90}
  LocalP <- MCLocalP
  LocalQ <- MCLocalQ
  ArgssOffset = 2
  MaxExtraRoots = 2
  MaxLen = 1
  MaxLocals = 1
  StringLens = {1}
  MaxDepth = 3
  MaxAllocs = 2
INVARIANT MutatorNoCrash
PROPERTY ImplementsObjectGraph
\* The process may exit.
CHECK_DEADLOCK FALSE
