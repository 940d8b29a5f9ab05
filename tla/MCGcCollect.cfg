SPECIFICATION CollectSpec
CONSTANTS
  StackBottom <- MCStackBottom
  GlobalStart <- MCGlobalStart
  GlobalStop <- MCGlobalStop
  Words <- MCWords
  Images <- MCImages
  MinCapacity = 4
  Bases <- MCBases
INVARIANTS
  CollectTypeOK
  CollectNoCrash
  CollectPreservesGraph
  CollectLeavesWellFormed
  CollectMakesRoom
PROPERTY CollectEnds
\* gc_alloc returns to its caller, or the process exits.
CHECK_DEADLOCK FALSE
