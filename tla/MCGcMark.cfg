SPECIFICATION FairMarkSpec
CONSTANTS
  StackBottom <- MCStackBottom
  GlobalStart <- MCGlobalStart
  GlobalStop <- MCGlobalStop
  Words <- MCWords
  Images <- MCImages
INVARIANTS
  MarkTypeOK
  MarkNoCrash
  QueueInvariant
  MarkedIsReachable
  MarkInv
PROPERTY MarkingEnds
\* mark_phase returns to its caller, which is not part of this module.
CHECK_DEADLOCK FALSE
