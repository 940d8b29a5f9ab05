SPECIFICATION ConsSpec
CONSTANTS
  StackBottom = 8
  GlobalStart = 11
  GlobalStop = 11
  Words <- MCWords
  Images <- MCImages
  MinCapacity = 4
  Bases = {90}
  LocalP = 12
  LocalQ = 13
  ArgumentP = 14
  ArgumentQ = 15
  ArgssOffset = 2
  MaxExtraRoots = 2
  MaxLen = 1
  MaxLocals = 0
  StringLens = {1}
  MaxDepth = 3
  MaxAllocs = 3
INVARIANT EscapedValuesFollowed
\* The process may exit.
CHECK_DEADLOCK FALSE
