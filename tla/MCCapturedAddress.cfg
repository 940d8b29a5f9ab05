SPECIFICATION RefinementSpec
CONSTANTS
  StackBottom <- MCStackBottom
  GlobalStart <- MCGlobalStart
  GlobalStop <- MCGlobalStop
  Words <- MCWords
  Images <- MCImages
  MinCapacity = 4
  Bases = {90}
  LocalP <- MCLocalP
  LocalQ <- MCLocalQ
  ArgssOffset = 2
  MaxExtraRoots = 3
  MaxLen = 2
  MaxLocals = 2
  StringLens = {1}
  MaxDepth = 25
  MaxAllocs = 9
  Half = 8
  Filler = 4
  Programs <- AddressPrograms
  FrameStackSize = 5
  Inputs = {0, 7}
  Chars = {1}
  TextLens = {1, 5}
INVARIANT RootsAreContents
