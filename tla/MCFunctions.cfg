SPECIFICATION FunctionsSpec
CONSTANTS
  Half = 8
  NearHalf = 32
  Radix = 3
  Limit = 2
  MaxLength = 3
  StringBufInit = 2
  TextWidth = 3
  Numbers <- MCNumbers
  PlainWords = {4, 6}
  HashDepth = 1
  HalfWord = 4
  HashLimit = 8
INVARIANTS
  ComputesModulo
  NothingUndefined
  SynonymsAgree
  NamesHaveTags
  TagsDistinguish
  TextIsComplete
  BufferTerminated
  CompareIsEquality
  CompareIsOrder
  EqualsHashAlike
PROPERTIES
  RenderingEnds
  CollectionsChangeNothing
\* A calculation ends.
CHECK_DEADLOCK FALSE
