SPECIFICATION Spec
CONSTANTS
  v1 = v1
  s1 = s1
  Literals <- MCLiterals
  Sites <- MCSites
  NoSite = NoSite
  Zero = v1
  Fill = Fill
  Junk = Junk
  StackSize = 9
  FrameStackSize = 2
  CWords = 1
  MaxArgs = 1
  MaxLocals = 1
  MaxOps = 2
INVARIANTS
  FrameTypeOK
  NoOverrun
  FramesNest
PROPERTY ImplementsActivationStack
\* The program ends.
CHECK_DEADLOCK FALSE
