SPECIFICATION Spec
CONSTANTS
  Modulus = 32
  IntBytes = 2
  FileSizes = {5, 6, 9, 11, 15}
INVARIANTS
  SectionsTileFile
  InstructionsInCode
  StringsInTable
\* A file may be rejected, and a program may fail.
CHECK_DEADLOCK FALSE
