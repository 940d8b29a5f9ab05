SPECIFICATION Spec
CONSTANTS
  Modulus = 32
  IntBytes = 2
  FileSizes = {6}
INVARIANT NegativeSizesRejected
\* A file may be rejected, and a program may fail.
CHECK_DEADLOCK FALSE
