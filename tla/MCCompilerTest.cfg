CONSTANTS
  Programs <- AsWritten
  Inputs = {3}
  MAXREADS = 1
SPECIFICATION Spec
INVARIANT Balanced
CHECK_DEADLOCK FALSE
