CONSTANTS
  Programs <- Negative
  Inputs = {0, 2, 3}
  MAXREADS = 1
SPECIFICATION Spec
INVARIANT SameOutput
CHECK_DEADLOCK FALSE
