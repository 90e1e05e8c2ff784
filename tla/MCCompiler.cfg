CONSTANTS
  Programs <- MCPrograms
  Inputs = {0, 2, 3}
  MAXREADS = 2
SPECIFICATION Spec
INVARIANTS
  TypeOK
  SameOutput
  Balanced
  OwnFrame
PROPERTY Ends
CHECK_DEADLOCK FALSE
