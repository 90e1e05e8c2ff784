\* Two registers and four temporaries, lists of four nodes.
CONSTANTS
  NREG = 2
  MaxLen = 4
  Irs <- MCIrs
SPECIFICATION Spec
INVARIANTS
  TypeOK
  NoClobber
  AllNamed
  SpillsUnderPressure
PROPERTY IsAllocation
CHECK_DEADLOCK FALSE
