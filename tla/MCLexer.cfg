CONSTANTS
  Texts <- MCTexts
  IntBits = 10
  LongBits = 10
SPECIFICATION Spec
INVARIANTS
  TypeOK
  InBounds
  StringDecodes
  SameCharacter
  NumberExact
PROPERTY Ends
CHECK_DEADLOCK FALSE
