\* One statement and a return.
CONSTANT Programs <- MCPrograms
SPECIFICATION Spec
INVARIANTS
  TypeOK
  JumpsLand
  WrittenBeforeRead
  WrittenOnce
  ReadyToAllocate
  ArgumentsPushed
  ReturnsTellApart
PROPERTY Terminates
CHECK_DEADLOCK FALSE
