\* Three declarations or definitions.
CONSTANT Programs <- MCPrograms
SPECIFICATION Spec
INVARIANTS
  TypeOK
  LexicalScope
  ParametersFirst
  TypesExact
  OwnContents
CHECK_DEADLOCK FALSE
