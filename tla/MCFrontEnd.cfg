CONSTANTS
  Programs <- MCPrograms
  Others <- MCOthers
INIT Init
NEXT Next
INVARIANT TypeOK
INVARIANT ReadsAsWritten
INVARIANT Refuses
INVARIANT NoConflict
INVARIANT BracketsMatch
INVARIANT Reprints
CHECK_DEADLOCK FALSE
