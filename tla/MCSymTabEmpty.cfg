\* A function with an empty body, and a declaration after it.
CONSTANT Programs <- EmptyPrograms
SPECIFICATION Spec
INVARIANT OwnContents
CHECK_DEADLOCK FALSE
