\* A loop inside an if or a loop.
CONSTANT Programs <- LoopPrograms
SPECIFICATION Spec
INVARIANT GeneratedOnce
CHECK_DEADLOCK FALSE
