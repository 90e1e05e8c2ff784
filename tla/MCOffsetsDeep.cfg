\* A block in a block in a function.
CONSTANTS
  Trees <- DeepTrees
  Garbage <- MCGarbage
SPECIFICATION Spec
INVARIANT FrameCovers
CHECK_DEADLOCK FALSE
