\* Functions with blocks in them, to depth three.
CONSTANTS
  Trees <- MCTrees
  Garbage <- MCGarbage
SPECIFICATION Spec
INVARIANTS
  TypeOK
  ScopesDisjoint
  OffsetsAligned
  FrameCoversBlocks
CHECK_DEADLOCK FALSE
