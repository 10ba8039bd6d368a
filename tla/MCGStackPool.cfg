SPECIFICATION Spec
CONSTANTS
  GStacks = {g1, g2, g3, g4, g5}
  NULL = NULL
  CACHE_MAX_SIZE = 2
  MpCacheMax = 1
SYMMETRY Symmetry
INVARIANTS TypeOK FreeListMatchesCount OneOwner NoLostGStack
PROPERTIES FreedStackStillMapped ImplementsAllocator
\* A copy onto a stack that could not be had stops the program.
CHECK_DEADLOCK FALSE
