SPECIFICATION Spec
CONSTANTS
  Prealloc = 3
  OverflowBlocks <- MCOverflow
  MainBlock <- MCMain
  StackSize = 3
  EmptyStacks = FALSE
INVARIANTS TypeOK NoAliasing NoLostStack PointersInBounds
PROPERTIES OverflowOnlyWhenFull ImplementsAllocator
