SPECIFICATION Spec
CONSTANTS
  Prealloc = 3
  OverflowBlocks <- MCOverflow
  MainBlock <- MCMain
  StackSize = 3
  EmptyStacks = TRUE
INVARIANT NoLostStack
