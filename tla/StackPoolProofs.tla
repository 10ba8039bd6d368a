--------------------------- MODULE StackPoolProofs ---------------------------
(***************************************************************************)
(* StackPool is safe for every number and size of stacks.                  *)
(***************************************************************************)
EXTENDS StackPool, TLAPS

\* Pointer a lies in block b (the empty stack's pointer included).
InBlock(a, b) == a \in Int /\ b * StackSize < a /\ a <= Bottom(b)

\* A pointer of a non-empty stack.
NonEmpty(a, b) == InBlock(a, b) /\ a # Bottom(b)

\* Where the pointer of a stack in use may be.
PointerOK(a, b) == InBlock(a, b) /\ (EmptyStacks \/ NonEmpty(a, b))

\* The inductive invariant: besides the checked properties, every pointer lies
\* in its block and off its bottom (unless stacks may be empty), aligned_alloc
\* remembers every overflow stack in use, and before init_stack_pool nothing
\* is held and no bit is set.
IInv ==
  /\ TypeOK
  /\ NoAliasing
  /\ \A b \in InUse : PointerOK(sp[b], b)
  /\ ~EmptyStacks => NoLostStack
  /\ InUse \cap OverflowBlocks \subseteq malloced
  /\ ~buffer => bitmap = {} /\ InUse = {}

-----------------------------------------------------------------------------
\* Address arithmetic: dividing by the stack size finds the block of a pointer.
LEMMA BlockOfInBlock ==
  ASSUME NEW b \in Int, NEW a, InBlock(a, b)
  PROVE  BlockOf(a) = b
<1> DEFINE q == (a - 1) \div StackSize
<1>1. StackSize \in Int /\ StackSize > 0 /\ a \in Int
  BY SizesAssumption DEF InBlock
<1>2. /\ q \in Int
      /\ q * StackSize <= a - 1
      /\ a - 1 < q * StackSize + StackSize
  BY <1>1
<1>3. b * StackSize < a /\ a <= b * StackSize + StackSize
  BY DEF InBlock, Bottom
<1>4. ~(q >= b + 1)
  <2>1. SUFFICES ASSUME q >= b + 1 PROVE FALSE
    OBVIOUS
  <2>2. q * StackSize >= b * StackSize + StackSize
    BY <1>1, <1>2, <2>1
  <2>. QED  BY <1>1, <1>2, <1>3, <2>2
<1>5. ~(q <= b - 1)
  <2>1. SUFFICES ASSUME q <= b - 1 PROVE FALSE
    OBVIOUS
  <2>2. q * StackSize <= b * StackSize - StackSize
    BY <1>1, <1>2, <2>1
  <2>. QED  BY <1>1, <1>2, <1>3, <2>2
<1>. QED  BY <1>2, <1>4, <1>5 DEF BlockOf

\* A non-empty stack of the buffer passes free_stack's range check.
LEMMA InBufferNonEmpty ==
  ASSUME NEW b \in BufferBlocks, NEW a, NonEmpty(a, b)
  PROVE  InBuffer(a)
<1>1. StackSize \in Int /\ StackSize > 0 /\ a \in Int /\ Prealloc \in Int
      /\ b \in Int /\ 0 <= b /\ b <= Prealloc - 1
  BY SizesAssumption DEF NonEmpty, InBlock, BufferBlocks
<1>2. b * StackSize < a /\ a < b * StackSize + StackSize
  BY <1>1 DEF NonEmpty, InBlock, Bottom
<1>3. 0 <= b * StackSize
  BY <1>1
<1>4. b * StackSize + StackSize <= StackSize * Prealloc
  BY <1>1
<1>. QED  BY <1>1, <1>2, <1>3, <1>4 DEF InBuffer

\* The bit free_stack sets, if any, is the bit of the block being freed.
LEMMA ReleaseBlock ==
  ASSUME NEW b \in Blocks, NEW a, PointerOK(a, b),
         bitmap \subseteq BufferBlocks, Release(a)
  PROVE  /\ bitmap' \subseteq BufferBlocks
         /\ bitmap' \subseteq bitmap \cup {b}
         /\ NonEmpty(a, b) /\ b \in BufferBlocks => b \in bitmap'
<1> USE DEF PointerOK
<1>1. b \in Int /\ StackSize \in Int /\ StackSize > 0 /\ Prealloc \in Int
  BY SizesAssumption, BlocksAssumption DEF Blocks, BufferBlocks
<1>2. BlockOf(a) = b
  BY <1>1, BlockOfInBlock
<1>3. ASSUME InBuffer(a) PROVE b \in BufferBlocks
  <2>1. /\ 0 <= a /\ a < StackSize * Prealloc
        /\ b * StackSize < a /\ a <= b * StackSize + StackSize /\ a \in Int
    BY <1>3 DEF InBuffer, InBlock, Bottom
  <2>2. b < Prealloc
    <3>1. SUFFICES ASSUME b >= Prealloc PROVE FALSE
      BY <1>1
    <3>2. b * StackSize >= StackSize * Prealloc
      BY <1>1, <3>1
    <3>. QED  BY <1>1, <2>1, <3>2
  <2>3. b >= -1
    <3>1. SUFFICES ASSUME b <= -2 PROVE FALSE
      BY <1>1
    <3>2. b * StackSize + StackSize <= -StackSize
      BY <1>1, <3>1
    <3>. QED  BY <1>1, <2>1, <3>2
  <2>4. b # -1
    <3>1. SUFFICES ASSUME b = -1 PROVE FALSE
      OBVIOUS
    <3>2. a = Bottom(b)
      BY <1>1, <2>1, <3>1 DEF Bottom
    <3>3. EmptyStacks
      BY <3>2 DEF NonEmpty
    <3>. QED  BY <3>1, <3>3, BlocksAssumption DEF Blocks, BufferBlocks
  <2>. QED  BY <1>1, <2>2, <2>3, <2>4 DEF BufferBlocks
<1>4. NonEmpty(a, b) /\ b \in BufferBlocks => InBuffer(a)
  BY InBufferNonEmpty
<1>. QED  BY <1>2, <1>3, <1>4 DEF Release

\* Every position a stack may take is a pointer into its block.
LEMMA PositionsOK ==
  ASSUME NEW b \in Blocks, NEW a \in Positions(b)
  PROVE  PointerOK(a, b)
<1>1. b \in Int /\ StackSize \in Int /\ StackSize > 0
  BY SizesAssumption, BlocksAssumption DEF Blocks, BufferBlocks
<1>2. b * StackSize \in Int
  BY <1>1
<1>. QED
  BY <1>1, <1>2 DEF Positions, Inside, PointerOK, InBlock, NonEmpty, Bottom

\* get_stack takes a stack nobody uses, and only that one.
LEMMA TakeBlockFresh ==
  ASSUME IInv, NEW b \in Blocks, TakeBlock(b)
  PROVE  /\ b \notin InUse
         /\ bitmap' \subseteq BufferBlocks
         /\ bitmap' \cap (InUse \cup {b}) = {}
         /\ ~EmptyStacks => BufferBlocks \subseteq bitmap' \cup InUse \cup {b}
         /\ malloced' \subseteq OverflowBlocks
         /\ (InUse \cup {b}) \cap OverflowBlocks \subseteq malloced'
<1>1. /\ Bits \subseteq BufferBlocks
      /\ Bits \cap InUse = {}
      /\ ~EmptyStacks => BufferBlocks \subseteq Bits \cup InUse
  BY DEF IInv, TypeOK, NoAliasing, NoLostStack, Bits
<1>2. BufferBlocks \cap OverflowBlocks = {}
  BY BlocksAssumption
<1>3. CASE LowestBit(b) /\ bitmap' = Bits \ {b} /\ UNCHANGED malloced
  BY <1>1, <1>2, <1>3 DEF LowestBit, IInv, TypeOK
<1>4. CASE /\ Bits = {}
           /\ b \in OverflowBlocks \ malloced
           /\ bitmap' = Bits
           /\ malloced' = malloced \cup {b}
  BY <1>1, <1>2, <1>4 DEF IInv, TypeOK
<1>. QED  BY <1>3, <1>4 DEF TakeBlock

\* Handing out a stack whose pointer starts inside it preserves the invariant.
LEMMA TakeInv ==
  ASSUME IInv, NEW b \in Blocks, NEW a, PointerOK(a, b), TakeBlock(b), buffer' = TRUE, result' = b,
         sp' = [c \in InUse \cup {b} |-> IF c = b THEN a ELSE sp[c]]
  PROVE  IInv'
<1>1. InUse' = InUse \cup {b}
  BY DEF InUse
<1>2. TypeOK'
  BY <1>1, TakeBlockFresh DEF IInv, TypeOK, PointerOK, InBlock
<1>3. NoAliasing' /\ (~EmptyStacks => NoLostStack)'
  BY <1>1, TakeBlockFresh DEF NoAliasing, NoLostStack
<1>4. (\A c \in InUse : PointerOK(sp[c], c))'
  <2> SUFFICES ASSUME NEW c \in InUse \cup {b} PROVE PointerOK(sp'[c], c)
    BY <1>1 DEF PointerOK, InBlock, NonEmpty, Bottom
  <2>1. CASE c = b
    BY <2>1
  <2>2. CASE c # b
    BY <2>2 DEF IInv
  <2>. QED  BY <2>1, <2>2
<1>. QED  BY <1>1, <1>2, <1>3, <1>4, TakeBlockFresh DEF IInv

\* Giving up a stack whose bit may be set on the way preserves it too.
LEMMA DropInv ==
  ASSUME IInv, NEW b \in InUse, Drop(b), UNCHANGED <<buffer, malloced, result>>,
         bitmap' \subseteq BufferBlocks, bitmap \subseteq bitmap',
         bitmap' \subseteq bitmap \cup {b},
         ~EmptyStacks /\ b \in BufferBlocks => b \in bitmap'
  PROVE  IInv'
<1>1. InUse' = InUse \ {b}
  BY DEF InUse, Drop
<1>2. TypeOK'
  BY <1>1 DEF IInv, TypeOK, Drop
<1>3. NoAliasing' /\ (~EmptyStacks => NoLostStack)'
  BY <1>1 DEF IInv, NoAliasing, NoLostStack
<1>4. (\A c \in InUse : PointerOK(sp[c], c))'
  BY <1>1 DEF IInv, Drop, PointerOK, InBlock, NonEmpty, Bottom
<1>. QED  BY <1>1, <1>2, <1>3, <1>4 DEF IInv

\* Leaving b: free_stack_on_abort sets b's bit, if b was not the system stack
\* and the handler is not on b.
LEMMA AbortRelease ==
  ASSUME IInv, NEW b \in InUse, NEW c \in InUse \cup {MainBlock}, b # c,
         NEW target \in Targets(b, c), FreeOnAbort(sp[b], target)
  PROVE  /\ bitmap' \subseteq BufferBlocks
         /\ bitmap \subseteq bitmap'
         /\ bitmap' \subseteq bitmap \cup {b}
         /\ ~EmptyStacks /\ b \in BufferBlocks => b \in bitmap'
<1>1. /\ b \in Int /\ c \in Int /\ b \in Blocks /\ MainBlock \in Int /\ MainBlock \notin Blocks
      /\ StackSize \in Int /\ StackSize > 0
  BY SizesAssumption, BlocksAssumption DEF IInv, TypeOK, Blocks, BufferBlocks
<1>2. InBlock(sp[b], b) /\ PointerOK(sp[b], b)
  BY DEF IInv, PointerOK
<1>3. InBlock(target, c)
  <2>1. CASE c = MainBlock
    <3>1. target \in MainPositions
      BY <2>1, <1>1 DEF Targets, Pointers
    <3>2. MainBlock * StackSize \in Int
      BY <1>1
    <3>. QED  BY <1>1, <2>1, <3>1, <3>2 DEF MainPositions, InBlock, Bottom
  <2>2. CASE c # MainBlock
    BY <2>2 DEF Targets, Pointers, IInv, PointerOK
  <2>. QED  BY <2>1, <2>2
<1>4. BlockOf(sp[b]) # BlockOf(target)
  BY <1>1, <1>2, <1>3, BlockOfInBlock
<1>5. CASE is_main_stack(sp[b])
  <2>1. EmptyStacks
    <3>1. SUFFICES ASSUME ~EmptyStacks PROVE FALSE
      OBVIOUS
    <3>2. b * StackSize < sp[b] /\ sp[b] < b * StackSize + StackSize /\ sp[b] \in Int
      BY <1>1, <1>2, <3>1 DEF PointerOK, NonEmpty, InBlock, Bottom
    <3>3. MainBlock * StackSize <= sp[b] /\ sp[b] < MainBlock * StackSize + StackSize
      BY <1>5 DEF is_main_stack, Bottom
    <3>4. CASE b >= MainBlock + 1
      <4>1. b * StackSize >= MainBlock * StackSize + StackSize
        BY <1>1, <3>4
      <4>. QED  BY <1>1, <3>2, <3>3, <4>1
    <3>5. CASE b <= MainBlock - 1
      <4>1. b * StackSize + StackSize <= MainBlock * StackSize
        BY <1>1, <3>5
      <4>. QED  BY <1>1, <3>2, <3>3, <4>1
    <3>. QED  BY <1>1, <3>4, <3>5
  <2>. QED  BY <1>5, <2>1 DEF FreeOnAbort, IInv, TypeOK
<1>6. CASE ~is_main_stack(sp[b])
  <2>1. Release(sp[b])
    BY <1>4, <1>6 DEF FreeOnAbort
  <2>2. bitmap \subseteq BufferBlocks
    BY DEF IInv, TypeOK
  <2>3. bitmap \subseteq bitmap'
    BY <2>1 DEF Release
  <2>. QED  BY <1>1, <1>2, <2>1, <2>2, <2>3, ReleaseBlock DEF PointerOK
<1>. QED  BY <1>5, <1>6

\* An abort that stays on its stack, or starts on the system stack, frees nothing.
LEMMA AbortStays ==
  ASSUME IInv, NEW b \in InUse \cup {MainBlock}, NEW c \in InUse \cup {MainBlock},
         b = c \/ b = MainBlock,
         NEW curr \in Pointers(b), NEW target \in Targets(b, c), FreeOnAbort(curr, target)
  PROVE  bitmap' = bitmap
<1>1. /\ MainBlock \in Int /\ MainBlock \notin Blocks /\ InUse \subseteq Blocks
      /\ StackSize \in Int /\ StackSize > 0 /\ b \in Int
  BY SizesAssumption, BlocksAssumption DEF IInv, TypeOK, Blocks, BufferBlocks
<1>2. CASE b = MainBlock
  <2>1. MainBlock * StackSize \in Int
    BY <1>1
  <2>2. is_main_stack(curr)
    BY <1>1, <1>2, <2>1 DEF Pointers, MainPositions, is_main_stack, Bottom
  <2>. QED  BY <2>2 DEF FreeOnAbort
<1>3. CASE b = c /\ b # MainBlock
  <2>1. InBlock(curr, b)
    BY <1>3 DEF Pointers, IInv, PointerOK
  <2>2. InBlock(target, b)
    BY <1>1, <1>3, PositionsOK DEF Targets, PointerOK
  <2>3. BlockOf(curr) = BlockOf(target)
    BY <1>1, <2>1, <2>2, BlockOfInBlock
  <2>. QED  BY <2>3 DEF FreeOnAbort
<1>. QED  BY <1>2, <1>3

\* dup_stack gives the copy a pointer as far from its bottom as the original's.
LEMMA CopyToOK ==
  ASSUME NEW b \in Blocks, NEW c \in Blocks, NEW a, NonEmpty(a, b)
  PROVE  NonEmpty(CopyTo(a, c), c)
<1>1. b \in Int /\ c \in Int /\ StackSize \in Int /\ StackSize > 0 /\ a \in Int
  BY SizesAssumption, BlocksAssumption DEF Blocks, BufferBlocks, NonEmpty, InBlock
<1>2. b * StackSize < a /\ a < b * StackSize + StackSize
  BY <1>1 DEF NonEmpty, InBlock, Bottom
<1>3. /\ a % StackSize \in Int /\ 0 <= a % StackSize /\ a % StackSize < StackSize
  BY <1>1
<1>4. a % StackSize # 0
  <2>1. SUFFICES ASSUME a % StackSize = 0 PROVE FALSE
    OBVIOUS
  <2>2. a = (a \div StackSize) * StackSize /\ a \div StackSize \in Int
    BY <1>1, <2>1
  <2> DEFINE q == a \div StackSize
  <2>3. CASE q >= b + 1
    <3>1. q * StackSize >= b * StackSize + StackSize
      BY <1>1, <2>2, <2>3
    <3>. QED  BY <1>1, <1>2, <2>2, <3>1
  <2>4. CASE q <= b
    <3>1. q * StackSize <= b * StackSize
      BY <1>1, <2>2, <2>4
    <3>. QED  BY <1>1, <1>2, <2>2, <3>1
  <2>. QED  BY <1>1, <2>2, <2>3, <2>4
<1>5. c * StackSize \in Int
  BY <1>1
<1>. QED  BY <1>1, <1>3, <1>4, <1>5 DEF CopyTo, NonEmpty, InBlock, Bottom

-----------------------------------------------------------------------------
LEMMA InitInv == Init => IInv
BY DEF Init, IInv, TypeOK, NoAliasing, NoLostStack, InUse, PointerOK, InBlock

\* Every operation preserves the invariant, and is a Get, a Free or a stutter of
\* the abstract allocator.
LEMMA NextInv ==
  ASSUME IInv, [Next]_vars
  PROVE  IInv' /\ [Allocator!Next]_<<InUse, result>>
<1>1. CASE init_stack_pool
  <2>1. UNCHANGED <<InUse, result>>
    BY <1>1 DEF init_stack_pool, InUse
  <2>. QED
    BY <1>1, <2>1 DEF init_stack_pool, IInv, TypeOK, NoAliasing, NoLostStack,
       PointerOK, InBlock, NonEmpty, Bottom
<1>2. ASSUME NEW b \in Blocks, get_stack(b) PROVE IInv' /\ [Allocator!Next]_<<InUse, result>>
  <2>1. PICK a \in Positions(b) :
          sp' = [c \in InUse \cup {b} |-> IF c = b THEN a ELSE sp[c]]
    BY <1>2 DEF get_stack
  <2>2. TakeBlock(b) /\ buffer' = TRUE /\ result' = b
    BY <1>2 DEF get_stack
  <2>3. IInv'
    BY <2>1, <2>2, PositionsOK, TakeInv
  <2>4. InUse' = InUse \cup {b}
    BY <2>1 DEF InUse
  <2>. QED
    BY <2>2, <2>3, <2>4, TakeBlockFresh DEF Allocator!Next, Allocator!Get
<1>3. ASSUME NEW b \in Blocks, Run(b) PROVE IInv' /\ [Allocator!Next]_<<InUse, result>>
  <2>1. PICK a \in Positions(b) : sp' = [sp EXCEPT ![b] = a]
    BY <1>3 DEF Run
  <2>2. PointerOK(a, b)
    BY PositionsOK
  <2>3. UNCHANGED <<InUse, buffer, bitmap, malloced, result>> /\ b \in InUse
    BY <1>3, <2>1 DEF Run, InUse
  <2>4. TypeOK'
    BY <2>1, <2>2, <2>3 DEF IInv, TypeOK, PointerOK, InBlock, InUse
  <2>5. (\A c \in InUse : PointerOK(sp[c], c))'
    BY <2>1, <2>2, <2>3 DEF IInv, PointerOK, InBlock, NonEmpty, Bottom, InUse
  <2>. QED  BY <2>3, <2>4, <2>5 DEF IInv, NoAliasing, NoLostStack
<1>4. ASSUME NEW b \in InUse, Drop(b), UNCHANGED result PROVE [Allocator!Next]_<<InUse, result>>
  <2>1. InUse' = InUse \ {b}
    BY <1>4 DEF Drop, InUse
  <2>. QED  BY <1>4, <2>1 DEF Allocator!Next, Allocator!Free, IInv, TypeOK
<1>5. ASSUME NEW b \in Blocks, free_stack(b) PROVE IInv' /\ [Allocator!Next]_<<InUse, result>>
  <2>1. b \in InUse /\ Release(sp[b]) /\ Drop(b) /\ UNCHANGED <<buffer, malloced, result>>
    BY <1>5 DEF free_stack
  <2>2. PointerOK(sp[b], b) /\ bitmap \subseteq BufferBlocks
    BY <2>1 DEF IInv, TypeOK
  <2>3. /\ bitmap' \subseteq BufferBlocks
        /\ bitmap \subseteq bitmap'
        /\ bitmap' \subseteq bitmap \cup {b}
        /\ ~EmptyStacks /\ b \in BufferBlocks => b \in bitmap'
    BY <2>1, <2>2, ReleaseBlock DEF PointerOK, Release
  <2>. QED  BY <1>4, <2>1, <2>3, DropInv
<1>6. ASSUME NEW b \in Blocks \cup {MainBlock}, NEW c \in Blocks \cup {MainBlock},
             free_stack_on_abort(b, c)
      PROVE  IInv' /\ [Allocator!Next]_<<InUse, result>>
  <2>1. /\ b \in InUse \cup {MainBlock} /\ c \in InUse \cup {MainBlock}
        /\ UNCHANGED <<buffer, malloced, result>>
    BY <1>6 DEF free_stack_on_abort
  <2>2. PICK curr \in Pointers(b), target \in Targets(b, c) : FreeOnAbort(curr, target)
    BY <1>6 DEF free_stack_on_abort
  <2>3. CASE b = c \/ b = MainBlock
    <3>1. UNCHANGED sp
      BY <1>6, <2>3 DEF free_stack_on_abort
    <3>2. UNCHANGED vars
      BY <2>1, <2>2, <2>3, <3>1, AbortStays DEF vars
    <3>. QED
      BY <3>2 DEF vars, InUse, IInv, TypeOK, NoAliasing, NoLostStack, PointerOK, InBlock,
         NonEmpty, Bottom
  <2>4. CASE b # c /\ b # MainBlock
    <3>1. Drop(b) /\ b \in InUse
      BY <1>6, <2>1, <2>4 DEF free_stack_on_abort
    <3>2. curr = sp[b]
      BY <2>4 DEF Pointers
    <3>. QED  BY <1>4, <2>1, <2>2, <2>4, <3>1, <3>2, AbortRelease, DropInv
  <2>. QED  BY <2>3, <2>4
<1>7. ASSUME NEW b \in Blocks, NEW c \in Blocks, dup_stack(b, c)
      PROVE  IInv' /\ [Allocator!Next]_<<InUse, result>>
  <2>1. /\ b \in InUse /\ sp[b] # Bottom(b) /\ TakeBlock(c) /\ buffer' = TRUE /\ result' = c
        /\ sp' = [d \in InUse \cup {c} |-> IF d = c THEN CopyTo(sp[b], c) ELSE sp[d]]
    BY <1>7 DEF dup_stack
  <2>2. NonEmpty(sp[b], b)
    BY <2>1 DEF IInv, PointerOK, NonEmpty
  <2>3. PointerOK(CopyTo(sp[b], c), c)
    BY <2>2, CopyToOK DEF PointerOK, NonEmpty
  <2>4. InUse' = InUse \cup {c}
    BY <2>1 DEF InUse
  <2>5. IInv'
    BY <2>1, <2>3, TakeInv
  <2>. QED
    BY <2>1, <2>4, <2>5, TakeBlockFresh DEF Allocator!Next, Allocator!Get
<1>8. CASE UNCHANGED vars
  BY <1>8 DEF vars, InUse, IInv, TypeOK, NoAliasing, NoLostStack, PointerOK, InBlock,
     NonEmpty, Bottom
<1>. QED
  BY <1>1, <1>2, <1>3, <1>5, <1>6, <1>7, <1>8 DEF Next

-----------------------------------------------------------------------------
\* Whatever the number and size of the stacks, and whatever order they are
\* taken, copied, freed and aborted in, no stack in use is marked free, and
\* every stack pointer stays inside its own stack.
THEOREM PoolSafety == Spec => [](TypeOK /\ NoAliasing /\ PointersInBounds)
<1>1. IInv => TypeOK /\ NoAliasing /\ PointersInBounds
  BY DEF IInv, PointersInBounds, PointerOK, InBlock
<1>. QED  BY <1>1, InitInv, NextInv, PTL DEF Spec

\* The bitmap marks preallocated stacks only, and stacks in use have pointers.
THEOREM PoolTyping == Spec => []TypeOK
<1>1. IInv => TypeOK
  BY DEF IInv
<1>. QED  BY <1>1, InitInv, NextInv, PTL DEF Spec

\* Every pointer handed out lies in its own stack, whatever was freed before.
THEOREM PoolPointers == Spec => []PointersInBounds
<1>1. IInv => PointersInBounds
  BY DEF IInv, PointersInBounds, PointerOK, InBlock
<1>. QED  BY <1>1, InitInv, NextInv, PTL DEF Spec

\* No preallocated stack is ever lost, as long as no empty stack is freed.
THEOREM PoolComplete == ~EmptyStacks => (Spec => []NoLostStack)
<1> SUFFICES ASSUME ~EmptyStacks PROVE Spec => []NoLostStack
  OBVIOUS
<1>1. IInv => NoLostStack
  BY DEF IInv
<1>. QED  BY <1>1, InitInv, NextInv, PTL DEF Spec

\* Memory that is never given back is used only when every preallocated stack is,
\* as long as no empty stack is freed.
THEOREM OverflowIsLast == ~EmptyStacks => (Spec => OverflowOnlyWhenFull)
<1> SUFFICES ASSUME ~EmptyStacks PROVE Spec => OverflowOnlyWhenFull
  OBVIOUS
<1>1. ASSUME IInv, NEW b \in Blocks, TakeBlock(b), malloced' # malloced
      PROVE  BufferBlocks \subseteq InUse
  <2>1. Bits = {}
    BY <1>1 DEF TakeBlock
  <2>2. BufferBlocks \subseteq Bits \cup InUse
    BY <1>1 DEF IInv, NoLostStack, Bits
  <2>. QED  BY <2>1, <2>2
<1>2. ASSUME IInv, [Next]_vars
      PROVE  [malloced' # malloced => BufferBlocks \subseteq InUse]_vars
  BY <1>1, <1>2 DEF Next, init_stack_pool, get_stack, Run, free_stack, free_stack_on_abort,
     dup_stack, vars
<1>. QED  BY <1>2, InitInv, NextInv, PTL DEF Spec, OverflowOnlyWhenFull

\* The bitmap pool implements the abstract allocator.
THEOREM PoolImplementsAllocator == Spec => ImplementsAllocator
<1>1. Init => Allocator!Init
  BY DEF Init, Allocator!Init, InUse
<1>. QED  BY <1>1, InitInv, NextInv, PTL DEF Spec, ImplementsAllocator, Allocator!Spec, Allocator!vars
=============================================================================
