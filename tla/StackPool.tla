------------------------------ MODULE StackPool ------------------------------
(***************************************************************************)
(* The fixed-size build of the stack pool (stack_pool.h, no USE_GSTACK):   *)
(* one buffer of preallocated stacks, a bitmap with a bit set for each     *)
(* free one, and aligned_alloc once the bitmap is empty.                   *)
(*                                                                         *)
(* Addresses are integers with the buffer at 0.  Block b owns the          *)
(* addresses above b * StackSize up to and including its bottom            *)
(* (b + 1) * StackSize: stacks grow down, and an empty stack's pointer is  *)
(* its bottom, which is also the first byte of the next block.  Blocks     *)
(* 0 .. Prealloc - 1 are the buffer; the others come from aligned_alloc.   *)
(*                                                                         *)
(* `sp' is the client: the stack pointer of each stack the runtime holds.  *)
(***************************************************************************)
EXTENDS Integers

CONSTANTS
  Prealloc,         \* PREALLOCATED_STACKS, also the width of the bitmap
  OverflowBlocks,   \* where aligned_alloc may place a stack
  MainBlock,        \* where the system stack is
  StackSize,        \* STACK_SIZE
  EmptyStacks       \* whether a stack may be freed or copied while empty

BufferBlocks == 0 .. Prealloc - 1
Blocks == BufferBlocks \cup OverflowBlocks

ASSUME SizesAssumption ==
  /\ Prealloc \in Nat \ {0}
  /\ StackSize \in Nat \ {0, 1}
  /\ EmptyStacks \in BOOLEAN

ASSUME BlocksAssumption ==
  /\ OverflowBlocks \subseteq Int \ BufferBlocks
  /\ MainBlock \in Int \ Blocks
  /\ EmptyStacks => -1 \notin OverflowBlocks   \* C's division rounds 0 - 1 up

VARIABLES
  buffer,    \* whether init_stack_pool has run (the buffer is not NULL)
  bitmap,    \* the indices whose bit is set
  malloced,  \* overflow blocks aligned_alloc has returned; never freed
  result,    \* the block get_stack returned last
  sp         \* stack pointer of every stack in the runtime's hands

vars == <<buffer, bitmap, malloced, result, sp>>

InUse == DOMAIN sp

(***************************************************************************)
(* Address arithmetic                                                      *)
(***************************************************************************)
Bottom(b) == b * StackSize + StackSize

\* Pointers into block b, except the empty stack's.
Inside(b) == b * StackSize + 1 .. Bottom(b) - 1

Positions(b) == IF EmptyStacks THEN Inside(b) \cup {Bottom(b)} ELSE Inside(b)

is_main_stack(a) == MainBlock * StackSize <= a /\ a < Bottom(MainBlock)

\* The block a pointer lies in: an empty stack's pointer needs the `- 1'.
BlockOf(a) == (a - 1) \div StackSize

-----------------------------------------------------------------------------
Init ==
  /\ buffer = FALSE
  /\ bitmap = {}
  /\ malloced = {}
  /\ result = MainBlock
  /\ sp = [b \in {} |-> 0]

\* init_stack_pool, called once, at the start of main: allocates the buffer
\* and sets every bit.
init_stack_pool ==
  /\ ~buffer
  /\ buffer' = TRUE
  /\ bitmap' = BufferBlocks
  /\ UNCHANGED <<malloced, result, sp>>

\* The bits get_stack looks at: a pool never initialised is initialised first.
Bits == IF buffer THEN bitmap ELSE BufferBlocks

\* ffsll: the lowest set bit.
LowestBit(b) == b \in Bits /\ \A c \in Bits : b <= c

\* Mutants of TakeBlock: the bit is not cleared; index 0 taken for "none".
TakeBlockNoClear(b) ==
  /\ LowestBit(b) \/ (Bits = {} /\ b \in OverflowBlocks \ malloced)
  /\ bitmap' = Bits
  /\ malloced' = IF b \in OverflowBlocks THEN malloced \cup {b} ELSE malloced
TakeBlockIndexZero(b) ==
  \/ LowestBit(b) /\ b # 0 /\ bitmap' = Bits \ {b} /\ UNCHANGED malloced
  \/ /\ Bits = {} \/ 0 \in Bits
     /\ b \in OverflowBlocks \ malloced
     /\ bitmap' = Bits
     /\ malloced' = malloced \cup {b}

\* The body of get_stack: the lowest free stack of the buffer, or a block
\* aligned_alloc has not handed out before.
TakeBlock(b) ==
  \/ /\ LowestBit(b)
     /\ bitmap' = Bits \ {b}
     /\ UNCHANGED malloced
  \/ /\ Bits = {}
     /\ b \in OverflowBlocks \ malloced
     /\ bitmap' = Bits
     /\ malloced' = malloced \cup {b}

\* get_stack, and the pushes that follow it: _HANDLE puts its header_t at the
\* bottom of the new stack before anything else runs (stacktrek.h:298-304).
get_stack(b) ==
  /\ TakeBlock(b)
  /\ buffer' = TRUE
  /\ result' = b
  /\ \E a \in Positions(b) : sp' = [c \in InUse \cup {b} |-> IF c = b THEN a ELSE sp[c]]

\* Code running on the stack moves its pointer.
Run(b) ==
  /\ b \in InUse
  /\ \E a \in Positions(b) : sp' = [sp EXCEPT ![b] = a]
  /\ UNCHANGED <<buffer, bitmap, malloced, result>>

\* Mutant of InBuffer: the upper bound dropped.
InBufferNoUpper(a) == 0 <= a

InBuffer(a) == 0 <= a /\ a < StackSize * Prealloc

\* Mutant of Release: the bit of the stack is not set again.
ReleaseNothing(a) == bitmap' = IF InBuffer(a) THEN bitmap ELSE bitmap

\* The effect of free_stack on the bitmap; an overflow stack is not freed
\* (the call of free is commented out).
Release(a) ==
  bitmap' = IF InBuffer(a) THEN bitmap \cup {BlockOf(a)} ELSE bitmap

Drop(b) == sp' = [c \in InUse \ {b} |-> sp[c]]

free_stack(b) ==
  /\ b \in InUse
  /\ Release(sp[b])
  /\ Drop(b)
  /\ UNCHANGED <<buffer, malloced, result>>

\* Mutant of FreeOnAbort: the stack is freed although the handler is on it.
FreeOnAbortAlways(curr, target) ==
  IF is_main_stack(curr) THEN UNCHANGED bitmap ELSE Release(curr)

\* free_stack_on_abort from the stack of block b (or the system stack) to a
\* handler that waits at address `target': the stack being left is freed,
\* unless the handler waits on it.
FreeOnAbort(curr, target) ==
  IF is_main_stack(curr) \/ BlockOf(curr) = BlockOf(target)
  THEN UNCHANGED bitmap
  ELSE Release(curr)

MainPositions == MainBlock * StackSize + 1 .. Bottom(MainBlock) - 1

Pointers(b) == IF b = MainBlock THEN MainPositions ELSE {sp[b]}

\* Where the handler waits: higher up the same stack, or on another one.
Targets(b, c) == IF c = b /\ b # MainBlock THEN Positions(b) ELSE Pointers(c)

\* Leaving b for another stack gives b up; an abort inside one stack, or on
\* the system stack, gives nothing up.
free_stack_on_abort(b, c) ==
  /\ b \in InUse \cup {MainBlock}
  /\ c \in InUse \cup {MainBlock}
  /\ \E curr \in Pointers(b), target \in Targets(b, c) :
       FreeOnAbort(curr, target)
  /\ IF b = c \/ b = MainBlock THEN UNCHANGED sp ELSE Drop(b)
  /\ UNCHANGED <<buffer, malloced, result>>

\* Mutant of CopyTo: the copy is made upwards from the bottom.
CopyToUpwards(a, b) == Bottom(b) + (StackSize - (a % StackSize))

\* dup_stack: the used bytes of the stack at `a' are copied to the bottom of
\* block b; the result is the copy's stack pointer.
CopyTo(a, b) == Bottom(b) - (StackSize - (a % StackSize))

dup_stack(b, c) ==
  /\ b \in InUse
  /\ sp[b] # Bottom(b)   \* "Does not work for an empty stack"
  /\ TakeBlock(c)
  /\ buffer' = TRUE
  /\ result' = c
  /\ sp' = [d \in InUse \cup {c} |-> IF d = c THEN CopyTo(sp[b], c) ELSE sp[d]]

Next ==
  \/ init_stack_pool
  \/ \E b \in Blocks : get_stack(b) \/ Run(b) \/ free_stack(b)
  \/ \E b, c \in Blocks \cup {MainBlock} : free_stack_on_abort(b, c)
  \/ \E b, c \in Blocks : dup_stack(b, c)

Spec == Init /\ [][Next]_vars

-----------------------------------------------------------------------------
(***************************************************************************)
(* Properties                                                              *)
(***************************************************************************)
TypeOK ==
  /\ buffer \in BOOLEAN
  /\ bitmap \subseteq BufferBlocks
  /\ malloced \subseteq OverflowBlocks
  /\ result \in Blocks \cup {MainBlock}
  /\ InUse \subseteq Blocks
  /\ sp \in [InUse -> Int]

\* No stack in use has its bit set, so get_stack never hands out a stack that
\* some suspended computation still lives on (get_stack, free_stack and
\* free_stack_on_abort together).
NoAliasing == bitmap \cap InUse = {}

\* Every stack of the buffer is in use or can be handed out again: no order of
\* frees and aborts loses one (free_stack's bounds and index computation).
NoLostStack == buffer => BufferBlocks \subseteq bitmap \cup InUse

\* A stack pointer lies in its own block, also after dup_stack's pointer
\* arithmetic, so that free_stack can find the block back from it.
PointersInBounds ==
  \A b \in InUse : b * StackSize < sp[b] /\ sp[b] <= Bottom(b)

\* aligned_alloc, whose stacks are never freed and are no GC roots, is used
\* only while every preallocated stack is in use.
OverflowOnlyWhenFull ==
  [][malloced' # malloced => BufferBlocks \subseteq InUse]_vars

\* The pool implements the allocator the runtime relies on.
Allocator == INSTANCE StackAllocator WITH
  Stacks <- Blocks, NoStack <- MainBlock, inUse <- InUse
ImplementsAllocator == Allocator!Spec
=============================================================================
