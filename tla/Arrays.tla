------------------------------- MODULE Arrays -------------------------------
(***************************************************************************)
(* The runtime's growing array (datastructure.h): a block of words that is *)
(* moved to a larger one when it is full.                                  *)
(***************************************************************************)
EXTENDS Integers, Sequences

CONSTANTS
  Vals,      \* values of the program
  Blank,     \* what a fresh word of memory holds
  MaxCap     \* bound: words of a block

VARIABLES
  data,      \* the block, of capacity Len(data)
  size, capacity,
  out        \* what the last operation returned; of a new array, the length asked for

vars == <<data, size, capacity, out>>

Fresh(n) == [i \in 1 .. n |-> Blank]

\* Mutant of GC_realloc: what the block held is not copied.
GC_reallocFresh(d, n) == Fresh(n)

\* GC_realloc: the larger block starts with what the smaller one held.
GC_realloc(d, n) == [i \in 1 .. n |-> IF i <= Len(d) THEN d[i] ELSE Blank]

Init == data = <<>> /\ size = 0 /\ capacity = 0 /\ out = <<>>

arrayMake(n) ==
  /\ n <= MaxCap
  /\ data' = Fresh(n) /\ size' = n /\ capacity' = n
  /\ out' = <<n>>

arrayMakeInit(n, init) ==
  /\ n <= MaxCap
  /\ data' = [i \in 1 .. n |-> init] /\ size' = n /\ capacity' = n
  /\ out' = <<n>>

arrayLen == out' = <<size>> /\ UNCHANGED <<data, size, capacity>>

\* Client contract: asserted in the debug build only.
InBounds(i) == 0 <= i /\ i < size
NotEmpty == size > 0

arrayAt(i) ==
  /\ InBounds(i)
  /\ out' = <<data[i + 1]>>
  /\ UNCHANGED <<data, size, capacity>>

arraySet(i, value) ==
  /\ InBounds(i)
  /\ data' = [data EXCEPT ![i + 1] = value]
  /\ out' = <<value>>
  /\ UNCHANGED <<size, capacity>>

\* Mutant of Grown: an empty array cannot grow.
GrownDoubled(c) == c * 2

Grown(c) == c * 2 + 1

arrayPush(value) ==
  LET full == size = capacity
      block == IF full THEN GC_realloc(data, Grown(capacity)) ELSE data
  IN /\ full => Grown(capacity) <= MaxCap
     /\ data' = [block EXCEPT ![size + 1] = value]
     /\ capacity' = IF full THEN Grown(capacity) ELSE capacity
     /\ size' = size + 1
     /\ out' = <<value>>

arrayPop ==
  /\ NotEmpty
  /\ size' = size - 1
  /\ out' = <<data[size]>>
  /\ UNCHANGED <<data, capacity>>

Next ==
  \/ \E n \in 0 .. MaxCap : arrayMake(n) \/ \E v \in Vals : arrayMakeInit(n, v)
  \/ arrayLen
  \/ \E i \in 0 .. size - 1 : arrayAt(i) \/ \E v \in Vals : arraySet(i, v)
  \/ \E v \in Vals : arrayPush(v)
  \/ arrayPop

Spec == Init /\ [][Next]_vars

-----------------------------------------------------------------------------
(***************************************************************************)
(* Properties                                                              *)
(***************************************************************************)
\* The cells in use are in the block, and the capacity is the block's: a push
\* that finds room writes inside it.
TypeOK ==
  /\ data \in Seq(Vals \cup {Blank})
  /\ size \in 0 .. capacity
  /\ capacity = Len(data)

Vector == INSTANCE Vector WITH items <- SubSeq(data, 1, size)

\* The array is a sequence, through any mixture of writes, growth, shrinking and
\* regrowth over cells left by popped values.
ArrayIsVector == Vector!Spec
=============================================================================
