----------------------------- MODULE MCStackPool -----------------------------
(* StackPool with three preallocated stacks of three units, and an overflow    *)
(* block on each side of the buffer: the smallest sizes with a first, a       *)
(* middle and a last stack, and two positions inside a stack next to the      *)
(* empty one.                                                                 *)
EXTENDS StackPool

MCOverflow == {-2, 4}
MCMain == 7
=============================================================================
