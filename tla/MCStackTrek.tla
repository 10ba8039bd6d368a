----------------------------- MODULE MCStackTrek -----------------------------
(* StackTrek with interchangeable stacks, resumptions and call sites.         *)
EXTENDS StackTrek

Symmetry == Permutations(Stacks) \cup Permutations(Conts) \cup Permutations(CallSites)
=============================================================================
