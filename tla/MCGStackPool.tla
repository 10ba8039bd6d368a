---------------------------- MODULE MCGStackPool ----------------------------
(* GStackPool with more stacks than the two caches hold together, so that     *)
(* both overflow; the stacks are interchangeable.                             *)
EXTENDS GStackPool, TLC

Symmetry == Permutations(GStacks)
=============================================================================
