---------------------------- MODULE MCStackWalk ----------------------------
(* StackWalk on small instances. *)
EXTENDS StackWalk

=============================================================================
