-------------------------- MODULE MCRaiseDispatch --------------------------
(* RaiseDispatch on small instances. *)
EXTENDS RaiseDispatch

=============================================================================
