--------------------------- MODULE StackAllocator ---------------------------
(***************************************************************************)
(* What a stack pool promises to the runtime that switches stacks          *)
(* (stacktrek.h): get_stack hands out a stack nobody is using, or none,    *)
(* and free_stack takes one back.  A freed stack need not be handed out    *)
(* again.                                                                  *)
(* Both builds of stack_pool.h are shown to implement this module:         *)
(* StackPool (fixed-size stacks and a bitmap) and GStackPool (libmprompt   *)
(* gstacks and a free list).                                               *)
(***************************************************************************)

CONSTANTS
  Stacks,   \* every stack the pool could ever hand out
  NoStack

VARIABLES
  inUse,    \* the stacks handed out and not yet given back
  result    \* what get_stack returned last

vars == <<inUse, result>>

Init ==
  /\ inUse = {}
  /\ result = NoStack

Get(s) ==
  /\ s \in Stacks \ inUse
  /\ inUse' = inUse \cup {s}
  /\ result' = s

\* There is no memory for another stack.
GetNone ==
  /\ result' = NoStack
  /\ UNCHANGED inUse

Free(s) ==
  /\ s \in inUse
  /\ inUse' = inUse \ {s}
  /\ UNCHANGED result

Next ==
  \/ \E s \in Stacks : Get(s) \/ Free(s)
  \/ GetNone

Spec == Init /\ [][Next]_vars
=============================================================================
