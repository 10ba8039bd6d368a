-------------------------------- MODULE Fifo --------------------------------
(***************************************************************************)
(* What a queue promises: values leave in the order they entered.  The     *)
(* runtime's queue_t and the standard library's queue are both shown to    *)
(* implement it.                                                           *)
(***************************************************************************)
EXTENDS Naturals, Sequences

CONSTANT Vals

VARIABLES
  items,    \* what is in the queue, first in first
  out       \* what the last operation returned

Init == items = <<>> /\ out = <<>>

Make    == items' = <<>> /\ out' = <<>>
Enq(v)  == items' = Append(items, v) /\ out' = <<v>>
Deq     == items # <<>> /\ items' = Tail(items) /\ out' = <<Head(items)>>
Peek    == items # <<>> /\ out' = <<Head(items)>> /\ UNCHANGED items
Size    == out' = <<Len(items)>> /\ UNCHANGED items
IsEmpty == out' = <<IF items = <<>> THEN 1 ELSE 0>> /\ UNCHANGED items

Next == Make \/ (\E v \in Vals : Enq(v)) \/ Deq \/ Peek \/ Size \/ IsEmpty

Spec == Init /\ [][Next]_<<items, out>>
=============================================================================
