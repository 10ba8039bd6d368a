------------------------------- MODULE Vector -------------------------------
(***************************************************************************)
(* What an array promises: a sequence that is read and written by index    *)
(* and grows and shrinks at its end.                                       *)
(***************************************************************************)
EXTENDS Naturals, Sequences

CONSTANTS Vals, Blank

VARIABLES
  items,    \* the cells
  out       \* what the last operation returned; the length, of a new array

Init == items = <<>> /\ out = <<>>

Make(v)    == items' = [i \in 1 .. Len(items') |-> v] /\ out' = <<Len(items')>>
Length     == out' = <<Len(items)>> /\ UNCHANGED items
At(i)      == out' = <<items[i]>> /\ UNCHANGED items
Set(i, v)  == items' = [items EXCEPT ![i] = v] /\ out' = <<v>>
Push(v)    == items' = Append(items, v) /\ out' = <<v>>
Pop ==
  /\ items # <<>>
  /\ items' = SubSeq(items, 1, Len(items) - 1)
  /\ out' = <<items[Len(items)]>>

Next ==
  \/ \E v \in Vals \cup {Blank} : Make(v)
  \/ Length
  \/ \E i \in DOMAIN items : At(i)
  \/ \E i \in DOMAIN items, v \in Vals : Set(i, v)
  \/ \E v \in Vals : Push(v)
  \/ Pop

Spec == Init /\ [][Next]_<<items, out>>
=============================================================================
