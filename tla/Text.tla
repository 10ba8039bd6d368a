-------------------------------- MODULE Text --------------------------------
(***************************************************************************)
(* What a string promises: a sequence of characters, of which parts can be *)
(* taken and which can be put behind one another.                          *)
(***************************************************************************)
EXTENDS Naturals, Sequences

CONSTANTS Chars, MaxLen

VARIABLES
  text,
  op        \* the last operation: its name, arguments and result

Repeat(c, n) == [i \in 1 .. n |-> c]
Range == 0 .. MaxLen

Init == text = <<>> /\ op = <<>>

Make(c, n)   == text' = Repeat(c, n) /\ op' = <<"stringMake", c, n>>
SubStr(i, j) == op' = <<"stringSubStr", i, j>> /\ text' = SubSeq(text, i + 1, j)
More(c, n)   == text' = text \o Repeat(c, n) /\ op' = <<"strConcat", c, n>>
Twice        == text' = text \o text /\ op' = <<"strConcat">>
Length       == op' = <<"stringLen", Len(text)>> /\ UNCHANGED text
CharAt(i)    == op' = <<"stringCharAt", i, text[i + 1]>> /\ UNCHANGED text

Next ==
  \/ \E c \in Chars, n \in Range : Make(c, n) \/ More(c, n)
  \/ \E i, j \in Range : (j > i => j <= Len(text)) /\ SubStr(i, j)
  \/ Twice
  \/ Length
  \/ \E i \in Range : i < Len(text) /\ CharAt(i)

Spec == Init /\ [][Next]_<<text, op>>
=============================================================================
