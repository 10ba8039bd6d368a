------------------------------- MODULE Pairs -------------------------------
(***************************************************************************)
(* Two integers in one word (datastructure.h).                             *)
(***************************************************************************)
EXTENDS Integers

CONSTANT HALF   \* an int32_t is in -HALF .. HALF - 1

VARIABLES
  p,        \* the word
  made      \* what it was made of

vars == <<p, made>>

int32_t == -HALF .. HALF - 1
WORD == 2 * HALF

\* The low half of a word as a signed number.
Signed(u) == IF u % WORD < HALF THEN u % WORD ELSE (u % WORD) - WORD

\* ((int64_t)a << 32) | (int64_t)b: b is sign-extended, so a negative one fills
\* the upper half with ones.
Packed(a, b) == IF b < 0 THEN b ELSE a * WORD + b

\* Mutant of pairFst: the shift rounds towards zero, as a division of C would.
pairFstTruncated(w) == IF w < 0 THEN -((-w) \div WORD) ELSE w \div WORD

pairFst(w) == w \div WORD

pairSnd(w) == Signed(w)

Init == p = Packed(0, 0) /\ made = <<0, 0>>

pairMake(a, b) ==
  /\ p' = Packed(a, b)
  /\ made' = <<a, b>>

Next == \E a, b \in int32_t : pairMake(a, b)

Spec == Init /\ [][Next]_vars

-----------------------------------------------------------------------------
(***************************************************************************)
(* Properties                                                              *)
(***************************************************************************)
\* What a pair gives back.  The second integer is always the one it was made of.
\* The first one is, whatever its own sign, unless the second was negative: then
\* pairFst returns -1 and what the pair was made of is lost.
PairGivesBack ==
  /\ pairSnd(p) = made[2]
  /\ pairFst(p) = IF made[2] < 0 THEN -1 ELSE made[1]
=============================================================================
