------------------------------ MODULE Strings ------------------------------
(***************************************************************************)
(* The runtime's strings (datastructure.h): characters ended by a NUL, in  *)
(* a block of just that size.                                              *)
(***************************************************************************)
EXTENDS Naturals, Sequences

CONSTANTS
  Chars, NUL,
  MaxLen     \* bound: characters

VARIABLES
  str,       \* the block of the program's string
  op         \* the last operation: its name, arguments and result

vars == <<str, op>>

emptyString == <<NUL, NUL>>

\* Also strlen: the place of the first NUL.
stringLen(s) == CHOOSE n \in 0 .. Len(s) - 1 :
                  s[n + 1] = NUL /\ \A m \in 1 .. n : s[m] # NUL

Ended(chars) == Append(chars, NUL)

Repeated(c, n) == Ended([i \in 1 .. n |-> c])

\* n characters from startpos on; places count from 0.
Copied(s, startpos, n) == [i \in 1 .. n |-> s[startpos + i]]

Init == str = emptyString /\ op = <<>>

stringMake(c, n) ==
  /\ n <= MaxLen
  /\ str' = Repeated(c, n)
  /\ op' = <<"stringMake", c, n>>

\* Client contract: the part lies within the string.
Within(endpos) == endpos <= stringLen(str)

stringSubStr(startpos, endpos) ==
  /\ \/ endpos <= startpos /\ str' = emptyString
     \/ /\ endpos > startpos
        /\ Within(endpos)
        /\ str' = Ended(Copied(str, startpos, endpos - startpos))
  /\ op' = <<"stringSubStr", startpos, endpos>>

\* Mutant of Concat: the terminator of the first string stays between them.
ConcatKeepsEnd(s1, s2) ==
  Ended(Copied(s1, 0, stringLen(s1) + 1) \o Copied(s2, 0, stringLen(s2)))

\* strcpy, then strcat.
Concat(s1, s2) ==
  Ended(Copied(s1, 0, stringLen(s1)) \o Copied(s2, 0, stringLen(s2)))

\* With a string made of one character, or with itself.
Fits(s) == stringLen(str) + stringLen(s) <= MaxLen
strConcat(c, n) ==
  /\ Fits(Repeated(c, n))
  /\ str' = Concat(str, Repeated(c, n))
  /\ op' = <<"strConcat", c, n>>
strConcatSelf ==
  /\ Fits(str)
  /\ str' = Concat(str, str)
  /\ op' = <<"strConcat">>

ReadLen == op' = <<"stringLen", stringLen(str)>> /\ UNCHANGED str

stringCharAt(pos) ==
  /\ pos < stringLen(str)
  /\ op' = <<"stringCharAt", pos, str[pos + 1]>>
  /\ UNCHANGED str

Next ==
  \/ \E c \in Chars, n \in 0 .. MaxLen : stringMake(c, n) \/ strConcat(c, n)
  \/ \E startpos, endpos \in 0 .. MaxLen : stringSubStr(startpos, endpos)
  \/ strConcatSelf
  \/ ReadLen
  \/ \E pos \in 0 .. MaxLen : stringCharAt(pos)

Spec == Init /\ [][Next]_vars

-----------------------------------------------------------------------------
(***************************************************************************)
(* Properties                                                              *)
(***************************************************************************)
Text == INSTANCE Text WITH text <- Copied(str, 0, stringLen(str))

\* Strings end where they should: whatever parts are taken and put together, the
\* text up to the NUL is the text that is meant.
StringIsText == Text!Spec
=============================================================================
