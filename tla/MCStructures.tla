---------------------------- MODULE MCStructures ----------------------------
(* The runtime's data structures and the standard library's queue. They share *)
(* no state, so a behaviour exercises one of them: `user' says which.         *)
EXTENDS LinkedLists, TLC

CONSTANTS Blank, MaxCap, Chars, NUL, MaxLen, HALF, MaxCells

ASSUME StructuresAssumption ==
  /\ NUL \notin Chars
  /\ MaxLen \in Nat
  /\ HALF \in Nat \ {0}

VARIABLES user, data, size, capacity, array_out, str, str_op, p, made,
          cells, fs, ls, len, std_out

Array == INSTANCE Arrays WITH out <- array_out
String == INSTANCE Strings WITH op <- str_op
Pair == INSTANCE Pairs
Std == INSTANCE LexaQueue WITH out <- std_out

MCInit ==
  /\ user \in {"lists", "array", "string", "pair", "std"}
  /\ Init /\ Array!Init /\ String!Init /\ Pair!Init /\ Std!Init

arrayVars == <<data, size, capacity, array_out>>
stringVars == <<str, str_op>>
pairVars == <<p, made>>
stdVars == <<cells, fs, ls, len, std_out>>

MCNext ==
  /\ UNCHANGED user
  /\ \/ /\ user = "lists" /\ Next
        /\ UNCHANGED <<arrayVars, stringVars, pairVars, stdVars>>
     \/ /\ user = "array" /\ Array!Next
        /\ UNCHANGED <<vars, stringVars, pairVars, stdVars>>
     \/ /\ user = "string" /\ String!Next
        /\ UNCHANGED <<vars, arrayVars, pairVars, stdVars>>
     \/ /\ user = "pair" /\ Pair!Next
        /\ UNCHANGED <<vars, arrayVars, stringVars, stdVars>>
     \/ /\ user = "std" /\ Std!Next
        /\ UNCHANGED <<vars, arrayVars, stringVars, pairVars>>

\* The program's variables are interchangeable.
Symmetry == Permutations(Vars)

MCSpec == MCInit /\ [][MCNext]_<<user, vars, arrayVars, stringVars, pairVars, stdVars>>

ArrayTypeOK == Array!TypeOK
ArrayIsVector == Array!ArrayIsVector
StringIsText == String!StringIsText
PairGivesBack == Pair!PairGivesBack
StdQueueIsFifo == Std!StdQueueIsFifo
=============================================================================
