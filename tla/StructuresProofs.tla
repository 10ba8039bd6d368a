-------------------------- MODULE StructuresProofs --------------------------
(***************************************************************************)
(* Arrays, strings, pairs and the standard library's queue, each alone and *)
(* beside the others, for all values and sizes.                            *)
(***************************************************************************)
EXTENDS MCStructures, ListsProofs

-----------------------------------------------------------------------------
(***************************************************************************)
(* Arrays                                                                  *)
(***************************************************************************)
in_use == SubSeq(data, 1, size)

\* A sequence's prefix, cell by cell.
LEMMA Prefix ==
  ASSUME NEW S, NEW d \in Seq(S), NEW n \in 0 .. Len(d)
  PROVE  /\ SubSeq(d, 1, n) \in Seq(S)
         /\ Len(SubSeq(d, 1, n)) = n
         /\ SubSeq(d, 1, n) = [i \in 1 .. n |-> d[i]]
OBVIOUS

\* The invariant holds at the start.
LEMMA ArrayInitTyped == Array!Init => Array!TypeOK
BY DEF Array!Init, Array!TypeOK

\* A push finds room, or makes it.
LEMMA ArrayPushTyped ==
  ASSUME Array!TypeOK, NEW v \in Vals, Array!arrayPush(v)
  PROVE  Array!TypeOK' /\ in_use' = Append(in_use, v) /\ array_out' = <<v>>
<1> DEFINE W == Vals \cup {Blank}
           full == size = capacity
           block == IF full THEN Array!GC_realloc(data, Array!Grown(capacity)) ELSE data
<1>1. /\ data \in Seq(W) /\ Len(data) = capacity /\ capacity \in Nat
      /\ size \in 0 .. capacity
  BY DEF Array!TypeOK
<1>2. /\ data' = [block EXCEPT ![size + 1] = v]
      /\ capacity' = IF full THEN Array!Grown(capacity) ELSE capacity
      /\ size' = size + 1 /\ array_out' = <<v>>
  BY DEF Array!arrayPush
<1>3. /\ block \in Seq(W) /\ Len(block) = capacity' /\ capacity' \in Nat
      /\ size + 1 <= capacity'
      /\ \A i \in 1 .. size : block[i] = data[i]
  <2>1. CASE full
    <3>1. Array!Grown(capacity) \in Nat /\ Array!Grown(capacity) > capacity
      BY <1>1 DEF Array!Grown
    <3>2. block = [i \in 1 .. Array!Grown(capacity) |-> IF i <= Len(data) THEN data[i] ELSE Blank]
      BY <2>1 DEF Array!GC_realloc
    <3>3. \A i \in 1 .. Array!Grown(capacity) : block[i] \in W
      BY <1>1, <3>1, <3>2
    <3>4. block \in Seq(W) /\ Len(block) = Array!Grown(capacity)
      BY <3>1, <3>2, <3>3
    <3>. QED  BY <1>1, <1>2, <2>1, <3>1, <3>2, <3>4
  <2>2. CASE ~full
    BY <1>1, <1>2, <2>2
  <2>. QED  BY <2>1, <2>2
<1> HIDE DEF block, full
<1>4. /\ data' \in Seq(W) /\ Len(data') = capacity'
      /\ data'[size + 1] = v
      /\ \A i \in 1 .. size : data'[i] = data[i]
  BY <1>1, <1>2, <1>3
<1>5. Array!TypeOK'
  BY <1>1, <1>2, <1>3, <1>4 DEF Array!TypeOK
<1>6. in_use' = [i \in 1 .. size + 1 |-> data'[i]]
  BY <1>1, <1>2, <1>3, <1>4, Prefix DEF in_use
<1>7. in_use \in Seq(W) /\ Len(in_use) = size /\ \A i \in 1 .. size : in_use[i] = data[i]
  BY <1>1, Prefix DEF in_use
<1>8. in_use' = Append(in_use, v)
  <2>1. Append(in_use, v) = [i \in 1 .. size + 1 |-> IF i = size + 1 THEN v ELSE in_use[i]]
    BY <1>1, <1>7, Appended
  <2>2. \A i \in 1 .. size + 1 : data'[i] = IF i = size + 1 THEN v ELSE in_use[i]
    BY <1>1, <1>4, <1>7
  <2>. QED  BY <1>6, <2>1, <2>2
<1>. QED  BY <1>2, <1>5, <1>8

\* A pop leaves the cells before the last.
LEMMA ArrayPopTyped ==
  ASSUME Array!TypeOK, Array!arrayPop
  PROVE  /\ Array!TypeOK' /\ in_use # <<>>
         /\ in_use' = SubSeq(in_use, 1, Len(in_use) - 1)
         /\ array_out' = <<in_use[Len(in_use)]>>
<1>1. /\ data \in Seq(Vals \cup {Blank}) /\ Len(data) = capacity /\ capacity \in Nat
      /\ size \in 1 .. capacity
      /\ size' = size - 1 /\ array_out' = <<data[size]>> /\ data' = data /\ capacity' = capacity
  BY DEF Array!TypeOK, Array!arrayPop, Array!NotEmpty
<1>2. Array!TypeOK'
  BY <1>1 DEF Array!TypeOK
<1>3. /\ in_use = [i \in 1 .. size |-> data[i]] /\ Len(in_use) = size
      /\ in_use \in Seq(Vals \cup {Blank})
      /\ in_use' = [i \in 1 .. size - 1 |-> data[i]]
  BY <1>1, Prefix DEF in_use
<1>4. SubSeq(in_use, 1, size - 1) = [i \in 1 .. size - 1 |-> in_use[i]]
  BY <1>1, <1>3, Prefix
<1>5. \A i \in 1 .. size - 1 : in_use[i] = data[i]
  BY <1>1, <1>3
<1>6. in_use[size] = data[size] /\ in_use # <<>>
  BY <1>1, <1>3
<1>. QED  BY <1>1, <1>2, <1>3, <1>4, <1>5, <1>6

\* A write changes one cell.
LEMMA ArraySetTyped ==
  ASSUME Array!TypeOK, NEW i \in 0 .. size - 1, NEW v \in Vals, Array!arraySet(i, v)
  PROVE  /\ Array!TypeOK' /\ i + 1 \in DOMAIN in_use
         /\ in_use' = [in_use EXCEPT ![i + 1] = v]
<1>1. /\ data \in Seq(Vals \cup {Blank}) /\ Len(data) = capacity /\ capacity \in Nat
      /\ size \in 0 .. capacity
      /\ data' = [data EXCEPT ![i + 1] = v] /\ size' = size /\ capacity' = capacity
  BY DEF Array!TypeOK, Array!arraySet
<1>2. data' \in Seq(Vals \cup {Blank}) /\ Len(data') = capacity
  BY <1>1
<1>3. Array!TypeOK'
  BY <1>1, <1>2 DEF Array!TypeOK
<1>4. in_use = [j \in 1 .. size |-> data[j]] /\ in_use' = [j \in 1 .. size |-> data'[j]]
  BY <1>1, <1>2, Prefix DEF in_use
<1>5. \A j \in 1 .. size : data'[j] = IF j = i + 1 THEN v ELSE data[j]
  BY <1>1
<1>6. i + 1 \in 1 .. size
  BY <1>1
<1>. QED  BY <1>3, <1>4, <1>5, <1>6

\* A new array has its cells.
LEMMA ArrayMakeTyped ==
  ASSUME NEW n \in Nat, NEW v \in Vals \cup {Blank},
         data' = [i \in 1 .. n |-> v], size' = n, capacity' = n
  PROVE  Array!TypeOK' /\ in_use' = [i \in 1 .. Len(in_use') |-> v] /\ Len(in_use') = n
<1>1. data' \in Seq(Vals \cup {Blank}) /\ Len(data') = n
  OBVIOUS
<1>2. in_use' = [i \in 1 .. n |-> data'[i]] /\ Len(in_use') = n
  BY <1>1, Prefix DEF in_use
<1>. QED  BY <1>1, <1>2 DEF Array!TypeOK

\* Every step keeps the invariant and is a step of a sequence.
LEMMA NextVector ==
  ASSUME Array!TypeOK, [Array!Next]_(Array!vars)
  PROVE  Array!TypeOK' /\ [Array!Vector!Next]_<<in_use, array_out>>
<1>1. CASE UNCHANGED Array!vars
  BY <1>1 DEF Array!vars, Array!TypeOK, in_use
<1>2. ASSUME NEW n \in 0 .. MaxCap, Array!arrayMake(n)
      PROVE  Array!TypeOK' /\ Array!Vector!Next
  <2>1. n \in Nat
    OBVIOUS
  <2>2. /\ Array!TypeOK' /\ in_use' = [i \in 1 .. Len(in_use') |-> Blank]
        /\ array_out' = <<Len(in_use')>>
    BY <1>2, <2>1, ArrayMakeTyped DEF Array!arrayMake, Array!Fresh
  <2>. QED  BY <2>2 DEF Array!Vector!Next, Array!Vector!Make, in_use
<1>3. ASSUME NEW n \in 0 .. MaxCap, NEW v \in Vals, Array!arrayMakeInit(n, v)
      PROVE  Array!TypeOK' /\ Array!Vector!Next
  <2>1. n \in Nat
    OBVIOUS
  <2>2. /\ Array!TypeOK' /\ in_use' = [i \in 1 .. Len(in_use') |-> v]
        /\ array_out' = <<Len(in_use')>>
    BY <1>3, <2>1, ArrayMakeTyped DEF Array!arrayMakeInit
  <2>. QED  BY <2>2 DEF Array!Vector!Next, Array!Vector!Make, in_use
<1>4. CASE Array!arrayLen
  <2>1. Array!TypeOK' /\ UNCHANGED in_use /\ Len(in_use) = size /\ array_out' = <<size>>
    BY <1>4, Prefix DEF Array!arrayLen, Array!TypeOK, in_use
  <2>. QED  BY <2>1 DEF Array!Vector!Next, Array!Vector!Length, in_use
<1>5. ASSUME NEW i \in 0 .. size - 1, Array!arrayAt(i)
      PROVE  Array!TypeOK' /\ Array!Vector!Next
  <2>1. /\ Array!TypeOK' /\ UNCHANGED in_use /\ array_out' = <<data[i + 1]>>
        /\ in_use = [j \in 1 .. size |-> data[j]] /\ i + 1 \in 1 .. size
    BY <1>5, Prefix DEF Array!arrayAt, Array!TypeOK, in_use
  <2>2. i + 1 \in DOMAIN in_use /\ in_use[i + 1] = data[i + 1]
    BY <2>1
  <2>. QED  BY <2>1, <2>2 DEF Array!Vector!Next, Array!Vector!At, in_use
<1>6. ASSUME NEW i \in 0 .. size - 1, NEW v \in Vals, Array!arraySet(i, v)
      PROVE  Array!TypeOK' /\ Array!Vector!Next
  <2>1. /\ Array!TypeOK' /\ i + 1 \in DOMAIN in_use
        /\ in_use' = [in_use EXCEPT ![i + 1] = v] /\ array_out' = <<v>>
    BY <1>6, ArraySetTyped DEF Array!arraySet
  <2>. QED  BY <2>1 DEF Array!Vector!Next, Array!Vector!Set, in_use
<1>7. ASSUME NEW v \in Vals, Array!arrayPush(v)
      PROVE  Array!TypeOK' /\ Array!Vector!Next
  BY <1>7, ArrayPushTyped DEF Array!Vector!Next, Array!Vector!Push, in_use
<1>8. CASE Array!arrayPop
  BY <1>8, ArrayPopTyped DEF Array!Vector!Next, Array!Vector!Pop, in_use
<1>. QED  BY <1>1, <1>2, <1>3, <1>4, <1>5, <1>6, <1>7, <1>8 DEF Array!Next

\* The cells in use are always in the block, whatever grows and shrinks it.
THEOREM ArrayInItsBlock == Array!Spec => []ArrayTypeOK
<1>1. Array!TypeOK /\ [Array!Next]_(Array!vars) => Array!TypeOK'
  BY NextVector
<1>. QED  BY ArrayInitTyped, <1>1, PTL DEF Array!Spec, ArrayTypeOK

\* The array implements a sequence.
THEOREM ArrayImplementsVector == Array!Spec => ArrayIsVector
<1>1. Array!Init => Array!Vector!Init
  BY DEF Array!Init, Array!Vector!Init
<1>2. Array!TypeOK /\ [Array!Next]_(Array!vars) => [Array!Vector!Next]_<<in_use, array_out>>
  BY NextVector
<1>3. Array!TypeOK /\ [Array!Next]_(Array!vars) => Array!TypeOK'
  BY NextVector
<1>. QED
  BY ArrayInitTyped, <1>1, <1>2, <1>3, PTL
  DEF Array!Spec, ArrayIsVector, Array!ArrayIsVector, Array!Vector!Spec, in_use

-----------------------------------------------------------------------------
(***************************************************************************)
(* Pairs                                                                   *)
(***************************************************************************)
\* The quotient and the remainder of a packed word.
LEMMA DivMod ==
  ASSUME NEW a \in Int, NEW w \in Nat, NEW b \in 0 .. w - 1
  PROVE  (a * w + b) \div w = a /\ (a * w + b) % w = b
<1> DEFINE x == a * w + b
           q == x \div w
           r == x % w
<1>1. w \in Nat /\ w > 0 /\ b \in Int /\ 0 <= b /\ b < w /\ a * w \in Int
  OBVIOUS
<1>2. x \in Int /\ x = a * w + b
  BY <1>1
<1> HIDE DEF x
<1>3. q \in Int /\ r \in Int /\ x = w * q + r /\ 0 <= r /\ r < w
  BY <1>1, <1>2
<1> HIDE DEF q, r
<1>4. ~(q >= a + 1)
  <2>1. SUFFICES ASSUME q >= a + 1 PROVE FALSE
    OBVIOUS
  <2>2. w * q >= a * w + w
    BY <1>1, <1>3, <2>1
  <2>. QED  BY <1>1, <1>2, <1>3, <2>2
<1>5. ~(q <= a - 1)
  <2>1. SUFFICES ASSUME q <= a - 1 PROVE FALSE
    OBVIOUS
  <2>2. w * q <= a * w - w
    BY <1>1, <1>3, <2>1
  <2>. QED  BY <1>1, <1>2, <1>3, <2>2
<1>6. q = a
  BY <1>3, <1>4, <1>5
<1>7. r = b
  BY <1>1, <1>2, <1>3, <1>6
<1>. QED  BY <1>6, <1>7 DEF q, r, x

\* The second component always comes back, the first if the second is not
\* negative: a negative one is all there is in the word, and its sign is -1.
LEMMA RoundTrip ==
  ASSUME HALF \in Nat \ {0}, NEW a \in Pair!int32_t, NEW b \in Pair!int32_t
  PROVE  /\ Pair!pairFst(Pair!Packed(a, b)) = IF b < 0 THEN -1 ELSE a
         /\ Pair!pairSnd(Pair!Packed(a, b)) = b
<1>1. /\ a \in Int /\ b \in -HALF .. HALF - 1 /\ Pair!WORD \in Nat
      /\ Pair!WORD = HALF + HALF
  BY DEF Pair!int32_t, Pair!WORD
<1>2. CASE b >= 0
  <2>1. b \in 0 .. Pair!WORD - 1 /\ b < HALF /\ Pair!Packed(a, b) = a * Pair!WORD + b
    BY <1>1, <1>2 DEF Pair!Packed
  <2>2. (a * Pair!WORD + b) \div Pair!WORD = a /\ (a * Pair!WORD + b) % Pair!WORD = b
    BY <1>1, <2>1, DivMod
  <2>. QED  BY <1>1, <1>2, <2>1, <2>2 DEF Pair!pairFst, Pair!pairSnd, Pair!Signed
<1>3. CASE b < 0
  <2>1. PICK r : r = b + Pair!WORD
    OBVIOUS
  <2>2. r \in 0 .. Pair!WORD - 1 /\ r >= HALF /\ -1 \in Int
    BY <1>1, <1>3, <2>1
  <2>3. (-1 * Pair!WORD + r) \div Pair!WORD = -1 /\ (-1 * Pair!WORD + r) % Pair!WORD = r
    BY <1>1, <2>2, DivMod
  <2>4. Pair!Packed(a, b) = b /\ b = -1 * Pair!WORD + r
    BY <1>1, <1>3, <2>1 DEF Pair!Packed
  <2>. QED  BY <1>1, <1>3, <2>1, <2>2, <2>3, <2>4 DEF Pair!pairFst, Pair!pairSnd, Pair!Signed
<1>. QED  BY <1>1, <1>2, <1>3

\* What every pair gives back, for every width and any two integers.
THEOREM PairsGiveBack == Pair!Spec => []PairGivesBack
<1>. USE StructuresAssumption
<1>1. 0 \in Pair!int32_t /\ ~(0 < 0)
  BY DEF Pair!int32_t
<1>2. Pair!Init => Pair!PairGivesBack
  BY <1>1, RoundTrip DEF Pair!Init, Pair!PairGivesBack
<1>3. Pair!PairGivesBack /\ [Pair!Next]_(Pair!vars) => Pair!PairGivesBack'
  <2>1. ASSUME NEW a \in Pair!int32_t, NEW b \in Pair!int32_t, Pair!pairMake(a, b)
        PROVE  Pair!PairGivesBack'
    <3>1. p' = Pair!Packed(a, b) /\ made' = <<a, b>>
      BY <2>1 DEF Pair!pairMake
    <3>. QED  BY <3>1, RoundTrip DEF Pair!PairGivesBack, Pair!pairFst, Pair!pairSnd, Pair!Signed
  <2>2. ASSUME Pair!PairGivesBack, UNCHANGED Pair!vars PROVE Pair!PairGivesBack'
    BY <2>2 DEF Pair!PairGivesBack, Pair!vars, Pair!pairFst, Pair!pairSnd, Pair!Signed
  <2>. QED  BY <2>1, <2>2 DEF Pair!Next
<1>. QED  BY <1>2, <1>3, PTL DEF Pair!Spec, PairGivesBack

-----------------------------------------------------------------------------
(***************************************************************************)
(* Strings                                                                 *)
(***************************************************************************)
\* The block b holds the text t: its characters, then a NUL, then anything.
Holds(b, t) ==
  /\ t \in Seq(Chars) /\ b \in Seq(Chars \cup {NUL})
  /\ Len(t) + 1 <= Len(b)
  /\ \A i \in 1 .. Len(t) : b[i] = t[i]
  /\ b[Len(t) + 1] = NUL

\* The first NUL is at the end of the text, and up to it is the text.
LEMMA HeldText ==
  ASSUME NEW b, NEW t, Holds(b, t)
  PROVE  /\ String!stringLen(b) = Len(t)
         /\ String!Copied(b, 0, String!stringLen(b)) = t
<1> DEFINE n == Len(t)
           IsEnd(k) == b[k + 1] = NUL /\ \A m \in 1 .. k : b[m] # NUL
<1>1. /\ n \in Nat /\ Len(b) \in Nat /\ n + 1 <= Len(b) /\ b[n + 1] = NUL
      /\ \A i \in 1 .. n : b[i] = t[i] /\ t[i] \in Chars
  BY DEF Holds
<1>2. \A i \in 1 .. n : b[i] # NUL
  BY <1>1, StructuresAssumption
<1> HIDE DEF n
<1>3. n \in 0 .. Len(b) - 1 /\ IsEnd(n)
  BY <1>1, <1>2
<1>4. ASSUME NEW k \in 0 .. Len(b) - 1, IsEnd(k) PROVE k = n
  <2>1. ~(k < n)
    <3>1. k < n => k + 1 \in 1 .. n
      BY <1>1
    <3>. QED  BY <1>2, <1>4, <3>1
  <2>2. ~(n < k)
    <3>1. n < k => n + 1 \in 1 .. k
      BY <1>1
    <3>. QED  BY <1>1, <1>4, <3>1
  <2>. QED  BY <1>1, <2>1, <2>2
<1> HIDE DEF IsEnd
<1>5. String!stringLen(b) = n
  <2>1. n = CHOOSE k \in 0 .. Len(b) - 1 : IsEnd(k)
    BY <1>3, <1>4
  <2>. QED  BY <2>1 DEF String!stringLen, IsEnd
<1>6. String!Copied(b, 0, n) = t
  <2>1. String!Copied(b, 0, n) = [i \in 1 .. n |-> b[0 + i]]
    BY DEF String!Copied
  <2>2. \A i \in 1 .. n : 0 + i = i
    OBVIOUS
  <2>3. t = [i \in 1 .. n |-> t[i]]
    BY Eta DEF Holds, n
  <2>. QED  BY <1>1, <2>1, <2>2, <2>3
<1>. QED  BY <1>5, <1>6 DEF n

\* A text and its NUL, in a block of that size.
LEMMA EndedHolds ==
  ASSUME NEW t \in Seq(Chars)
  PROVE  Holds(String!Ended(t), t)
<1> DEFINE b == Append(t, NUL)
<1>1. t \in Seq(Chars \cup {NUL}) /\ Len(t) \in Nat
  OBVIOUS
<1>2. b \in Seq(Chars \cup {NUL}) /\ Len(b) = Len(t) + 1 /\ b[Len(t) + 1] = NUL
      /\ \A i \in 1 .. Len(t) : b[i] = t[i]
  BY <1>1
<1> HIDE DEF b
<1>3. Holds(b, t)
  BY <1>1, <1>2 DEF Holds
<1>. QED  BY <1>3 DEF String!Ended, b

LEMMA EmptyHolds == Holds(String!emptyString, <<>>)
BY DEF Holds, String!emptyString

\* The same character n times.
LEMMA RepeatedHolds ==
  ASSUME NEW c \in Chars, NEW n \in Nat
  PROVE  /\ String!Text!Repeat(c, n) \in Seq(Chars)
         /\ Holds(String!Repeated(c, n), String!Text!Repeat(c, n))
<1>1. String!Text!Repeat(c, n) \in Seq(Chars)
  BY DEF String!Text!Repeat
<1>2. String!Repeated(c, n) = String!Ended(String!Text!Repeat(c, n))
  BY DEF String!Repeated, String!Text!Repeat
<1>. QED  BY <1>1, <1>2, EndedHolds

\* Two texts, one behind the other.
LEMMA ConcatHolds ==
  ASSUME NEW b, NEW t, Holds(b, t), NEW b2, NEW t2, Holds(b2, t2)
  PROVE  Holds(String!Concat(b, b2), t \o t2)
<1>1. String!Concat(b, b2) = String!Ended(t \o t2)
  <2>1. String!Copied(b, 0, String!stringLen(b)) = t /\ String!Copied(b2, 0, String!stringLen(b2)) = t2
    BY HeldText
  <2>. QED  BY <2>1 DEF String!Concat
<1>2. t \o t2 \in Seq(Chars)
  BY DEF Holds
<1>. QED  BY <1>1, <1>2, EndedHolds

\* A part of the text.
LEMMA PartHolds ==
  ASSUME NEW b, NEW t, Holds(b, t), NEW i \in Nat, NEW j \in Nat, i < j, j <= Len(t)
  PROVE  Holds(String!Ended(String!Copied(b, i, j - i)), SubSeq(t, i + 1, j))
<1> DEFINE s == SubSeq(t, i + 1, j)
           n == j - i
<1>1. t \in Seq(Chars) /\ Len(t) \in Nat /\ n \in Nat /\ \A k \in 1 .. Len(t) : b[k] = t[k]
  <2>1. t \in Seq(Chars) /\ \A k \in 1 .. Len(t) : b[k] = t[k]
    BY Zenon DEF Holds
  <2>2. n \in Nat
    OBVIOUS
  <2>. QED  BY <2>1, <2>2
<1>2. s \in Seq(Chars) /\ Len(s) = n /\ \A k \in 1 .. n : s[k] = t[i + k]
  BY <1>1
<1>3. \A k \in 1 .. n : i + k \in 1 .. Len(t)
  BY <1>1
<1> HIDE DEF s, n
<1>4. String!Copied(b, i, n) = [k \in 1 .. n |-> b[i + k]]
  BY DEF String!Copied
<1>5. s = [k \in 1 .. n |-> s[k]]
  BY <1>2, Eta
<1>6. String!Copied(b, i, n) = s
  BY <1>1, <1>2, <1>3, <1>4, <1>5
<1>. QED  BY <1>2, <1>6, EndedHolds DEF s, n


written == String!Copied(str, 0, String!stringLen(str))
StringInv == \E t : Holds(str, t)

LEMMA StringHolds ==
  ASSUME NEW t, Holds(str, t)
  PROVE  written = t /\ String!stringLen(str) = Len(t)
BY HeldText DEF written

\* A new text for the block.
LEMMA NewText ==
  ASSUME NEW t, Holds(str', t)
  PROVE  StringInv' /\ written' = t
<1>1. StringInv'
  BY DEF StringInv
<1>2. String!Copied(str', 0, String!stringLen(str')) = t
  BY HeldText
<1>3. written' = t
  BY <1>2 DEF written, String!Copied, String!stringLen
<1>. QED  BY <1>1, <1>3

LEMMA SameText ==
  ASSUME StringInv, str' = str
  PROVE  StringInv' /\ written' = written
<1>1. PICK t : Holds(str, t)
  BY DEF StringInv
<1>2. Holds(str', t)
  BY <1>1
<1>. QED  BY <1>1, <1>2, NewText, StringHolds

\* Every operation keeps a text in the block, and does to it what is promised.
LEMMA NextText ==
  ASSUME StringInv, [String!Next]_(String!vars)
  PROVE  StringInv' /\ [String!Text!Next]_<<written, str_op>>
<1>. USE StructuresAssumption
<1>1. PICK t : Holds(str, t)
  BY DEF StringInv
<1>2. /\ written = t /\ String!stringLen(str) = Len(t) /\ t \in Seq(Chars) /\ Len(t) \in Nat
      /\ \A i \in 1 .. Len(t) : str[i] = t[i]
  BY <1>1, StringHolds DEF Holds
<1>3. CASE UNCHANGED String!vars
  BY <1>3, SameText DEF String!vars
<1>4. ASSUME NEW c \in Chars, NEW n \in 0 .. MaxLen, String!stringMake(c, n)
      PROVE  StringInv' /\ String!Text!Next
  <2>1. n \in Nat /\ str' = String!Repeated(c, n) /\ str_op' = <<"stringMake", c, n>>
    BY <1>4 DEF String!stringMake
  <2>2. Holds(str', String!Text!Repeat(c, n))
    BY <2>1, RepeatedHolds
  <2>3. StringInv' /\ written' = String!Text!Repeat(c, n)
    BY <2>2, NewText
  <2>. QED  BY <2>1, <2>3 DEF String!Text!Next, String!Text!Make, String!Text!Range, written
<1>5. ASSUME NEW c \in Chars, NEW n \in 0 .. MaxLen, String!strConcat(c, n)
      PROVE  StringInv' /\ String!Text!Next
  <2>1. /\ n \in Nat /\ str' = String!Concat(str, String!Repeated(c, n))
        /\ str_op' = <<"strConcat", c, n>>
    BY <1>5 DEF String!strConcat
  <2>2. Holds(String!Repeated(c, n), String!Text!Repeat(c, n))
    BY <2>1, RepeatedHolds
  <2>3. Holds(str', t \o String!Text!Repeat(c, n))
    BY <1>1, <2>1, <2>2, ConcatHolds
  <2>4. StringInv' /\ written' = t \o String!Text!Repeat(c, n)
    BY <2>3, NewText
  <2>. QED  BY <1>2, <2>1, <2>4 DEF String!Text!Next, String!Text!More, String!Text!Range, written
<1>6. ASSUME NEW i \in 0 .. MaxLen, NEW j \in 0 .. MaxLen, String!stringSubStr(i, j)
      PROVE  StringInv' /\ String!Text!Next
  <2>1. str_op' = <<"stringSubStr", i, j>> /\ i \in Nat /\ j \in Nat
    BY <1>6 DEF String!stringSubStr
  <2>2. (j > i => j <= Len(t)) /\ Holds(str', SubSeq(t, i + 1, j))
    <3>1. CASE j <= i
      <4>1. str' = String!emptyString
        BY <1>6, <2>1, <3>1 DEF String!stringSubStr
      <4>2. SubSeq(t, i + 1, j) = <<>> /\ ~(j > i)
        BY <1>2, <2>1, <3>1
      <4>. QED  BY <4>1, <4>2, EmptyHolds
    <3>2. CASE j > i
      <4>1. str' = String!Ended(String!Copied(str, i, j - i)) /\ j <= Len(t)
        BY <1>2, <1>6, <2>1, <3>2 DEF String!stringSubStr, String!Within
      <4>2. i < j
        BY <2>1, <3>2
      <4>. QED  BY <1>1, <2>1, <4>1, <4>2, PartHolds
    <3>. QED  BY <2>1, <3>1, <3>2
  <2>3. StringInv' /\ written' = SubSeq(t, i + 1, j)
    BY <2>2, NewText
  <2>. QED
    BY <1>2, <2>1, <2>2, <2>3 DEF String!Text!Next, String!Text!SubStr, String!Text!Range, written
<1>7. CASE String!strConcatSelf
  <2>1. str' = String!Concat(str, str) /\ str_op' = <<"strConcat">>
    BY <1>7 DEF String!strConcatSelf
  <2>2. Holds(str', t \o t)
    BY <1>1, <2>1, ConcatHolds
  <2>3. StringInv' /\ written' = t \o t
    BY <2>2, NewText
  <2>. QED  BY <1>2, <2>1, <2>3 DEF String!Text!Next, String!Text!Twice, written
<1>8. CASE String!ReadLen
  <2>1. StringInv' /\ written' = written /\ str_op' = <<"stringLen", Len(t)>>
    BY <1>2, <1>8, SameText DEF String!ReadLen
  <2>. QED  BY <1>2, <2>1 DEF String!Text!Next, String!Text!Length, written
<1>9. ASSUME NEW i \in 0 .. MaxLen, String!stringCharAt(i)
      PROVE  StringInv' /\ String!Text!Next
  <2>1. /\ StringInv' /\ written' = written /\ i < Len(t)
        /\ str_op' = <<"stringCharAt", i, str[i + 1]>>
    BY <1>2, <1>9, SameText DEF String!stringCharAt
  <2>2. str[i + 1] = t[i + 1]
    <3>1. i + 1 \in 1 .. Len(t)
      BY <1>2, <2>1
    <3>. QED  BY <1>2, <3>1
  <2>. QED
    BY <1>2, <2>1, <2>2 DEF String!Text!Next, String!Text!CharAt, String!Text!Range, written
<1>. QED  BY <1>3, <1>4, <1>5, <1>6, <1>7, <1>8, <1>9 DEF String!Next, written

\* A block always holds the text that is meant, ended where the text ends.
THEOREM StringImplementsText == String!Spec => StringIsText
<1>1. String!Init => StringInv /\ String!Text!Init
  <2>. SUFFICES ASSUME String!Init PROVE StringInv /\ String!Text!Init
    OBVIOUS
  <2>1. Holds(str, <<>>) /\ str_op = <<>>
    BY EmptyHolds DEF String!Init
  <2>2. written = <<>>
    BY <2>1, StringHolds
  <2>. QED  BY <2>1, <2>2 DEF StringInv, String!Text!Init, written
<1>2. StringInv /\ [String!Next]_(String!vars) => StringInv' /\ [String!Text!Next]_<<written, str_op>>
  BY NextText
<1>3. String!Spec => String!Text!Init /\ [][String!Text!Next]_<<written, str_op>>
  BY <1>1, <1>2, PTL DEF String!Spec
<1>. QED  BY <1>3 DEF StringIsText, String!StringIsText, String!Text!Spec, written

-----------------------------------------------------------------------------
(***************************************************************************)
(* The queue of the standard library                                       *)
(***************************************************************************)
\* What the cells c hold from cell f on, and along a path.
From(c, f) ==
  LET from[n \in 0 .. Len(c)] ==
        IF n = 0 THEN f ELSE IF from[n - 1] = NULL THEN NULL ELSE c[from[n - 1]].next
      count == CHOOSE n \in 0 .. Len(c) : from[n] = NULL /\ \A m \in 0 .. n - 1 : from[m] # NULL
  IN [i \in 1 .. count |-> c[from[i - 1]].v]

Along(c, q) == [i \in 1 .. Len(q) |-> c[q[i]].v]

queued == From(cells, fs)

LEMMA FromPath ==
  ASSUME NEW c, IsHeap(c), NEW d, Ranked(c, d), NEW f, NEW q, Path(c, f, q)
  PROVE  From(c, f) = Along(c, q)
<1> DEFINE at == Following(c, f)
           IsCount(n) == at[n] = NULL /\ \A m \in 0 .. n - 1 : at[m] # NULL
           count == CHOOSE n \in 0 .. Len(c) : IsCount(n)
<1>1. From(c, f) = [i \in 1 .. count |-> c[at[i - 1]].v]
  BY DEF From, Following
<1>2. /\ Len(c) \in Nat /\ Len(q) \in Nat /\ Len(q) <= Len(c)
      /\ \A i \in 1 .. Len(q) : q[i] \in 1 .. Len(c)
  <2>1. Len(q) <= Len(c)
    BY PathShort
  <2>. QED  BY <2>1 DEF IsHeap, Path
<1>3. \A n \in 0 .. Len(c) : at[n] = Nth(q, n + 1)
  BY <1>2, PathFollowed
<1> HIDE DEF at
<1>4. at[Len(q)] = NULL
  BY <1>2, <1>3 DEF Nth
<1>5. \A i \in 1 .. Len(q) : at[i - 1] = q[i]
  <2>1. \A i \in 1 .. Len(q) : i - 1 \in 0 .. Len(c) /\ (i - 1) + 1 = i
    BY <1>2
  <2>. QED  BY <1>3, <2>1 DEF Nth
<1>6. \A m \in 0 .. Len(q) - 1 : at[m] # NULL
  <2>1. \A m \in 0 .. Len(q) - 1 : m + 1 \in 1 .. Len(q) /\ (m + 1) - 1 = m
    BY <1>2
  <2>2. \A m \in 0 .. Len(q) - 1 : at[m] = q[m + 1] /\ q[m + 1] \in 1 .. Len(c)
    BY <1>2, <1>5, <2>1
  <2>. QED  BY <2>2 DEF NULL
<1>7. Len(q) \in 0 .. Len(c) /\ IsCount(Len(q))
  BY <1>2, <1>4, <1>6
<1>8. ASSUME NEW n \in 0 .. Len(c), IsCount(n) PROVE n = Len(q)
  <2>1. ~(n < Len(q))
    <3>1. n < Len(q) => n \in 0 .. Len(q) - 1
      BY <1>2
    <3>. QED  BY <1>6, <1>8, <3>1
  <2>2. ~(Len(q) < n)
    <3>1. Len(q) < n => Len(q) \in 0 .. n - 1
      BY <1>2
    <3>. QED  BY <1>4, <1>8, <3>1
  <2>. QED  BY <1>2, <2>1, <2>2
<1> HIDE DEF IsCount
<1>9. count = Len(q)
  BY <1>7, <1>8
<1> HIDE DEF count
<1>. QED  BY <1>1, <1>5, <1>9 DEF Along

\* The list that ends at once has no nodes.
LEMMA PathNull ==
  ASSUME NEW h, NEW q, Path(h, NULL, q)
  PROVE  q = <<>>
<1>1. q \in Seq(1 .. Len(h)) /\ Len(q) \in Nat /\ NULL = Nth(q, 1)
      /\ \A i \in 1 .. Len(q) : q[i] \in 1 .. Len(h)
  BY DEF Path
<1>2. ~(1 \in 1 .. Len(q))
  BY <1>1 DEF Nth, NULL
<1>. QED  BY <1>1, <1>2

\* Cells link forward only, the first and the last cell are those of one path, and
\* the length kept apart is its.
CellOf(N) == [v : Vals, next : 0 .. N]
Forward(c) == \A a \in 1 .. Len(c) : c[a].next = NULL \/ a < c[a].next
Whole(c, f, l, k, q) ==
  /\ Path(c, f, q)
  /\ k = Len(q)
  /\ q = <<>> => l = NULL
  /\ q # <<>> => l = q[Len(q)]

StdInv ==
  /\ cells \in Seq(CellOf(Len(cells)))
  /\ Forward(cells)
  /\ \E q : Whole(cells, fs, ls, len, q)

\* Cells that link forward have a rank.
LEMMA ForwardRanked ==
  ASSUME NEW c, c \in Seq(CellOf(Len(c))), Forward(c)
  PROVE  IsHeap(c) /\ Len(c) \in Nat /\ \E d : Ranked(c, d)
<1> DEFINE N == Len(c)
           d == [a \in 1 .. N |-> N - a]
<1>1. N \in Nat /\ DOMAIN c = 1 .. N /\ \A a \in 1 .. N : c[a] \in CellOf(N)
  OBVIOUS
<1>2. \A a \in 1 .. N : c[a].next \in 0 .. N
  BY <1>1 DEF CellOf
<1>3. IsHeap(c)
  BY <1>1, <1>2 DEF IsHeap
<1>4. \A a \in 1 .. N : c[a].next # NULL => c[a].next \in 1 .. N /\ a < c[a].next
  BY <1>2 DEF Forward, NULL
<1> HIDE DEF N
<1>5. d \in [1 .. N -> Nat]
  BY <1>1
<1>6. ASSUME NEW a \in 1 .. N, c[a].next # NULL PROVE d[c[a].next] < d[a]
  <2>1. c[a].next \in 1 .. N /\ a < c[a].next
    BY <1>4, <1>6
  <2>2. d[c[a].next] = N - c[a].next /\ d[a] = N - a
    BY <2>1
  <2> HIDE DEF d
  <2>. QED  BY <1>1, <2>1, <2>2
<1> HIDE DEF d
<1>7. Ranked(c, d)
  BY <1>5, <1>6 DEF Ranked, N
<1>. QED  BY <1>1, <1>3, <1>7 DEF N

\* What a path in such cells says.
LEMMA WholeRead ==
  ASSUME NEW c, c \in Seq(CellOf(Len(c))), Forward(c), NEW f, NEW l, NEW k, NEW q, Whole(c, f, l, k, q)
  PROVE  /\ From(c, f) = Along(c, q) /\ From(c, f) \in Seq(Vals) /\ Len(From(c, f)) = k /\ k \in Nat
         /\ \A i \in 1 .. Len(q) : From(c, f)[i] = c[q[i]].v /\ q[i] \in 1 .. Len(c)
         /\ q \in Seq(1 .. Len(c)) /\ Len(q) = k
         /\ f = NULL => q = <<>>
         /\ l = NULL => q = <<>>
<1>1. IsHeap(c) /\ Len(c) \in Nat /\ Path(c, f, q) /\ k = Len(q)
  BY ForwardRanked DEF Whole
<1>2. From(c, f) = Along(c, q)
  BY <1>1, ForwardRanked, FromPath
<1>3. q \in Seq(1 .. Len(c)) /\ Len(q) \in Nat /\ \A i \in 1 .. Len(q) : q[i] \in 1 .. Len(c)
  BY <1>1 DEF Path
<1>4. \A i \in 1 .. Len(q) : c[q[i]].v \in Vals
  <2>1. \A a \in 1 .. Len(c) : c[a] \in CellOf(Len(c))
    OBVIOUS
  <2>. QED  BY <1>3, <2>1 DEF CellOf
<1>5. /\ Along(c, q) \in Seq(Vals) /\ Len(Along(c, q)) = Len(q)
      /\ \A i \in 1 .. Len(q) : Along(c, q)[i] = c[q[i]].v
  BY <1>3, <1>4 DEF Along
<1>6. f = NULL => q = <<>>
  BY <1>1, PathNull
<1>7. l = NULL => q = <<>>
  <2>1. ASSUME l = NULL, q # <<>> PROVE FALSE
    <3>1. Len(q) \in 1 .. Len(q) /\ l = q[Len(q)]
      BY <1>3, <2>1 DEF Whole
    <3>2. l \in 1 .. Len(c)
      BY <1>3, <3>1
    <3>. QED  BY <2>1, <3>2 DEF NULL
  <2>. QED  BY <2>1
<1>. QED  BY <1>1, <1>2, <1>3, <1>5, <1>6, <1>7


\* A value at the end.
LEMMA EnqueueKeeps ==
  ASSUME StdInv, NEW x \in Vals, Std!queue_enqueue(x)
  PROVE  StdInv' /\ queued' = Append(queued, x) /\ std_out' = <<x>>
<1> DEFINE N == Len(cells)
           n == N + 1
           c == Append(cells, Std!QueueCons(x, NULL))
<1>1. cells \in Seq(CellOf(N)) /\ Forward(cells) /\ N \in Nat
  BY DEF StdInv
<1>2. PICK q : Whole(cells, fs, ls, len, q)
  BY DEF StdInv
<1>3. /\ queued = Along(cells, q) /\ queued \in Seq(Vals) /\ Len(queued) = len /\ len \in Nat
      /\ \A i \in 1 .. Len(q) : queued[i] = cells[q[i]].v /\ q[i] \in 1 .. N
      /\ q \in Seq(1 .. N) /\ Len(q) = len /\ (ls = NULL => q = <<>>)
  BY <1>1, <1>2, WholeRead DEF queued
<1>4. /\ \/ ls = NULL /\ cells' = c /\ len' = 1 /\ fs' = n
         \/ ls # NULL /\ cells' = [c EXCEPT ![ls].next = n] /\ len' = len + 1 /\ fs' = fs
      /\ ls' = n /\ std_out' = <<x>>
  BY DEF Std!queue_enqueue, Std!QueueNil, NULL
<1>5. /\ c \in Seq(CellOf(n)) /\ Len(c) = n /\ c[n].next = NULL /\ c[n].v = x
      /\ \A a \in 1 .. N : c[a] = cells[a]
  <2> DEFINE cons == Std!QueueCons(x, NULL)
  <2>1. cons \in CellOf(n) /\ cons.next = NULL /\ cons.v = x /\ CellOf(N) \subseteq CellOf(n)
    BY <1>1 DEF CellOf, Std!QueueCons, NULL
  <2> HIDE DEF cons
  <2>2. cells \in Seq(CellOf(n))
    BY <1>1, <2>1
  <2>3. ASSUME NEW T, cells \in Seq(T), cons \in T
        PROVE  /\ Append(cells, cons) \in Seq(T) /\ Len(Append(cells, cons)) = N + 1
               /\ Append(cells, cons)[N + 1] = cons
               /\ \A a \in 1 .. N : Append(cells, cons)[a] = cells[a]
    BY <2>3
  <2>4. /\ Append(cells, cons) \in Seq(CellOf(n)) /\ Len(Append(cells, cons)) = N + 1
        /\ Append(cells, cons)[N + 1] = cons
        /\ \A a \in 1 .. N : Append(cells, cons)[a] = cells[a]
    BY <2>1, <2>2, <2>3
  <2>5. c = Append(cells, cons)
    BY DEF cons
  <2> HIDE DEF c
  <2>. QED  BY <2>1, <2>4, <2>5
<1> HIDE DEF c
<1>6. /\ n \in Nat /\ n # NULL /\ n \in 1 .. n
      /\ \A a \in 1 .. N : a # n /\ a \in 1 .. n
      /\ \A a \in 1 .. n : a # n => a \in 1 .. N
  BY <1>1 DEF NULL
<1> DEFINE r == Append(q, n)
<1>7. /\ r \in Seq(1 .. n) /\ Len(r) = len + 1 /\ r[len + 1] = n
      /\ \A i \in 1 .. len : r[i] = q[i]
  <2>1. q \in Seq(1 .. n)
    BY <1>3, <1>6
  <2> HIDE DEF n
  <2>. QED  BY <1>3, <1>6, <2>1
<1>8. /\ cells' \in Seq(CellOf(n)) /\ Len(cells') = n /\ Forward(cells')
      /\ cells'[n].v = x /\ \A a \in 1 .. N : cells'[a].v = cells[a].v
      /\ Path(cells', fs', r) /\ len' = len + 1
  <2>1. CASE ls = NULL
    <3>1. cells' = c /\ fs' = n /\ len' = 1 /\ q = <<>> /\ len = 0
      BY <1>3, <1>4, <2>1
    <3>2. Forward(cells')
      <4>1. ASSUME NEW a \in 1 .. n PROVE c[a].next = NULL \/ a < c[a].next
        BY <1>1, <1>5, <1>6 DEF Forward
      <4>. QED  BY <1>5, <3>1, <4>1 DEF Forward
    <3>3. Path(c, n, <<n>> \o q)
      <4>1. Path(c, c[n].next, q)
        BY <1>5, <3>1, PathEmpty
      <4>. QED  BY <1>5, <1>6, <4>1, PathCons
    <3>4. <<n>> \o q = r
      BY <3>1
    <3>. QED  BY <1>5, <3>1, <3>2, <3>3, <3>4
  <2>2. CASE ls # NULL
    <3>1. cells' = [c EXCEPT ![ls].next = n] /\ fs' = fs /\ len' = len + 1
      BY <1>4, <2>2
    <3>2. q # <<>> /\ ls = q[len] /\ len \in 1 .. len /\ ls \in 1 .. N /\ Path(cells, fs, q)
      <4>1. Path(cells, fs, q) /\ q # <<>> /\ ls = q[Len(q)]
        BY <1>2, <2>2 DEF Whole
      <4>2. len # 0
        BY <1>3, <4>1
      <4>. QED  BY <1>3, <4>1, <4>2
    <3> DEFINE b == [c[ls] EXCEPT !.next = n]
    <3>3. b \in CellOf(n) /\ b.next = n /\ b.v = c[ls].v
      <4>1. c[ls] \in CellOf(n) /\ n \in 0 .. n
        BY <1>5, <1>6, <3>2
      <4>. QED  BY <4>1 DEF CellOf
    <3>4. cells' = [c EXCEPT ![ls] = b]
      BY <3>1
    <3> HIDE DEF b, n
    <3>5. /\ cells' \in Seq(CellOf(n)) /\ Len(cells') = n /\ cells'[ls] = b
          /\ \A a \in 1 .. n : a # ls => cells'[a] = c[a]
      BY <1>5, <1>6, <3>2, <3>3, <3>4
    <3>6. cells'[n].next = NULL /\ cells'[n].v = x
      BY <1>5, <1>6, <3>2, <3>5
    <3>7. \A a \in 1 .. N : /\ cells'[a].v = cells[a].v
                            /\ a # ls => cells'[a].next = cells[a].next
      BY <1>5, <1>6, <3>3, <3>5
    <3>8. Forward(cells')
      <4>1. ASSUME NEW a \in 1 .. n PROVE cells'[a].next = NULL \/ a < cells'[a].next
        <5>1. CASE a = n
          BY <3>6, <5>1
        <5>2. CASE a = ls
          BY <1>6, <3>2, <3>3, <3>5, <5>2 DEF n
        <5>3. CASE a # n /\ a # ls
          <6>1. a \in 1 .. N
            BY <1>6, <5>3
          <6>2. cells'[a].next = cells[a].next
            BY <3>7, <5>3, <6>1
          <6>. QED  BY <1>1, <6>1, <6>2 DEF Forward
        <5>. QED  BY <5>1, <5>2, <5>3
      <4>. QED  BY <3>5, <4>1 DEF Forward
    <3>9. Path(cells', fs, r)
      <4>1. \A i \in 1 .. Len(q) - 1 : cells'[q[i]].next = cells[q[i]].next
        <5>1. ASSUME NEW i \in 1 .. Len(q) - 1 PROVE q[i] # ls
          <6>1. i \in 1 .. Len(q) /\ Len(q) \in 1 .. Len(q) /\ i < Len(q)
            BY <1>3, <3>2
          <6>2. IsHeap(cells) /\ \E d : Ranked(cells, d)
            BY <1>1, ForwardRanked
          <6>3. PICK d : Ranked(cells, d)
            BY <6>2
          <6>4. d[q[Len(q)]] < d[q[i]] /\ d[q[i]] \in Nat
            <7>1. d[q[Len(q)]] < d[q[i]]
              BY <3>2, <6>1, <6>2, <6>3, PathFalls
            <7>. QED  BY <1>3, <6>1, <6>3, <7>1 DEF Ranked
          <6>. QED  BY <1>3, <3>2, <6>4
        <5>2. \A i \in 1 .. Len(q) - 1 : q[i] \in 1 .. N
          BY <1>3
        <5>. QED  BY <3>7, <5>1, <5>2
      <4>2. fs # NULL
        <5>1. fs = NULL => q = <<>>
          BY <3>2, PathNull
        <5>. QED  BY <3>2, <5>1
      <4>3. Len(cells) \in Nat /\ Len(cells') \in Nat /\ Len(cells) <= Len(cells') /\ n \in 1 .. Len(cells')
        BY <1>1, <3>5 DEF n
      <4>4. cells'[q[Len(q)]].next = n
        BY <1>3, <3>2, <3>3, <3>5
      <4>. QED  BY <3>2, <3>6, <4>1, <4>2, <4>3, <4>4, PathAppend
    <3>. QED  BY <3>1, <3>5, <3>6, <3>7, <3>8, <3>9
  <2>. QED  BY <2>1, <2>2
<1> HIDE DEF r, n
<1>9. Whole(cells', fs', ls', len', r)
  <2>1. r # <<>> /\ r[Len(r)] = n /\ len' = Len(r)
    BY <1>3, <1>7, <1>8
  <2>. QED  BY <1>4, <1>8, <2>1 DEF Whole
<1>10. StdInv'
  BY <1>8, <1>9 DEF StdInv
<1>11. /\ queued' = Along(cells', r) /\ queued' \in Seq(Vals)
  BY <1>8, <1>9, WholeRead DEF queued
<1>12. Along(cells', r) = Append(queued, x)
  <2>1. Along(cells', r) = [i \in 1 .. len + 1 |-> cells'[r[i]].v]
    BY <1>7 DEF Along
  <2>2. Append(queued, x) = [i \in 1 .. len + 1 |-> IF i = len + 1 THEN x ELSE queued[i]]
    BY <1>3, Appended
  <2>3. \A i \in 1 .. len + 1 : cells'[r[i]].v = IF i = len + 1 THEN x ELSE queued[i]
    <3>1. \A i \in 1 .. len + 1 : i # len + 1 => i \in 1 .. len
      BY <1>3, Places
    <3>2. \A i \in 1 .. len : cells'[q[i]].v = queued[i]
      BY <1>3, <1>8
    <3>. QED  BY <1>7, <1>8, <3>1, <3>2
  <2>. QED  BY <2>1, <2>2, <2>3
<1>. QED  BY <1>4, <1>10, <1>11, <1>12


\* A value from the front, the last one included.
LEMMA DequeueKeeps ==
  ASSUME StdInv, Std!queue_dequeue
  PROVE  /\ StdInv' /\ queued # <<>>
         /\ queued' = Tail(queued) /\ std_out' = <<Head(queued)>>
<1> DEFINE N == Len(cells)
<1>1. cells \in Seq(CellOf(N)) /\ Forward(cells) /\ N \in Nat
  BY DEF StdInv
<1>2. PICK q : Whole(cells, fs, ls, len, q)
  BY DEF StdInv
<1>3. /\ queued = Along(cells, q) /\ queued \in Seq(Vals) /\ Len(queued) = len /\ len \in Nat
      /\ \A i \in 1 .. Len(q) : queued[i] = cells[q[i]].v /\ q[i] \in 1 .. N
      /\ q \in Seq(1 .. N) /\ Len(q) = len
  BY <1>1, <1>2, WholeRead DEF queued
<1>4. /\ fs # NULL /\ cells' = cells /\ std_out' = <<cells[fs].v>>
      /\ \/ cells[fs].next = NULL /\ fs' = NULL /\ ls' = NULL /\ len' = 0
         \/ cells[fs].next # NULL /\ fs' = cells[fs].next /\ ls' = ls /\ len' = len - 1
  BY DEF Std!queue_dequeue, Std!LastOut, Std!QueueNil, NULL
<1> DEFINE t == Tail(q)
<1>5. /\ q # <<>> /\ Len(q) > 0 /\ q[1] = fs /\ Path(cells, cells[fs].next, t)
      /\ Len(t) = Len(q) - 1 /\ \A i \in 1 .. Len(q) - 1 : t[i] = q[i + 1]
  <2>1. Path(cells, fs, q)
    BY <1>2 DEF Whole
  <2>. QED  BY <1>4, <2>1, PathTail
<1> HIDE DEF t
<1>6. Whole(cells', fs', ls', len', t)
  <2>1. CASE cells[fs].next = NULL
    <3>1. t = <<>>
      BY <1>5, <2>1, PathNull
    <3>. QED  BY <1>4, <1>5, <2>1, <3>1 DEF Whole
  <2>2. CASE cells[fs].next # NULL
    <3>1. t # <<>> /\ Len(t) > 0
      BY <1>5, <2>2, PathHead
    <3>2. Len(t) \in 1 .. Len(q) - 1 /\ Len(t) + 1 = Len(q)
      BY <1>3, <1>5, <3>1
    <3>3. t[Len(t)] = q[Len(q)]
      BY <1>5, <3>2
    <3>4. q[Len(q)] = ls
      BY <1>2, <1>5 DEF Whole
    <3>. QED  BY <1>3, <1>4, <1>5, <2>2, <3>1, <3>3, <3>4 DEF Whole
  <2>. QED  BY <2>1, <2>2
<1>7. StdInv'
  BY <1>1, <1>4, <1>6 DEF StdInv
<1>8. queued' = Along(cells', t)
  BY <1>1, <1>4, <1>6, WholeRead DEF queued
<1>9. queued # <<>> /\ 1 \in 1 .. Len(q) /\ queued[1] = cells[fs].v
  BY <1>3, <1>5
<1>10. Head(queued) = queued[1] /\ Tail(queued) = [i \in 1 .. Len(queued) - 1 |-> queued[i + 1]]
  BY <1>3, <1>9, TailCells
<1>11. Along(cells', t) = Tail(queued)
  <2>1. Along(cells', t) = [i \in 1 .. len - 1 |-> cells[t[i]].v]
    BY <1>3, <1>4, <1>5 DEF Along
  <2>2. \A i \in 1 .. len - 1 : i + 1 \in 1 .. Len(q)
    BY <1>3
  <2>3. \A i \in 1 .. len - 1 : cells[t[i]].v = queued[i + 1]
    BY <1>3, <1>5, <2>2
  <2>. QED  BY <1>3, <1>10, <2>1, <2>3
<1>. QED  BY <1>4, <1>7, <1>8, <1>9, <1>10, <1>11

LEMMA ClearKeeps ==
  ASSUME StdInv, Std!queue_clear
  PROVE  StdInv' /\ queued' = <<>> /\ std_out' = <<>>
<1>1. cells' = cells /\ fs' = NULL /\ ls' = NULL /\ len' = 0 /\ std_out' = <<>>
  BY DEF Std!queue_clear, Std!QueueNil, NULL
<1>2. cells \in Seq(CellOf(Len(cells))) /\ Forward(cells)
  BY DEF StdInv
<1>3. PICK q : q = <<>> /\ Path(cells, NULL, q)
  BY PathEmpty
<1>4. Whole(cells', fs', ls', len', q)
  BY <1>1, <1>3 DEF Whole
<1>5. queued' = Along(cells', q)
  BY <1>1, <1>2, <1>4, WholeRead DEF queued
<1>6. Along(cells', q) = <<>>
  BY <1>3 DEF Along
<1>7. StdInv'
  BY <1>1, <1>2, <1>4 DEF StdInv
<1>. QED  BY <1>1, <1>5, <1>6, <1>7

\* The questions: all look at the cells from the first on.
StdSame == UNCHANGED <<cells, fs, ls, len>>

LEMMA AskKeeps ==
  ASSUME StdInv, StdSame
  PROVE  /\ StdInv' /\ queued' = queued /\ len = Len(queued) /\ (len = 0 <=> queued = <<>>)
         /\ fs # NULL => queued # <<>> /\ Head(queued) = cells[fs].v
<1>1. cells' = cells /\ fs' = fs /\ ls' = ls /\ len' = len
  BY DEF StdSame
<1>2. cells \in Seq(CellOf(Len(cells))) /\ Forward(cells)
  BY DEF StdInv
<1>3. PICK q : Whole(cells, fs, ls, len, q)
  BY DEF StdInv
<1>4. /\ queued \in Seq(Vals) /\ Len(queued) = len /\ len \in Nat
      /\ \A i \in 1 .. Len(q) : queued[i] = cells[q[i]].v
      /\ Len(q) = len
  BY <1>2, <1>3, WholeRead DEF queued
<1>5. StdInv'
  BY <1>1, <1>2, <1>3 DEF StdInv
<1>6. queued' = queued
  BY <1>1 DEF queued
<1>7. len = 0 <=> queued = <<>>
  BY <1>4
<1>8. ASSUME fs # NULL PROVE queued # <<>> /\ Head(queued) = cells[fs].v
  <2>1. Path(cells, fs, q)
    BY <1>3 DEF Whole
  <2>2. q # <<>> /\ Len(q) > 0 /\ q[1] = fs
    BY <1>8, <2>1, PathHead
  <2>3. 1 \in 1 .. Len(q) /\ queued # <<>> /\ queued[1] = cells[fs].v
    BY <1>4, <2>2
  <2>. QED  BY <1>4, <2>3, TailCells
<1>. QED  BY <1>4, <1>5, <1>6, <1>7, <1>8

LEMMA StdItems == Std!Items = queued /\ Std!Items' = queued'
BY DEF Std!Items, queued, From, Std!QueueNil, NULL


LEMMA NextStd ==
  ASSUME StdInv, [Std!Next]_(Std!vars)
  PROVE  StdInv' /\ [Std!Fifo!Next]_<<queued, std_out>>
<1>1. CASE UNCHANGED Std!vars
  <2>1. StdSame /\ std_out' = std_out
    BY <1>1 DEF StdSame, Std!vars
  <2>. QED  BY <2>1, AskKeeps
<1>2. CASE Std!queue_clear
  BY <1>2, ClearKeeps, StdItems DEF Std!Fifo!Next, Std!Fifo!Make
<1>3. ASSUME NEW x \in Vals, Std!queue_enqueue(x)
      PROVE  StdInv' /\ Std!Fifo!Next
  BY <1>3, EnqueueKeeps, StdItems DEF Std!Fifo!Next, Std!Fifo!Enq
<1>4. CASE Std!queue_dequeue
  BY <1>4, DequeueKeeps, StdItems DEF Std!Fifo!Next, Std!Fifo!Deq
<1>5. CASE Std!queue_peek
  <2>1. StdSame /\ fs # NULL /\ std_out' = <<cells[fs].v>>
    BY <1>5 DEF StdSame, Std!queue_peek, Std!QueueNil, NULL
  <2>. QED  BY <2>1, AskKeeps, StdItems DEF Std!Fifo!Next, Std!Fifo!Peek
<1>6. CASE Std!queue_size
  <2>1. StdSame /\ std_out' = <<len>>
    BY <1>6 DEF StdSame, Std!queue_size
  <2>. QED  BY <2>1, AskKeeps, StdItems DEF Std!Fifo!Next, Std!Fifo!Size
<1>7. CASE Std!queue_is_empty
  <2>1. StdSame /\ std_out' = <<IF len = 0 THEN 1 ELSE 0>>
    BY <1>7 DEF StdSame, Std!queue_is_empty
  <2>2. std_out' = <<IF queued = <<>> THEN 1 ELSE 0>>
    BY <2>1, AskKeeps
  <2>. QED  BY <2>1, <2>2, AskKeeps, StdItems DEF Std!Fifo!Next, Std!Fifo!IsEmpty
<1>. QED  BY <1>1, <1>2, <1>3, <1>4, <1>5, <1>6, <1>7 DEF Std!Next

\* The queue of the standard library implements a queue: its three references, to
\* the first cell, to the last one and to the length, never disagree.
THEOREM StdQueueImplementsFifo == Std!Spec => StdQueueIsFifo
<1>1. Std!Init => StdInv /\ Std!Fifo!Init
  <2>. SUFFICES ASSUME Std!Init PROVE StdInv /\ Std!Fifo!Init
    OBVIOUS
  <2>1. cells = <<>> /\ fs = NULL /\ ls = NULL /\ len = 0 /\ std_out = <<>>
    BY DEF Std!Init, Std!QueueNil, NULL
  <2>2. cells \in Seq(CellOf(Len(cells))) /\ Forward(cells)
    BY <2>1 DEF Forward
  <2>3. PICK q : q = <<>> /\ Path(cells, NULL, q)
    BY PathEmpty
  <2>4. Whole(cells, fs, ls, len, q)
    BY <2>1, <2>3 DEF Whole
  <2>5. queued = <<>>
    <3>1. queued = Along(cells, q)
      BY <2>2, <2>4, WholeRead DEF queued
    <3>. QED  BY <2>3, <3>1 DEF Along
  <2>. QED  BY <2>1, <2>2, <2>4, <2>5, StdItems DEF StdInv, Std!Fifo!Init
<1>2. StdInv /\ [Std!Next]_(Std!vars) => StdInv' /\ [Std!Fifo!Next]_<<Std!Items, std_out>>
  <2>. SUFFICES ASSUME StdInv, [Std!Next]_(Std!vars)
                PROVE  StdInv' /\ [Std!Fifo!Next]_<<Std!Items, std_out>>
    OBVIOUS
  <2>. QED  BY NextStd, StdItems
<1>. QED
  BY <1>1, <1>2, PTL DEF Std!Spec, StdQueueIsFifo, Std!StdQueueIsFifo, Std!Fifo!Spec

-----------------------------------------------------------------------------
(***************************************************************************)
(* Beside one another                                                      *)
(***************************************************************************)
\* A step of one structure leaves the others: each behaves as it would alone.
LEMMA Parts == MCSpec => Spec /\ Array!Spec /\ String!Spec /\ Pair!Spec /\ Std!Spec
<1> DEFINE all == <<user, vars, arrayVars, stringVars, pairVars, stdVars>>
<1>1. [MCNext]_all => [Next]_vars
  BY DEF MCNext, vars
<1>2. [MCNext]_all => [Array!Next]_(Array!vars)
  BY DEF MCNext, arrayVars, Array!vars
<1>3. [MCNext]_all => [String!Next]_(String!vars)
  BY DEF MCNext, stringVars, String!vars
<1>4. [MCNext]_all => [Pair!Next]_(Pair!vars)
  BY DEF MCNext, pairVars, Pair!vars
<1>5. [MCNext]_all => [Std!Next]_(Std!vars)
  BY DEF MCNext, stdVars, Std!vars
<1>6. MCInit => Init /\ Array!Init /\ String!Init /\ Pair!Init /\ Std!Init
  BY DEF MCInit
<1>. QED
  BY <1>1, <1>2, <1>3, <1>4, <1>5, <1>6, PTL
  DEF MCSpec, Spec, Array!Spec, String!Spec, Pair!Spec, Std!Spec

\* Whatever the program does with any of its structures, its lists come to an end
\* and keep their nodes, its queues are queues, its array a vector, its string a
\* text, and its pairs give back what PairGivesBack says.
THEOREM StructuresHold ==
  ASSUME "cycle" \notin Allow
  PROVE  MCSpec => /\ [](TypeOK /\ ListsEnd /\ ArrayTypeOK /\ PairGivesBack)
                   /\ QueueIsFifo /\ OnlySettersChangeLists
                   /\ ArrayIsVector /\ StringIsText /\ StdQueueIsFifo
<1>1. MCSpec => []TypeOK /\ []ListsEnd /\ QueueIsFifo /\ OnlySettersChangeLists
  BY Parts, ListsTyped, ListsComeToAnEnd, QueueImplementsFifo, ListsKeepTheirNodes
<1>2. MCSpec => []ArrayTypeOK /\ ArrayIsVector /\ StringIsText /\ []PairGivesBack /\ StdQueueIsFifo
  BY Parts, ArrayInItsBlock, ArrayImplementsVector, StringImplementsText, PairsGiveBack,
     StdQueueImplementsFifo
<1>. QED  BY <1>1, <1>2, PTL
=============================================================================
