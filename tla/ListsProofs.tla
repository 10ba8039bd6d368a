----------------------------- MODULE ListsProofs -----------------------------
(***************************************************************************)
(* The runtime's lists come to an end and keep their nodes, and its queue  *)
(* is a queue, for all values, variables and numbers of nodes.             *)
(***************************************************************************)
EXTENDS LinkedLists, FiniteSetTheorems, WellFoundedInduction, TLAPS

-----------------------------------------------------------------------------
(***************************************************************************)
(* Following `next'                                                        *)
(***************************************************************************)
\* Every nonempty set of naturals has a least element.
LEMMA LeastNatural ==
  ASSUME NEW T \in SUBSET Nat, T # {}
  PROVE  \E n \in T : \A m \in T : n <= m
<1> DEFINE Less == OpToRel(<, Nat)
<1>1. PICK x \in T : \A y \in T : ~ (<<y, x>> \in Less)
  BY NatLessThanWellFounded, WFMin
<1>2. \A y \in T : x \in Nat /\ y \in Nat /\ <<y, x>> \in Nat \X Nat
  OBVIOUS
<1>3. \A y \in T : ~(<<y, x>>[1] < <<y, x>>[2])
  BY <1>1, <1>2 DEF OpToRel
<1>. QED  BY <1>2, <1>3

\* Induction in the form of a set.
LEMMA NatSetInduction ==
  ASSUME NEW S, 0 \in S, \A n \in Nat : n \in S => n + 1 \in S
  PROVE  \A n \in Nat : n \in S
<1>1. SUFFICES ASSUME Nat \ S # {} PROVE FALSE
  OBVIOUS
<1>2. PICK n \in Nat \ S : \A m \in Nat \ S : n <= m
  BY <1>1, LeastNatural
<1>3. n # 0 /\ n - 1 \in Nat /\ n - 1 < n /\ n = (n - 1) + 1
  BY <1>2
<1>4. n - 1 \in S
  BY <1>2, <1>3
<1>. QED  BY <1>2, <1>3, <1>4

\* Nodes with a `next', whatever else they hold.
IsHeap(h) ==
  /\ Len(h) \in Nat /\ DOMAIN h = 1 .. Len(h)
  /\ \A a \in 1 .. Len(h) : h[a].next \in 0 .. Len(h)

\* One round of a loop over a list, and all of them.
Round(h, xs, at, n) ==
  IF n = 0 THEN xs ELSE IF at[n - 1] = NULL THEN NULL ELSE h[at[n - 1]].next
Follows(h, xs, at, N) == at = [n \in 0 .. N |-> Round(h, xs, at, n)]

LEMMA FollowsExists ==
  ASSUME NEW h, NEW xs, NEW N \in Nat
  PROVE  \E at : Follows(h, xs, at, N)
<1> DEFINE S == {n \in Nat : \E at : Follows(h, xs, at, n)}
<1>1. 0 \in S
  <2> DEFINE at == [n \in 0 .. 0 |-> xs]
  <2>1. \A n \in 0 .. 0 : n = 0
    OBVIOUS
  <2>2. at = [n \in 0 .. 0 |-> Round(h, xs, at, n)]
    BY <2>1 DEF Round
  <2>. QED  BY <2>2 DEF Follows
<1>2. ASSUME NEW n \in Nat, n \in S PROVE n + 1 \in S
  <2>1. PICK f : Follows(h, xs, f, n)
    BY <1>2
  <2> DEFINE x == Round(h, xs, f, n + 1)
             g == [i \in 0 .. n + 1 |-> IF i = n + 1 THEN x ELSE f[i]]
  <2>2. ASSUME NEW i \in 0 .. n + 1 PROVE g[i] = Round(h, xs, g, i)
    <3>1. i = 0 \/ (i - 1 \in 0 .. n + 1 /\ i - 1 # n + 1)
      OBVIOUS
    <3>2. i = 0 \/ f[i - 1] = g[i - 1]
      BY <3>1
    <3>3. Round(h, xs, f, i) = Round(h, xs, g, i)
      BY <3>2 DEF Round
    <3>4. i # n + 1 => f[i] = Round(h, xs, f, i)
      BY <2>1 DEF Follows
    <3>. QED  BY <3>3, <3>4
  <2> HIDE DEF x
  <2>3. g = [i \in 0 .. n + 1 |-> g[i]]
    OBVIOUS
  <2> HIDE DEF g
  <2>4. g = [i \in 0 .. n + 1 |-> Round(h, xs, g, i)]
    BY <2>2, <2>3
  <2>. QED  BY <2>4 DEF Follows
<1> HIDE DEF S
<1>3. N \in S
  BY <1>1, <1>2, NatSetInduction
<1>. QED  BY <1>3 DEF S

LEMMA FollowingFollows ==
  ASSUME NEW h, NEW xs, Len(h) \in Nat
  PROVE  /\ DOMAIN Following(h, xs) = 0 .. Len(h)
         /\ \A n \in 0 .. Len(h) : Following(h, xs)[n] = Round(h, xs, Following(h, xs), n)
<1> DEFINE at == Following(h, xs)
<1>1. at = CHOOSE f : Follows(h, xs, f, Len(h))
  BY DEF Following, Follows, Round
<1>2. Follows(h, xs, at, Len(h))
  BY <1>1, FollowsExists
<1> HIDE DEF at
<1>3. at = [n \in 0 .. Len(h) |-> Round(h, xs, at, n)]
  BY <1>2 DEF Follows
<1>. QED  BY <1>3 DEF at

\* It meets nodes, then NULL for good.
LEMMA FollowingTyped ==
  ASSUME NEW h, IsHeap(h), NEW xs \in 0 .. Len(h)
  PROVE  \A n \in 0 .. Len(h) : Following(h, xs)[n] \in 0 .. Len(h)
<1> DEFINE at == Following(h, xs)
           S == {n \in Nat : n <= Len(h) => at[n] \in 0 .. Len(h)}
<1>1. Len(h) \in Nat /\ \A n \in 0 .. Len(h) : at[n] = Round(h, xs, at, n)
  BY FollowingFollows DEF IsHeap
<1> HIDE DEF at
<1>2. 0 \in S
  BY <1>1 DEF Round
<1>3. ASSUME NEW n \in Nat, n \in S PROVE n + 1 \in S
  <2>. SUFFICES ASSUME n + 1 <= Len(h) PROVE at[n + 1] \in 0 .. Len(h)
    OBVIOUS
  <2>1. n \in 0 .. Len(h) /\ n + 1 \in 0 .. Len(h) /\ (n + 1) - 1 = n /\ n + 1 # 0
    BY <1>1
  <2>2. at[n] \in 0 .. Len(h)
    BY <1>3, <2>1
  <2>3. at[n + 1] = IF at[n] = NULL THEN NULL ELSE h[at[n]].next
    BY <1>1, <2>1 DEF Round
  <2>. QED  BY <1>1, <2>2, <2>3 DEF IsHeap, NULL
<1> HIDE DEF S
<1>4. \A n \in Nat : n \in S
  BY <1>2, <1>3, NatSetInduction
<1>. QED  BY <1>1, <1>4 DEF S, at

-----------------------------------------------------------------------------
(***************************************************************************)
(* Paths: the nodes of a list, in their order                              *)
(***************************************************************************)
Nth(q, i) == IF i \in 1 .. Len(q) THEN q[i] ELSE NULL

Path(h, xs, q) ==
  /\ q \in Seq(1 .. Len(h))
  /\ xs = Nth(q, 1)
  /\ \A i \in 1 .. Len(q) : h[q[i]].next = Nth(q, i + 1)

\* A rank that falls along every list: there is no cycle.
Ranked(h, d) ==
  /\ d \in [1 .. Len(h) -> Nat]
  /\ \A a \in 1 .. Len(h) : h[a].next # NULL => d[h[a].next] < d[a]

\* Following from the head of a path meets its nodes.
LEMMA PathFollowed ==
  ASSUME NEW h, Len(h) \in Nat, NEW xs, NEW q, Path(h, xs, q)
  PROVE  \A n \in 0 .. Len(h) : Following(h, xs)[n] = Nth(q, n + 1)
<1> DEFINE at == Following(h, xs)
           S == {n \in Nat : n <= Len(h) => at[n] = Nth(q, n + 1)}
<1>1. \A n \in 0 .. Len(h) : at[n] = Round(h, xs, at, n)
  BY FollowingFollows
<1>2. q \in Seq(1 .. Len(h)) /\ Len(q) \in Nat /\ xs = Nth(q, 1)
      /\ \A i \in 1 .. Len(q) : h[q[i]].next = Nth(q, i + 1)
  BY DEF Path
<1> HIDE DEF at
<1>3. 0 \in S
  <2>1. 0 \in 0 .. Len(h)
    OBVIOUS
  <2>2. at[0] = xs
    BY <1>1, <2>1 DEF Round
  <2>. QED  BY <1>2, <2>2
<1>4. ASSUME NEW n \in Nat, n \in S PROVE n + 1 \in S
  <2>. SUFFICES ASSUME n + 1 <= Len(h) PROVE at[n + 1] = Nth(q, n + 2)
    OBVIOUS
  <2>1. n \in 0 .. Len(h) /\ n + 1 \in 0 .. Len(h) /\ (n + 1) - 1 = n /\ n + 1 # 0
    OBVIOUS
  <2>2. at[n] = Nth(q, n + 1)
    BY <1>4, <2>1
  <2>3. at[n + 1] = IF at[n] = NULL THEN NULL ELSE h[at[n]].next
    BY <1>1, <2>1 DEF Round
  <2>4. CASE n + 1 \in 1 .. Len(q)
    <3>1. at[n] = q[n + 1] /\ q[n + 1] \in 1 .. Len(h)
      BY <1>2, <2>2, <2>4 DEF Nth
    <3>2. at[n] # NULL
      BY <3>1 DEF NULL
    <3>3. h[q[n + 1]].next = Nth(q, (n + 1) + 1)
      BY <1>2, <2>4
    <3>. QED  BY <2>3, <3>1, <3>2, <3>3
  <2>5. CASE n + 1 \notin 1 .. Len(q)
    <3>1. n + 2 \notin 1 .. Len(q)
      BY <1>2, <2>5
    <3>. QED  BY <2>2, <2>3, <2>5, <3>1 DEF Nth
  <2>. QED  BY <2>4, <2>5
<1> HIDE DEF S
<1>5. \A n \in Nat : n \in S
  BY <1>3, <1>4, NatSetInduction
<1>. QED  BY <1>5 DEF S, at

\* A node in front of a path.
LEMMA PathCons ==
  ASSUME NEW h, NEW a \in 1 .. Len(h), NEW q, Path(h, h[a].next, q)
  PROVE  Path(h, a, <<a>> \o q)
<1> DEFINE r == <<a>> \o q
<1>1. q \in Seq(1 .. Len(h)) /\ Len(q) \in Nat /\ h[a].next = Nth(q, 1)
      /\ \A i \in 1 .. Len(q) : h[q[i]].next = Nth(q, i + 1)
  BY DEF Path
<1>2. r \in Seq(1 .. Len(h)) /\ Len(r) = Len(q) + 1 /\ r[1] = a
      /\ \A i \in 1 .. Len(q) : r[i + 1] = q[i]
  BY <1>1
<1> HIDE DEF r
<1>3. \A i \in Nat : i > 0 => Nth(r, i + 1) = Nth(q, i)
  BY <1>1, <1>2 DEF Nth
<1>4. ASSUME NEW i \in 1 .. Len(r) PROVE h[r[i]].next = Nth(r, i + 1)
  <2>1. CASE i = 1
    <3>1. Nth(r, 1 + 1) = Nth(q, 1)
      BY <1>3
    <3>. QED  BY <1>1, <1>2, <2>1, <3>1
  <2>2. CASE i # 1
    <3> DEFINE j == i - 1
    <3>1. j \in 1 .. Len(q) /\ i = j + 1 /\ i \in Nat /\ i > 0 /\ j + 1 \in Nat
      BY <1>1, <1>2, <2>2
    <3> HIDE DEF j
    <3>2. r[i] = q[j] /\ h[q[j]].next = Nth(q, j + 1)
      BY <1>1, <1>2, <3>1
    <3>3. Nth(r, i + 1) = Nth(q, i)
      BY <1>3, <3>1
    <3>. QED  BY <3>1, <3>2, <3>3
  <2>. QED  BY <2>1, <2>2
<1>5. Nth(r, 1) = a
  BY <1>1, <1>2 DEF Nth
<1>. QED  BY <1>2, <1>4, <1>5 DEF Path, r

LEMMA PathEmpty == \A h : Path(h, NULL, <<>>)
BY DEF Path, Nth

\* Where there is no cycle every list has a path.
LEMMA PathExists ==
  ASSUME NEW h, IsHeap(h), NEW d, Ranked(h, d), NEW xs \in 0 .. Len(h)
  PROVE  \E q : Path(h, xs, q)
<1> DEFINE S == {n \in Nat : \A a \in 1 .. Len(h) : d[a] < n => \E q : Path(h, a, q)}
<1>1. 0 \in S
  BY DEF Ranked
<1>2. ASSUME NEW n \in Nat, n \in S PROVE n + 1 \in S
  <2>. SUFFICES ASSUME NEW a \in 1 .. Len(h), d[a] < n + 1 PROVE \E q : Path(h, a, q)
    OBVIOUS
  <2>1. PICK q : Path(h, h[a].next, q)
    <3>1. CASE h[a].next = NULL
      BY <3>1, PathEmpty
    <3>2. CASE h[a].next # NULL
      <4>1. h[a].next \in 1 .. Len(h) /\ d[h[a].next] < d[a] /\ d[a] \in Nat /\ d[h[a].next] \in Nat
        BY <3>2 DEF IsHeap, Ranked, NULL
      <4>2. d[h[a].next] < n
        BY <4>1
      <4>. QED  BY <1>2, <4>1, <4>2
    <3>. QED  BY <3>1, <3>2
  <2>. QED  BY <2>1, PathCons
<1> HIDE DEF S
<1>3. \A n \in Nat : n \in S
  BY <1>1, <1>2, NatSetInduction
<1>4. CASE xs = NULL
  BY <1>4, PathEmpty
<1>5. CASE xs # NULL
  <2>1. xs \in 1 .. Len(h) /\ d[xs] \in Nat
    BY <1>5 DEF NULL, Ranked, IsHeap
  <2>2. d[xs] + 1 \in S /\ d[xs] < d[xs] + 1
    BY <1>3, <2>1
  <2>. QED  BY <2>1, <2>2 DEF S
<1>. QED  BY <1>4, <1>5

\* A path meets no node twice.
LEMMA PathFalls ==
  ASSUME NEW h, IsHeap(h), NEW d, Ranked(h, d), NEW xs, NEW q, Path(h, xs, q)
  PROVE  \A i, j \in 1 .. Len(q) : i < j => d[q[j]] < d[q[i]]
<1>1. q \in Seq(1 .. Len(h)) /\ Len(q) \in Nat
      /\ \A i \in 1 .. Len(q) : q[i] \in 1 .. Len(h) /\ d[q[i]] \in Nat
  BY DEF Path, Ranked
<1>2. ASSUME NEW i \in 1 .. Len(q), i + 1 \in 1 .. Len(q) PROVE d[q[i + 1]] < d[q[i]]
  <2>1. h[q[i]].next = q[i + 1]
    BY <1>2 DEF Path, Nth
  <2>2. q[i + 1] # NULL
    BY <1>1, <1>2 DEF NULL
  <2>. QED  BY <1>1, <2>1, <2>2 DEF Ranked
<1> DEFINE S == {k \in Nat : \A i, j \in 1 .. Len(q) : j = i + k + 1 => d[q[j]] < d[q[i]]}
<1>3. 0 \in S
  BY <1>2
<1>4. ASSUME NEW k \in Nat, k \in S PROVE k + 1 \in S
  <2>. SUFFICES ASSUME NEW i \in 1 .. Len(q), NEW j \in 1 .. Len(q), j = i + (k + 1) + 1
                PROVE  d[q[j]] < d[q[i]]
    OBVIOUS
  <2> DEFINE m == i + k + 1
  <2>1. m \in 1 .. Len(q) /\ j = m + 1
    BY <1>1
  <2> HIDE DEF m
  <2>2. d[q[j]] < d[q[m]]
    BY <1>2, <2>1
  <2>3. d[q[m]] < d[q[i]]
    <3>1. \A x, y \in 1 .. Len(q) : y = x + k + 1 => d[q[y]] < d[q[x]]
      BY <1>4
    <3>. QED  BY <2>1, <3>1 DEF m
  <2>4. d[q[i]] \in Nat /\ d[q[m]] \in Nat /\ d[q[j]] \in Nat
    BY <1>1, <2>1
  <2>. QED  BY <2>2, <2>3, <2>4
<1> HIDE DEF S
<1>5. \A k \in Nat : k \in S
  BY <1>3, <1>4, NatSetInduction
<1>. SUFFICES ASSUME NEW i \in 1 .. Len(q), NEW j \in 1 .. Len(q), i < j
              PROVE  d[q[j]] < d[q[i]]
  OBVIOUS
<1>6. (j - i) - 1 \in Nat /\ j = i + ((j - i) - 1) + 1
  OBVIOUS
<1>. QED  BY <1>5, <1>6 DEF S

LEMMA Interval ==
  ASSUME NEW n \in Nat
  PROVE  IsFiniteSet(1 .. n) /\ Cardinality(1 .. n) = n
BY FS_Interval

\* So it is not longer than the heap.
LEMMA PathShort ==
  ASSUME NEW h, IsHeap(h), NEW d, Ranked(h, d), NEW xs, NEW q, Path(h, xs, q)
  PROVE  Len(q) <= Len(h)
<1>1. q \in [1 .. Len(q) -> 1 .. Len(h)] /\ Len(q) \in Nat /\ Len(h) \in Nat
  BY DEF Path, IsHeap
<1>2. SUFFICES ASSUME Len(h) < Len(q) PROVE FALSE
  BY <1>1
<1>3. /\ IsFiniteSet(1 .. Len(q)) /\ Cardinality(1 .. Len(q)) = Len(q)
      /\ IsFiniteSet(1 .. Len(h)) /\ Cardinality(1 .. Len(h)) = Len(h)
  BY <1>1, Interval
<1>4. PICK i, j \in 1 .. Len(q) : i # j /\ q[i] = q[j]
  BY <1>1, <1>2, <1>3, FS_PigeonHole
<1>5. d[q[i]] \in Nat /\ (i < j \/ j < i)
  BY <1>1, <1>4 DEF Ranked
<1>. QED  BY <1>4, <1>5, PathFalls

\* How often a loop runs that meets nodes for c rounds, then NULL.
LEMMA RoundsAre ==
  ASSUME NEW at, NEW N \in Nat, DOMAIN at = 0 .. N, NEW c \in Nat,
         \A n \in 0 .. N : n < c => at[n] # NULL,
         \A n \in 0 .. N : n >= c => at[n] = NULL,
         c <= N + 1
  PROVE  Rounds(at) = c
<1>1. {n \in DOMAIN at : at[n] # NULL} = 0 .. c - 1
  OBVIOUS
<1>2. Cardinality(0 .. c - 1) = c
  <2>1. 0 \in Int /\ c - 1 \in Int
    OBVIOUS
  <2>2. Cardinality(0 .. c - 1) = IF 0 > c - 1 THEN 0 ELSE (c - 1) - 0 + 1
    BY <2>1, FS_Interval
  <2>. QED  BY <2>2
<1>. QED  BY <1>1, <1>2 DEF Rounds

\* What the loops over a list read off its path.
LEMMA PathReads ==
  ASSUME NEW h, IsHeap(h), NEW d, Ranked(h, d), NEW xs, NEW q, Path(h, xs, q)
  PROVE  /\ Following(h, xs)[Len(h)] = NULL
         /\ Nodes(h, xs) = {q[i] : i \in 1 .. Len(q)}
         /\ listLen(h, xs) = Len(q)
         /\ Values(h, xs) = [i \in 1 .. Len(q) |-> h[q[i]].value]
<1> DEFINE at == Following(h, xs)
<1>1. /\ Len(h) \in Nat /\ Len(q) \in Nat /\ Len(q) <= Len(h)
      /\ \A i \in 1 .. Len(q) : q[i] \in 1 .. Len(h)
  <2>1. q \in Seq(1 .. Len(h)) /\ Len(h) \in Nat
    BY DEF IsHeap, Path
  <2>2. Len(q) <= Len(h)
    BY PathShort
  <2>. QED  BY <2>1, <2>2
<1>2. DOMAIN at = 0 .. Len(h) /\ \A n \in 0 .. Len(h) : at[n] = Nth(q, n + 1)
  BY <1>1, FollowingFollows, PathFollowed
<1> HIDE DEF at
<1>3. \A n \in 0 .. Len(h) : n < Len(q) => at[n] = q[n + 1] /\ at[n] # NULL
  BY <1>1, <1>2 DEF Nth, NULL
<1>4. \A n \in 0 .. Len(h) : n >= Len(q) => at[n] = NULL
  BY <1>1, <1>2 DEF Nth
<1>5. at[Len(h)] = NULL
  BY <1>1, <1>4
<1>6. Rounds(at) = Len(q)
  <2>1. /\ \A n \in 0 .. Len(h) : n < Len(q) => at[n] # NULL
        /\ \A n \in 0 .. Len(h) : n >= Len(q) => at[n] = NULL
        /\ DOMAIN at = 0 .. Len(h) /\ Len(q) <= Len(h) + 1
    BY <1>1, <1>2, <1>3, <1>4
  <2>. QED  BY <1>1, <2>1, RoundsAre
<1>7. \A i \in 1 .. Len(q) : i - 1 \in 0 .. Len(h) /\ at[i - 1] = q[i]
  BY <1>1, <1>3
<1>8. {at[n] : n \in DOMAIN at} \ {NULL} = {q[i] : i \in 1 .. Len(q)}
  <2>1. ASSUME NEW n \in 0 .. Len(h), at[n] # NULL PROVE \E i \in 1 .. Len(q) : at[n] = q[i]
    <3>1. n < Len(q) /\ n + 1 \in 1 .. Len(q)
      BY <1>1, <1>4, <2>1
    <3>. QED  BY <1>3, <3>1
  <2>2. \A i \in 1 .. Len(q) : q[i] # NULL
    BY <1>1 DEF NULL
  <2>3. ASSUME NEW i \in 1 .. Len(q) PROVE q[i] \in {at[n] : n \in DOMAIN at} \ {NULL}
    <3>1. i - 1 \in DOMAIN at /\ at[i - 1] = q[i]
      BY <1>2, <1>7
    <3>. QED  BY <2>2, <3>1
  <2>. QED  BY <1>2, <2>1, <2>3
<1>9. [i \in 1 .. Rounds(at) |-> h[at[i - 1]].value] = [i \in 1 .. Len(q) |-> h[q[i]].value]
  BY <1>6, <1>7
<1>. QED  BY <1>5, <1>6, <1>8, <1>9 DEF at, Nodes, listLen, Values

\* A path stays one in a heap that has its nodes as they were.
LEMMA PathKeeps ==
  ASSUME NEW h, NEW g, Len(h) \in Nat, Len(g) \in Nat, Len(h) <= Len(g),
         NEW xs, NEW q, Path(h, xs, q),
         \A i \in 1 .. Len(q) : g[q[i]].next = h[q[i]].next
  PROVE  Path(g, xs, q)
<1>1. q \in Seq(1 .. Len(g))
  <2>1. 1 .. Len(h) \subseteq 1 .. Len(g)
    OBVIOUS
  <2>. QED  BY <2>1 DEF Path
<1>. QED  BY <1>1 DEF Path

\* The nodes of a path stay among those that `next' does not leave.
LEMMA PathWithin ==
  ASSUME NEW h, NEW P, \A a \in 1 .. Len(h) : a \in P /\ h[a].next # NULL => h[a].next \in P,
         NEW xs, NEW q, Path(h, xs, q), xs # NULL => xs \in P
  PROVE  \A i \in 1 .. Len(q) : q[i] \in P
<1> DEFINE S == {k \in Nat : k + 1 \in 1 .. Len(q) => q[k + 1] \in P}
<1>1. q \in Seq(1 .. Len(h)) /\ Len(q) \in Nat /\ \A i \in 1 .. Len(q) : q[i] \in 1 .. Len(h)
  BY DEF Path
<1>2. 0 \in S
  <2>. SUFFICES ASSUME 1 \in 1 .. Len(q) PROVE q[1] \in P
    OBVIOUS
  <2>1. xs = q[1] /\ q[1] # NULL
    BY <1>1 DEF Path, Nth, NULL
  <2>. QED  BY <2>1
<1>3. ASSUME NEW k \in Nat, k \in S PROVE k + 1 \in S
  <2>. SUFFICES ASSUME (k + 1) + 1 \in 1 .. Len(q) PROVE q[(k + 1) + 1] \in P
    OBVIOUS
  <2>1. k + 1 \in 1 .. Len(q) /\ q[k + 1] \in P
    BY <1>1, <1>3
  <2>2. h[q[k + 1]].next = q[(k + 1) + 1] /\ q[(k + 1) + 1] # NULL
    BY <1>1, <2>1 DEF Path, Nth, NULL
  <2>. QED  BY <1>1, <2>1, <2>2
<1> HIDE DEF S
<1>4. \A k \in Nat : k \in S
  BY <1>2, <1>3, NatSetInduction
<1>5. ASSUME NEW i \in 1 .. Len(q) PROVE q[i] \in P
  <2>1. i - 1 \in Nat /\ (i - 1) + 1 = i
    OBVIOUS
  <2>. QED  BY <1>4, <2>1 DEF S
<1>. QED  BY <1>5

\* The rest of a path, and one more node at its end.
LEMMA PathTail ==
  ASSUME NEW h, NEW xs, xs # NULL, NEW q, Path(h, xs, q)
  PROVE  /\ q # <<>> /\ Len(q) > 0 /\ q[1] = xs /\ xs \in 1 .. Len(h)
         /\ Path(h, h[xs].next, Tail(q))
         /\ Len(Tail(q)) = Len(q) - 1 /\ \A i \in 1 .. Len(q) - 1 : Tail(q)[i] = q[i + 1]
<1>1. q \in Seq(1 .. Len(h)) /\ Len(q) \in Nat /\ xs = Nth(q, 1)
      /\ \A i \in 1 .. Len(q) : h[q[i]].next = Nth(q, i + 1)
  BY DEF Path
<1>2. Len(q) > 0 /\ q # <<>> /\ q[1] = xs /\ xs \in 1 .. Len(h)
  BY <1>1 DEF Nth
<1> DEFINE r == Tail(q)
<1>3. r \in Seq(1 .. Len(h)) /\ Len(r) = Len(q) - 1 /\ \A i \in 1 .. Len(q) - 1 : r[i] = q[i + 1]
  BY <1>1, <1>2
<1> HIDE DEF r
<1>4. \A i \in Nat : i > 0 => Nth(r, i) = Nth(q, i + 1)
  BY <1>1, <1>3 DEF Nth
<1>5. h[xs].next = Nth(r, 1)
  <2>1. h[q[1]].next = Nth(q, 1 + 1)
    BY <1>1, <1>2
  <2>2. Nth(r, 1) = Nth(q, 1 + 1)
    BY <1>4
  <2>. QED  BY <1>2, <2>1, <2>2
<1>6. ASSUME NEW i \in 1 .. Len(r) PROVE h[r[i]].next = Nth(r, i + 1)
  <2>1. i + 1 \in 1 .. Len(q) /\ i + 1 \in Nat /\ i + 1 > 0 /\ r[i] = q[i + 1]
    BY <1>1, <1>3
  <2>2. h[q[i + 1]].next = Nth(q, (i + 1) + 1) /\ Nth(r, i + 1) = Nth(q, (i + 1) + 1)
    BY <1>1, <1>4, <2>1
  <2>. QED  BY <2>1, <2>2
<1>7. Path(h, h[xs].next, r)
  BY <1>3, <1>5, <1>6 DEF Path
<1>. QED  BY <1>2, <1>3, <1>7 DEF r

\* The first node of a path that has one.
LEMMA PathHead ==
  ASSUME NEW h, NEW xs, xs # NULL, NEW q, Path(h, xs, q)
  PROVE  q # <<>> /\ Len(q) > 0 /\ q[1] = xs /\ xs \in 1 .. Len(h)
BY PathTail

LEMMA PathAppend ==
  ASSUME NEW h, NEW g, Len(h) \in Nat, Len(g) \in Nat, Len(h) <= Len(g),
         NEW xs, xs # NULL, NEW q, Path(h, xs, q), NEW n \in 1 .. Len(g), g[n].next = NULL,
         g[q[Len(q)]].next = n,
         \A i \in 1 .. Len(q) - 1 : g[q[i]].next = h[q[i]].next
  PROVE  Path(g, xs, Append(q, n))
<1> DEFINE r == Append(q, n)
<1>1. q \in Seq(1 .. Len(h)) /\ Len(q) \in Nat /\ Len(q) > 0 /\ xs = q[1]
      /\ \A i \in 1 .. Len(q) : h[q[i]].next = Nth(q, i + 1)
  BY DEF Path, Nth
<1>2. r \in Seq(1 .. Len(g)) /\ Len(r) = Len(q) + 1 /\ r[Len(q) + 1] = n
      /\ \A i \in 1 .. Len(q) : r[i] = q[i]
  <2>1. q \in Seq(1 .. Len(g))
    BY <1>1
  <2>. QED  BY <1>1, <2>1
<1> HIDE DEF r
<1>3. Nth(r, 1) = xs
  BY <1>1, <1>2 DEF Nth
<1>4. ASSUME NEW i \in 1 .. Len(r) PROVE g[r[i]].next = Nth(r, i + 1)
  <2>1. CASE i = Len(q) + 1
    BY <1>1, <1>2, <2>1 DEF Nth
  <2>2. CASE i = Len(q)
    BY <1>1, <1>2, <2>2 DEF Nth
  <2>3. CASE i \in 1 .. Len(q) - 1
    <3>1. i \in 1 .. Len(q) /\ i + 1 \in 1 .. Len(q) /\ i + 1 \in 1 .. Len(r)
      BY <1>1, <1>2, <2>3
    <3>2. g[q[i]].next = q[i + 1]
      BY <1>1, <2>3, <3>1 DEF Nth
    <3>. QED  BY <1>2, <3>1, <3>2 DEF Nth
  <2>. QED  BY <1>1, <1>2, <2>1, <2>2, <2>3
<1>. QED  BY <1>2, <1>3, <1>4 DEF Path, r

-----------------------------------------------------------------------------
(***************************************************************************)
(* The invariant: no cycle; the nodes the queue was made of, Q, are no     *)
(* list's; the queue's last node is its rear.                              *)
(***************************************************************************)
Ends(h, qu) == \E q : Path(h, qu.front, q) /\ (q # <<>> => q[Len(q)] = qu.rear)

Apart(h, li, qu, Q) ==
  /\ Q \subseteq 1 .. Len(h)
  /\ \A a \in 1 .. Len(h) : a \in Q /\ h[a].next # NULL => h[a].next \in Q
  /\ \A a \in 1 .. Len(h) : h[a].next \in Q => a \in Q
  /\ \A x \in Vars : li[x] \notin Q
  /\ qu.front # NULL => qu.front \in Q

Shape(h, li, qu, Q, d) == Ranked(h, d) /\ Apart(h, li, qu, Q) /\ Ends(h, qu)

LInv == \E Q, d : Shape(heap, lists, queue, Q, d)

NodeOf(N) == [value : Int, next : 0 .. N]

LEMMA Typed ==
  ASSUME TypeOK
  PROVE  /\ IsHeap(heap) /\ Len(heap) \in Nat /\ heap \in Seq(NodeOf(Len(heap)))
         /\ \A a \in 1 .. Len(heap) : heap[a] \in NodeOf(Len(heap))
         /\ \A x \in Vars : lists[x] \in 0 .. Len(heap)
         /\ queue.front \in 0 .. Len(heap) /\ queue.rear \in 0 .. Len(heap)
<1>1. heap \in Seq(NodeOf(Len(heap))) /\ Len(heap) \in Nat
  BY DEF TypeOK, NodeOf
<1>2. \A a \in 1 .. Len(heap) : heap[a] \in NodeOf(Len(heap))
  BY <1>1
<1>3. IsHeap(heap)
  BY <1>1, <1>2 DEF IsHeap, NodeOf
<1>. QED  BY <1>1, <1>2, <1>3 DEF TypeOK

Read(h, q) == [i \in 1 .. Len(q) |-> h[q[i]].value]

LEMMA PathRead ==
  ASSUME NEW h, IsHeap(h), NEW d, Ranked(h, d), NEW xs, NEW q, Path(h, xs, q)
  PROVE  Values(h, xs) = Read(h, q)
BY PathReads DEF Read

\* The nodes of the queue, and its values.
LEMMA Items ==
  ASSUME NEW h, IsHeap(h), NEW li, NEW qu, NEW Q, NEW d, Shape(h, li, qu, Q, d)
  PROVE  \E q : /\ Path(h, qu.front, q) /\ q \in Seq(1 .. Len(h)) /\ Len(q) \in Nat
                /\ q # <<>> => q[Len(q)] = qu.rear
                /\ \A i \in 1 .. Len(q) : q[i] \in Q /\ q[i] \in 1 .. Len(h)
                /\ listLen(h, qu.front) = Len(q)
                /\ Values(h, qu.front) = Read(h, q)
<1>1. Ranked(h, d) /\ Apart(h, li, qu, Q)
  BY DEF Shape
<1>2. PICK q : Path(h, qu.front, q) /\ (q # <<>> => q[Len(q)] = qu.rear)
  BY DEF Shape, Ends
<1>3. q \in Seq(1 .. Len(h)) /\ Len(q) \in Nat /\ \A i \in 1 .. Len(q) : q[i] \in 1 .. Len(h)
  BY <1>2 DEF Path
<1>4. \A i \in 1 .. Len(q) : q[i] \in Q
  <2>1. \A a \in 1 .. Len(h) : a \in Q /\ h[a].next # NULL => h[a].next \in Q
    BY <1>1 DEF Apart
  <2>2. qu.front # NULL => qu.front \in Q
    BY <1>1 DEF Apart
  <2>. QED  BY <1>2, <2>1, <2>2, PathWithin
<1>5. /\ listLen(h, qu.front) = Len(q)
      /\ Values(h, qu.front) = Read(h, q)
  BY <1>1, <1>2, PathReads DEF Read
<1>. QED  BY <1>2, <1>3, <1>4, <1>5

\* The queue's values stay while its nodes do.
LEMMA ItemsKept ==
  ASSUME NEW h, IsHeap(h), NEW g, IsHeap(g), Len(h) <= Len(g), NEW li, NEW ms, NEW qu,
         NEW Q, NEW d, Shape(h, li, qu, Q, d), NEW R, NEW e, Shape(g, ms, qu, R, e),
         \A a \in Q : g[a] = h[a]
  PROVE  Values(g, qu.front) = Values(h, qu.front)
<1>1. PICK q : /\ Path(h, qu.front, q)
               /\ \A i \in 1 .. Len(q) : q[i] \in Q /\ q[i] \in 1 .. Len(h)
               /\ Values(h, qu.front) = Read(h, q)
  BY Items
<1>2. \A i \in 1 .. Len(q) : g[q[i]] = h[q[i]]
  BY <1>1
<1>3. Path(g, qu.front, q)
  BY <1>1, <1>2, PathKeeps DEF IsHeap
<1>4. Values(g, qu.front) = Read(g, q)
  BY <1>3, PathReads DEF Shape, Read
<1>5. Read(g, q) = Read(h, q)
  BY <1>2 DEF Read
<1>. QED  BY <1>1, <1>4, <1>5

\* The end of the queue is where it was while its nodes have their `next'.
LEMMA EndsKept ==
  ASSUME NEW h, IsHeap(h), NEW g, Len(g) \in Nat, Len(h) <= Len(g), NEW li, NEW qu,
         NEW Q, NEW d, Shape(h, li, qu, Q, d),
         \A a \in Q : g[a].next = h[a].next
  PROVE  Ends(g, qu)
<1>1. PICK q : /\ Path(h, qu.front, q)
               /\ q # <<>> => q[Len(q)] = qu.rear
               /\ \A i \in 1 .. Len(q) : q[i] \in Q
  BY Items
<1>2. Path(g, qu.front, q)
  BY <1>1, PathKeeps DEF IsHeap
<1>. QED  BY <1>1, <1>2 DEF Ends

\* Fresh nodes in front of xs.
LEMMA BuildShape ==
  ASSUME TypeOK, NEW Q, NEW d, Shape(heap, lists, queue, Q, d),
         NEW r \in Vars, NEW vs \in Seq(Int), NEW xs \in 0 .. Len(heap), xs \notin Q,
         Build(r, vs, xs), UNCHANGED <<queue, queue_out>>
  PROVE  /\ TypeOK' /\ Len(heap) <= Len(heap')
         /\ \A a \in 1 .. Len(heap) : heap'[a] = heap[a]
         /\ \E e : Shape(heap', lists', queue', Q, e)
<1> DEFINE N == Len(heap)
           M == Len(vs)
           new == [i \in 1 .. M |-> node_t(vs[i], IF i = M THEN xs ELSE N + i + 1)]
           base == IF xs = NULL THEN 0 ELSE d[xs] + 1
           e == [a \in 1 .. N + M |-> IF a <= N THEN d[a] ELSE base + (N + M - a)]
<1>1. /\ N \in Nat /\ IsHeap(heap) /\ heap \in Seq(NodeOf(N)) /\ M \in Nat
      /\ \A a \in 1 .. N : heap[a] \in NodeOf(N)
      /\ \A x \in Vars : lists[x] \in 0 .. N
      /\ queue.front \in 0 .. N /\ queue.rear \in 0 .. N
  BY Typed
<1>2. Ranked(heap, d) /\ Apart(heap, lists, queue, Q)
  BY DEF Shape
<1>3. heap' = heap \o new /\ queue' = queue
      /\ lists' = [lists EXCEPT ![r] = IF vs = <<>> THEN xs ELSE N + 1]
  BY DEF Build
<1>4. new \in Seq(NodeOf(N + M)) /\ Len(new) = M
  <2>1. ASSUME NEW i \in 1 .. M PROVE new[i] \in NodeOf(N + M)
    <3>1. vs[i] \in Int /\ (IF i = M THEN xs ELSE N + i + 1) \in 0 .. N + M
      BY <1>1
    <3>. QED  BY <3>1 DEF NodeOf, node_t
  <2>. QED  BY <1>1, <2>1
<1>5. \A i \in 1 .. M : new[i].next = IF i = M THEN xs ELSE N + i + 1
  BY DEF node_t
<1> HIDE DEF new
<1>6. heap \in Seq(NodeOf(N + M))
  <2>1. NodeOf(N) \subseteq NodeOf(N + M)
    BY <1>1 DEF NodeOf
  <2>. QED  BY <1>1, <2>1
<1>7. /\ heap' \in Seq(NodeOf(N + M)) /\ Len(heap') = N + M
      /\ \A a \in 1 .. N : heap'[a] = heap[a]
      /\ \A i \in 1 .. M : heap'[N + i] = new[i]
  <2>1. /\ heap \o new \in Seq(NodeOf(N + M)) /\ Len(heap \o new) = N + Len(new)
        /\ \A a \in 1 .. N : (heap \o new)[a] = heap[a]
        /\ \A i \in 1 .. Len(new) : (heap \o new)[N + i] = new[i]
    <3>1. ASSUME NEW T, heap \in Seq(T), new \in Seq(T)
          PROVE  /\ heap \o new \in Seq(T) /\ Len(heap \o new) = Len(heap) + Len(new)
                 /\ \A a \in 1 .. Len(heap) : (heap \o new)[a] = heap[a]
                 /\ \A i \in 1 .. Len(new) : (heap \o new)[Len(heap) + i] = new[i]
      BY <3>1
    <3>. QED  BY <1>4, <1>6, <3>1
  <2>. QED  BY <1>3, <1>4, <2>1
<1>8. \A a \in 1 .. N + M : a > N => heap'[a].next = IF a = N + M THEN xs ELSE a + 1
  <2>. SUFFICES ASSUME NEW a \in 1 .. N + M, a > N
                PROVE  heap'[a].next = IF a = N + M THEN xs ELSE a + 1
    OBVIOUS
  <2>1. a - N \in 1 .. M /\ N + (a - N) = a /\ N + (a - N) + 1 = a + 1 /\ (a - N = M => a = N + M)
        /\ (a = N + M => a - N = M)
    BY <1>1
  <2>. QED  BY <1>5, <1>7, <2>1
<1>9. TypeOK'
  <2>1. vs # <<>> => M > 0
    BY <1>1
  <2>2. lists' \in [Vars -> 0 .. N + M]
    BY <1>1, <1>3, <2>1 DEF TypeOK
  <2>3. queue' \in [front : 0 .. N + M, rear : 0 .. N + M]
    BY <1>1, <1>3 DEF TypeOK
  <2>. QED  BY <1>7, <2>2, <2>3 DEF TypeOK, NodeOf
<1>10. base \in Nat /\ (xs # NULL => d[xs] < base) /\ \A a \in 1 .. N : d[a] \in Nat
  <2>1. \A a \in 1 .. N : d[a] \in Nat
    BY <1>2 DEF Ranked
  <2>2. CASE xs = NULL
    BY <2>1, <2>2
  <2>3. CASE xs # NULL
    <3>1. d[xs] \in Nat /\ base = d[xs] + 1
      BY <1>1, <2>1, <2>3 DEF NULL
    <3> HIDE DEF base
    <3>. QED  BY <2>1, <3>1
  <2>. QED  BY <2>2, <2>3
<1> HIDE DEF base
<1>11. Ranked(heap', e)
  <2>1. e \in [1 .. N + M -> Nat]
    BY <1>1, <1>10
  <2>2. ASSUME NEW a \in 1 .. N + M, heap'[a].next # NULL PROVE e[heap'[a].next] < e[a]
    <3>1. CASE a <= N
      <4>1. a \in 1 .. N /\ heap'[a].next = heap[a].next /\ heap[a].next \in 1 .. N
        BY <1>1, <1>7, <2>2, <3>1 DEF IsHeap, NULL
      <4>2. d[heap[a].next] < d[a]
        BY <1>2, <2>2, <4>1 DEF Ranked
      <4>. QED  BY <1>1, <4>1, <4>2
    <3>2. CASE a > N /\ a = N + M
      <4>1. heap'[a].next = xs /\ xs \in 1 .. N
        BY <1>8, <2>2, <3>2 DEF NULL
      <4>2. e[a] = base /\ e[xs] = d[xs]
        BY <1>1, <1>10, <3>2, <4>1
      <4>. QED  BY <1>10, <2>2, <4>1, <4>2
    <3>3. CASE a > N /\ a # N + M
      <4>0. a + 1 \in 1 .. N + M /\ a + 1 > N
        <5>1. N \in Nat /\ M \in Nat /\ a \in 1 .. N + M
          BY <1>1
        <5> HIDE DEF N, M
        <5>. QED  BY <5>1, <3>3
      <4>1. heap'[a].next = a + 1 /\ a + 1 \in 1 .. N + M /\ a + 1 > N
        BY <1>8, <3>3, <4>0
      <4>2. e[a] = base + (N + M - a) /\ e[a + 1] = base + (N + M - (a + 1))
        BY <1>1, <3>3, <4>1
      <4>. QED  BY <1>1, <1>10, <4>1, <4>2
    <3>. QED  BY <1>1, <3>1, <3>2, <3>3
  <2> HIDE DEF e
  <2>. QED  BY <1>7, <2>1, <2>2 DEF Ranked
<1> HIDE DEF e
<1>12. Q \subseteq 1 .. N
  BY <1>2 DEF Apart
<1>13. Apart(heap', lists', queue', Q)
  <2>1. \A a \in 1 .. N + M : a \in Q /\ heap'[a].next # NULL => heap'[a].next \in Q
    BY <1>2, <1>7, <1>12 DEF Apart
  <2>2. ASSUME NEW a \in 1 .. N + M, heap'[a].next \in Q PROVE a \in Q
    <3>1. CASE a <= N
      <4>1. a \in 1 .. N
        BY <1>1, <3>1
      <4>2. heap[a].next \in Q
        BY <1>7, <2>2, <4>1
      <4>. QED  BY <1>2, <4>1, <4>2 DEF Apart
    <3>2. CASE a > N
      <4>1. heap'[a].next = xs \/ heap'[a].next = a + 1
        BY <1>8, <3>2
      <4>2. a + 1 \notin 1 .. N
        BY <1>1, <3>2
      <4>. QED  BY <1>12, <2>2, <4>1, <4>2
    <3>. QED  BY <1>1, <3>1, <3>2
  <2>3. \A x \in Vars : lists'[x] \notin Q
    <3>1. N + 1 \notin Q
      BY <1>1, <1>12
    <3>. QED  BY <1>2, <1>3, <3>1 DEF Apart, TypeOK
  <2>4. Q \subseteq 1 .. N + M
    BY <1>1, <1>12
  <2>. QED  BY <1>2, <1>3, <1>7, <2>1, <2>2, <2>3, <2>4 DEF Apart
<1>14. Ends(heap', queue')
  <2>1. \A a \in Q : heap'[a].next = heap[a].next
    BY <1>7, <1>12
  <2>2. Len(heap') \in Nat /\ Len(heap) <= Len(heap')
    BY <1>1, <1>7
  <2>. QED  BY <1>1, <1>3, <2>1, <2>2, EndsKept
<1>15. Shape(heap', lists', queue', Q, e)
  BY <1>11, <1>13, <1>14 DEF Shape
<1>. QED  BY <1>1, <1>7, <1>9, <1>15

-----------------------------------------------------------------------------
(***************************************************************************)
(* The operations on lists                                                 *)
(***************************************************************************)
\* The nodes of a list are its first and those of the rest.
LEMMA NodesOf ==
  ASSUME NEW h, IsHeap(h), NEW d, Ranked(h, d)
  PROVE  /\ Nodes(h, NULL) = {}
         /\ \A a \in 0 .. Len(h) : Nodes(h, a) \subseteq 1 .. Len(h)
         /\ \A a \in 1 .. Len(h) : /\ a \in Nodes(h, a)
                                   /\ Nodes(h, h[a].next) \subseteq Nodes(h, a)
<1>1. Nodes(h, NULL) = {}
  <2>1. PICK q : q = <<>> /\ Path(h, NULL, q)
    BY PathEmpty
  <2>2. Nodes(h, NULL) = {q[i] : i \in 1 .. Len(q)}
    BY <2>1, PathReads
  <2>. QED  BY <2>1, <2>2
<1>2. ASSUME NEW a \in 0 .. Len(h) PROVE Nodes(h, a) \subseteq 1 .. Len(h)
  <2>1. PICK q : Path(h, a, q)
    BY PathExists
  <2>2. Nodes(h, a) = {q[i] : i \in 1 .. Len(q)}
    BY <2>1, PathReads
  <2>3. \A i \in 1 .. Len(q) : q[i] \in 1 .. Len(h)
    BY <2>1 DEF Path
  <2>. QED  BY <2>2, <2>3
<1>3. ASSUME NEW a \in 1 .. Len(h)
      PROVE  a \in Nodes(h, a) /\ Nodes(h, h[a].next) \subseteq Nodes(h, a)
  <2>1. PICK q : Path(h, h[a].next, q)
    <3>1. h[a].next \in 0 .. Len(h)
      BY DEF IsHeap
    <3>. QED  BY <3>1, PathExists
  <2> DEFINE r == <<a>> \o q
  <2>2. Path(h, a, r)
    BY <2>1, PathCons
  <2>3. /\ q \in Seq(1 .. Len(h)) /\ Len(q) \in Nat /\ Len(r) = Len(q) + 1 /\ r[1] = a
        /\ \A i \in 1 .. Len(q) : r[i + 1] = q[i]
    BY <2>1 DEF Path
  <2> HIDE DEF r
  <2>4. Nodes(h, a) = {r[i] : i \in 1 .. Len(r)} /\ Nodes(h, h[a].next) = {q[i] : i \in 1 .. Len(q)}
    BY <2>1, <2>2, PathReads
  <2>5. 1 \in 1 .. Len(r) /\ \A i \in 1 .. Len(q) : i + 1 \in 1 .. Len(r)
    BY <2>3
  <2>. QED  BY <2>3, <2>4, <2>5, SMTT(20)
<1>. QED  BY <1>1, <1>2, <1>3

\* No list has a node of the queue.
LEMMA NodesApart ==
  ASSUME TypeOK, NEW Q, NEW d, Shape(heap, lists, queue, Q, d), NEW x \in Vars
  PROVE  Nodes(heap, lists[x]) \subseteq (1 .. Len(heap)) \ Q
<1>1. IsHeap(heap) /\ lists[x] \in 0 .. Len(heap) /\ Len(heap) \in Nat
  BY Typed
<1>2. Ranked(heap, d) /\ Apart(heap, lists, queue, Q)
  BY DEF Shape
<1>3. PICK q : Path(heap, lists[x], q)
  BY <1>1, <1>2, PathExists
<1> DEFINE P == (1 .. Len(heap)) \ Q
<1>4. \A a \in 1 .. Len(heap) : a \in P /\ heap[a].next # NULL => heap[a].next \in P
  <2>1. \A a \in 1 .. Len(heap) : heap[a].next \in Q => a \in Q
    BY <1>2 DEF Apart
  <2>2. \A a \in 1 .. Len(heap) : heap[a].next # NULL => heap[a].next \in 1 .. Len(heap)
    BY <1>1 DEF IsHeap, NULL
  <2>. QED  BY <2>1, <2>2
<1>5. lists[x] # NULL => lists[x] \in P
  BY <1>1, <1>2 DEF Apart, NULL
<1> HIDE DEF P
<1>6. \A i \in 1 .. Len(q) : q[i] \in P
  BY <1>3, <1>4, <1>5, PathWithin
<1>7. Nodes(heap, lists[x]) = {q[i] : i \in 1 .. Len(q)}
  BY <1>1, <1>2, <1>3, PathReads
<1>. QED  BY <1>6, <1>7 DEF P

\* What the operations on lists leave to the queue.
Untouched(Q) ==
  /\ queue' = queue /\ queue_out' = queue_out
  /\ Len(heap) <= Len(heap')
  /\ \A a \in Q : heap'[a] = heap[a]
  /\ \E e : Shape(heap', lists', queue', Q, e)

\* The nodes that were there, as they were.
Kept == \A a \in 1 .. Len(heap) : heap'[a] = heap[a]

LEMMA BuildUntouched ==
  ASSUME TypeOK, NEW Q, NEW d, Shape(heap, lists, queue, Q, d),
         NEW r \in Vars, NEW vs \in Seq(Int), NEW xs \in 0 .. Len(heap), xs \notin Q,
         Build(r, vs, xs), UNCHANGED <<queue, queue_out>>
  PROVE  TypeOK' /\ Untouched(Q) /\ Kept
<1>1. /\ TypeOK' /\ Len(heap) <= Len(heap')
      /\ \A a \in 1 .. Len(heap) : heap'[a] = heap[a]
      /\ \E e : Shape(heap', lists', queue', Q, e)
  BY BuildShape
<1>2. Q \subseteq 1 .. Len(heap)
  BY DEF Shape, Apart
<1>. QED  BY <1>1, <1>2 DEF Untouched, Kept

LEMMA NodeStep ==
  ASSUME TypeOK, NEW Q, NEW d, Shape(heap, lists, queue, Q, d), NEW r \in Vars, NEW x \in Vars,
         NEW v \in Vals, listNode(r, v, x)
  PROVE  TypeOK' /\ Untouched(Q) /\ Kept
<1>1. <<v>> \in Seq(Int) /\ lists[x] \in 0 .. Len(heap) /\ lists[x] \notin Q
  BY Typed, ListsAssumption DEF Shape, Apart
<1>. QED  BY <1>1, BuildUntouched DEF listNode

LEMMA RangeStep ==
  ASSUME TypeOK, NEW Q, NEW d, Shape(heap, lists, queue, Q, d), NEW r \in Vars,
         NEW start \in Vals, NEW end \in Vals, listRange(r, start, end)
  PROVE  TypeOK' /\ Untouched(Q) /\ Kept
<1> DEFINE vs == [i \in 1 .. end - start + 1 |-> start + i - 1]
<1>1. start \in Int /\ end \in Int
  BY ListsAssumption
<1>2. vs \in Seq(Int)
  <2>1. CASE end - start + 1 \in Nat
    BY <1>1, <2>1
  <2>2. CASE end - start + 1 \notin Nat
    <3>1. 1 .. end - start + 1 = 1 .. 0
      BY <1>1, <2>2
    <3>. QED  BY <1>1, <3>1
  <2>. QED  BY <2>1, <2>2
<1>3. NULL \in 0 .. Len(heap) /\ NULL \notin Q
  BY Typed DEF Shape, Apart, NULL
<1>4. Build(r, vs, NULL) /\ UNCHANGED <<queue, queue_out>>
  BY DEF listRange
<1> HIDE DEF vs
<1>. QED  BY <1>2, <1>3, <1>4, BuildUntouched

LEMMA AppendStep ==
  ASSUME TypeOK, NEW Q, NEW d, Shape(heap, lists, queue, Q, d), NEW r \in Vars, NEW x \in Vars,
         NEW y \in Vars, listAppend(r, x, y)
  PROVE  TypeOK' /\ Untouched(Q) /\ Kept
<1>1. /\ lists[x] \in 0 .. Len(heap) /\ lists[y] \in 0 .. Len(heap) /\ IsHeap(heap)
      /\ \A a \in 1 .. Len(heap) : heap[a] \in NodeOf(Len(heap))
  BY Typed
<1>2. Ranked(heap, d) /\ lists[y] \notin Q
  BY DEF Shape, Apart
<1>3. Values(heap, lists[x]) \in Seq(Int)
  <2>1. PICK q : Path(heap, lists[x], q)
    BY <1>1, <1>2, PathExists
  <2>2. Values(heap, lists[x]) = [i \in 1 .. Len(q) |-> heap[q[i]].value]
    BY <1>1, <1>2, <2>1, PathReads
  <2>3. Len(q) \in Nat /\ \A i \in 1 .. Len(q) : heap[q[i]].value \in Int
    BY <1>1, <2>1 DEF Path, NodeOf
  <2>. QED  BY <2>2, <2>3
<1>4. Build(r, Values(heap, lists[x]), lists[y]) /\ UNCHANGED <<queue, queue_out>>
  BY DEF listAppend
<1>. QED  BY <1>1, <1>2, <1>3, <1>4, BuildUntouched

LEMMA EndStep ==
  ASSUME TypeOK, NEW Q, NEW d, Shape(heap, lists, queue, Q, d), NEW r \in Vars, listEnd(r)
  PROVE  TypeOK' /\ Untouched(Q) /\ Kept
<1>1. Len(heap) \in Nat /\ Q \subseteq 1 .. Len(heap)
  BY Typed DEF Shape, Apart
<1>2. TypeOK'
  BY <1>1 DEF TypeOK, listEnd, NULL
<1>3. Apart(heap, lists', queue, Q)
  BY <1>1 DEF Shape, Apart, listEnd, TypeOK, NULL
<1>4. Shape(heap', lists', queue', Q, d)
  BY <1>3 DEF Shape, listEnd
<1>. QED  BY <1>1, <1>2, <1>4 DEF Untouched, Kept, listEnd

LEMMA TailStep ==
  ASSUME TypeOK, NEW Q, NEW d, Shape(heap, lists, queue, Q, d), NEW r \in Vars, NEW x \in Vars,
         listTail(r, x)
  PROVE  TypeOK' /\ Untouched(Q) /\ Kept
<1>1. /\ Len(heap) \in Nat /\ Q \subseteq 1 .. Len(heap) /\ lists[x] \in 1 .. Len(heap)
      /\ heap[lists[x]].next \in 0 .. Len(heap)
  BY Typed DEF Shape, Apart, IsHeap, listTail, NULL
<1>2. heap[lists[x]].next \notin Q
  BY <1>1 DEF Shape, Apart
<1>3. TypeOK'
  BY <1>1 DEF TypeOK, listTail
<1>4. Apart(heap, lists', queue, Q)
  BY <1>2 DEF Shape, Apart, listTail, TypeOK
<1>5. Shape(heap', lists', queue', Q, d)
  BY <1>4 DEF Shape, listTail
<1>. QED  BY <1>1, <1>3, <1>5 DEF Untouched, Kept, listTail


LEMMA SetHeadStep ==
  ASSUME TypeOK, NEW Q, NEW d, Shape(heap, lists, queue, Q, d), NEW x \in Vars,
         NEW v \in Vals, listSetHead(x, v)
  PROVE  TypeOK' /\ Untouched(Q)
<1> DEFINE X == lists[x]
           N == Len(heap)
<1>1. /\ N \in Nat /\ heap \in Seq(NodeOf(N)) /\ X \in 1 .. N /\ X \notin Q /\ Q \subseteq 1 .. N
      /\ heap[X] \in NodeOf(N) /\ v \in Int
  BY Typed, ListsAssumption DEF Shape, Apart, listSetHead, NULL
<1>2. heap' = [heap EXCEPT ![X].value = v] /\ UNCHANGED <<lists, queue, queue_out>>
  BY DEF listSetHead
<1> HIDE DEF X, N
<1>3. [heap[X] EXCEPT !.value = v] \in NodeOf(N) /\ [heap[X] EXCEPT !.value = v].next = heap[X].next
  BY <1>1 DEF NodeOf
<1>4. heap' = [heap EXCEPT ![X] = [heap[X] EXCEPT !.value = v]]
  BY <1>2
<1>5. /\ heap' \in Seq(NodeOf(N)) /\ Len(heap') = N
      /\ \A a \in 1 .. N : heap'[a].next = heap[a].next
      /\ \A a \in Q : heap'[a] = heap[a]
  BY <1>1, <1>3, <1>4 DEF N
<1>6. TypeOK'
  BY <1>2, <1>5 DEF TypeOK, NodeOf, N
<1>7. Ranked(heap', d) /\ Apart(heap', lists', queue', Q)
  BY <1>2, <1>5 DEF Shape, Ranked, Apart, N
<1>8. Ends(heap', queue')
  <2>1. IsHeap(heap) /\ Len(heap') \in Nat /\ Len(heap) <= Len(heap')
    BY <1>1, <1>5, Typed DEF N
  <2>2. Ends(heap', queue)
    BY <1>5, <2>1, EndsKept
  <2>. QED  BY <1>2, <2>2
<1>. QED  BY <1>1, <1>2, <1>5, <1>6, <1>7, <1>8 DEF Untouched, Shape, N

\* The list that becomes the rest of node X is one that does not have X.
LEMMA SetTailStep ==
  ASSUME TypeOK, NEW Q, NEW d, Shape(heap, lists, queue, Q, d), NEW x \in Vars, NEW y \in Vars,
         listSetTail(x, y), "cycle" \notin Allow
  PROVE  TypeOK' /\ Untouched(Q)
<1> DEFINE X == lists[x]
           Y == lists[y]
           N == Len(heap)
           base == IF Y = NULL THEN 0 ELSE d[Y]
           e == [a \in 1 .. N |-> d[a] + (IF X \in Nodes(heap, a) THEN base + 1 ELSE 0)]
<1>1. /\ N \in Nat /\ heap \in Seq(NodeOf(N)) /\ X \in 1 .. N /\ X \notin Q /\ Q \subseteq 1 .. N
      /\ heap[X] \in NodeOf(N) /\ Y \in 0 .. N /\ Y \notin Q
  BY Typed DEF Shape, Apart, listSetTail, NULL
<1>2. /\ heap' = [heap EXCEPT ![X].next = Y] /\ UNCHANGED <<lists, queue, queue_out>>
      /\ X \notin Nodes(heap, Y)
  BY DEF listSetTail, StaysOpen
<1>3. IsHeap(heap) /\ Ranked(heap, d) /\ d \in [1 .. N -> Nat]
  BY Typed DEF Shape, Ranked
<1>4. /\ X \in Nodes(heap, X)
      /\ \A a \in 1 .. N : Nodes(heap, heap[a].next) \subseteq Nodes(heap, a)
  BY <1>1, <1>3, NodesOf
<1>5. \A a \in 1 .. N : heap[a].next # NULL =>
        heap[a].next \in 1 .. N /\ d[heap[a].next] < d[a]
  BY <1>3 DEF Ranked, IsHeap, NULL
<1>6. base \in Nat /\ (Y # NULL => base = d[Y])
  BY <1>1, <1>3 DEF NULL
<1> HIDE DEF X, Y, N, base
<1>7. [heap[X] EXCEPT !.next = Y] \in NodeOf(N) /\ [heap[X] EXCEPT !.next = Y].next = Y
  BY <1>1 DEF NodeOf
<1>8. heap' = [heap EXCEPT ![X] = [heap[X] EXCEPT !.next = Y]]
  BY <1>2
<1>9. /\ heap' \in Seq(NodeOf(N)) /\ Len(heap') = N
      /\ \A a \in 1 .. N : heap'[a].next = IF a = X THEN Y ELSE heap[a].next
      /\ \A a \in Q : heap'[a] = heap[a]
  BY <1>1, <1>7, <1>8 DEF N
<1>10. TypeOK'
  BY <1>2, <1>9 DEF TypeOK, NodeOf, N
<1>11. Ranked(heap', e)
  <2>1. /\ e \in [1 .. N -> Nat]
        /\ \A a \in 1 .. N : /\ X \in Nodes(heap, a) => e[a] = d[a] + (base + 1)
                             /\ X \notin Nodes(heap, a) => e[a] = d[a]
    BY <1>3, <1>6
  <2> HIDE DEF e
  <2>2. ASSUME NEW a \in 1 .. N, heap'[a].next # NULL PROVE e[heap'[a].next] < e[a]
    <3>1. CASE a = X
      <4>1. heap'[a].next = Y /\ Y \in 1 .. N
        BY <1>1, <1>9, <2>2, <3>1 DEF NULL
      <4>2. e[Y] = base /\ e[a] = d[a] + (base + 1) /\ d[a] \in Nat
        BY <1>2, <1>3, <1>4, <1>6, <2>1, <2>2, <3>1, <4>1
      <4>. QED  BY <1>6, <4>1, <4>2
    <3>2. CASE a # X
      <4>1. heap'[a].next = heap[a].next
        BY <1>9, <3>2
      <4>2. heap[a].next \in 1 .. N /\ d[heap[a].next] < d[a]
        BY <1>5, <2>2, <4>1
      <4>3. X \in Nodes(heap, heap[a].next) => X \in Nodes(heap, a)
        BY <1>4
      <4>4. d[a] \in Nat /\ d[heap[a].next] \in Nat
        BY <1>3, <4>2
      <4>. QED  BY <1>6, <2>1, <4>1, <4>2, <4>3, <4>4
    <3>. QED  BY <3>1, <3>2
  <2>. QED  BY <1>9, <2>1, <2>2 DEF Ranked
<1>12. Apart(heap', lists', queue', Q)
  <2>1. \A a \in 1 .. N : heap'[a].next \in Q => a \in Q
    BY <1>1, <1>9 DEF Shape, Apart, N
  <2>2. \A a \in 1 .. N : a \in Q /\ heap'[a].next # NULL => heap'[a].next \in Q
    BY <1>1, <1>9 DEF Shape, Apart, N
  <2>. QED  BY <1>2, <1>9, <2>1, <2>2 DEF Shape, Apart, N
<1>13. Ends(heap', queue')
  <2>1. Len(heap') \in Nat /\ Len(heap) <= Len(heap')
    BY <1>1, <1>9 DEF N
  <2>2. Ends(heap', queue)
    BY <1>3, <1>9, <2>1, EndsKept
  <2>. QED  BY <1>2, <2>2
<1> HIDE DEF e
<1>. QED  BY <1>1, <1>2, <1>9, <1>10, <1>11, <1>12, <1>13 DEF Untouched, Shape, N

\* All of them.
ListSetter == \E y \in Vars : \/ \E v \in Vals : listSetHead(y, v)
                              \/ \E z \in Vars : listSetTail(y, z)

LEMMA ListStep ==
  ASSUME TypeOK, NEW Q, NEW d, Shape(heap, lists, queue, Q, d), ListNext, "cycle" \notin Allow
  PROVE  TypeOK' /\ Untouched(Q) /\ (Kept \/ ListSetter)
<1>1. ASSUME NEW r \in Vars, listEnd(r) PROVE TypeOK' /\ Untouched(Q) /\ Kept
  BY <1>1, EndStep
<1>2. ASSUME NEW r \in Vars, NEW start \in Vals, NEW end \in Vals, listRange(r, start, end)
      PROVE TypeOK' /\ Untouched(Q) /\ Kept
  BY <1>2, RangeStep
<1>3. ASSUME NEW r \in Vars, NEW v \in Vals, listSetHead(r, v)
      PROVE TypeOK' /\ Untouched(Q) /\ ListSetter
  BY <1>3, SetHeadStep DEF ListSetter
<1>4. ASSUME NEW r \in Vars, NEW x \in Vars, NEW v \in Vals, listNode(r, v, x)
      PROVE TypeOK' /\ Untouched(Q) /\ Kept
  BY <1>4, NodeStep
<1>5. ASSUME NEW r \in Vars, NEW x \in Vars, listTail(r, x)
      PROVE TypeOK' /\ Untouched(Q) /\ Kept
  BY <1>5, TailStep
<1>6. ASSUME NEW r \in Vars, NEW x \in Vars, listSetTail(r, x)
      PROVE TypeOK' /\ Untouched(Q) /\ ListSetter
  BY <1>6, SetTailStep DEF ListSetter
<1>7. ASSUME NEW r \in Vars, NEW x \in Vars, NEW y \in Vars, listAppend(r, x, y)
      PROVE TypeOK' /\ Untouched(Q) /\ Kept
  BY <1>7, AppendStep
<1>. QED  BY <1>1, <1>2, <1>3, <1>4, <1>5, <1>6, <1>7 DEF ListNext

-----------------------------------------------------------------------------
(***************************************************************************)
(* The operations on the queue                                             *)
(***************************************************************************)
\* Sequences, place by place.
LEMMA Eta ==
  ASSUME NEW S, NEW s \in Seq(S)
  PROVE  s = [i \in 1 .. Len(s) |-> s[i]]
OBVIOUS

LEMMA Appended ==
  ASSUME NEW S, NEW s \in Seq(S), NEW v \in S
  PROVE  Append(s, v) = [i \in 1 .. Len(s) + 1 |-> IF i = Len(s) + 1 THEN v ELSE s[i]]
<1> DEFINE t == Append(s, v)
<1>1. t \in Seq(S) /\ Len(t) = Len(s) + 1
      /\ \A i \in 1 .. Len(s) + 1 : t[i] = IF i = Len(s) + 1 THEN v ELSE s[i]
  OBVIOUS
<1> HIDE DEF t
<1>2. t = [i \in 1 .. Len(t) |-> t[i]]
  BY <1>1, Eta
<1>3. Append(s, v) = t
  BY DEF t
<1>4. t = [i \in 1 .. Len(s) + 1 |-> t[i]]
  BY <1>1, <1>2
<1>. QED  BY <1>1, <1>3, <1>4

LEMMA TailCells ==
  ASSUME NEW S, NEW s \in Seq(S), s # <<>>
  PROVE  /\ Head(s) = s[1]
         /\ Tail(s) = [i \in 1 .. Len(s) - 1 |-> s[i + 1]]
<1> DEFINE t == Tail(s)
<1>1. t \in Seq(S) /\ Len(t) = Len(s) - 1 /\ \A i \in 1 .. Len(s) - 1 : t[i] = s[i + 1]
  OBVIOUS
<1> HIDE DEF t
<1>2. t = [i \in 1 .. Len(t) |-> t[i]]
  BY <1>1, Eta
<1>3. Tail(s) = t
  BY DEF t
<1>4. t = [i \in 1 .. Len(s) - 1 |-> t[i]]
  BY <1>1, <1>2
<1>. QED  BY <1>1, <1>3, <1>4

\* Values are integers.
LEMMA ReadTyped ==
  ASSUME TypeOK, NEW q, \A i \in 1 .. Len(q) : q[i] \in 1 .. Len(heap), Len(q) \in Nat
  PROVE  Read(heap, q) \in Seq(Int) /\ Len(Read(heap, q)) = Len(q)
         /\ \A i \in 1 .. Len(q) : Read(heap, q)[i] = heap[q[i]].value
<1>1. \A i \in 1 .. Len(q) : heap[q[i]].value \in Int
  BY Typed DEF NodeOf
<1>. QED  BY <1>1 DEF Read

LEMMA Places == \A m \in Nat : \A i \in 1 .. m + 1 : i # m + 1 => i \in 1 .. m
OBVIOUS

\* Heap g has a fresh node n at the end of those of the queue, q.
Longer(g, qu, q, n, Q) ==
  /\ n = Len(heap) + 1 /\ Len(g) = n /\ g[n].next = NULL /\ g[n].value \in Int
  /\ \A a \in 1 .. Len(heap) : /\ g[a].value = heap[a].value
                               /\ g[a].next = heap[a].next \/ (a \in Q /\ g[a].next = n)
  /\ \A i \in 1 .. Len(q) : q[i] \in 1 .. Len(heap)
  /\ q \in Seq(1 .. Len(heap))
  /\ Path(g, qu.front, Append(q, n)) /\ qu.front \in Q \cup {n}
  /\ qu.rear = n

LEMMA Enqueued ==
  ASSUME TypeOK, NEW Q, NEW d, Shape(heap, lists, queue, Q, d), NEW g, NEW qu, NEW q, NEW n,
         Longer(g, qu, q, n, Q)
  PROVE  /\ \E R, e : Shape(g, lists, qu, R, e)
         /\ Read(g, Append(q, n)) = Append(Read(heap, q), g[n].value)
<1> DEFINE N == Len(heap)
           R == Q \cup {n}
           r == Append(q, n)
           e == [a \in 1 .. n |-> IF a = n THEN 0 ELSE d[a] + 1]
<1>0. /\ n = Len(heap) + 1 /\ Len(g) = n /\ g[n].next = NULL /\ g[n].value \in Int
      /\ \A a \in 1 .. Len(heap) : /\ g[a].value = heap[a].value
                                   /\ g[a].next = heap[a].next \/ (a \in Q /\ g[a].next = n)
      /\ \A i \in 1 .. Len(q) : q[i] \in 1 .. Len(heap)
      /\ q \in Seq(1 .. Len(heap))
      /\ Path(g, qu.front, Append(q, n)) /\ qu.front \in Q \cup {n}
      /\ qu.rear = n
  BY DEF Longer
<1> USE <1>0
<1>1. /\ N \in Nat /\ n = N + 1 /\ n \notin 1 .. N /\ n # 0
      /\ \A a \in 1 .. n : a # n => a \in 1 .. N
      /\ \A a \in 1 .. N : heap[a].next \in 0 .. N /\ a \in 1 .. n
      /\ \A x \in Vars : lists[x] \in 0 .. N
  BY Typed DEF IsHeap
<1>2. /\ Ranked(heap, d) /\ Apart(heap, lists, queue, Q)
      /\ d \in [1 .. N -> Nat] /\ Q \subseteq 1 .. N
  BY DEF Shape, Ranked, Apart
<1>3. Ranked(g, e)
  <2>1. e \in [1 .. n -> Nat]
    BY <1>1, <1>2
  <2>2. ASSUME NEW a \in 1 .. n, g[a].next # NULL PROVE e[g[a].next] < e[a]
    <3>1. a \in 1 .. N
      BY <1>1, <2>2
    <3>2. CASE g[a].next = n
      <4>1. e[n] = 0 /\ e[a] = d[a] + 1 /\ d[a] \in Nat
        BY <1>1, <1>2, <3>1
      <4>. QED  BY <3>2, <4>1
    <3>3. CASE g[a].next = heap[a].next
      <4>1. heap[a].next \in 1 .. N /\ d[heap[a].next] < d[a]
        BY <1>1, <1>2, <2>2, <3>1, <3>3 DEF Ranked, NULL
      <4>2. e[heap[a].next] = d[heap[a].next] + 1 /\ e[a] = d[a] + 1
            /\ d[a] \in Nat /\ d[heap[a].next] \in Nat
        BY <1>1, <1>2, <3>1, <4>1
      <4>. QED  BY <3>3, <4>1, <4>2
    <3>. QED  BY <3>1, <3>2, <3>3
  <2> HIDE DEF e
  <2>. QED  BY <2>1, <2>2 DEF Ranked
<1> HIDE DEF e, N
<1>4. Apart(g, lists, qu, R)
  <2>1. R \subseteq 1 .. n
    BY <1>1, <1>2
  <2>2. ASSUME NEW a \in 1 .. n, a \in R, g[a].next # NULL PROVE g[a].next \in R
    <3>1. a \in Q /\ a \in 1 .. N
      BY <1>1, <2>2
    <3>2. g[a].next = heap[a].next \/ g[a].next = n
      BY <3>1 DEF N
    <3>. QED  BY <1>2, <2>2, <3>1, <3>2 DEF Apart, N
  <2>3. ASSUME NEW a \in 1 .. n, g[a].next \in R PROVE a \in R
    <3>1. CASE a = n
      BY <3>1
    <3>2. CASE a # n
      <4>1. a \in 1 .. N
        BY <1>1, <3>2
      <4>2. (a \in Q /\ g[a].next = n) \/ g[a].next = heap[a].next
        BY <4>1 DEF N
      <4>3. heap[a].next # n
        BY <1>1, <4>1
      <4>. QED  BY <1>2, <2>3, <4>1, <4>2, <4>3 DEF Apart, N
    <3>. QED  BY <3>1, <3>2
  <2>4. \A x \in Vars : lists[x] \notin R
    BY <1>1, <1>2 DEF Apart
  <2>. QED  BY <2>1, <2>2, <2>3, <2>4 DEF Apart
<1>5. /\ r \in Seq(1 .. n) /\ Len(r) = Len(q) + 1 /\ r[Len(q) + 1] = n /\ r # <<>>
      /\ \A i \in 1 .. Len(q) : r[i] = q[i]
      /\ Len(q) \in Nat
  <2>1. q \in Seq(1 .. n) /\ n \in 1 .. n
    BY <1>1
  <2>2. Len(q) \in Nat
    OBVIOUS
  <2> HIDE DEF R
  <2>. QED  BY <2>1, <2>2
<1> HIDE DEF r
<1>6. Ends(g, qu)
  BY <1>5 DEF Ends, r
<1>7. Read(g, r) = Append(Read(heap, q), g[n].value)
  <2>1. Read(heap, q) \in Seq(Int) /\ Len(Read(heap, q)) = Len(q)
        /\ \A i \in 1 .. Len(q) : Read(heap, q)[i] = heap[q[i]].value
    BY <1>5, ReadTyped
  <2>2. Append(Read(heap, q), g[n].value)
          = [i \in 1 .. Len(q) + 1 |-> IF i = Len(q) + 1 THEN g[n].value ELSE Read(heap, q)[i]]
    BY <2>1, Appended
  <2>3. \A i \in 1 .. Len(q) + 1 :
          g[r[i]].value = IF i = Len(q) + 1 THEN g[n].value ELSE Read(heap, q)[i]
    <3>1. \A i \in 1 .. Len(q) : g[q[i]].value = heap[q[i]].value
      OBVIOUS
    <3>2. \A i \in 1 .. Len(q) + 1 : i # Len(q) + 1 => i \in 1 .. Len(q)
      <4>1. Len(q) \in Nat
        BY <1>5
      <4>. QED  BY <4>1, Places
    <3>. QED  BY <1>5, <2>1, <3>1, <3>2
  <2>4. Read(g, r) = [i \in 1 .. Len(q) + 1 |-> g[r[i]].value]
    BY <1>5 DEF Read
  <2>. QED  BY <2>2, <2>3, <2>4
<1>8. Shape(g, lists, qu, R, e)
  BY <1>3, <1>4, <1>6 DEF Shape
<1>. QED  BY <1>7, <1>8 DEF r


\* The operations leave the lists' nodes as they are.
Aside(Q) ==
  /\ lists' = lists
  /\ \A a \in (1 .. Len(heap)) \ Q : heap'[a] = heap[a]

items == Values(heap, queue.front)

LEMMA EnqStep ==
  ASSUME TypeOK, NEW Q, NEW d, Shape(heap, lists, queue, Q, d), NEW v \in Vals, queueEnq(v)
  PROVE  /\ TypeOK' /\ (\E R, e : Shape(heap', lists', queue', R, e)) /\ Aside(Q)
         /\ items' = Append(items, v) /\ queue_out' = <<v>>
<1> DEFINE N == Len(heap)
           n == N + 1
           h == Append(heap, node_t(v, NULL))
<1>1. /\ N \in Nat /\ IsHeap(heap) /\ heap \in Seq(NodeOf(N))
      /\ \A a \in 1 .. N : heap[a] \in NodeOf(N)
      /\ \A x \in Vars : lists[x] \in 0 .. N
      /\ queue.front \in 0 .. N /\ v \in Int
  BY Typed, ListsAssumption
<1>2. PICK q : /\ Path(heap, queue.front, q) /\ q \in Seq(1 .. N) /\ Len(q) \in Nat
               /\ q # <<>> => q[Len(q)] = queue.rear
               /\ \A i \in 1 .. Len(q) : q[i] \in Q /\ q[i] \in 1 .. N
               /\ Values(heap, queue.front) = Read(heap, q)
  BY <1>1, Items
<1>3. /\ \/ queue.front = NULL /\ heap' = h /\ queue' = queue_t(n, n)
         \/ /\ queue.front # NULL
            /\ heap' = [h EXCEPT ![queue.rear].next = n]
            /\ queue' = [queue EXCEPT !.rear = n]
      /\ queue_out' = <<v>> /\ lists' = lists
  BY DEF queueEnq
<1>4. /\ h \in Seq(NodeOf(n)) /\ Len(h) = n /\ h[n] = node_t(v, NULL)
      /\ \A a \in 1 .. N : h[a] = heap[a]
  <2>1. NodeOf(N) \subseteq NodeOf(n) /\ node_t(v, NULL) \in NodeOf(n)
    BY <1>1 DEF NodeOf, node_t, NULL
  <2>2. ASSUME NEW T, heap \in Seq(T), node_t(v, NULL) \in T
        PROVE  /\ h \in Seq(T) /\ Len(h) = N + 1 /\ h[N + 1] = node_t(v, NULL)
               /\ \A a \in 1 .. N : h[a] = heap[a]
    BY <2>2
  <2>3. heap \in Seq(NodeOf(n))
    BY <1>1, <2>1
  <2> HIDE DEF h
  <2>. QED  BY <2>1, <2>2, <2>3
<1>5. queue = queue_t(queue.front, queue.rear)
  BY DEF TypeOK, queue_t
<1> HIDE DEF h
<1>6. /\ heap' \in Seq(NodeOf(n)) /\ Len(heap') = n /\ heap'[n].next = NULL /\ heap'[n].value = v
      /\ \A a \in 1 .. N : /\ heap'[a].value = heap[a].value
                           /\ heap'[a].next = heap[a].next \/ (a \in Q /\ heap'[a].next = n)
                           /\ a \notin Q => heap'[a] = heap[a]
      /\ Path(heap', queue'.front, Append(q, n)) /\ queue'.front \in Q \cup {n}
      /\ queue' = queue_t(queue'.front, n)
  <2>1. CASE queue.front = NULL
    <3>1. heap' = h /\ queue' = queue_t(n, n)
      BY <1>3, <2>1
    <3>2. q = <<>>
      <4>1. ~(1 \in 1 .. Len(q))
        <5>1. ASSUME 1 \in 1 .. Len(q) PROVE FALSE
          BY <1>2, <2>1, <5>1 DEF Path, Nth, NULL
        <5>. QED  BY <5>1
      <4>. QED  BY <1>2, <4>1
    <3>3. Append(q, n) = <<n>> \o q /\ n \in 1 .. Len(h)
      BY <1>1, <1>4, <3>2
    <3>4. h[n].next = NULL /\ h[n].value = v
      BY <1>4 DEF node_t
    <3>5. Path(h, n, <<n>> \o q)
      <4>1. Path(h, h[n].next, q)
        BY <3>2, <3>4, PathEmpty
      <4>. QED  BY <3>3, <4>1, PathCons
    <3>6. queue'.front = n
      BY <3>1 DEF queue_t
    <3>. QED  BY <1>4, <3>1, <3>3, <3>4, <3>5, <3>6
  <2>2. CASE queue.front # NULL
    <3> DEFINE b == queue.rear
    <3>1. heap' = [h EXCEPT ![b].next = n] /\ queue' = [queue EXCEPT !.rear = n]
      BY <1>3, <2>2
    <3>2. q # <<>> /\ Len(q) > 0 /\ b = q[Len(q)] /\ b \in Q /\ b \in 1 .. N
      <4>1. q # <<>> /\ Len(q) > 0
        <5>1. queue.front # NULL /\ Path(heap, queue.front, q)
          BY <1>2, <2>2
        <5>. QED  BY <5>1, PathHead
      <4>. QED  BY <1>2, <4>1
    <3>3. queue'.front = queue.front /\ queue' = queue_t(queue.front, n)
      <4>1. queue' = [queue_t(queue.front, queue.rear) EXCEPT !.rear = n]
        BY <1>5, <3>1
      <4>. QED  BY <4>1 DEF queue_t
    <3> HIDE DEF b
    <3>4. h[b] \in NodeOf(n) /\ h[b] = heap[b] /\ b \in 1 .. n
      BY <1>1, <1>4, <3>2
    <3>5. /\ [h[b] EXCEPT !.next = n] \in NodeOf(n)
          /\ [h[b] EXCEPT !.next = n].next = n
          /\ [h[b] EXCEPT !.next = n].value = h[b].value
      <4>1. n \in 0 .. n
        BY <1>1
      <4>. QED  BY <3>4, <4>1 DEF NodeOf
    <3>6. heap' = [h EXCEPT ![b] = [h[b] EXCEPT !.next = n]]
      BY <3>1
    <3>7. /\ heap' \in Seq(NodeOf(n)) /\ Len(heap') = n
          /\ \A a \in 1 .. n : a # b => heap'[a] = h[a]
          /\ heap'[b].next = n /\ heap'[b].value = h[b].value
      <4> DEFINE c == [h[b] EXCEPT !.next = n]
      <4>1. c \in NodeOf(n) /\ c.next = n /\ c.value = h[b].value /\ heap' = [h EXCEPT ![b] = c]
        BY <3>5, <3>6
      <4> HIDE DEF c, n
      <4>2. /\ heap' \in Seq(NodeOf(n)) /\ Len(heap') = n /\ heap'[b] = c
            /\ \A a \in 1 .. n : a # b => heap'[a] = h[a]
        BY <1>4, <3>4, <4>1
      <4>. QED  BY <4>1, <4>2
    <3>8. n \in 1 .. n /\ n # b /\ \A a \in 1 .. N : a \in 1 .. n
      BY <1>1, <3>2
    <3>9. heap'[n].next = NULL /\ heap'[n].value = v
      BY <1>4, <3>7, <3>8 DEF node_t
    <3>10. \A a \in 1 .. N : /\ heap'[a].value = heap[a].value
                             /\ heap'[a].next = heap[a].next \/ (a \in Q /\ heap'[a].next = n)
                             /\ a \notin Q => heap'[a] = heap[a]
      BY <1>4, <3>2, <3>4, <3>7, <3>8
    <3>11. Path(heap', queue.front, Append(q, n))
      <4>1. \A i \in 1 .. Len(q) - 1 : q[i] # b
        <5>1. ASSUME NEW i \in 1 .. Len(q) - 1 PROVE q[i] # b
          <6>1. i \in 1 .. Len(q) /\ Len(q) \in 1 .. Len(q) /\ i < Len(q)
            BY <1>2, <3>2
          <6>2. Ranked(heap, d) /\ d[q[i]] \in Nat
            BY <1>2, <6>1 DEF Shape, Ranked
          <6>3. d[q[Len(q)]] < d[q[i]]
            BY <1>1, <1>2, <6>1, <6>2, PathFalls
          <6>. QED  BY <3>2, <6>2, <6>3
        <5>. QED  BY <5>1
      <4>2. \A i \in 1 .. Len(q) - 1 : heap'[q[i]].next = heap[q[i]].next
        <5>1. \A i \in 1 .. Len(q) - 1 : q[i] \in 1 .. N
          BY <1>2
        <5>. QED  BY <1>4, <3>7, <3>8, <4>1, <5>1
      <4>3. Len(heap') \in Nat /\ Len(heap) <= Len(heap') /\ n \in 1 .. Len(heap')
        BY <1>1, <3>7
      <4>4. heap'[q[Len(q)]].next = n
        BY <3>2, <3>7
      <4>. QED  BY <1>1, <1>2, <2>2, <3>9, <4>2, <4>3, <4>4, PathAppend
    <3>12. queue.front \in Q
      BY <2>2 DEF Shape, Apart
    <3>. QED  BY <3>3, <3>7, <3>9, <3>10, <3>11, <3>12
  <2>. QED  BY <2>1, <2>2
<1>7. queue'.rear = n /\ queue'.front \in 0 .. n
  <2>1. queue'.front \in Q \cup {n} /\ Q \subseteq 1 .. N
    BY <1>6 DEF Shape, Apart
  <2>2. queue'.rear = n
    BY <1>6 DEF queue_t
  <2>3. N \in Nat
    BY <1>1
  <2>4. CASE queue'.front = n
    BY <2>2, <2>3, <2>4
  <2>5. CASE queue'.front # n
    <3>1. queue'.front \in 1 .. N
      BY <2>1, <2>5
    <3> HIDE DEF N
    <3>. QED  BY <2>2, <2>3, <3>1
  <2>. QED  BY <2>4, <2>5
<1>8. TypeOK'
  <2>1. \A x \in Vars : lists[x] \in 0 .. n
    BY <1>1
  <2>2. queue' \in [front : 0 .. n, rear : 0 .. n]
    BY <1>1, <1>6, <1>7 DEF queue_t
  <2>. QED  BY <1>3, <1>6, <2>1, <2>2 DEF TypeOK, NodeOf
<1>9. /\ \E R, e : Shape(heap', lists, queue', R, e)
      /\ Read(heap', Append(q, n)) = Append(Read(heap, q), v)
  <2> HIDE DEF n
  <2>1. Longer(heap', queue', q, n, Q)
    BY <1>1, <1>2, <1>6, <1>7 DEF n, Longer
  <2>2. /\ \E R, e : Shape(heap', lists, queue', R, e)
        /\ Read(heap', Append(q, n)) = Append(Read(heap, q), heap'[n].value)
    BY <2>1, Enqueued
  <2>. QED  BY <1>6, <2>2
<1>10. Values(heap', queue'.front) = Read(heap', Append(q, n))
  <2>1. PICK R, e : Shape(heap', lists, queue', R, e)
    BY <1>9
  <2>2. Ranked(heap', e)
    BY <2>1 DEF Shape
  <2>3. IsHeap(heap')
    <3>1. \A a \in 1 .. n : heap'[a] \in NodeOf(n)
      BY <1>6
    <3>. QED  BY <1>1, <1>6, <3>1 DEF IsHeap, NodeOf
  <2>. QED  BY <1>6, <2>2, <2>3, PathRead
<1>11. Aside(Q)
  BY <1>3, <1>6 DEF Aside
<1>. QED  BY <1>2, <1>3, <1>8, <1>9, <1>10, <1>11 DEF items


LEMMA DeqStep ==
  ASSUME TypeOK, NEW Q, NEW d, Shape(heap, lists, queue, Q, d), queueDeq
  PROVE  /\ TypeOK' /\ (\E R, e : Shape(heap', lists', queue', R, e)) /\ Aside(Q)
         /\ items # <<>> /\ items' = Tail(items) /\ queue_out' = <<Head(items)>>
<1> DEFINE N == Len(heap)
           f == queue.front
<1>1. N \in Nat /\ IsHeap(heap) /\ \A a \in 1 .. N : heap[a] \in NodeOf(N)
  BY Typed
<1>2. PICK q : /\ Path(heap, f, q) /\ q \in Seq(1 .. N) /\ Len(q) \in Nat
               /\ q # <<>> => q[Len(q)] = queue.rear
               /\ \A i \in 1 .. Len(q) : q[i] \in Q /\ q[i] \in 1 .. N
               /\ Values(heap, f) = Read(heap, q)
  BY <1>1, Items
<1>3. /\ f # NULL /\ queue' = [queue EXCEPT !.front = heap[f].next]
      /\ queue_out' = <<heap[f].value>> /\ heap' = heap /\ lists' = lists
  BY DEF queueDeq
<1> DEFINE t == Tail(q)
<1>4. /\ q # <<>> /\ Len(q) > 0 /\ q[1] = f /\ f \in 1 .. N
      /\ Path(heap, heap[f].next, t)
      /\ Len(t) = Len(q) - 1 /\ \A i \in 1 .. Len(q) - 1 : t[i] = q[i + 1]
  BY <1>2, <1>3, PathTail
<1> HIDE DEF t
<1>5. heap[f] \in NodeOf(N) /\ heap[f].next \in 0 .. N
  BY <1>1, <1>4 DEF NodeOf
<1>6. queue'.front = heap[f].next /\ queue'.rear = queue.rear
      /\ queue' \in [front : 0 .. N, rear : 0 .. N]
  BY <1>3, <1>5 DEF TypeOK
<1>7. TypeOK'
  BY <1>3, <1>6 DEF TypeOK
<1>8. Ends(heap', queue')
  <2>1. t # <<>> => t[Len(t)] = queue.rear
    <3>1. ASSUME t # <<>> PROVE t[Len(t)] = queue.rear
      <4>1. Len(t) # 0
        BY <1>4, <3>1 DEF Path
      <4>2. Len(t) \in 1 .. Len(q) - 1 /\ Len(t) + 1 = Len(q)
        BY <1>2, <1>4, <4>1
      <4>. QED  BY <1>2, <1>4, <4>2
    <3>. QED  BY <3>1
  <2>. QED  BY <1>3, <1>4, <1>6, <2>1 DEF Ends
<1>9. Apart(heap', lists', queue', Q)
  <2>1. heap[f].next # NULL => heap[f].next \in Q
    <3>1. f \in Q
      BY <1>2, <1>4
    <3>. QED  BY <1>4, <3>1 DEF Shape, Apart
  <2>. QED  BY <1>3, <1>6, <2>1 DEF Shape, Apart
<1>10. Shape(heap', lists', queue', Q, d)
  BY <1>3, <1>8, <1>9 DEF Shape
<1>11. /\ Read(heap, q) \in Seq(Int) /\ Len(Read(heap, q)) = Len(q)
       /\ \A i \in 1 .. Len(q) : Read(heap, q)[i] = heap[q[i]].value
  BY <1>2, ReadTyped
<1> DEFINE s == Read(heap, q)
<1>12. s # <<>> /\ s[1] = heap[f].value
  BY <1>2, <1>4, <1>11
<1>13. Read(heap, t) = [i \in 1 .. Len(q) - 1 |-> heap[q[i + 1]].value]
  BY <1>4 DEF Read
<1> HIDE DEF s
<1>14. Head(s) = s[1] /\ Tail(s) = [i \in 1 .. Len(s) - 1 |-> s[i + 1]]
  BY <1>11, <1>12, TailCells DEF s
<1>15. Tail(s) = [i \in 1 .. Len(q) - 1 |-> heap[q[i + 1]].value]
  <2>1. \A i \in 1 .. Len(q) - 1 : i + 1 \in 1 .. Len(q)
    BY <1>2
  <2>2. Len(s) = Len(q) /\ \A i \in 1 .. Len(q) - 1 : s[i + 1] = heap[q[i + 1]].value
    BY <1>11, <2>1 DEF s
  <2>. QED  BY <1>14, <2>2
<1>16. Values(heap, heap[f].next) = Read(heap, t)
  BY <1>1, <1>4, PathRead DEF Shape
<1>17. items = s /\ items' = Tail(s)
  BY <1>2, <1>3, <1>6, <1>13, <1>15, <1>16 DEF items, s
<1>. QED  BY <1>3, <1>7, <1>10, <1>12, <1>14, <1>17 DEF Aside

\* An empty queue, a question to it.
LEMMA MakeStep ==
  ASSUME TypeOK, NEW Q, NEW d, Shape(heap, lists, queue, Q, d), queueMake
  PROVE  /\ TypeOK' /\ (\E R, e : Shape(heap', lists', queue', R, e)) /\ Aside(Q)
         /\ items' = <<>> /\ queue_out' = <<>>
<1>1. Len(heap) \in Nat /\ IsHeap(heap) /\ Ranked(heap, d)
  BY Typed DEF Shape
<1>2. /\ queue' = [front |-> NULL, rear |-> NULL] /\ heap' = heap /\ lists' = lists
      /\ queue_out' = <<>>
  BY DEF queueMake, queue_t
<1>3. queue'.front = NULL
  BY <1>2
<1>4. TypeOK'
  BY <1>1, <1>2 DEF TypeOK, NULL
<1>5. PICK q : q = <<>> /\ Path(heap, NULL, q)
  BY PathEmpty
<1>6. Ends(heap', queue')
  BY <1>2, <1>3, <1>5 DEF Ends
<1>7. Apart(heap', lists', queue', Q)
  BY <1>2, <1>3 DEF Shape, Apart
<1>8. Shape(heap', lists', queue', Q, d)
  BY <1>1, <1>2, <1>6, <1>7 DEF Shape
<1>9. items' = <<>>
  <2>1. Values(heap, NULL) = Read(heap, q)
    BY <1>1, <1>5, PathRead
  <2>2. Read(heap, q) = <<>>
    BY <1>5 DEF Read
  <2>. QED  BY <1>2, <1>3, <2>1, <2>2 DEF items
<1>. QED  BY <1>2, <1>4, <1>8, <1>9 DEF Aside

LEMMA AskStep ==
  ASSUME TypeOK, NEW Q, NEW d, Shape(heap, lists, queue, Q, d), queueLen \/ queueIsEmpty
  PROVE  /\ TypeOK' /\ (\E R, e : Shape(heap', lists', queue', R, e)) /\ Aside(Q)
         /\ items' = items
         /\ \/ queue_out' = <<Len(items)>>
            \/ queue_out' = <<IF items = <<>> THEN 1 ELSE 0>>
<1>1. heap' = heap /\ lists' = lists /\ queue' = queue
  BY DEF queueLen, queueIsEmpty
<1>2. TypeOK' /\ Shape(heap', lists', queue', Q, d) /\ Aside(Q) /\ items' = items
  BY <1>1 DEF TypeOK, Aside, items
<1>3. PICK q : /\ Path(heap, queue.front, q) /\ Len(q) \in Nat
               /\ \A i \in 1 .. Len(q) : q[i] \in Q /\ q[i] \in 1 .. Len(heap)
               /\ listLen(heap, queue.front) = Len(q)
               /\ items = Read(heap, q)
  BY Typed, Items DEF items
<1>4. items \in Seq(Int) /\ Len(items) = Len(q)
  BY <1>3, ReadTyped
<1>5. CASE queueLen
  BY <1>2, <1>3, <1>4, <1>5 DEF queueLen
<1>6. CASE queueIsEmpty
  <2>1. items = <<>> => queue.front = NULL
    <3>1. queue.front # NULL => Len(q) > 0
      BY <1>3, PathHead
    <3>2. items = <<>> => Len(items) = 0
      OBVIOUS
    <3>. QED  BY <1>4, <3>1, <3>2
  <2>2. queue.front = NULL => items = <<>>
    <3>1. queue.front = NULL => ~(1 \in 1 .. Len(q))
      BY <1>3 DEF Path, Nth, NULL
    <3>. QED  BY <1>3, <1>4, <3>1
  <2>. QED  BY <1>2, <1>6, <2>1, <2>2 DEF queueIsEmpty
<1>. QED  BY <1>5, <1>6


-----------------------------------------------------------------------------
(***************************************************************************)
(* Every step                                                              *)
(***************************************************************************)
Inv == TypeOK /\ LInv

LEMMA InitInv == Init => Inv /\ Fifo!Init
<1>. SUFFICES ASSUME Init PROVE Inv /\ Fifo!Init
  OBVIOUS
<1>1. heap = <<>> /\ queue.front = NULL /\ Len(heap) = 0 /\ \A x \in Vars : lists[x] = NULL
  BY DEF Init, queue_t
<1>2. TypeOK
  BY DEF Init, TypeOK, queue_t, NULL
<1> DEFINE d == [a \in 1 .. 0 |-> 0]
<1>3. IsHeap(heap) /\ Ranked(heap, d)
  BY <1>1 DEF IsHeap, Ranked, Init
<1>4. PICK q : q = <<>> /\ Path(heap, NULL, q)
  BY PathEmpty
<1>5. Ends(heap, queue)
  BY <1>1, <1>4 DEF Ends
<1>6. Apart(heap, lists, queue, {})
  BY <1>1 DEF Apart
<1> HIDE DEF d
<1>7. LInv
  <2>1. Shape(heap, lists, queue, {}, d)
    BY <1>3, <1>5, <1>6 DEF Shape
  <2>. QED  BY <2>1 DEF LInv
<1>8. Values(heap, queue.front) = <<>>
  <2>1. Values(heap, NULL) = Read(heap, q)
    BY <1>3, <1>4, PathRead
  <2>2. Read(heap, q) = <<>>
    BY <1>4 DEF Read
  <2>. QED  BY <1>1, <2>1, <2>2
<1>. QED  BY <1>2, <1>7, <1>8 DEF Inv, Fifo!Init, Init

FifoStep == Fifo!Next \/ UNCHANGED <<items, queue_out>>

LEMMA QueueStep ==
  ASSUME TypeOK, NEW Q, NEW d, Shape(heap, lists, queue, Q, d), QueueNext
  PROVE  Inv' /\ Aside(Q) /\ FifoStep
<1>1. CASE queueMake
  <2>1. /\ TypeOK' /\ (\E R, e : Shape(heap', lists', queue', R, e)) /\ Aside(Q)
        /\ items' = <<>> /\ queue_out' = <<>>
    BY <1>1, MakeStep
  <2>. QED  BY <2>1 DEF Inv, LInv, FifoStep, items, Fifo!Next, Fifo!Make
<1>2. ASSUME NEW v \in Vals, queueEnq(v) PROVE Inv' /\ Aside(Q) /\ FifoStep
  <2>1. /\ TypeOK' /\ (\E R, e : Shape(heap', lists', queue', R, e)) /\ Aside(Q)
        /\ items' = Append(items, v) /\ queue_out' = <<v>>
    BY <1>2, EnqStep
  <2>. QED  BY <2>1 DEF Inv, LInv, FifoStep, items, Fifo!Next, Fifo!Enq
<1>3. CASE queueDeq
  <2>1. /\ TypeOK' /\ (\E R, e : Shape(heap', lists', queue', R, e)) /\ Aside(Q)
        /\ items # <<>> /\ items' = Tail(items) /\ queue_out' = <<Head(items)>>
    BY <1>3, DeqStep
  <2>. QED  BY <2>1 DEF Inv, LInv, FifoStep, items, Fifo!Next, Fifo!Deq
<1>4. CASE queueLen \/ queueIsEmpty
  <2>1. /\ TypeOK' /\ (\E R, e : Shape(heap', lists', queue', R, e)) /\ Aside(Q)
        /\ items' = items
        /\ \/ queue_out' = <<Len(items)>>
           \/ queue_out' = <<IF items = <<>> THEN 1 ELSE 0>>
    BY <1>4, AskStep
  <2>. QED  BY <2>1 DEF Inv, LInv, FifoStep, items, Fifo!Next, Fifo!Size, Fifo!IsEmpty
<1>. QED  BY <1>1, <1>2, <1>3, <1>4 DEF QueueNext

LEMMA ListFifo ==
  ASSUME TypeOK, NEW Q, NEW d, Shape(heap, lists, queue, Q, d), TypeOK', Untouched(Q)
  PROVE  Inv' /\ FifoStep
<1>1. PICK e : Shape(heap', lists', queue', Q, e)
  BY DEF Untouched
<1>2. queue' = queue /\ queue_out' = queue_out /\ Len(heap) <= Len(heap')
      /\ \A a \in Q : heap'[a] = heap[a]
  BY DEF Untouched
<1>3. IsHeap(heap) /\ IsHeap(heap')
  <2>1. \A a \in 1 .. Len(heap') : heap'[a] \in NodeOf(Len(heap'))
    <3>1. heap' \in Seq(NodeOf(Len(heap')))
      BY DEF TypeOK, NodeOf
    <3>. QED  BY <3>1
  <2>2. Len(heap') \in Nat /\ DOMAIN heap' = 1 .. Len(heap')
    BY DEF TypeOK
  <2>. QED  BY <2>1, <2>2, Typed DEF IsHeap, NodeOf
<1>4. Shape(heap', lists', queue, Q, e)
  BY <1>1, <1>2
<1>5. Values(heap', queue.front) = Values(heap, queue.front)
  BY <1>2, <1>3, <1>4, ItemsKept
<1>. QED  BY <1>1, <1>2, <1>5 DEF Inv, LInv, FifoStep, items


\* What a step of lists or queue keeps, and what it does to the queue.
NodesKept ==
  \A x \in Vars :
       \/ \A p \in Nodes(heap, lists[x]) : heap'[p] = heap[p]
       \/ \E y \in Vars : \/ \E v \in Vals : listSetHead(y, v)
                          \/ \E z \in Vars : listSetTail(y, z)

LEMMA StepInv ==
  ASSUME "cycle" \notin Allow, Inv, [Next]_vars
  PROVE  Inv' /\ FifoStep /\ NodesKept
<1>1. PICK Q, d : Shape(heap, lists, queue, Q, d)
  BY DEF Inv, LInv
<1>2. TypeOK /\ \A x \in Vars : Nodes(heap, lists[x]) \subseteq (1 .. Len(heap)) \ Q
  BY <1>1, NodesApart DEF Inv
<1>3. CASE ListNext
  <2>1. TypeOK' /\ Untouched(Q) /\ (Kept \/ ListSetter)
    BY <1>1, <1>2, <1>3, ListStep
  <2>2. Inv' /\ FifoStep
    BY <1>1, <1>2, <2>1, ListFifo
  <2>. QED  BY <1>2, <2>1, <2>2 DEF NodesKept, Kept, ListSetter
<1>4. CASE QueueNext
  <2>1. Inv' /\ Aside(Q) /\ FifoStep
    BY <1>1, <1>2, <1>4, QueueStep
  <2>. QED  BY <1>2, <2>1 DEF NodesKept, Aside
<1>5. CASE UNCHANGED vars
  <2>1. heap' = heap /\ lists' = lists /\ queue' = queue /\ queue_out' = queue_out
    BY <1>5 DEF vars
  <2>2. TypeOK' /\ LInv'
    BY <1>1, <1>2, <2>1 DEF TypeOK, LInv
  <2>. QED  BY <2>1, <2>2 DEF Inv, FifoStep, NodesKept, items
<1>. QED  BY <1>3, <1>4, <1>5 DEF Next

\* From a rank, the end of every list.
LEMMA InvEnds ==
  ASSUME Inv
  PROVE  ListsEnd
<1>1. PICK Q, d : Shape(heap, lists, queue, Q, d)
  BY DEF Inv, LInv
<1>2. IsHeap(heap) /\ Ranked(heap, d) /\ queue.front \in 0 .. Len(heap)
      /\ \A x \in Vars : lists[x] \in 0 .. Len(heap)
  BY <1>1, Typed DEF Inv, Shape
<1>3. ASSUME NEW xs \in 0 .. Len(heap) PROVE Following(heap, xs)[Len(heap)] = NULL
  <2>1. PICK q : Path(heap, xs, q)
    BY <1>2, PathExists
  <2>. QED  BY <1>2, <2>1, PathReads
<1>. QED  BY <1>2, <1>3 DEF ListsEnd

-----------------------------------------------------------------------------
(***************************************************************************)
(* Theorems, for a program that makes no list a cycle                      *)
(***************************************************************************)
\* No step makes an address of anything but a node, or NULL (datastructure.h's
\* node_t and queue_t): addresses are never past the heap.
THEOREM ListsTyped ==
  ASSUME "cycle" \notin Allow
  PROVE  Spec => []TypeOK
<1>1. Spec => []Inv
  BY InitInv, StepInv, PTL DEF Spec
<1>2. Inv => TypeOK
  BY DEF Inv
<1>. QED  BY <1>1, <1>2, PTL

\* The recursions and loops over lists return: every list and the queue come to
\* an end, whatever was shared, copied or set.
THEOREM ListsComeToAnEnd ==
  ASSUME "cycle" \notin Allow
  PROVE  Spec => []ListsEnd
<1>1. Spec => []Inv
  BY InitInv, StepInv, PTL DEF Spec
<1>. QED  BY <1>1, InvEnds, PTL

\* Only listSetHead and listSetTail change a node that a list has: an append
\* copies, and the queue's nodes are never a list's.
THEOREM ListsKeepTheirNodes ==
  ASSUME "cycle" \notin Allow
  PROVE  Spec => OnlySettersChangeLists
<1>1. Spec => []Inv
  BY InitInv, StepInv, PTL DEF Spec
<1>2. Inv /\ [Next]_vars => [NodesKept]_vars
  BY StepInv
<1>3. Spec => [][NodesKept]_vars
  BY <1>1, <1>2, PTL DEF Spec
<1>. QED  BY <1>3 DEF OnlySettersChangeLists, NodesKept

\* The queue of the runtime implements a queue: its values leave in the order
\* they came, also after it ran empty with its rear left behind.
THEOREM QueueImplementsFifo ==
  ASSUME "cycle" \notin Allow
  PROVE  Spec => QueueIsFifo
<1>1. Spec => []Inv
  BY InitInv, StepInv, PTL DEF Spec
<1>2. Inv /\ [Next]_vars => [Fifo!Next]_<<items, queue_out>>
  BY StepInv DEF FifoStep
<1>3. Init => Fifo!Init
  BY InitInv
<1>4. Spec => Fifo!Init /\ [][Fifo!Next]_<<items, queue_out>>
  BY <1>1, <1>2, <1>3, PTL DEF Spec
<1>. QED  BY <1>4 DEF QueueIsFifo, Fifo!Spec, items
=============================================================================
