--------------------------- MODULE StackWalkProofs ---------------------------
(***************************************************************************)
(* The walker finds the handler lexical scoping means, for any number of   *)
(* effects, handlers, frames, capabilities and labels.                     *)
(*                                                                         *)
(* Stack(fs, e, tl) says that frames fs belong together under code with    *)
(* environment e: every frame's row takes the clues of its callee to its   *)
(* own (Link), whatever code names is installed below it (Scoped), code on *)
(* a general handler's stack names handlers on its stack or above, or what *)
(* it reaches by what that handler captures (Within), and on top of a      *)
(* raise is the operation of the handler its clue means (Targets).  It is  *)
(* kept by pushing a frame that fits (PushOne), by going back to a frame's *)
(* code (PopTo), and by resuming what was taken from a stack of which a    *)
(* lower part is still there (Join).  A walk on such a stack keeps, beside *)
(* its clue, one position per clue put aside, going down (Chain).          *)
(***************************************************************************)
EXTENDS StackWalk, SequenceTheorems, TLAPS

-----------------------------------------------------------------------------
(***************************************************************************)
(* Sequences of anything                                                   *)
(***************************************************************************)
IsSeq(q) == \E S : q \in Seq(S)

LEMMA SeqShape ==
  ASSUME NEW q, IsSeq(q)
  PROVE  Len(q) \in Nat /\ DOMAIN q = 1 .. Len(q)
BY DEF IsSeq

LEMMA Eta ==
  ASSUME NEW S, NEW q \in Seq(S)
  PROVE  q = [i \in 1 .. Len(q) |-> q[i]]
OBVIOUS

\* Sequences with the same elements are the same.
LEMMA SameSeq ==
  ASSUME NEW q, NEW r, IsSeq(q), IsSeq(r), Len(q) = Len(r),
         \A i \in 1 .. Len(q) : q[i] = r[i]
  PROVE  q = r
<1>1. q = [i \in 1 .. Len(q) |-> q[i]]
  BY Eta DEF IsSeq
<1>2. r = [i \in 1 .. Len(r) |-> r[i]]
  BY Eta DEF IsSeq
<1>. QED  BY <1>1, <1>2

LEMMA AppendShape ==
  ASSUME NEW q, IsSeq(q), NEW x
  PROVE  /\ IsSeq(Append(q, x)) /\ Len(Append(q, x)) = Len(q) + 1
         /\ \A i \in 1 .. Len(q) : Append(q, x)[i] = q[i]
         /\ Append(q, x)[Len(q) + 1] = x
<1>1. PICK S : q \in Seq(S)
  BY DEF IsSeq
<1> DEFINE T == S \cup {x}
<1>2. q \in Seq(T) /\ x \in T
  BY <1>1
<1>3. Append(q, x) \in Seq(T) /\ Len(Append(q, x)) = Len(q) + 1
  BY <1>2
<1>4. /\ \A i \in 1 .. Len(q) : Append(q, x)[i] = q[i]
      /\ Append(q, x)[Len(q) + 1] = x
  BY <1>2
<1>. QED  BY <1>3, <1>4 DEF IsSeq

LEMMA ConcatShape ==
  ASSUME NEW q, IsSeq(q), NEW r, IsSeq(r)
  PROVE  /\ IsSeq(q \o r) /\ Len(q \o r) = Len(q) + Len(r)
         /\ \A i \in 1 .. Len(q) : (q \o r)[i] = q[i]
         /\ \A i \in 1 .. Len(r) : (q \o r)[Len(q) + i] = r[i]
<1>1. PICK S : q \in Seq(S)
  BY DEF IsSeq
<1>2. PICK S2 : r \in Seq(S2)
  BY DEF IsSeq
<1> DEFINE T == S \cup S2
<1>3. q \in Seq(T) /\ r \in Seq(T)
  BY <1>1, <1>2
<1>4. q \o r \in Seq(T) /\ Len(q \o r) = Len(q) + Len(r)
  BY <1>3
<1>5. \A i \in 1 .. Len(q) : (q \o r)[i] = q[i]
  BY <1>3
<1>6. \A i \in 1 .. Len(r) : (q \o r)[Len(q) + i] = r[i]
  BY <1>3
<1>. QED  BY <1>4, <1>5, <1>6 DEF IsSeq

\* The part from place m to place n.
LEMMA SliceShape ==
  ASSUME NEW q, IsSeq(q), NEW m \in 1 .. Len(q) + 1, NEW n \in m - 1 .. Len(q)
  PROVE  /\ IsSeq(SubSeq(q, m, n)) /\ Len(SubSeq(q, m, n)) = n - m + 1
         /\ \A i \in 1 .. n - m + 1 : SubSeq(q, m, n)[i] = q[m + i - 1]
<1>1. PICK S : q \in Seq(S)
  BY DEF IsSeq
<1>2. Len(q) \in Nat /\ m \in Nat /\ n \in Nat
  BY <1>1
<1>3. \A i \in m .. n : q[i] \in S
  BY <1>1, <1>2
<1>4. /\ SubSeq(q, m, n) \in Seq(S)
      /\ Len(SubSeq(q, m, n)) = IF m <= n THEN n - m + 1 ELSE 0
      /\ \A i \in 1 .. n - m + 1 : SubSeq(q, m, n)[i] = q[m + i - 1]
  BY <1>2, <1>3, SubSeqProperties
<1>5. n >= m - 1
  BY <1>2
<1>6. Len(SubSeq(q, m, n)) = n - m + 1
  BY <1>2, <1>4, <1>5
<1>. QED  BY <1>4, <1>6 DEF IsSeq

LEMMA TailShape ==
  ASSUME NEW q, IsSeq(q), q # <<>>
  PROVE  /\ IsSeq(Tail(q)) /\ Len(Tail(q)) = Len(q) - 1 /\ Head(q) = q[1]
         /\ Len(q) >= 1
         /\ \A i \in 1 .. Len(q) - 1 : Tail(q)[i] = q[i + 1]
<1>1. PICK S : q \in Seq(S)
  BY DEF IsSeq
<1>2. Tail(q) \in Seq(S) /\ Len(Tail(q)) = Len(q) - 1 /\ Head(q) = q[1] /\ Len(q) >= 1
  BY <1>1
<1>3. \A i \in 1 .. Len(q) - 1 : Tail(q)[i] = q[i + 1]
  BY <1>1
<1>. QED  BY <1>2, <1>3 DEF IsSeq

-----------------------------------------------------------------------------
(***************************************************************************)
(* What a clue means                                                       *)
(***************************************************************************)
\* Clue c, to code with environment e, means handler g.
Means(c, e, g) == c \in Clues /\ g \in Handlers /\ g.sig = c.sig /\ Denotes(c, e) = g

Sorted(cap) == \A s \in Effects : cap[s] # NoHandler => cap[s].sig = s

\* Environments of the program: a capability holds handlers of their effects.
GoodEnv(e) == e \in Env /\ Sorted(e.captured) /\ \A i \in DOMAIN e.caps : Sorted(e.caps[i])

LEMMA Constants ==
  /\ EFFECT_NUM \in Nat /\ EFFECT_NUM > 0
  /\ Effects \subseteq Nat /\ 0 \in Effects
  /\ NoHandler \notin Handlers
<1>1. Handlers \subseteq [sig : Nat, id : Ids]
  BY WalkAssumption DEF Handlers, Effects, Stock
<1>. QED  BY <1>1, WalkAssumption DEF Effects

LEMMA NoHandlers ==
  ASSUME NEW cap \in Capability, NEW s \in Effects
  PROVE  cap[s] \in Handlers \cup {NoHandler}
BY DEF Capability

LEMMA NoCapabilityShape ==
  NoCapability \in Capability /\ Sorted(NoCapability) /\ \A s \in Effects : NoCapability[s] = NoHandler
BY DEF NoCapability, Capability, Sorted

LEMMA OpEnvShape ==
  ASSUME NEW cap \in Capability
  PROVE  /\ OpEnv(cap) \in Env /\ OpEnv(cap).captured = cap
         /\ Sorted(cap) => GoodEnv(OpEnv(cap))
BY DEF OpEnv, Env, GoodEnv

\* Code that knows only what is captured names it by Infty.
LEMMA OpEnvMeans ==
  ASSUME NEW cap \in Capability, NEW c, NEW g, Means(c, OpEnv(cap), g)
  PROVE  c = Clue(c.sig, Infty) /\ c.sig \in Effects /\ cap[c.sig] = g /\ g # NoHandler
<1>1. c \in Clues /\ g \in Handlers /\ Den(c.sig, <<c.type, c.index>>, OpEnv(cap)) = g /\ g # NoHandler
  BY Constants DEF Means, Denotes
<1>2. /\ OpEnv(cap).labels = <<>> /\ OpEnv(cap).caps = <<>> /\ OpEnv(cap).captured = cap
  BY DEF OpEnv
<1>3. <<c.type, c.index>> = Infty /\ cap[c.sig] = g
  BY <1>1, <1>2 DEF Den
<1>4. c = [sig |-> c.sig, type |-> c.type, index |-> c.index] /\ c.sig \in Effects
  BY <1>1 DEF Clues
<1>5. c.type = 2 /\ c.index = 0 /\ Infty[1] = 2 /\ Infty[2] = 0
  BY <1>3 DEF Infty
<1>. QED  BY <1>1, <1>3, <1>4, <1>5 DEF Clue

LEMMA MeansCaptured ==
  ASSUME NEW e, e.captured \in Capability, Sorted(e.captured), NEW s \in Effects, e.captured[s] # NoHandler
  PROVE  Means(Clue(s, Infty), e, e.captured[s])
<1>1. e.captured[s] \in Handlers /\ e.captured[s].sig = s
  BY NoHandlers DEF Sorted
<1>2. Clue(s, Infty) = [sig |-> s, type |-> 2, index |-> 0]
  BY DEF Clue, Infty
<1>3. Clue(s, Infty) \in Clues
  BY <1>2 DEF Clues
<1>4. Den(s, <<2, 0>>, e) = e.captured[s]
  BY DEF Den, Infty
<1>. QED  BY <1>1, <1>2, <1>3, <1>4 DEF Means, Denotes

\* So do a handler's operations.
LEMMA MeansOp ==
  ASSUME NEW cap \in Capability, Sorted(cap), NEW s \in Effects, cap[s] # NoHandler
  PROVE  Means(Clue(s, Infty), OpEnv(cap), cap[s])
BY MeansCaptured DEF OpEnv

LEMMA BodyEnvShape ==
  ASSUME NEW cap \in Capability, Sorted(cap), NEW h \in Handlers
  PROVE  GoodEnv(BodyEnv(h, cap))
<1>1. (IF h.sig \in Effects THEN <<h>> ELSE <<>>) \in Seq(Handlers)
  OBVIOUS
<1>2. BodyEnv(h, cap) \in Env
  BY <1>1 DEF BodyEnv, Env
<1>. QED  BY <1>2 DEF GoodEnv, BodyEnv

Own(c) == c.type = 0 /\ c.index = 0

\* The body of a handler knows it by label 0, and what is captured by Infty.
LEMMA BodyEnvMeans ==
  ASSUME NEW cap \in Capability, NEW h \in Handlers, NEW c, NEW g, Means(c, BodyEnv(h, cap), g)
  PROVE  \/ Own(c) /\ g = h
         \/ ~Own(c) /\ c = Clue(c.sig, Infty) /\ c.sig \in Effects /\ cap[c.sig] = g /\ g # NoHandler
<1> DEFINE e == BodyEnv(h, cap)
<1>1. c \in Clues /\ g \in Handlers /\ Den(c.sig, <<c.type, c.index>>, e) = g /\ g # NoHandler
  BY Constants DEF Means, Denotes
<1>2. /\ e.labels = IF h.sig \in Effects THEN <<h>> ELSE <<>>
      /\ e.caps = <<>> /\ e.captured = cap
  BY DEF BodyEnv
<1>3. c.sig \in Effects /\ c.type \in Nat /\ c.index \in Nat
      /\ c = [sig |-> c.sig, type |-> c.type, index |-> c.index]
  BY <1>1 DEF Clues
<1> HIDE DEF e
<1>4. CASE c.type = 0 /\ c.index + 1 \in DOMAIN e.labels
  <2>1. e.labels = <<h>> /\ c.index = 0
    BY <1>2, <1>3, <1>4
  <2>2. e.labels[c.index + 1] = g
    BY <1>1, <1>4, <<c.type, c.index>> # Infty DEF Den, Infty
  <2>. QED  BY <1>4, <2>1, <2>2 DEF Own
<1>5. CASE ~(c.type = 0 /\ c.index + 1 \in DOMAIN e.labels)
  <2>1. <<c.type, c.index>> = Infty /\ e.captured[c.sig] = g
    BY <1>1, <1>2, <1>3, <1>5 DEF Den
  <2>2. c.type = 2 /\ c.index = 0 /\ Infty[1] = 2 /\ Infty[2] = 0
    BY <2>1 DEF Infty
  <2>. QED  BY <1>1, <1>2, <1>3, <2>1, <2>2 DEF Clue, Own
<1>. QED  BY <1>4, <1>5

-----------------------------------------------------------------------------
(***************************************************************************)
(* What a call passes                                                      *)
(***************************************************************************)
\* A name for a label of effect s.
LEMMA LabelNameGood ==
  ASSUME NEW e, GoodEnv(e), NEW s \in Effects, NEW n \in LabelNames(s, e)
  PROVE  /\ n \in Names /\ n = <<n[1], n[2]>> /\ n[1] \in {0, 2} /\ n[2] \in Nat
         /\ Den(s, n, e) \in Handlers /\ Den(s, n, e).sig = s
<1>1. CASE n \in {LabelIndex(i - 1) : i \in {j \in DOMAIN e.labels : e.labels[j].sig = s}}
  <2>1. PICK i \in DOMAIN e.labels : e.labels[i].sig = s /\ n = LabelIndex(i - 1)
    BY <1>1
  <2>2. e.labels \in Seq(Handlers)
    BY DEF GoodEnv, Env
  <2>3. e.labels[i] \in Handlers /\ i \in Nat /\ i >= 1
    BY <2>1, <2>2
  <2>4. n = <<0, i - 1>> /\ n[1] = 0 /\ n[2] = i - 1 /\ i - 1 \in Nat /\ n[2] + 1 = i
    BY <2>1, <2>3 DEF LabelIndex
  <2>5. Den(s, n, e) = e.labels[i]
    BY <2>1, <2>4 DEF Den, Infty
  <2>6. n \in Names
    BY <2>4 DEF Names
  <2>. QED  BY <2>1, <2>3, <2>4, <2>5, <2>6
<1>2. CASE e.captured[s] # NoHandler /\ n = Infty
  <2>1. e.captured[s] \in Handlers /\ e.captured[s].sig = s
    BY <1>2, NoHandlers DEF GoodEnv, Env, Sorted
  <2>2. Den(s, n, e) = e.captured[s]
    BY <1>2 DEF Den, Infty
  <2>. QED  BY <1>2, <2>1, <2>2 DEF Names, Infty
<1>. QED  BY <1>1, <1>2 DEF LabelNames

\* What code may raise means a handler.
LEMMA LabelMeans ==
  ASSUME NEW e, GoodEnv(e), NEW c \in Labels(e)
  PROVE  /\ Means(c, e, Denotes(c, e)) /\ c # NoClue
         /\ <<c.type, c.index>> \in LabelNames(c.sig, e)
<1>1. PICK s \in Effects : \E n \in LabelNames(s, e) : c = Clue(s, n)
  BY DEF Labels
<1>n. PICK n \in LabelNames(s, e) : c = Clue(s, n)
  BY <1>1
<1>2. /\ n \in Names /\ n = <<n[1], n[2]>> /\ n[1] \in {0, 2} /\ n[2] \in Nat
      /\ Den(s, n, e) \in Handlers /\ Den(s, n, e).sig = s
  BY LabelNameGood
<1>3. c.sig = s /\ c.type = n[1] /\ c.index = n[2] /\ <<c.type, c.index>> = n
  BY <1>n, <1>2 DEF Clue
<1>4. c \in Clues
  BY <1>n, <1>2 DEF Clue, Clues
<1>5. NoClue.type = 15
  BY DEF NoClue, Clue, NA
<1>. QED  BY <1>2, <1>3, <1>4, <1>5 DEF Means, Denotes

\* A name in a table's cell of effect s.
NameGood(n, s, e) ==
  /\ n \in Names \cup {NA} /\ n = <<n[1], n[2]>> /\ n[1] \in 0 .. 15 /\ n[2] \in Nat
  /\ Den(s, n, e) \in Handlers \cup {NoHandler}
  /\ Den(s, n, e) # NoHandler => Den(s, n, e).sig = s
  /\ n = NA => Den(s, n, e) = NoHandler

\* What a capability is to the caller, for one effect.
LEMMA CellGood ==
  ASSUME NEW e, GoodEnv(e), NEW k \in Written(e), NEW s \in Effects
  PROVE  NameGood(Cell(k, s), s, e)
<1>n. SUFFICES ASSUME NEW n, n = Cell(k, s)
               PROVE  NameGood(n, s, e)
  OBVIOUS
<1>1. CASE k.label[s] # NA
  <2>1. n \in LabelNames(s, e)
    BY <1>n, <1>1 DEF Written, Cell
  <2>2. /\ n \in Names /\ n = <<n[1], n[2]>> /\ n[1] \in {0, 2} /\ n[2] \in Nat
        /\ Den(s, n, e) \in Handlers /\ Den(s, n, e).sig = s
    BY <2>1, LabelNameGood
  <2>3. n # NA
    BY <1>n, <1>1 DEF Cell
  <2>. QED  BY <2>2, <2>3 DEF NameGood
<1>2. CASE k.label[s] = NA
  <2>1. n = k.var /\ k.var \in CapNames(e)
    BY <1>n, <1>2 DEF Cell, Written
  <2>2. CASE n = NA
    <3>1. n = <<15, 15>> /\ n[1] = 15 /\ n[2] = 15
      BY <2>2 DEF NA
    <3>2. Den(s, n, e) = NoHandler
      BY <3>1 DEF Den, Infty
    <3>. QED  BY <2>2, <3>1, <3>2 DEF NameGood
  <2>3. CASE n = Infty
    <3>1. n = <<2, 0>> /\ n[1] = 2 /\ n[2] = 0 /\ n # NA
      BY <2>3 DEF Infty, NA
    <3>2. Den(s, n, e) = e.captured[s]
      BY <2>3, <3>1 DEF Den
    <3>3. e.captured[s] \in Handlers \cup {NoHandler}
      BY NoHandlers DEF GoodEnv, Env
    <3>4. n \in Names
      BY <3>1 DEF Names
    <3>5. e.captured[s] # NoHandler => e.captured[s].sig = s
      BY DEF GoodEnv, Sorted
    <3>. QED  BY <3>1, <3>2, <3>3, <3>4, <3>5 DEF NameGood
  <2>4. CASE n \in {CapIndex(i - 1) : i \in DOMAIN e.caps}
    <3>1. PICK i \in DOMAIN e.caps : n = CapIndex(i - 1)
      BY <2>4
    <3>2. e.caps \in Seq(Capability)
      BY DEF GoodEnv, Env
    <3>3. e.caps[i] \in Capability /\ i \in Nat /\ i >= 1
      BY <3>1, <3>2
    <3>4. n = <<1, i - 1>> /\ n[1] = 1 /\ n[2] = i - 1 /\ i - 1 \in Nat /\ n[2] + 1 = i
      BY <3>1, <3>3 DEF CapIndex
    <3>5. Den(s, n, e) = e.caps[i][s]
      BY <3>1, <3>4 DEF Den, Infty
    <3>6. n \in Names /\ n # NA
      BY <3>4 DEF Names, NA
    <3>7. e.caps[i][s] \in Handlers \cup {NoHandler}
      BY <3>3, NoHandlers
    <3>8. e.caps[i][s] # NoHandler => e.caps[i][s].sig = s
      BY <3>1 DEF GoodEnv, Sorted
    <3>. QED  BY <3>4, <3>5, <3>6, <3>7, <3>8 DEF NameGood
  <2>. QED  BY <2>1, <2>2, <2>3, <2>4 DEF CapNames
<1>. QED  BY <1>1, <1>2

LEMMA ValueGood ==
  ASSUME NEW e, GoodEnv(e), NEW k \in Written(e)
  PROVE  /\ Value(k, e) \in Capability /\ Sorted(Value(k, e))
         /\ \A s \in Effects : Value(k, e)[s] = Den(s, Cell(k, s), e)
<1>1. \A s \in Effects : /\ Den(s, Cell(k, s), e) \in Handlers \cup {NoHandler}
                         /\ Den(s, Cell(k, s), e) # NoHandler => Den(s, Cell(k, s), e).sig = s
  BY CellGood DEF NameGood
<1>2. Value(k, e) = [s \in Effects |-> Den(s, Cell(k, s), e)]
  BY DEF Value
<1>. QED  BY <1>1, <1>2 DEF Capability, Sorted

-----------------------------------------------------------------------------
(***************************************************************************)
(* The row of a call                                                       *)
(***************************************************************************)
LEMMA Mono ==
  ASSUME NEW a \in Nat, NEW b \in Nat, NEW w \in Nat, a < b
  PROVE  a * w + w <= b * w
<1>1. PICK d \in Nat : b = a + 1 + d
  <2>1. b - a - 1 \in Nat /\ b = a + 1 + (b - a - 1)
    OBVIOUS
  <2>. QED  BY <2>1
<1>2. b * w = a * w + w + d * w
  BY <1>1
<1>3. d * w >= 0
  OBVIOUS
<1>4. a * w \in Nat /\ b * w \in Nat /\ d * w \in Nat
  OBVIOUS
<1>. QED  BY <1>2, <1>3, <1>4

\* The flat table is read back by effect and cell.
LEMMA DivMod ==
  ASSUME NEW s \in Nat, NEW w \in Nat, w >= 1, NEW o \in 0 .. w - 1
  PROVE  (s * w + o) \div w = s /\ (s * w + o) % w = o
<1> DEFINE a == s * w + o
           q == a \div w
           r == a % w
<1>1. a \in Nat
  OBVIOUS
<1>2. a = w * q + r /\ r \in 0 .. w - 1 /\ q \in Int
  BY <1>1
<1>q. q \in Nat
  BY <1>1
<1>5. w * q = q * w /\ q * w \in Nat /\ s * w \in Nat
  BY <1>q
<1>a. a = s * w + o
  OBVIOUS
<1> HIDE DEF a, q, r
<1>3. CASE s < q
  <2>1. s * w + w <= q * w
    BY <1>3, <1>q, Mono
  <2>. QED  BY <2>1, <1>2, <1>5, <1>a
<1>4. CASE q < s
  <2>1. q * w + w <= s * w
    BY <1>4, <1>q, Mono
  <2>. QED  BY <2>1, <1>2, <1>5, <1>a
<1>6. CASE q = s
  <2>1. r = o
    BY <1>2, <1>5, <1>6, <1>a
  <2>. QED  BY <2>1, <1>6 DEF q, r, a
<1>. QED  BY <1>3, <1>4, <1>6, <1>q

\* Metadata of a call that code with environment e can make.
Passed(md, e) ==
  /\ md.captured_set \in Written(e)
  /\ md.cap_insts \in Seq(Written(e))
  /\ md.label_insts \in Seq(Labels(e))

LEMMA Three ==
  ASSUME NEW x, NEW b, IsSeq(b), NEW c, IsSeq(c)
  PROVE  /\ IsSeq(<<x>> \o b \o c) /\ Len(<<x>> \o b \o c) = 1 + Len(b) + Len(c)
         /\ (<<x>> \o b \o c)[1] = x
         /\ \A i \in 1 .. Len(b) : (<<x>> \o b \o c)[1 + i] = b[i]
         /\ \A i \in 1 .. Len(c) : (<<x>> \o b \o c)[1 + Len(b) + i] = c[i]
<1>1. IsSeq(<<x>>) /\ Len(<<x>>) = 1 /\ <<x>>[1] = x
  <2>1. <<x>> \in Seq({x})
    OBVIOUS
  <2>. QED  BY <2>1 DEF IsSeq
<1> DEFINE p == <<x>> \o b
<1>2. /\ IsSeq(p) /\ Len(p) = 1 + Len(b)
      /\ \A i \in 1 .. 1 : p[i] = <<x>>[i]
      /\ \A i \in 1 .. Len(b) : p[1 + i] = b[i]
  BY <1>1, ConcatShape
<1>3. Len(b) \in Nat /\ Len(c) \in Nat
  BY SeqShape
<1> HIDE DEF p
<1>p. IsSeq(p)
  BY <1>2
<1>c. /\ IsSeq(p \o c) /\ Len(p \o c) = Len(p) + Len(c)
      /\ \A i \in 1 .. Len(p) : (p \o c)[i] = p[i]
      /\ \A i \in 1 .. Len(c) : (p \o c)[Len(p) + i] = c[i]
  BY <1>p, ConcatShape
<1>4. /\ IsSeq(p \o c) /\ Len(p \o c) = 1 + Len(b) + Len(c)
      /\ \A i \in 1 .. 1 + Len(b) : (p \o c)[i] = p[i]
      /\ \A i \in 1 .. Len(c) : (p \o c)[1 + Len(b) + i] = c[i]
  <2>1. Len(p) = 1 + Len(b)
    BY <1>2
  <2>. QED  BY <1>c, <2>1
<1>5. (p \o c)[1] = x
  BY <1>1, <1>2, <1>3, <1>4
<1>6. \A i \in 1 .. Len(b) : (p \o c)[1 + i] = b[i]
  BY <1>2, <1>3, <1>4
<1>. QED  BY <1>4, <1>5, <1>6 DEF p

\* A table of functions over two sequences.
LEMMA MapShape ==
  ASSUME NEW q, IsSeq(q), NEW f, f = [i \in DOMAIN q |-> f[i]]
  PROVE  IsSeq(f) /\ Len(f) = Len(q)
<1>1. Len(q) \in Nat /\ DOMAIN q = 1 .. Len(q)
  BY SeqShape
<1>2. f \in [1 .. Len(q) -> {f[i] : i \in 1 .. Len(q)}]
  BY <1>1
<1>3. f \in Seq({f[i] : i \in 1 .. Len(q)}) /\ Len(f) = Len(q)
  BY <1>1, <1>2
<1>. QED  BY <1>3 DEF IsSeq

LEMMA CellsShape ==
  ASSUME NEW e, NEW md, Passed(md, e), NEW s \in Effects
  PROVE  /\ cap_num(md) \in Nat /\ label_num(md) \in Nat
         /\ DOMAIN Unmoved(md) = 1 .. 1 + cap_num(md) + label_num(md)
         /\ Cells(md, s)[1] = Cell(md.captured_set, s) /\ Unmoved(md)[1] = Infty
         /\ \A i \in 1 .. cap_num(md) :
              /\ Cells(md, s)[1 + i] = Cell(md.cap_insts[i], s)
              /\ Unmoved(md)[1 + i] = CapIndex(i - 1)
         /\ \A i \in 1 .. label_num(md) :
              /\ Cells(md, s)[1 + cap_num(md) + i] = <<md.label_insts[i].type, md.label_insts[i].index>>
              /\ Unmoved(md)[1 + cap_num(md) + i] = LabelIndex(i - 1)
<1>1. IsSeq(md.cap_insts) /\ IsSeq(md.label_insts)
  BY DEF Passed, IsSeq
<1>2. /\ cap_num(md) \in Nat /\ DOMAIN md.cap_insts = 1 .. cap_num(md)
      /\ label_num(md) \in Nat /\ DOMAIN md.label_insts = 1 .. label_num(md)
  BY <1>1, SeqShape DEF cap_num, label_num
<1>3. /\ Len(md.cap_insts) = cap_num(md) /\ Len(md.label_insts) = label_num(md)
  BY DEF cap_num, label_num
<1> DEFINE b == [i \in DOMAIN md.cap_insts |-> Cell(md.cap_insts[i], s)]
           c == [i \in DOMAIN md.label_insts |-> <<md.label_insts[i].type, md.label_insts[i].index>>]
           b0 == [i \in DOMAIN md.cap_insts |-> CapIndex(i - 1)]
           c0 == [i \in DOMAIN md.label_insts |-> LabelIndex(i - 1)]
<1>4. /\ IsSeq(b) /\ Len(b) = cap_num(md) /\ IsSeq(b0) /\ Len(b0) = cap_num(md)
  <2>1. b = [i \in DOMAIN md.cap_insts |-> b[i]] /\ b0 = [i \in DOMAIN md.cap_insts |-> b0[i]]
    OBVIOUS
  <2>. HIDE DEF b, b0
  <2>. QED  BY <2>1, <1>1, <1>3, MapShape
<1>5. /\ IsSeq(c) /\ Len(c) = label_num(md) /\ IsSeq(c0) /\ Len(c0) = label_num(md)
  <2>1. c = [i \in DOMAIN md.label_insts |-> c[i]] /\ c0 = [i \in DOMAIN md.label_insts |-> c0[i]]
    OBVIOUS
  <2>. HIDE DEF c, c0
  <2>. QED  BY <2>1, <1>1, <1>3, MapShape
<1>6. Cells(md, s) = <<Cell(md.captured_set, s)>> \o b \o c /\ Unmoved(md) = <<Infty>> \o b0 \o c0
  BY DEF Cells, Unmoved
<1>7. /\ \A i \in 1 .. cap_num(md) : b[i] = Cell(md.cap_insts[i], s) /\ b0[i] = CapIndex(i - 1)
      /\ \A i \in 1 .. label_num(md) : /\ c[i] = <<md.label_insts[i].type, md.label_insts[i].index>>
                                       /\ c0[i] = LabelIndex(i - 1)
  BY <1>2
<1> HIDE DEF b, c, b0, c0
<1>s. IsSeq(b) /\ IsSeq(c)
  BY <1>4, <1>5
<1>t. IsSeq(b0) /\ IsSeq(c0)
  BY <1>4, <1>5
<1> DEFINE y == Infty
<1> HIDE DEF y
<1>a. /\ IsSeq(<<y>> \o b0 \o c0) /\ Len(<<y>> \o b0 \o c0) = 1 + Len(b0) + Len(c0)
      /\ (<<y>> \o b0 \o c0)[1] = y
      /\ \A i \in 1 .. Len(b0) : (<<y>> \o b0 \o c0)[1 + i] = b0[i]
      /\ \A i \in 1 .. Len(c0) : (<<y>> \o b0 \o c0)[1 + Len(b0) + i] = c0[i]
  BY <1>t, Three, SMTT(20)
<1> DEFINE x == Cell(md.captured_set, s)
<1> HIDE DEF x
<1>b. /\ (<<x>> \o b \o c)[1] = x
      /\ \A i \in 1 .. Len(b) : (<<x>> \o b \o c)[1 + i] = b[i]
      /\ \A i \in 1 .. Len(c) : (<<x>> \o b \o c)[1 + Len(b) + i] = c[i]
  BY <1>s, Three
<1>8. /\ Cells(md, s)[1] = Cell(md.captured_set, s)
      /\ \A i \in 1 .. cap_num(md) : Cells(md, s)[1 + i] = b[i]
      /\ \A i \in 1 .. label_num(md) : Cells(md, s)[1 + cap_num(md) + i] = c[i]
  BY <1>4, <1>5, <1>6, <1>b DEF x
<1>9. /\ Unmoved(md)[1] = Infty
      /\ \A i \in 1 .. cap_num(md) : Unmoved(md)[1 + i] = b0[i]
      /\ \A i \in 1 .. label_num(md) : Unmoved(md)[1 + cap_num(md) + i] = c0[i]
      /\ IsSeq(Unmoved(md)) /\ Len(Unmoved(md)) = 1 + cap_num(md) + label_num(md)
  BY <1>4, <1>5, <1>6, <1>a DEF y
<1>10. DOMAIN Unmoved(md) = 1 .. 1 + cap_num(md) + label_num(md)
  BY <1>9, SeqShape
<1>. QED  BY <1>2, <1>7, <1>8, <1>9, <1>10

\* The place where a call's row has what the callee knows by clue c.
Offset(c, md) ==
  CASE c.type = 0 -> 1 + cap_num(md) + c.index
    [] c.type = 1 -> 1 + c.index
    [] OTHER -> 0
Width(md) == 1 + cap_num(md) + label_num(md)

LEMMA NothingCell ==
  ASSUME NEW s \in Effects
  PROVE  Cell(NothingWritten, s) = NA
BY DEF NothingWritten, Cell

\* There is what the clue means, under the caller's name.
LEMMA CellMeans ==
  ASSUME NEW e, GoodEnv(e), NEW md, Passed(md, e), NEW c, NEW g, Means(c, Callee(md, e), g)
  PROVE  /\ Offset(c, md) \in 0 .. Width(md) - 1
         /\ NameGood(Cells(md, c.sig)[Offset(c, md) + 1], c.sig, e)
         /\ Den(c.sig, Cells(md, c.sig)[Offset(c, md) + 1], e) = g
         /\ Unmoved(md)[Offset(c, md) + 1] = <<c.type, c.index>>
         /\ ~Empty(md)
<1> DEFINE s == c.sig
           ce == Callee(md, e)
           o == Offset(c, md)
<1>1. /\ c \in Clues /\ g \in Handlers /\ g.sig = s /\ Den(s, <<c.type, c.index>>, ce) = g
      /\ g # NoHandler
  BY Constants DEF Means, Denotes
<1>2. s \in Effects /\ c.type \in Nat /\ c.index \in Nat
  BY <1>1 DEF Clues
<1>3. /\ ce.labels = [i \in DOMAIN md.label_insts |-> Denotes(md.label_insts[i], e)]
      /\ ce.caps = [i \in DOMAIN md.cap_insts |-> Value(md.cap_insts[i], e)]
      /\ ce.captured = Value(md.captured_set, e)
  BY DEF Callee
<1> HIDE DEF ce
<1>4. IsSeq(md.cap_insts) /\ IsSeq(md.label_insts)
  BY DEF Passed, IsSeq
<1>5. /\ cap_num(md) \in Nat /\ DOMAIN md.cap_insts = 1 .. cap_num(md)
      /\ label_num(md) \in Nat /\ DOMAIN md.label_insts = 1 .. label_num(md)
  BY <1>4, SeqShape DEF cap_num, label_num
<1>6. /\ Cells(md, s)[1] = Cell(md.captured_set, s) /\ Unmoved(md)[1] = Infty
      /\ \A i \in 1 .. cap_num(md) :
           /\ Cells(md, s)[1 + i] = Cell(md.cap_insts[i], s)
           /\ Unmoved(md)[1 + i] = CapIndex(i - 1)
      /\ \A i \in 1 .. label_num(md) :
           /\ Cells(md, s)[1 + cap_num(md) + i] = <<md.label_insts[i].type, md.label_insts[i].index>>
           /\ Unmoved(md)[1 + cap_num(md) + i] = LabelIndex(i - 1)
  BY <1>2, CellsShape
<1>7. CASE c.type = 0 /\ c.index + 1 \in DOMAIN ce.labels
  <2> DEFINE i == c.index + 1
             l == md.label_insts[i]
  <2>1. i \in 1 .. label_num(md) /\ i - 1 = c.index
    BY <1>2, <1>3, <1>5, <1>7
  <2>2. l \in Labels(e)
    BY <2>1, <1>4, <1>5 DEF Passed
  <2>3. g = Denotes(l, e)
    <3>1. Den(s, <<c.type, c.index>>, ce) = ce.labels[i]
      BY <1>7 DEF Den, Infty
    <3>2. ce.labels[i] = Denotes(l, e)
      BY <1>3, <1>7
    <3>. QED  BY <3>1, <3>2, <1>1
  <2>4. Means(l, e, g) /\ <<l.type, l.index>> \in LabelNames(l.sig, e)
    BY <2>2, <2>3, LabelMeans
  <2>5. l.sig = s /\ Den(s, <<l.type, l.index>>, e) = g
    BY <2>4, <1>1 DEF Means, Denotes
  <2>6. o = 1 + cap_num(md) + c.index /\ o + 1 = 1 + cap_num(md) + i
    BY <1>7, <1>2, <1>5 DEF Offset
  <2>7. o \in 0 .. Width(md) - 1
    BY <2>6, <2>1, <1>5, <1>2 DEF Width
  <2>8. Cells(md, s)[o + 1] = <<l.type, l.index>>
    BY <2>6, <2>1, <1>6
  <2>9. Unmoved(md)[o + 1] = <<c.type, c.index>>
    BY <2>6, <2>1, <1>6, <1>7 DEF LabelIndex
  <2>n. SUFFICES ASSUME NEW n, n = <<l.type, l.index>>
                 PROVE  NameGood(n, s, e)
    BY <2>5, <2>7, <2>8, <2>9, <2>1, <1>5 DEF Empty
  <2>10. /\ n \in Names /\ n = <<n[1], n[2]>> /\ n[1] \in {0, 2} /\ n[2] \in Nat
         /\ Den(s, n, e) \in Handlers /\ Den(s, n, e).sig = s
    BY <2>4, <2>5, <2>n, <1>2, LabelNameGood
  <2>11. n # NA
    BY <2>10 DEF NA
  <2>. QED  BY <2>10, <2>11 DEF NameGood
<1>8. CASE c.type = 1 /\ c.index + 1 \in DOMAIN ce.caps
  <2> DEFINE i == c.index + 1
             k == md.cap_insts[i]
  <2>1. i \in 1 .. cap_num(md) /\ i - 1 = c.index
    BY <1>2, <1>3, <1>5, <1>8
  <2>2. k \in Written(e)
    BY <2>1, <1>4, <1>5 DEF Passed
  <2>3. g = Den(s, Cell(k, s), e)
    <3>1. Den(s, <<c.type, c.index>>, ce) = ce.caps[i][s]
      BY <1>8 DEF Den, Infty
    <3>2. ce.caps[i] = Value(k, e)
      BY <1>3, <1>8
    <3>. QED  BY <3>1, <3>2, <1>1, <1>2, <2>2, ValueGood
  <2>6. o = 1 + c.index /\ o + 1 = 1 + i
    BY <1>8, <1>2, <1>5 DEF Offset
  <2>7. o \in 0 .. Width(md) - 1
    BY <2>6, <2>1, <1>5, <1>2 DEF Width
  <2>8. Cells(md, s)[o + 1] = Cell(k, s)
    BY <2>6, <2>1, <1>6
  <2>9. Unmoved(md)[o + 1] = <<c.type, c.index>>
    BY <2>6, <2>1, <1>6, <1>8 DEF CapIndex
  <2>10. NameGood(Cell(k, s), s, e)
    BY <2>2, <1>2, CellGood
  <2>11. ~Empty(md)
    <3>1. Cell(k, s) # NA
      BY <2>10, <2>3, <1>1 DEF NameGood
    <3>2. k # NothingWritten
      BY <3>1, <1>2, NothingCell
    <3>. QED  BY <3>2, <2>1, <1>5 DEF Empty
  <2>. QED  BY <2>3, <2>7, <2>8, <2>9, <2>10, <2>11
<1>9. CASE <<c.type, c.index>> = Infty
  <2>1. c.type = 2 /\ c.index = 0
    BY <1>9 DEF Infty
  <2>2. md.captured_set \in Written(e)
    BY DEF Passed
  <2>3. g = Den(s, Cell(md.captured_set, s), e)
    <3>1. Den(s, <<c.type, c.index>>, ce) = ce.captured[s]
      BY <2>1, <1>9 DEF Den
    <3>. QED  BY <3>1, <1>1, <1>2, <1>3, <2>2, ValueGood
  <2>6. o = 0
    BY <2>1 DEF Offset
  <2>7. o \in 0 .. Width(md) - 1
    BY <2>6, <1>5 DEF Width
  <2>8. Cells(md, s)[o + 1] = Cell(md.captured_set, s)
    BY <2>6, <1>6
  <2>9. Unmoved(md)[o + 1] = <<c.type, c.index>>
    BY <2>6, <1>6, <1>9
  <2>10. NameGood(Cell(md.captured_set, s), s, e)
    BY <2>2, <1>2, CellGood
  <2>11. ~Empty(md)
    <3>1. Cell(md.captured_set, s) # NA
      BY <2>10, <2>3, <1>1 DEF NameGood
    <3>2. md.captured_set # NothingWritten
      BY <3>1, <1>2, NothingCell
    <3>. QED  BY <3>2 DEF Empty
  <2>. QED  BY <2>3, <2>7, <2>8, <2>9, <2>10, <2>11
<1>. QED  BY <1>1, <1>7, <1>8, <1>9 DEF Den

\* Every cell of a row is a name.
LEMMA CellsAreNames ==
  ASSUME NEW e, GoodEnv(e), NEW md, Passed(md, e), NEW s \in Effects, NEW o \in 0 .. Width(md) - 1
  PROVE  Cells(md, s)[o + 1] \in Names \cup {NA}
<1>4. IsSeq(md.cap_insts) /\ IsSeq(md.label_insts)
  BY DEF Passed, IsSeq
<1>5. /\ cap_num(md) \in Nat /\ DOMAIN md.cap_insts = 1 .. cap_num(md)
      /\ label_num(md) \in Nat /\ DOMAIN md.label_insts = 1 .. label_num(md)
  BY <1>4, SeqShape DEF cap_num, label_num
<1>6. /\ Cells(md, s)[1] = Cell(md.captured_set, s)
      /\ \A i \in 1 .. cap_num(md) : Cells(md, s)[1 + i] = Cell(md.cap_insts[i], s)
      /\ \A i \in 1 .. label_num(md) :
           Cells(md, s)[1 + cap_num(md) + i] = <<md.label_insts[i].type, md.label_insts[i].index>>
  BY CellsShape
<1>1. CASE o = 0
  <2>1. NameGood(Cell(md.captured_set, s), s, e)
    BY CellGood DEF Passed
  <2>. QED  BY <1>1, <1>6, <2>1 DEF NameGood
<1>2. CASE o \in 1 .. cap_num(md)
  <2>1. md.cap_insts[o] \in Written(e)
    BY <1>2, <1>5 DEF Passed
  <2>2. NameGood(Cell(md.cap_insts[o], s), s, e)
    BY <2>1, CellGood
  <2>3. Cells(md, s)[o + 1] = Cell(md.cap_insts[o], s)
    BY <1>2, <1>5, <1>6
  <2>. QED  BY <2>2, <2>3 DEF NameGood
<1>3. CASE o > cap_num(md)
  <2> DEFINE i == o - cap_num(md)
             l == md.label_insts[i]
  <2>1. i \in 1 .. label_num(md) /\ o + 1 = 1 + cap_num(md) + i
    BY <1>3, <1>5 DEF Width
  <2>2. l \in Labels(e)
    BY <2>1, <1>5 DEF Passed
  <2>3. <<l.type, l.index>> \in LabelNames(l.sig, e) /\ l.sig \in Effects
    BY <2>2, LabelMeans DEF Means, Clues
  <2>4. <<l.type, l.index>> \in Names
    BY <2>3, LabelNameGood
  <2>. QED  BY <2>1, <2>4, <1>6
<1>. QED  BY <1>1, <1>2, <1>3, <1>5 DEF Width

LEMMA HopperShape ==
  ASSUME NEW e, GoodEnv(e), NEW md, Passed(md, e)
  PROVE  /\ IsRow(hopper(md))
         /\ \A s \in Effects, o \in 0 .. Width(md) - 1 :
              /\ s * Width(md) + o \in DOMAIN hopper(md).cells
              /\ hopper(md).cells[s * Width(md) + o] = Cells(md, s)[o + 1]
<1> DEFINE w == Width(md)
<1>1. IsSeq(md.cap_insts) /\ IsSeq(md.label_insts)
  BY DEF Passed, IsSeq
<1>c. cap_num(md) \in Nat /\ label_num(md) \in Nat
  BY <1>1, SeqShape DEF cap_num, label_num
<1>2. cap_num(md) \in Nat /\ label_num(md) \in Nat /\ w \in Nat /\ w >= 1
  BY <1>c DEF Width
<1>3. hopper(md) = [is_const |-> hopper_is_const(md), cap_num |-> cap_num(md),
                    label_num |-> label_num(md),
                    cells |-> [j \in 0 .. EFFECT_NUM * w - 1 |-> Cells(md, j \div w)[(j % w) + 1]]]
  BY DEF hopper, Width
<1>4. hopper_is_const(md) \in BOOLEAN
  BY DEF hopper_is_const
<1> HIDE DEF w
<1>5. ASSUME NEW j \in 0 .. EFFECT_NUM * w - 1
      PROVE  hopper(md).cells[j] \in Names \cup {NA}
  <2>1. EFFECT_NUM * w \in Nat /\ EFFECT_NUM \in Nat
    BY <1>2, Constants
  <2>2. /\ j = w * (j \div w) + (j % w) /\ j % w \in 0 .. w - 1 /\ j \div w \in Nat /\ j \in Nat
        /\ j < EFFECT_NUM * w
    BY <1>2, <2>1
  <2>3. j \div w < EFFECT_NUM
    <3>1. SUFFICES ASSUME EFFECT_NUM <= j \div w
                   PROVE  FALSE
      BY <2>1, <2>2
    <3>2. CASE EFFECT_NUM < j \div w
      <4>1. EFFECT_NUM * w + w <= (j \div w) * w
        BY <3>2, <2>1, <2>2, <1>2, Mono
      <4>2. w * (j \div w) = (j \div w) * w /\ (j \div w) * w \in Nat
        BY <2>2, <1>2
      <4>. QED  BY <4>1, <4>2, <2>1, <2>2, <1>2
    <3>3. CASE EFFECT_NUM = j \div w
      <4>1. w * (j \div w) = EFFECT_NUM * w
        BY <3>3, <2>1, <1>2
      <4>. QED  BY <4>1, <2>1, <2>2
    <3>. QED  BY <3>1, <3>2, <3>3, <2>1, <2>2
  <2>4. j \div w \in Effects
    BY <2>2, <2>3, <2>1 DEF Effects
  <2>5. Cells(md, j \div w)[(j % w) + 1] \in Names \cup {NA}
    BY <2>2, <2>4, CellsAreNames DEF w
  <2>. QED  BY <2>5, <1>3
<1>6. IsRow(hopper(md))
  BY <1>2, <1>3, <1>4, <1>5 DEF IsRow
<1>7. ASSUME NEW s \in Effects, NEW o \in 0 .. w - 1
      PROVE  /\ s * w + o \in DOMAIN hopper(md).cells
             /\ hopper(md).cells[s * w + o] = Cells(md, s)[o + 1]
  <2>1. s \in Nat /\ EFFECT_NUM \in Nat /\ s < EFFECT_NUM /\ o \in Nat /\ o < w
    BY <1>2, Constants DEF Effects
  <2>2. s * w + w <= EFFECT_NUM * w
    BY <2>1, <1>2, Mono
  <2>3. s * w \in Nat /\ EFFECT_NUM * w \in Nat
    BY <2>1, <1>2
  <2>4. s * w + o \in 0 .. EFFECT_NUM * w - 1
    BY <2>1, <2>2, <2>3, <1>2
  <2>5. (s * w + o) \div w = s /\ (s * w + o) % w = o
    BY <2>1, <1>2, DivMod
  <2>. QED  BY <1>3, <2>4, <2>5
<1>. QED  BY <1>6, <1>7 DEF w

\* The row of a call takes every clue of the callee to the caller's for the same
\* handler.
THEOREM RowTranslatesClue ==
  ASSUME NEW e, GoodEnv(e), NEW md, Passed(md, e), NEW c, NEW g, Means(c, Callee(md, e), g)
  PROVE  Means(UPDATE_CLUE(c, hopper(md)), e, g) /\ ~Empty(md)
<1> DEFINE s == c.sig
           o == Offset(c, md)
           w == Width(md)
           n == Cells(md, s)[o + 1]
           r == hopper(md)
           at == s * w + o
<1>1. /\ o \in 0 .. w - 1 /\ NameGood(n, s, e) /\ Den(s, n, e) = g
      /\ Unmoved(md)[o + 1] = <<c.type, c.index>> /\ ~Empty(md)
  BY CellMeans
<1>2. c \in Clues /\ s \in Effects /\ g \in Handlers /\ g.sig = s /\ g # NoHandler
  BY Constants DEF Means, Clues
<1>3. n # NA
  BY <1>1, <1>2 DEF NameGood
<1>4. /\ r.is_const = hopper_is_const(md) /\ r.cap_num = cap_num(md) /\ r.label_num = label_num(md)
  BY DEF hopper
<1>5. CASE r.is_const
  <2>1. UPDATE_CLUE(c, r) = c
    BY <1>5 DEF UPDATE_CLUE
  <2>2. o + 1 \in DOMAIN Unmoved(md)
    BY <1>1, <1>2, CellsShape DEF Width
  <2>3. n = <<c.type, c.index>>
    BY <1>1, <1>2, <1>3, <1>4, <1>5, <2>2 DEF hopper_is_const
  <2>. QED  BY <1>1, <1>2, <2>1, <2>3 DEF Means, Denotes
<1>6. CASE ~r.is_const
  <2>1. at \in DOMAIN r.cells /\ r.cells[at] = n
    BY <1>1, <1>2, HopperShape
  <2>2. UPDATE_CLUE(c, r) = Clue(s, n)
    <3>1. at = c.sig * (1 + r.cap_num + r.label_num)
              + CASE c.type = 0 -> 1 + r.cap_num + c.index
                  [] c.type = 1 -> 1 + c.index
                  [] OTHER -> 0
      BY <1>4 DEF Width, Offset
    <3>. HIDE DEF at, n, r
    <3>. QED  BY <1>6, <2>1, <3>1 DEF UPDATE_CLUE
  <2>. HIDE DEF n
  <2>3. n = <<n[1], n[2]>> /\ n[1] \in 0 .. 15 /\ n[2] \in Nat
    BY <1>1 DEF NameGood
  <2>4. /\ Clue(s, n) \in Clues /\ Clue(s, n).sig = s
        /\ <<Clue(s, n).type, Clue(s, n).index>> = n
    BY <1>2, <2>3 DEF Clue, Clues
  <2>. QED  BY <1>1, <1>2, <2>2, <2>4 DEF Means, Denotes
<1>. QED  BY <1>1, <1>5, <1>6

-----------------------------------------------------------------------------
(***************************************************************************)
(* Calls                                                                   *)
(***************************************************************************)
LEMMA CalleeGood ==
  ASSUME NEW e, GoodEnv(e), NEW md, Passed(md, e)
  PROVE  GoodEnv(Callee(md, e))
<1> DEFINE ce == Callee(md, e)
<1>1. /\ ce.labels = [i \in DOMAIN md.label_insts |-> Denotes(md.label_insts[i], e)]
      /\ ce.caps = [i \in DOMAIN md.cap_insts |-> Value(md.cap_insts[i], e)]
      /\ ce.captured = Value(md.captured_set, e)
      /\ ce = [labels |-> ce.labels, caps |-> ce.caps, captured |-> ce.captured]
  BY DEF Callee
<1> HIDE DEF ce
<1>2. IsSeq(md.cap_insts) /\ IsSeq(md.label_insts)
  BY DEF Passed, IsSeq
<1>3. /\ cap_num(md) \in Nat /\ DOMAIN md.cap_insts = 1 .. cap_num(md)
      /\ label_num(md) \in Nat /\ DOMAIN md.label_insts = 1 .. label_num(md)
  BY <1>2, SeqShape DEF cap_num, label_num
<1>4. ce.labels \in Seq(Handlers)
  <2>1. ASSUME NEW i \in 1 .. label_num(md)
        PROVE  Denotes(md.label_insts[i], e) \in Handlers
    <3>1. md.label_insts[i] \in Labels(e)
      BY <1>3 DEF Passed
    <3>. QED  BY <3>1, LabelMeans DEF Means
  <2>. QED  BY <2>1, <1>1, <1>3
<1>5. ASSUME NEW i \in 1 .. cap_num(md)
      PROVE  Value(md.cap_insts[i], e) \in Capability /\ Sorted(Value(md.cap_insts[i], e))
  <2>1. md.cap_insts[i] \in Written(e)
    BY <1>3 DEF Passed
  <2>. QED  BY <2>1, ValueGood
<1>6. ce.caps \in Seq(Capability)
  BY <1>1, <1>3, <1>5
<1>7. ce.captured \in Capability /\ Sorted(ce.captured)
  BY <1>1, ValueGood DEF Passed
<1>8. ce \in Env
  BY <1>1, <1>4, <1>6, <1>7 DEF Env
<1>. QED  BY <1>1, <1>3, <1>5, <1>7, <1>8 DEF GoodEnv, ce

\* Every call of the program passes what it can name.
LEMMA CallsPass ==
  ASSUME NEW md \in Calls
  PROVE  Passed(md, env)
<1> DEFINE T(caps, labels) ==
             [captured_set : Naming(Spare(caps + labels)),
              cap_insts    : [1 .. caps -> Naming(Spare(labels))],
              label_insts  : [1 .. labels -> Labels(env)]]
<1>0. Calls = UNION {T(caps, labels) : caps \in 0 .. MaxCaps, labels \in 0 .. MaxLabels}
  BY DEF Calls, T
<1> HIDE DEF T
<1>a. PICK S \in {T(caps, labels) : caps \in 0 .. MaxCaps, labels \in 0 .. MaxLabels} : md \in S
  BY <1>0
<1>b. PICK caps \in 0 .. MaxCaps : \E labels \in 0 .. MaxLabels : S = T(caps, labels)
  BY <1>a
<1>c. PICK labels \in 0 .. MaxLabels : S = T(caps, labels)
  BY <1>b
<1>1. md \in T(caps, labels)
  BY <1>a, <1>c
<1> USE DEF T
<1>2. \A n : Naming(n) \subseteq Written(env)
  BY DEF Naming
<1>3. caps \in Nat /\ labels \in Nat
  BY WalkAssumption
<1>4. md.captured_set \in Written(env)
  BY <1>1, <1>2
<1>5. md.cap_insts \in [1 .. caps -> Written(env)]
  BY <1>1, <1>2
<1>6. md.label_insts \in [1 .. labels -> Labels(env)]
  BY <1>1
<1>. QED  BY <1>3, <1>4, <1>5, <1>6 DEF Passed

\* A call that passes nothing but what is captured.
LEMMA OnlyCapturedPasses ==
  ASSUME NEW e, NEW k \in Written(e)
  PROVE  /\ Passed(OnlyCaptured(k), e)
         /\ Callee(OnlyCaptured(k), e) = OpEnv(Value(k, e))
BY DEF Passed, OnlyCaptured, Callee, OpEnv

\* To code that knows only what is captured, a cell is what is captured.
LEMMA TailCell ==
  ASSUME NEW ops \in Capability, NEW k \in Written(OpEnv(ops)), NEW s \in Effects
  PROVE  Den(s, Cell(k, s), OpEnv(ops)) \in {NoHandler, ops[s]}
<1>1. /\ OpEnv(ops).labels = <<>> /\ OpEnv(ops).caps = <<>> /\ OpEnv(ops).captured = ops
  BY DEF OpEnv
<1>. QED  BY <1>1 DEF Den

-----------------------------------------------------------------------------
(***************************************************************************)
(* A stack whose frames belong together: fs are its frames, e what the     *)
(* code on top of them can name, tl whether that is a tail operation.      *)
(***************************************************************************)
\* What the callee of frame i can name, and whether it is a tail operation.
EnvAt(fs, e, i)   == IF i < Len(fs) THEN fs[i + 1].env ELSE e
TailAt(fs, tl, i) == IF i < Len(fs) THEN fs[i + 1].in_tail ELSE tl

\* The row of frame f takes the clues of its callee, of environment A, to those
\* of its own code; where its code is a tail operation they are the same clue.
Carries(f, A) ==
  \A c, g : Means(c, A, g) =>
    /\ f.entry /\ Means(UPDATE_CLUE(c, f.row), f.env, g)
    /\ f.in_tail => c = Clue(c.sig, Infty) /\ f.env.captured[c.sig] = g

\* What is on top of a handler: its body, or its own operation.
HandlerLink(f, A, ta) ==
  /\ ~IsRaise(f) /\ f.entry /\ ~ta
  /\ A \in {OpEnv(f.ops), BodyEnv(f.h, f.ops)}
  /\ Sorted(f.ops)
  /\ \A s \in Effects : f.ops[s] # NoHandler =>
       Means(UPDATE_CLUE(Clue(s, Infty), f.row), f.env, f.ops[s])
  /\ f.in_tail => f.ops = NoCapability

Link(f, A, ta) ==
  /\ IsFrame(f) /\ GoodEnv(f.env)
  /\ f.in_tail => f.env = OpEnv(f.env.captured)
  /\ f.mode = "MULTISHOT" => IsHandler(f) /\ f.env = OpEnv(f.ops) /\ ~f.in_tail
  /\ ta => IsRaise(f) \/ A = OpEnv(NoCapability)
  /\ IsHandler(f) => HandlerLink(f, A, ta)
  /\ ~IsHandler(f) /\ IsRaise(f) => f.row = Const /\ f.entry /\ ta
  /\ ~IsHandler(f) /\ ~IsRaise(f) => Carries(f, A)

Unique(fs) ==
  \A i, j \in 1 .. Len(fs) : IsHandler(fs[i]) /\ fs[i].h = fs[j].h => i = j

\* Whatever code can name is installed below it.
Scoped(fs, e) ==
  \A i \in 0 .. Len(fs) : \A c, g : Means(c, EnvAt(fs, e, i), g) =>
    \E j \in 1 .. i : fs[j].h = g

\* Handlers G with all that those of them in the first n frames capture.
Closed(G, fs, n) ==
  \A j \in 1 .. n, s \in Effects : fs[j].h \in G => fs[j].ops[s] \in G \cup {NoHandler}
Knows(G, f) == \A s \in Effects : f.ops[s] \in G \cup {NoHandler}

\* Code on top of a general handler's ENTER names handlers on its stack or stacks
\* above, or what it reaches by what that handler captures.
Within(fs, e) ==
  \A m, i \in 1 .. Len(fs) : m <= i /\ fs[m].mode = "MULTISHOT" =>
    \A G \in SUBSET Handlers : Closed(G, fs, i) /\ Knows(G, fs[m]) =>
      \A c, g : Means(c, EnvAt(fs, e, i), g) => g \in G \/ \E j \in m .. i : fs[j].h = g

\* On top of the raise of a tail operation is the operation of the handler that
\* its clue means.
Target(fs, t, f, A) == t \in 1 .. Len(fs) /\ Means(f.pushed, f.env, fs[t].h) /\ A = OpEnv(fs[t].ops)
Targets(fs, e) ==
  \A i \in 1 .. Len(fs) : IsRaise(fs[i]) =>
    \E t \in 1 .. i - 1 : Target(fs, t, fs[i], EnvAt(fs, e, i))

Stack(fs, e, tl) ==
  /\ IsSeq(fs) /\ GoodEnv(e) /\ tl \in BOOLEAN
  /\ tl => e = OpEnv(e.captured)
  /\ ~TailAt(fs, tl, 0)
  /\ \A i \in 1 .. Len(fs) : Link(fs[i], EnvAt(fs, e, i), TailAt(fs, tl, i))
  /\ \A i \in 1 .. Len(fs) : fs[i].mode = "MULTISHOT" => i > 1
  /\ Unique(fs) /\ Scoped(fs, e) /\ Within(fs, e) /\ Targets(fs, e)

\* The code of frame i sees what was passed to it.
LEMMA Below ==
  ASSUME NEW fs, IsSeq(fs), NEW e, NEW tl, NEW i \in 1 .. Len(fs)
  PROVE  /\ EnvAt(fs, e, i - 1) = fs[i].env /\ TailAt(fs, tl, i - 1) = fs[i].in_tail
         /\ i \in Nat /\ i - 1 \in 0 .. Len(fs) /\ Len(fs) \in Nat
<1>1. Len(fs) \in Nat
  BY SeqShape
<1>2. i \in Nat /\ i - 1 < Len(fs) /\ (i - 1) + 1 = i /\ i - 1 \in 0 .. Len(fs)
  BY <1>1
<1>. QED  BY <1>1, <1>2 DEF EnvAt, TailAt

LEMMA OnTop ==
  ASSUME NEW fs, NEW e, NEW tl, IsSeq(fs)
  PROVE  EnvAt(fs, e, Len(fs)) = e /\ TailAt(fs, tl, Len(fs)) = tl
<1>1. ~(Len(fs) < Len(fs))
  BY SeqShape
<1>. QED  BY <1>1 DEF EnvAt, TailAt

\* What the callee of a linked frame names is the frame's handler, or known to
\* the frame's code, or the target of the frame's raise captures it.
LEMMA LinkNames ==
  ASSUME NEW f, NEW A, NEW ta, Link(f, A, ta), NEW c, NEW g, Means(c, A, g)
  PROVE  \/ IsHandler(f) /\ f.h = g
         \/ \E c2 : Means(c2, f.env, g)
         \/ ~IsHandler(f) /\ IsRaise(f)
<1>1. CASE IsHandler(f)
  <2>1. f.h \in Handlers /\ f.ops \in Capability
    BY <1>1 DEF Link, IsFrame, IsHandler
  <2>2. HandlerLink(f, A, ta)
    BY <1>1 DEF Link
  <2>3. CASE A = OpEnv(f.ops)
    <3>1. c.sig \in Effects /\ f.ops[c.sig] = g /\ g # NoHandler
      BY <2>1, <2>3, OpEnvMeans
    <3>. QED  BY <3>1, <2>2 DEF HandlerLink
  <2>4. CASE A = BodyEnv(f.h, f.ops)
    <3>1. g = f.h \/ (c.sig \in Effects /\ f.ops[c.sig] = g /\ g # NoHandler)
      BY <2>1, <2>4, BodyEnvMeans
    <3>. QED  BY <1>1, <3>1, <2>2 DEF HandlerLink
  <2>. QED  BY <2>2, <2>3, <2>4 DEF HandlerLink
<1>2. CASE ~IsHandler(f) /\ ~IsRaise(f)
  BY <1>2 DEF Link, Carries
<1>. QED  BY <1>1, <1>2

\* What a handler captures can be named where it is installed, and is below.
LEMMA CapturedBelow ==
  ASSUME NEW fs, NEW e, NEW tl, Stack(fs, e, tl), NEW t \in 1 .. Len(fs), IsHandler(fs[t]),
         NEW s \in Effects, fs[t].ops[s] # NoHandler
  PROVE  /\ \E c : Means(c, EnvAt(fs, e, t - 1), fs[t].ops[s])
         /\ \E j \in 1 .. t - 1 : fs[j].h = fs[t].ops[s]
<1>1. EnvAt(fs, e, t - 1) = fs[t].env /\ t - 1 \in 0 .. Len(fs)
  BY Below DEF Stack
<1>2. HandlerLink(fs[t], EnvAt(fs, e, t), TailAt(fs, tl, t))
  BY DEF Stack, Link
<1>3. \E c : Means(c, EnvAt(fs, e, t - 1), fs[t].ops[s])
  BY <1>1, <1>2 DEF HandlerLink
<1>4. Scoped(fs, e)
  BY DEF Stack
<1>5. PICK c : Means(c, EnvAt(fs, e, t - 1), fs[t].ops[s])
  BY <1>3
<1>. QED  BY <1>1, <1>4, <1>5 DEF Scoped

\* A frame that fits what is below it and what is to run on top.
Fits(fs, e, tl, f, A, ta) ==
  /\ f.env = e /\ f.in_tail = tl
  /\ Link(f, A, ta) /\ GoodEnv(A) /\ ta \in BOOLEAN
  /\ ta => A = OpEnv(A.captured)
  /\ f.mode = "MULTISHOT" => fs # <<>>
  /\ IsHandler(f) => \A i \in 1 .. Len(fs) : fs[i].h # f.h
  /\ IsRaise(f) => \E t \in 1 .. Len(fs) : Target(fs, t, f, A)

LEMMA PushFacts ==
  ASSUME NEW fs, NEW e, NEW tl, Stack(fs, e, tl), NEW f, NEW A, NEW ta, Fits(fs, e, tl, f, A, ta)
  PROVE  /\ IsSeq(Append(fs, f)) /\ Len(Append(fs, f)) = Len(fs) + 1 /\ Len(fs) \in Nat
         /\ Append(fs, f)[Len(fs) + 1] = f
         /\ \A i \in 1 .. Len(fs) : Append(fs, f)[i] = fs[i]
         /\ \A i \in 0 .. Len(fs) : EnvAt(Append(fs, f), A, i) = EnvAt(fs, e, i)
         /\ \A i \in 0 .. Len(fs) : TailAt(Append(fs, f), ta, i) = TailAt(fs, tl, i)
         /\ EnvAt(Append(fs, f), A, Len(fs) + 1) = A
         /\ TailAt(Append(fs, f), ta, Len(fs) + 1) = ta
<1> DEFINE q == Append(fs, f)
           n == Len(fs)
<1>f. IsSeq(fs) /\ f.env = e /\ f.in_tail = tl
  BY DEF Stack, Fits
<1>1. n \in Nat
  BY <1>f, SeqShape
<1>2. IsSeq(q) /\ Len(q) = n + 1 /\ q[n + 1] = f /\ \A i \in 1 .. n : q[i] = fs[i]
  BY <1>f, AppendShape
<1> HIDE DEF q, n
<1>3. ASSUME NEW i \in 0 .. n
      PROVE  EnvAt(q, A, i) = EnvAt(fs, e, i) /\ TailAt(q, ta, i) = TailAt(fs, tl, i)
  <2>1. CASE i < n
    <3>1. i + 1 \in 1 .. n /\ i < n + 1
      BY <2>1, <1>1
    <3>. QED  BY <2>1, <3>1, <1>2 DEF EnvAt, TailAt, n
  <2>2. CASE i = n
    <3>1. i < n + 1 /\ ~(i < n) /\ q[i + 1] = f
      BY <2>2, <1>1, <1>2
    <3>. QED  BY <3>1, <1>f, <1>2 DEF EnvAt, TailAt, n
  <2>. QED  BY <2>1, <2>2, <1>1
<1>4. EnvAt(q, A, n + 1) = A /\ TailAt(q, ta, n + 1) = ta
  <2>1. ~(n + 1 < Len(q))
    BY <1>1, <1>2
  <2>. QED  BY <2>1 DEF EnvAt, TailAt
<1>. QED  BY <1>1, <1>2, <1>3, <1>4 DEF q, n

LEMMA PushScoped ==
  ASSUME NEW fs, NEW e, NEW tl, Stack(fs, e, tl), NEW f, NEW A, NEW ta, Fits(fs, e, tl, f, A, ta)
  PROVE  Scoped(Append(fs, f), A)
<1> DEFINE q == Append(fs, f)
           n == Len(fs)
<1>1. /\ Len(q) = n + 1 /\ n \in Nat /\ q[n + 1] = f /\ \A i \in 1 .. n : q[i] = fs[i]
      /\ \A i \in 0 .. n : EnvAt(q, A, i) = EnvAt(fs, e, i)
      /\ EnvAt(q, A, n + 1) = A
  BY PushFacts
<1>2. Scoped(fs, e) /\ IsSeq(fs)
  BY DEF Stack
<1>3. EnvAt(fs, e, n) = e
  BY <1>2, OnTop
<1> HIDE DEF q
<1>4. ASSUME NEW i \in 0 .. n, NEW c, NEW g, Means(c, EnvAt(q, A, i), g)
      PROVE  \E j \in 1 .. i : q[j].h = g
  <2>1. PICK j \in 1 .. i : fs[j].h = g
    BY <1>1, <1>2, <1>4 DEF Scoped
  <2>2. j \in 1 .. n
    BY <1>1
  <2>. QED  BY <1>1, <2>1, <2>2
<1>5. ASSUME NEW c, NEW g, Means(c, A, g)
      PROVE  \E j \in 1 .. n + 1 : q[j].h = g
  <2>1. CASE IsHandler(f) /\ f.h = g
    BY <1>1, <2>1
  <2>2. CASE \E c2 : Means(c2, f.env, g)
    <3>1. PICK c2 : Means(c2, EnvAt(fs, e, n), g)
      BY <1>3, <2>2 DEF Fits
    <3>2. PICK j \in 1 .. n : fs[j].h = g
      BY <1>1, <1>2, <3>1 DEF Scoped
    <3>. QED  BY <1>1, <3>2
  <2>3. CASE IsRaise(f)
    <3>1. PICK t \in 1 .. n : Target(fs, t, f, A)
      BY <2>3 DEF Fits
    <3>2. fs[t].h \in Handlers /\ IsHandler(fs[t]) /\ A = OpEnv(fs[t].ops)
      BY <3>1, Constants DEF Target, Means, IsHandler
    <3>3. fs[t].ops \in Capability
      BY DEF Stack, Link, IsFrame
    <3>4. c.sig \in Effects /\ fs[t].ops[c.sig] = g /\ g # NoHandler
      BY <1>5, <3>2, <3>3, OpEnvMeans
    <3>5. PICK j \in 1 .. t - 1 : fs[j].h = g
      BY <3>2, <3>4, CapturedBelow
    <3>6. j \in 1 .. n
      BY <1>1
    <3>. QED  BY <1>1, <3>5, <3>6
  <2>. QED  BY <1>5, <2>1, <2>2, <2>3, LinkNames DEF Fits
<1>. QED  BY <1>1, <1>4, <1>5 DEF Scoped, q

LEMMA PushWithin ==
  ASSUME NEW fs, NEW e, NEW tl, Stack(fs, e, tl), NEW f, NEW A, NEW ta, Fits(fs, e, tl, f, A, ta)
  PROVE  Within(Append(fs, f), A)
<1> DEFINE q == Append(fs, f)
           n == Len(fs)
<1>1. /\ Len(q) = n + 1 /\ n \in Nat /\ q[n + 1] = f /\ \A i \in 1 .. n : q[i] = fs[i]
      /\ \A i \in 0 .. n : EnvAt(q, A, i) = EnvAt(fs, e, i)
      /\ EnvAt(q, A, n + 1) = A
  BY PushFacts
<1>2. Within(fs, e) /\ IsSeq(fs) /\ Unique(fs)
  BY DEF Stack
<1>3. EnvAt(fs, e, n) = e
  BY <1>2, OnTop
<1>h. Link(f, A, ta) /\ f.env = e
  BY DEF Fits
<1> HIDE DEF q
<1>4. ASSUME NEW m \in 1 .. n, NEW i \in 1 .. n, m <= i, fs[m].mode = "MULTISHOT",
             NEW G \in SUBSET Handlers, Closed(G, q, i), Knows(G, fs[m]),
             NEW c, NEW g, Means(c, EnvAt(fs, e, i), g)
      PROVE  g \in G \/ \E j \in m .. i : fs[j].h = g
  <2>1. \A j \in 1 .. i : q[j] = fs[j]
    BY <1>1
  <2>2. Closed(G, fs, i)
    BY <2>1, <1>4 DEF Closed
  <2>. QED  BY <1>2, <1>4, <2>2 DEF Within
<1>5. ASSUME NEW m \in 1 .. n, fs[m].mode = "MULTISHOT",
             NEW G \in SUBSET Handlers, Closed(G, q, n + 1), Knows(G, fs[m]),
             NEW c, NEW g, Means(c, A, g)
      PROVE  g \in G \/ \E j \in m .. n + 1 : q[j].h = g
  <2>0. \A i \in 1 .. n + 1 : Closed(G, q, i)
    BY <1>5, <1>1 DEF Closed
  <2>1. CASE IsHandler(f) /\ f.h = g
    BY <1>1, <2>1
  <2>2. CASE \E c2 : Means(c2, f.env, g)
    <3>1. PICK c2 : Means(c2, EnvAt(fs, e, n), g)
      BY <1>3, <1>h, <2>2
    <3>2. n \in 1 .. n /\ m <= n
      BY <1>1
    <3>3. Closed(G, q, n)
      BY <2>0, <1>1
    <3>4. g \in G \/ \E j \in m .. n : fs[j].h = g
      BY <1>4, <1>5, <3>1, <3>2, <3>3
    <3>. QED  BY <1>1, <3>4
  <2>3. CASE IsRaise(f)
    <3>1. PICK t \in 1 .. n : Target(fs, t, f, A)
      BY <2>3 DEF Fits
    <3>2. fs[t].h \in Handlers /\ IsHandler(fs[t]) /\ A = OpEnv(fs[t].ops)
          /\ Means(f.pushed, e, fs[t].h)
      BY <3>1, <1>h, Constants DEF Target, Means, IsHandler
    <3>3. fs[t].ops \in Capability
      BY DEF Stack, Link, IsFrame
    <3>4. c.sig \in Effects /\ fs[t].ops[c.sig] = g /\ g # NoHandler
      BY <1>5, <3>2, <3>3, OpEnvMeans
    <3>5. CASE t < m
      <4>1. n \in 1 .. n /\ m <= n
        BY <1>1
      <4>2. Closed(G, q, n)
        BY <2>0, <1>1
      <4>3. fs[t].h \in G \/ \E j \in m .. n : fs[j].h = fs[t].h
        BY <1>3, <1>4, <1>5, <3>2, <4>1, <4>2
      <4>4. ~ \E j \in m .. n : fs[j].h = fs[t].h
        BY <1>1, <1>2, <3>2, <3>5 DEF Unique
      <4>5. q[t].h \in G /\ q[t].ops[c.sig] \in G \cup {NoHandler}
        BY <1>1, <1>5, <3>4, <4>3, <4>4 DEF Closed
      <4>. QED  BY <1>1, <3>4, <4>5
    <3>6. CASE t = m
      BY <1>5, <3>4, <3>6 DEF Knows
    <3>7. CASE t > m
      <4>1. PICK c2 : Means(c2, EnvAt(fs, e, t - 1), g)
        BY <3>2, <3>4, CapturedBelow
      <4>2. t - 1 \in 1 .. n /\ m <= t - 1
        BY <1>1, <3>7
      <4>3. Closed(G, q, t - 1)
        BY <2>0, <4>2, <1>1
      <4>4. g \in G \/ \E j \in m .. t - 1 : fs[j].h = g
        BY <1>4, <1>5, <4>1, <4>2, <4>3
      <4>. QED  BY <1>1, <4>2, <4>4
    <3>. QED  BY <1>1, <3>5, <3>6, <3>7
  <2>. QED  BY <1>5, <1>h, <2>1, <2>2, <2>3, LinkNames
<1>6. ASSUME f.mode = "MULTISHOT", NEW G \in SUBSET Handlers, Knows(G, f),
             NEW c, NEW g, Means(c, A, g)
      PROVE  g \in G \/ f.h = g
  <2>1. IsHandler(f) /\ f.env = OpEnv(f.ops) /\ f.ops \in Capability /\ ~IsRaise(f)
    BY <1>6, <1>h DEF Link, IsFrame, HandlerLink
  <2>2. CASE \E c2 : Means(c2, f.env, g)
    <3>1. PICK c2 : Means(c2, OpEnv(f.ops), g)
      BY <2>1, <2>2
    <3>2. c2.sig \in Effects /\ f.ops[c2.sig] = g /\ g # NoHandler
      BY <2>1, <3>1, OpEnvMeans
    <3>. QED  BY <1>6, <3>2 DEF Knows
  <2>. QED  BY <1>6, <1>h, <2>1, <2>2, LinkNames
<1>7. ASSUME NEW m \in 1 .. n + 1, NEW i \in 1 .. n + 1, m <= i, q[m].mode = "MULTISHOT",
             NEW G \in SUBSET Handlers, Closed(G, q, i), Knows(G, q[m]),
             NEW c, NEW g, Means(c, EnvAt(q, A, i), g)
      PROVE  g \in G \/ \E j \in m .. i : q[j].h = g
  <2>1. CASE i \in 1 .. n
    <3>1. m \in 1 .. n /\ q[m] = fs[m] /\ EnvAt(q, A, i) = EnvAt(fs, e, i)
      BY <1>1, <1>7, <2>1
    <3>2. g \in G \/ \E j \in m .. i : fs[j].h = g
      BY <1>4, <1>7, <2>1, <3>1
    <3>. QED  BY <1>1, <2>1, <3>2
  <2>2. CASE i = n + 1 /\ m \in 1 .. n
    <3>1. q[m] = fs[m] /\ EnvAt(q, A, i) = A
      BY <1>1, <2>2
    <3>. QED  BY <1>5, <1>7, <2>2, <3>1
  <2>3. CASE i = n + 1 /\ m = n + 1
    <3>1. q[m] = f /\ EnvAt(q, A, i) = A
      BY <1>1, <2>3
    <3>2. g \in G \/ f.h = g
      BY <1>6, <1>7, <3>1
    <3>3. m \in m .. i
      BY <1>1, <2>3
    <3>. QED  BY <3>1, <3>2, <3>3
  <2>. QED  BY <1>1, <1>7, <2>1, <2>2, <2>3
<1>. QED  BY <1>1, <1>7 DEF Within, q

LEMMA PushOne ==
  ASSUME NEW fs, NEW e, NEW tl, Stack(fs, e, tl), NEW f, NEW A, NEW ta, Fits(fs, e, tl, f, A, ta)
  PROVE  Stack(Append(fs, f), A, ta)
<1> DEFINE q == Append(fs, f)
           n == Len(fs)
<1>1. /\ IsSeq(q) /\ Len(q) = n + 1 /\ n \in Nat /\ q[n + 1] = f /\ \A i \in 1 .. n : q[i] = fs[i]
      /\ \A i \in 0 .. n : EnvAt(q, A, i) = EnvAt(fs, e, i)
      /\ \A i \in 0 .. n : TailAt(q, ta, i) = TailAt(fs, tl, i)
      /\ EnvAt(q, A, n + 1) = A /\ TailAt(q, ta, n + 1) = ta
  BY PushFacts
<1> HIDE DEF q
<1>2. ~TailAt(q, ta, 0)
  BY <1>1 DEF Stack
<1>3. \A i \in 1 .. n + 1 : Link(q[i], EnvAt(q, A, i), TailAt(q, ta, i))
  <2>1. ASSUME NEW i \in 1 .. n
        PROVE  Link(q[i], EnvAt(q, A, i), TailAt(q, ta, i))
    <3>1. q[i] = fs[i] /\ EnvAt(q, A, i) = EnvAt(fs, e, i) /\ TailAt(q, ta, i) = TailAt(fs, tl, i)
      BY <1>1
    <3>. QED  BY <3>1 DEF Stack
  <2>2. Link(q[n + 1], EnvAt(q, A, n + 1), TailAt(q, ta, n + 1))
    BY <1>1 DEF Fits
  <2>. QED  BY <1>1, <2>1, <2>2
<1>4. \A i \in 1 .. n + 1 : q[i].mode = "MULTISHOT" => i > 1
  <2>1. \A i \in 1 .. n : q[i].mode = "MULTISHOT" => i > 1
    BY <1>1 DEF Stack
  <2>2. q[n + 1].mode = "MULTISHOT" => n + 1 > 1
    <3>1. ASSUME n = 0 PROVE fs = <<>>
      <4>1. IsSeq(<<>>) /\ Len(<<>>) = 0
        BY DEF IsSeq
      <4>2. IsSeq(fs) /\ Len(fs) = 0
        BY <3>1 DEF Stack
      <4>3. \A i \in 1 .. Len(fs) : fs[i] = <<>>[i]
        BY <4>2
      <4>. QED  BY <4>1, <4>2, <4>3, SameSeq
    <3>. QED  BY <1>1, <3>1 DEF Fits
  <2>. QED  BY <1>1, <2>1, <2>2
<1>5. Unique(q)
  <2>1. Unique(fs)
    BY DEF Stack
  <2>2. \A i \in 1 .. n : IsHandler(f) => fs[i].h # f.h
    BY DEF Fits
  <2>3. \A i, j \in 1 .. n : IsHandler(fs[i]) /\ fs[i].h = fs[j].h => i = j
    BY <2>1 DEF Unique
  <2>4. ASSUME NEW i \in 1 .. n + 1, NEW j \in 1 .. n + 1, IsHandler(q[i]), q[i].h = q[j].h
        PROVE  i = j
    BY <1>1, <2>2, <2>3, <2>4 DEF IsHandler
  <2>. QED  BY <1>1, <2>4 DEF Unique
<1>6. Targets(q, A)
  <2>1. ASSUME NEW i \in 1 .. n, IsRaise(q[i])
        PROVE  \E t \in 1 .. i - 1 : Target(q, t, q[i], EnvAt(q, A, i))
    <3>1. q[i] = fs[i] /\ EnvAt(q, A, i) = EnvAt(fs, e, i)
      BY <1>1
    <3>2. Targets(fs, e)
      BY DEF Stack
    <3>3. PICK t \in 1 .. i - 1 : Target(fs, t, fs[i], EnvAt(fs, e, i))
      BY <2>1, <3>1, <3>2 DEF Targets
    <3>4. t \in 1 .. n /\ t \in 1 .. n + 1 /\ q[t] = fs[t]
      BY <1>1
    <3>. QED  BY <1>1, <3>1, <3>3, <3>4 DEF Target
  <2>2. ASSUME IsRaise(f)
        PROVE  \E t \in 1 .. n : Target(q, t, f, A)
    <3>1. PICK t \in 1 .. n : Target(fs, t, f, A)
      BY <2>2 DEF Fits
    <3>2. t \in 1 .. n + 1 /\ q[t] = fs[t]
      BY <1>1
    <3>. QED  BY <1>1, <3>1, <3>2 DEF Target
  <2>3. (n + 1) - 1 = n
    BY <1>1
  <2>4. ASSUME NEW i \in 1 .. n + 1, IsRaise(q[i])
        PROVE  \E t \in 1 .. i - 1 : Target(q, t, q[i], EnvAt(q, A, i))
    <3>1. CASE i \in 1 .. n
      BY <2>1, <2>4, <3>1
    <3>2. CASE i = n + 1
      BY <1>1, <2>2, <2>3, <2>4, <3>2
    <3>. QED  BY <1>1, <3>1, <3>2
  <2>. QED  BY <1>1, <2>4 DEF Targets
<1>7. Scoped(q, A) /\ Within(q, A)
  BY PushScoped, PushWithin DEF q
<1>8. GoodEnv(A) /\ ta \in BOOLEAN /\ (ta => A = OpEnv(A.captured))
  BY DEF Fits
<1>. QED  BY <1>1, <1>2, <1>3, <1>4, <1>5, <1>6, <1>7, <1>8 DEF Stack, q

\* Back to the code of frame n.
LEMMA PopTo ==
  ASSUME NEW fs, NEW e, NEW tl, Stack(fs, e, tl), NEW n \in 1 .. Len(fs)
  PROVE  /\ Stack(SubSeq(fs, 1, n - 1), fs[n].env, fs[n].in_tail)
         /\ Len(SubSeq(fs, 1, n - 1)) = n - 1
         /\ \A i \in 1 .. n - 1 : SubSeq(fs, 1, n - 1)[i] = fs[i]
<1> DEFINE q == SubSeq(fs, 1, n - 1)
           e2 == fs[n].env
           t2 == fs[n].in_tail
<1>0. IsSeq(fs) /\ Len(fs) \in Nat
  BY SeqShape DEF Stack
<1>a. 1 \in 1 .. Len(fs) + 1 /\ n - 1 \in 1 - 1 .. Len(fs) /\ (n - 1) - 1 + 1 = n - 1
  BY <1>0
<1>b. /\ IsSeq(q) /\ Len(q) = (n - 1) - 1 + 1
      /\ \A i \in 1 .. (n - 1) - 1 + 1 : q[i] = fs[1 + i - 1]
  BY <1>0, <1>a, SliceShape
<1>1. IsSeq(q) /\ Len(q) = n - 1 /\ \A i \in 1 .. n - 1 : q[i] = fs[i]
  BY <1>0, <1>a, <1>b
<1> HIDE DEF q
<1>2. ASSUME NEW i \in 0 .. n - 1
      PROVE  EnvAt(q, e2, i) = EnvAt(fs, e, i) /\ TailAt(q, t2, i) = TailAt(fs, tl, i)
  <2>1. i < Len(fs) /\ i \in Nat
    BY <1>0
  <2>2. CASE i < n - 1
    <3>1. i + 1 \in 1 .. n - 1
      BY <1>0, <2>2
    <3>. QED  BY <1>1, <2>1, <2>2, <3>1 DEF EnvAt, TailAt
  <2>3. CASE i = n - 1
    <3>1. i + 1 = n /\ ~(i < n - 1)
      BY <1>0, <2>3
    <3>. QED  BY <1>1, <2>1, <3>1 DEF EnvAt, TailAt
  <2>. QED  BY <1>0, <2>2, <2>3
<1>3. \A i \in 1 .. n - 1 : i \in 1 .. Len(fs) /\ i \in 0 .. n - 1 /\ i \in 0 .. Len(fs)
  BY <1>0
<1>4. Link(fs[n], EnvAt(fs, e, n), TailAt(fs, tl, n))
  BY DEF Stack
<1>5. GoodEnv(e2) /\ t2 \in BOOLEAN /\ (t2 => e2 = OpEnv(e2.captured))
  BY <1>4 DEF Link, IsFrame
<1>6. ~TailAt(q, t2, 0)
  <2>1. 0 \in 0 .. n - 1
    BY <1>0
  <2>. QED  BY <2>1, <1>2 DEF Stack
<1>7. \A i \in 1 .. n - 1 : Link(q[i], EnvAt(q, e2, i), TailAt(q, t2, i))
  <2>1. ASSUME NEW i \in 1 .. n - 1
        PROVE  Link(q[i], EnvAt(q, e2, i), TailAt(q, t2, i))
    <3>1. i \in 1 .. Len(fs) /\ q[i] = fs[i] /\ EnvAt(q, e2, i) = EnvAt(fs, e, i)
          /\ TailAt(q, t2, i) = TailAt(fs, tl, i)
      BY <1>1, <1>2, <1>3
    <3>. QED  BY <3>1 DEF Stack
  <2>. QED  BY <2>1
<1>8. \A i \in 1 .. n - 1 : q[i].mode = "MULTISHOT" => i > 1
  BY <1>1, <1>3 DEF Stack
<1>9. Unique(q)
  <2>1. Unique(fs)
    BY DEF Stack
  <2>. QED  BY <2>1, <1>1, <1>3 DEF Unique
<1>10. Scoped(q, e2)
  <2>1. ASSUME NEW i \in 0 .. n - 1, NEW c, NEW g, Means(c, EnvAt(q, e2, i), g)
        PROVE  \E j \in 1 .. i : q[j].h = g
    <3>1. Means(c, EnvAt(fs, e, i), g) /\ i \in 0 .. Len(fs)
      BY <1>0, <1>2, <2>1
    <3>2. PICK j \in 1 .. i : fs[j].h = g
      BY <3>1 DEF Stack, Scoped
    <3>3. j \in 1 .. n - 1
      BY <1>0
    <3>. QED  BY <1>1, <3>2, <3>3
  <2>. QED  BY <1>1, <2>1 DEF Scoped
<1>11. Within(q, e2)
  <2>1. ASSUME NEW m \in 1 .. n - 1, NEW i \in 1 .. n - 1, m <= i, q[m].mode = "MULTISHOT",
               NEW G \in SUBSET Handlers, Closed(G, q, i), Knows(G, q[m]),
               NEW c, NEW g, Means(c, EnvAt(q, e2, i), g)
        PROVE  g \in G \/ \E j \in m .. i : q[j].h = g
    <3>1. Means(c, EnvAt(fs, e, i), g)
      BY <1>2, <1>3, <2>1
    <3>2. \A j \in 1 .. i : q[j] = fs[j]
      BY <1>0, <1>1
    <3>3. Closed(G, fs, i)
      BY <2>1, <3>2 DEF Closed
    <3>4. m \in 1 .. i /\ q[m] = fs[m]
      BY <1>0, <1>1, <2>1
    <3>5. g \in G \/ \E j \in m .. i : fs[j].h = g
      BY <1>3, <2>1, <3>1, <3>3, <3>4 DEF Stack, Within
    <3>6. \A j \in m .. i : j \in 1 .. i
      BY <1>0
    <3>. QED  BY <3>2, <3>5, <3>6
  <2>. QED  BY <1>1, <2>1 DEF Within
<1>12. Targets(q, e2)
  <2>1. ASSUME NEW i \in 1 .. n - 1, IsRaise(q[i])
        PROVE  \E t \in 1 .. i - 1 : Target(q, t, q[i], EnvAt(q, e2, i))
    <3>1. i \in 1 .. Len(fs) /\ q[i] = fs[i] /\ EnvAt(q, e2, i) = EnvAt(fs, e, i)
      BY <1>1, <1>2, <1>3
    <3>2. PICK t \in 1 .. i - 1 : Target(fs, t, fs[i], EnvAt(fs, e, i))
      BY <2>1, <3>1 DEF Stack, Targets
    <3>3. t \in 1 .. n - 1 /\ q[t] = fs[t]
      BY <1>0, <1>1
    <3>. QED  BY <1>1, <3>1, <3>2, <3>3 DEF Target
  <2>. QED  BY <1>1, <2>1 DEF Targets
<1>. QED  BY <1>1, <1>5, <1>6, <1>7, <1>8, <1>9, <1>10, <1>11, <1>12 DEF Stack, q

-----------------------------------------------------------------------------
(***************************************************************************)
(* Resuming                                                                *)
(***************************************************************************)
\* The first p frames of the stack fs are those that were below the resumption
\* taken at frame m of old; no handler above them is one that it has or knows.
Shared(fs, old, m, p) ==
  /\ m \in 1 .. Len(old) /\ old[m].mode = "MULTISHOT"
  /\ p \in 0 .. m - 1 /\ p <= Len(fs)
  /\ \A j \in 1 .. p : fs[j] = old[j]
  /\ \A j \in p + 1 .. Len(fs) : IsHandler(fs[j]) =>
       /\ \A i \in m .. Len(old) : old[i].h # fs[j].h
       /\ \A s \in Effects : old[m].ops[s] # fs[j].h

Resumed(fs, old, m) == fs \o SubSeq(old, m, Len(old))
HandlersOf(fs, p) == {g \in Handlers : \E j \in 1 .. p : fs[j].h = g}

\* The code that resumes has what the resumption captured.
Resumes(fs, old, oe, ot, m, p) ==
  /\ Stack(old, oe, ot) /\ Shared(fs, old, m, p)
  /\ Stack(fs, OpEnv(old[m].ops), old[m].in_tail)

LEMMA General ==
  ASSUME NEW fs, NEW old, NEW oe, NEW ot, NEW m, NEW p, Resumes(fs, old, oe, ot, m, p)
  PROVE  /\ IsSeq(fs) /\ IsSeq(old) /\ Len(fs) \in Nat /\ Len(old) \in Nat
         /\ m \in 1 .. Len(old) /\ m \in Nat /\ p \in Nat /\ p <= m - 1 /\ p <= Len(fs)
         /\ IsHandler(old[m]) /\ old[m].env = OpEnv(old[m].ops) /\ ~old[m].in_tail
         /\ old[m].ops \in Capability /\ Sorted(old[m].ops)
<1>1. IsSeq(fs) /\ IsSeq(old)
  BY DEF Resumes, Stack
<1>2. Len(fs) \in Nat /\ Len(old) \in Nat
  BY <1>1, SeqShape
<1>3. m \in 1 .. Len(old) /\ p \in 0 .. m - 1 /\ p <= Len(fs) /\ old[m].mode = "MULTISHOT"
  BY DEF Resumes, Shared
<1>4. Link(old[m], EnvAt(old, oe, m), TailAt(old, ot, m))
  BY <1>3 DEF Resumes, Stack
<1>. QED  BY <1>1, <1>2, <1>3, <1>4 DEF Link, HandlerLink, IsFrame

LEMMA KnownIsShared ==
  ASSUME NEW fs, NEW old, NEW oe, NEW ot, NEW m, NEW p, Resumes(fs, old, oe, ot, m, p),
         NEW s \in Effects, old[m].ops[s] # NoHandler
  PROVE  \E j \in 1 .. p : fs[j] = old[j] /\ old[j].h = old[m].ops[s]
<1> DEFINE ops == old[m].ops
<1>1. /\ IsSeq(fs) /\ Len(fs) \in Nat /\ p \in Nat /\ p <= Len(fs)
      /\ ops \in Capability /\ Sorted(ops)
  BY General
<1>2. Means(Clue(s, Infty), OpEnv(ops), ops[s])
  BY <1>1, MeansOp
<1>3. EnvAt(fs, OpEnv(ops), Len(fs)) = OpEnv(ops)
  BY <1>1, OnTop
<1>4. Scoped(fs, OpEnv(ops)) /\ Shared(fs, old, m, p)
  BY DEF Resumes, Stack
<1>5. Len(fs) \in 0 .. Len(fs)
  BY <1>1
<1> HIDE DEF ops
<1>6. PICK j \in 1 .. Len(fs) : fs[j].h = ops[s]
  BY <1>2, <1>3, <1>4, <1>5 DEF Scoped
<1>7. IsHandler(fs[j])
  BY <1>6 DEF IsHandler, ops
<1>8. ~(j \in p + 1 .. Len(fs))
  BY <1>4, <1>6, <1>7 DEF Shared, ops
<1>9. j \in 1 .. p
  BY <1>1, <1>8
<1>. QED  BY <1>4, <1>6, <1>9 DEF Shared, ops

LEMMA SharedClosed ==
  ASSUME NEW fs, NEW old, NEW oe, NEW ot, NEW m, NEW p, Resumes(fs, old, oe, ot, m, p)
  PROVE  /\ \A n \in 0 .. Len(old) : Closed(HandlersOf(old, p), old, n)
         /\ Knows(HandlersOf(old, p), old[m])
<1> DEFINE P == HandlersOf(old, p)
<1>1. /\ Len(old) \in Nat /\ m \in 1 .. Len(old) /\ p \in Nat /\ p <= m - 1
      /\ old[m].ops \in Capability
  BY General
<1>2. Unique(old) /\ Stack(old, oe, ot)
  BY DEF Resumes, Stack
<1>3. ASSUME NEW n \in 0 .. Len(old), NEW j \in 1 .. n, NEW s \in Effects, old[j].h \in P
      PROVE  old[j].ops[s] \in P \cup {NoHandler}
  <2>1. PICK i \in 1 .. p : old[i].h = old[j].h
    BY <1>3 DEF HandlersOf
  <2>2. IsHandler(old[j]) /\ i \in 1 .. Len(old) /\ j \in 1 .. Len(old)
    BY <1>1, <1>3, Constants DEF HandlersOf, IsHandler
  <2>3. i = j
    BY <1>2, <2>1, <2>2 DEF Unique
  <2>4. old[j].ops \in Capability
    BY <1>2, <2>2 DEF Stack, Link, IsFrame
  <2>5. CASE old[j].ops[s] # NoHandler
    <3>1. PICK k \in 1 .. j - 1 : old[k].h = old[j].ops[s]
      BY <1>2, <2>2, <2>5, CapturedBelow
    <3>2. k \in 1 .. p
      BY <1>1, <2>1, <2>3
    <3>3. old[j].ops[s] \in Handlers
      BY <2>4, <2>5, NoHandlers
    <3>. QED  BY <3>1, <3>2, <3>3 DEF HandlersOf
  <2>. QED  BY <2>5
<1>4. ASSUME NEW s \in Effects, old[m].ops[s] # NoHandler
      PROVE  old[m].ops[s] \in P
  <2>1. PICK j \in 1 .. p : old[j].h = old[m].ops[s]
    BY <1>4, KnownIsShared
  <2>2. old[m].ops[s] \in Handlers
    BY <1>1, <1>4, NoHandlers
  <2>. QED  BY <2>1, <2>2 DEF HandlersOf
<1>. QED  BY <1>3, <1>4 DEF Closed, Knows

\* What the resumption names is in it or below it, where it still is.
LEMMA ResumptionNames ==
  ASSUME NEW fs, NEW old, NEW oe, NEW ot, NEW m, NEW p, Resumes(fs, old, oe, ot, m, p),
         NEW i \in m .. Len(old), NEW c, NEW g, Means(c, EnvAt(old, oe, i), g)
  PROVE  g \in HandlersOf(old, p) \/ \E j \in m .. i : old[j].h = g
<1>1. Len(old) \in Nat /\ m \in 1 .. Len(old) /\ old[m].mode = "MULTISHOT"
  BY General DEF Resumes, Shared
<1>2. i \in 1 .. Len(old) /\ m <= i /\ i \in 0 .. Len(old)
  BY <1>1
<1>3. HandlersOf(old, p) \in SUBSET Handlers
  BY DEF HandlersOf
<1>4. Closed(HandlersOf(old, p), old, i) /\ Knows(HandlersOf(old, p), old[m])
  BY <1>2, SharedClosed
<1>5. Within(old, oe)
  BY DEF Resumes, Stack
<1>. QED  BY <1>1, <1>2, <1>3, <1>4, <1>5 DEF Within

\* So is what its handlers capture.
LEMMA ResumptionCaptures ==
  ASSUME NEW fs, NEW old, NEW oe, NEW ot, NEW m, NEW p, Resumes(fs, old, oe, ot, m, p),
         NEW i \in m .. Len(old), IsHandler(old[i]), NEW s \in Effects, old[i].ops[s] # NoHandler
  PROVE  old[i].ops[s] \in HandlersOf(old, p) \/ \E j \in m .. i - 1 : old[j].h = old[i].ops[s]
<1>1. Len(old) \in Nat /\ m \in 1 .. Len(old)
  BY General
<1>2. CASE i = m
  BY <1>2, SharedClosed DEF Knows
<1>3. CASE i # m
  <2>1. i \in 1 .. Len(old) /\ i - 1 \in m .. Len(old)
    BY <1>1, <1>3
  <2>2. PICK c : Means(c, EnvAt(old, oe, i - 1), old[i].ops[s])
    BY <2>1, CapturedBelow DEF Resumes
  <2>. QED  BY <2>1, <2>2, ResumptionNames
<1>. QED  BY <1>2, <1>3

\* Where frame i of old is after the resumption.
Moved(fs, m, i) == Len(fs) + 1 + i - m

LEMMA ResumedFacts ==
  ASSUME NEW fs, NEW old, NEW oe, NEW ot, NEW m, NEW p, Resumes(fs, old, oe, ot, m, p)
  PROVE  /\ IsSeq(Resumed(fs, old, m)) /\ Len(Resumed(fs, old, m)) = Moved(fs, m, Len(old))
         /\ \A j \in 1 .. Len(fs) : Resumed(fs, old, m)[j] = fs[j]
         /\ \A i \in m .. Len(old) :
              /\ Resumed(fs, old, m)[Moved(fs, m, i)] = old[i]
              /\ EnvAt(Resumed(fs, old, m), oe, Moved(fs, m, i)) = EnvAt(old, oe, i)
              /\ TailAt(Resumed(fs, old, m), ot, Moved(fs, m, i)) = TailAt(old, ot, i)
         /\ \A j \in 0 .. Len(fs) :
              /\ EnvAt(Resumed(fs, old, m), oe, j) = EnvAt(fs, OpEnv(old[m].ops), j)
              /\ TailAt(Resumed(fs, old, m), ot, j) = TailAt(fs, old[m].in_tail, j)
<1> DEFINE q == Resumed(fs, old, m)
           A == OpEnv(old[m].ops)
           r == SubSeq(old, m, Len(old))
           n == Len(fs)
           z == Len(old)
<1>1. /\ IsSeq(fs) /\ IsSeq(old) /\ n \in Nat /\ z \in Nat /\ m \in 1 .. z /\ m \in Nat
      /\ old[m].env = A /\ ~old[m].in_tail
  BY General
<1>2. m \in 1 .. z + 1 /\ z \in m - 1 .. z
  BY <1>1
<1>3. IsSeq(r) /\ Len(r) = z - m + 1 /\ \A i \in 1 .. z - m + 1 : r[i] = old[m + i - 1]
  BY <1>1, <1>2, SliceShape
<1> HIDE DEF r
<1>q. q = fs \o r
  BY DEF Resumed, r
<1> HIDE DEF q
<1>s. IsSeq(r)
  BY <1>3
<1>t. IsSeq(fs)
  BY <1>1
<1>4. /\ IsSeq(fs \o r) /\ Len(fs \o r) = n + Len(r)
      /\ \A i \in 1 .. n : (fs \o r)[i] = fs[i]
      /\ \A i \in 1 .. Len(r) : (fs \o r)[n + i] = r[i]
  BY <1>s, <1>t, ConcatShape
<1>5. /\ IsSeq(q) /\ Len(q) = n + (z - m + 1)
      /\ \A i \in 1 .. n : q[i] = fs[i]
      /\ \A i \in 1 .. z - m + 1 : q[n + i] = old[m + i - 1]
  BY <1>3, <1>4, <1>q
<1>6. ASSUME NEW i \in m .. z
      PROVE  q[n + 1 + i - m] = old[i]
  <2>1. i - m + 1 \in 1 .. z - m + 1 /\ n + (i - m + 1) = n + 1 + i - m /\ m + (i - m + 1) - 1 = i
    BY <1>1
  <2>. QED  BY <2>1, <1>5
<1>7. Len(q) = n + 1 + z - m
  BY <1>1, <1>5
<1> HIDE DEF A, n, z
<1>8. ASSUME NEW i \in m .. z
      PROVE  /\ EnvAt(q, oe, n + 1 + i - m) = EnvAt(old, oe, i)
             /\ TailAt(q, ot, n + 1 + i - m) = TailAt(old, ot, i)
  <2>1. CASE i < z
    <3>1. i + 1 \in m .. z /\ n + 1 + i - m < n + 1 + z - m /\ (n + 1 + i - m) + 1 = n + 1 + (i + 1) - m
      BY <1>1, <2>1
    <3>2. q[(n + 1 + i - m) + 1] = old[i + 1]
      BY <3>1, <1>6
    <3>. QED  BY <1>7, <2>1, <3>1, <3>2 DEF EnvAt, TailAt, z
  <2>2. CASE i = z
    <3>1. ~(n + 1 + i - m < n + 1 + z - m) /\ ~(i < z)
      BY <1>1, <2>2
    <3>. QED  BY <1>7, <3>1 DEF EnvAt, TailAt, z
  <2>. QED  BY <1>1, <2>1, <2>2
<1>9. ASSUME NEW j \in 0 .. n
      PROVE  EnvAt(q, oe, j) = EnvAt(fs, A, j) /\ TailAt(q, ot, j) = TailAt(fs, old[m].in_tail, j)
  <2>1. j < n + 1 + z - m
    BY <1>1
  <2>2. CASE j < n
    <3>1. j + 1 \in 1 .. n
      BY <1>1, <2>2
    <3>2. q[j + 1] = fs[j + 1]
      BY <3>1, <1>5
    <3>. QED  BY <1>7, <2>1, <2>2, <3>2 DEF EnvAt, TailAt, n
  <2>3. CASE j = n
    <3>1. m \in m .. z /\ n + 1 + m - m = j + 1 /\ ~(j < n)
      BY <1>1, <2>3
    <3>2. q[j + 1] = old[m]
      BY <3>1, <1>6
    <3>. QED  BY <1>1, <1>7, <2>1, <3>1, <3>2 DEF EnvAt, TailAt, n
  <2>4. j < n \/ j = n
    BY <1>1
  <2>. QED  BY <2>2, <2>3, <2>4
<1>. QED  BY <1>5, <1>6, <1>7, <1>8, <1>9 DEF Moved, q, A, n, z

\* Where a frame of the whole comes from.
LEMMA Origin ==
  ASSUME NEW fs, NEW old, NEW oe, NEW ot, NEW m, NEW p, Resumes(fs, old, oe, ot, m, p)
  PROVE  /\ \A j \in 1 .. Moved(fs, m, Len(old)) :
              j \in 1 .. Len(fs) \/ \E i \in m .. Len(old) : j = Moved(fs, m, i)
         /\ \A i \in m .. Len(old) :
              /\ Moved(fs, m, i) \in Len(fs) + 1 .. Moved(fs, m, Len(old))
              /\ \A k \in m .. Len(old) : Moved(fs, m, i) <= Moved(fs, m, k) <=> i <= k
<1>1. Len(fs) \in Nat /\ Len(old) \in Nat /\ m \in Nat /\ m \in 1 .. Len(old)
  BY General
<1>2. ASSUME NEW j \in 1 .. Moved(fs, m, Len(old)), ~(j \in 1 .. Len(fs))
      PROVE  \E i \in m .. Len(old) : j = Moved(fs, m, i)
  <2> DEFINE i == j + m - Len(fs) - 1
  <2>1. i \in m .. Len(old) /\ j = Moved(fs, m, i)
    BY <1>1, <1>2 DEF Moved
  <2>. QED  BY <2>1
<1>3. ASSUME NEW i \in m .. Len(old)
      PROVE  /\ Moved(fs, m, i) \in Len(fs) + 1 .. Moved(fs, m, Len(old))
             /\ \A k \in m .. Len(old) : Moved(fs, m, i) <= Moved(fs, m, k) <=> i <= k
  BY <1>1 DEF Moved
<1>. QED  BY <1>2, <1>3

\* What was below the resumption and is still: the same frames.
LEMMA StillThere ==
  ASSUME NEW fs, NEW old, NEW oe, NEW ot, NEW m, NEW p, Resumes(fs, old, oe, ot, m, p),
         NEW g \in HandlersOf(old, p)
  PROVE  \E j \in 1 .. p : j \in 1 .. Len(fs) /\ j \in 1 .. Len(old) /\ fs[j] = old[j] /\ fs[j].h = g
<1>1. Len(fs) \in Nat /\ Len(old) \in Nat /\ m \in 1 .. Len(old) /\ p \in Nat /\ p <= m - 1 /\ p <= Len(fs)
  BY General
<1>2. PICK j \in 1 .. p : old[j].h = g
  BY DEF HandlersOf
<1>3. fs[j] = old[j]
  BY DEF Resumes, Shared
<1>4. j \in 1 .. Len(fs) /\ j \in 1 .. Len(old)
  BY <1>1
<1>. QED  BY <1>2, <1>3, <1>4

LEMMA ResumedScoped ==
  ASSUME NEW fs, NEW old, NEW oe, NEW ot, NEW m, NEW p, Resumes(fs, old, oe, ot, m, p)
  PROVE  Scoped(Resumed(fs, old, m), oe)
<1> DEFINE q == Resumed(fs, old, m)
           A == OpEnv(old[m].ops)
           n == Len(fs)
           z == Len(old)
           to(i) == Moved(fs, m, i)
<1>1. /\ n \in Nat /\ z \in Nat /\ m \in 1 .. z /\ m \in Nat
  BY General
<1>a. IsSeq(q) /\ Len(q) = to(z) /\ \A j \in 1 .. n : q[j] = fs[j]
  BY ResumedFacts
<1>b. \A i \in m .. z : q[to(i)] = old[i] /\ EnvAt(q, oe, to(i)) = EnvAt(old, oe, i)
  BY ResumedFacts
<1>c. \A j \in 0 .. n : EnvAt(q, oe, j) = EnvAt(fs, A, j)
  BY ResumedFacts
<1>2. /\ IsSeq(q) /\ Len(q) = to(z) /\ \A j \in 1 .. n : q[j] = fs[j]
      /\ \A i \in m .. z : q[to(i)] = old[i] /\ EnvAt(q, oe, to(i)) = EnvAt(old, oe, i)
      /\ \A j \in 0 .. n : EnvAt(q, oe, j) = EnvAt(fs, A, j)
  BY <1>a, <1>b, <1>c
<1>3. /\ \A j \in 1 .. to(z) : j \in 1 .. n \/ \E i \in m .. z : j = to(i)
      /\ \A i \in m .. z : /\ to(i) \in n + 1 .. to(z)
                           /\ \A k \in m .. z : to(i) <= to(k) <=> i <= k
  BY Origin
<1> HIDE DEF q, A, to, n, z
<1>4. ASSUME NEW i \in 0 .. n, NEW c, NEW g, Means(c, EnvAt(q, oe, i), g)
      PROVE  \E j \in 1 .. i : q[j].h = g
  <2>1. Scoped(fs, A)
    BY DEF Resumes, Stack, A
  <2>2. PICK j \in 1 .. i : fs[j].h = g
    BY <1>2, <1>4, <2>1 DEF Scoped, n
  <2>3. j \in 1 .. n
    BY <1>1
  <2>. QED  BY <1>2, <2>2, <2>3
<1>5. ASSUME NEW i \in m .. z, NEW c, NEW g, Means(c, EnvAt(q, oe, to(i)), g)
      PROVE  \E j \in 1 .. to(i) : q[j].h = g
  <2>1. Means(c, EnvAt(old, oe, i), g)
    BY <1>2, <1>5
  <2>0. to(i) \in n + 1 .. to(z) /\ to(i) \in Int
    BY <1>3
  <2>2. CASE g \in HandlersOf(old, p)
    <3>1. PICK j \in 1 .. n : fs[j].h = g
      BY <2>2, StillThere DEF n
    <3>2. j \in 1 .. to(i)
      BY <1>1, <2>0
    <3>. QED  BY <1>2, <3>1, <3>2
  <2>3. CASE \E j \in m .. i : old[j].h = g
    <3>1. PICK j \in m .. i : old[j].h = g
      BY <2>3
    <3>2. j \in m .. z /\ i \in m .. z /\ j <= i
      BY <1>1
    <3>3. to(j) <= to(i) /\ to(j) \in n + 1 .. to(z)
      BY <1>3, <3>2
    <3>4. to(j) \in 1 .. to(i)
      BY <1>1, <2>0, <3>3
    <3>. QED  BY <1>2, <3>1, <3>2, <3>4
  <2>. QED  BY <2>1, <2>2, <2>3, ResumptionNames DEF z
<1>6. ASSUME NEW i \in 0 .. to(z)
      PROVE  i \in 0 .. n \/ \E k \in m .. z : i = to(k)
  BY <1>1, <1>3
<1>. QED  BY <1>2, <1>4, <1>5, <1>6 DEF Scoped, q

\* A general handler of the stack that resumes.
LEMMA ResumedWithinOuter ==
  ASSUME NEW fs, NEW old, NEW oe, NEW ot, NEW m, NEW p, Resumes(fs, old, oe, ot, m, p),
         NEW M \in 1 .. Len(fs), fs[M].mode = "MULTISHOT", NEW k \in m .. Len(old),
         NEW G \in SUBSET Handlers, Closed(G, fs, Len(fs)), Knows(G, fs[M]),
         NEW c, NEW g, Means(c, EnvAt(old, oe, k), g)
  PROVE  \/ g \in G
         \/ \E j \in M .. Len(fs) : fs[j].h = g
         \/ \E j \in m .. k : old[j].h = g
<1> DEFINE A == OpEnv(old[m].ops)
           n == Len(fs)
           z == Len(old)
           P == HandlersOf(old, p)
           G2 == {x \in P : x \in G \/ \E j \in M .. n : fs[j].h = x}
<1>1. /\ n \in Nat /\ z \in Nat /\ m \in 1 .. z /\ m \in Nat /\ p \in Nat /\ p <= m - 1 /\ p <= n
      /\ old[m].ops \in Capability /\ Sorted(old[m].ops) /\ IsSeq(fs)
  BY General
<1>2. /\ Unique(old) /\ Unique(fs) /\ Within(old, oe) /\ Within(fs, A) /\ Stack(fs, A, old[m].in_tail)
      /\ Stack(old, oe, ot) /\ old[m].mode = "MULTISHOT"
  BY DEF Resumes, Shared, Stack
<1>3. \A i \in 0 .. n : Closed(G, fs, i)
  BY <1>1 DEF Closed
<1>4. ASSUME NEW i \in M .. n, NEW d, NEW x, Means(d, EnvAt(fs, A, i), x)
      PROVE  x \in G \/ \E j \in M .. i : fs[j].h = x
  <2>1. i \in 1 .. n /\ M <= i /\ i \in 0 .. n
    BY <1>1
  <2>. QED  BY <1>2, <1>3, <1>4, <2>1 DEF Within
<1>5. ASSUME NEW s \in Effects, old[m].ops[s] # NoHandler
      PROVE  old[m].ops[s] \in G2
  <2>1. old[m].ops[s] \in P
    BY <1>5, SharedClosed DEF Knows
  <2>2. Means(Clue(s, Infty), A, old[m].ops[s])
    BY <1>1, <1>5, MeansOp
  <2>3a. EnvAt(fs, A, n) = A
    BY <1>1, OnTop
  <2>3. EnvAt(fs, A, n) = A /\ n \in M .. n
    BY <1>1, <2>3a
  <2>4. old[m].ops[s] \in G \/ \E j \in M .. n : fs[j].h = old[m].ops[s]
    BY <1>4, <2>2, <2>3
  <2>. QED  BY <2>1, <2>4
<1>6. ASSUME NEW j \in 1 .. k, NEW s \in Effects, old[j].h \in G2, old[j].ops[s] # NoHandler
      PROVE  old[j].ops[s] \in G2
  <2>1. PICK i \in 1 .. p : i \in 1 .. n /\ i \in 1 .. z /\ fs[i] = old[i] /\ fs[i].h = old[j].h
    BY <1>6, StillThere
  <2>2. j \in 1 .. z /\ k \in 0 .. z
    BY <1>1
  <2>3. IsHandler(old[j]) /\ IsHandler(fs[i]) /\ old[j].h \in P
    BY <1>6, <2>1, Constants DEF IsHandler, HandlersOf
  <2>4. i = j
    BY <1>2, <2>1, <2>2, <2>3 DEF Unique
  <2>5. old[j].ops[s] \in P
    BY <1>6, <2>2, <2>3, SharedClosed DEF Closed
  <2>6. fs[i].ops[s] = old[j].ops[s]
    BY <2>1, <2>4
  <2>7. CASE fs[i].h \in G
    BY <1>6, <2>1, <2>5, <2>6, <2>7 DEF Closed
  <2>8. CASE \E l \in M .. n : fs[l].h = fs[i].h
    <3>1. PICK l \in M .. n : fs[l].h = fs[i].h
      BY <2>8
    <3>2. l \in 1 .. n
      BY <1>1
    <3>3. l = i
      BY <1>2, <2>1, <2>3, <3>1, <3>2 DEF Unique
    <3>4. CASE i = M
      BY <1>6, <2>5, <2>6, <3>4 DEF Knows
    <3>5. CASE i # M
      <4>1. i - 1 \in M .. n
        BY <1>1, <3>1, <3>3, <3>5
      <4>2. PICK d : Means(d, EnvAt(fs, A, i - 1), fs[i].ops[s])
        BY <1>2, <1>6, <2>1, <2>3, <2>6, CapturedBelow
      <4>3. fs[i].ops[s] \in G \/ \E j2 \in M .. i - 1 : fs[j2].h = fs[i].ops[s]
        BY <1>4, <4>1, <4>2
      <4>4. \A j2 \in M .. i - 1 : j2 \in M .. n
        BY <1>1, <4>1
      <4>. QED  BY <2>5, <2>6, <4>3, <4>4
    <3>. QED  BY <3>4, <3>5
  <2>. QED  BY <1>6, <2>1, <2>7, <2>8
<1>7. G2 \in SUBSET Handlers
  BY DEF HandlersOf
<1>8. Closed(G2, old, k) /\ Knows(G2, old[m])
  BY <1>5, <1>6 DEF Closed, Knows
<1>9. k \in 1 .. z /\ m <= k
  BY <1>1
<1> HIDE DEF G2
<1>10. g \in G2 \/ \E j \in m .. k : old[j].h = g
  BY <1>1, <1>2, <1>7, <1>8, <1>9 DEF Within
<1>. QED  BY <1>10 DEF G2

\* A general handler in the resumption; G is closed on what the two stacks make.
LEMMA ResumedWithinInner ==
  ASSUME NEW fs, NEW old, NEW oe, NEW ot, NEW m, NEW p, Resumes(fs, old, oe, ot, m, p),
         NEW k \in m .. Len(old), NEW M \in m .. k, old[M].mode = "MULTISHOT",
         NEW G \in SUBSET Handlers, Closed(G, fs, Len(fs)), Knows(G, old[M]),
         \A j \in m .. k, s \in Effects : old[j].h \in G => old[j].ops[s] \in G \cup {NoHandler},
         NEW c, NEW g, Means(c, EnvAt(old, oe, k), g)
  PROVE  g \in G \/ \E j \in M .. k : old[j].h = g
<1> DEFINE n == Len(fs)
           z == Len(old)
           P == HandlersOf(old, p)
           G2 == {x \in G : x \in P \/ \E j \in m .. k : old[j].h = x}
<1>1. /\ n \in Nat /\ z \in Nat /\ m \in 1 .. z /\ m \in Nat /\ p \in Nat /\ p <= m - 1 /\ p <= n
  BY General
<1>2. Unique(old) /\ Within(old, oe) /\ Stack(old, oe, ot)
  BY DEF Resumes, Stack
<1>3. M \in m .. z /\ M \in 1 .. z /\ k \in 1 .. z /\ M <= k /\ k \in 0 .. z
  BY <1>1
<1>4. ASSUME NEW j \in m .. k, IsHandler(old[j]), NEW s \in Effects, old[j].ops[s] # NoHandler
      PROVE  old[j].ops[s] \in P \/ \E i \in m .. k : old[j].ops[s] = old[i].h
  <2>1. j \in m .. z /\ \A i \in m .. j - 1 : i \in m .. k
    BY <1>1
  <2>. QED  BY <1>4, <2>1, ResumptionCaptures
<1>5. IsHandler(old[M])
  BY <1>2, <1>3 DEF Stack, Link
<1>6. Knows(G2, old[M])
  BY <1>3, <1>4, <1>5 DEF Knows
<1>7. ASSUME NEW j \in 1 .. k, NEW s \in Effects, old[j].h \in G2, old[j].ops[s] # NoHandler
      PROVE  old[j].ops[s] \in G2
  <2>1. j \in 1 .. z
    BY <1>1
  <2>2. IsHandler(old[j])
    BY <1>7, Constants DEF IsHandler
  <2>3. CASE old[j].h \in P
    <3>1. PICK i \in 1 .. p : i \in 1 .. n /\ i \in 1 .. z /\ fs[i] = old[i] /\ fs[i].h = old[j].h
      BY <2>3, StillThere
    <3>2. i = j
      BY <1>2, <2>1, <2>2, <3>1 DEF Unique
    <3>3. old[j].ops[s] \in P
      BY <1>3, <1>7, <2>3, SharedClosed DEF Closed
    <3>4. old[j].ops[s] \in G
      BY <1>7, <3>1, <3>2 DEF Closed
    <3>. QED  BY <3>3, <3>4
  <2>4. CASE \E i \in m .. k : old[i].h = old[j].h
    <3>1. PICK i \in m .. k : old[i].h = old[j].h
      BY <2>4
    <3>2. i \in 1 .. z
      BY <1>1
    <3>3. i = j
      BY <1>2, <2>1, <2>2, <3>1, <3>2 DEF Unique
    <3>4. old[j].ops[s] \in G
      BY <1>7, <3>3
    <3>. QED  BY <1>4, <1>7, <2>2, <3>3, <3>4
  <2>. QED  BY <1>7, <2>3, <2>4
<1>8. Closed(G2, old, k) /\ G2 \in SUBSET Handlers
  BY <1>7 DEF Closed
<1> HIDE DEF G2
<1>9. g \in G2 \/ \E j \in M .. k : old[j].h = g
  BY <1>2, <1>3, <1>6, <1>8 DEF Within
<1>. QED  BY <1>9 DEF G2

LEMMA ResumedWithin ==
  ASSUME NEW fs, NEW old, NEW oe, NEW ot, NEW m, NEW p, Resumes(fs, old, oe, ot, m, p)
  PROVE  Within(Resumed(fs, old, m), oe)
<1> DEFINE q == Resumed(fs, old, m)
           A == OpEnv(old[m].ops)
           n == Len(fs)
           z == Len(old)
           to(i) == Moved(fs, m, i)
<1>1. /\ n \in Nat /\ z \in Nat /\ m \in 1 .. z /\ m \in Nat
  BY General
<1>a. IsSeq(q) /\ Len(q) = to(z) /\ \A j \in 1 .. n : q[j] = fs[j]
  BY ResumedFacts
<1>b. \A i \in m .. z : q[to(i)] = old[i] /\ EnvAt(q, oe, to(i)) = EnvAt(old, oe, i)
  BY ResumedFacts
<1>c. \A j \in 0 .. n : EnvAt(q, oe, j) = EnvAt(fs, A, j)
  BY ResumedFacts
<1>3. /\ \A j \in 1 .. to(z) : j \in 1 .. n \/ \E i \in m .. z : j = to(i)
      /\ \A i \in m .. z : /\ to(i) \in n + 1 .. to(z)
                           /\ \A k \in m .. z : to(i) <= to(k) <=> i <= k
  BY Origin
<1>5. SUFFICES ASSUME NEW M \in 1 .. Len(q), NEW i \in 1 .. Len(q), M <= i,
                      q[M].mode = "MULTISHOT",
                      NEW G \in SUBSET Handlers, Closed(G, q, i), Knows(G, q[M]),
                      NEW c, NEW g, Means(c, EnvAt(q, oe, i), g)
               PROVE  g \in G \/ \E j \in M .. i : q[j].h = g
  BY DEF Within
<1>z. to(z) \in Int
  BY <1>1 DEF Moved
<1> HIDE DEF q, A, to, n, z
<1>6. CASE i \in 1 .. n
  <2>1. M \in 1 .. n /\ \A j \in 1 .. i : q[j] = fs[j]
    BY <1>1, <1>a, <1>5, <1>6
  <2>2. Closed(G, fs, i)
    BY <1>5, <2>1 DEF Closed
  <2>3. fs[M].mode = "MULTISHOT" /\ Knows(G, fs[M])
    BY <1>a, <1>5, <2>1
  <2>4. i \in 0 .. n /\ Means(c, EnvAt(fs, A, i), g)
    BY <1>1, <1>5, <1>6, <1>c
  <2>5. Within(fs, A)
    BY DEF Resumes, Stack, A
  <2>6. g \in G \/ \E j \in M .. i : fs[j].h = g
    BY <1>5, <1>6, <2>1, <2>2, <2>3, <2>4, <2>5 DEF Within, n
  <2>7. \A j \in M .. i : j \in 1 .. i
    BY <1>1, <2>1
  <2>. QED  BY <2>1, <2>6, <2>7
<1>7. ASSUME NEW k \in m .. z, i = to(k)
      PROVE  g \in G \/ \E j \in M .. i : q[j].h = g
  <2>1. Means(c, EnvAt(old, oe, k), g)
    BY <1>b, <1>5, <1>7
  <2>2. i \in n + 1 .. to(z) /\ i \in Int /\ to(z) \in Int
    BY <1>3, <1>7, <1>z
  <2>3. Closed(G, fs, n)
    <3>1. \A j \in 1 .. n : j \in 1 .. i
      BY <1>1, <2>2
    <3>. QED  BY <1>a, <1>5, <3>1 DEF Closed
  <2>4. ASSUME NEW j \in m .. k
        PROVE  j \in m .. z /\ to(j) \in n + 1 .. i /\ q[to(j)] = old[j]
    <3>1. j \in m .. z /\ j <= k
      BY <1>1
    <3>2. to(j) <= i /\ to(j) \in n + 1 .. to(z)
      BY <1>3, <1>7, <3>1
    <3>. QED  BY <1>1, <1>b, <2>2, <3>1, <3>2
  <2>5. CASE M \in 1 .. n
    <3>1. fs[M].mode = "MULTISHOT" /\ Knows(G, fs[M])
      BY <1>a, <1>5, <2>5
    <3>2. \/ g \in G
          \/ \E j \in M .. n : fs[j].h = g
          \/ \E j \in m .. k : old[j].h = g
      BY <2>1, <2>3, <2>5, <3>1, ResumedWithinOuter DEF n, z
    <3>3. \A j \in M .. n : j \in 1 .. n /\ j \in M .. i
      BY <1>1, <2>2, <2>5
    <3>4. \A j \in m .. k : to(j) \in M .. i
      BY <1>1, <2>2, <2>4, <2>5
    <3>. QED  BY <1>a, <2>4, <3>2, <3>3, <3>4
  <2>6. ASSUME NEW K \in m .. z, M = to(K)
        PROVE  g \in G \/ \E j \in M .. i : q[j].h = g
    <3>1. K <= k /\ K \in m .. k
      BY <1>1, <1>3, <1>5, <1>7, <2>6
    <3>2. old[K].mode = "MULTISHOT" /\ Knows(G, old[K])
      BY <1>b, <1>5, <2>6
    <3>3. \A j \in m .. k, s \in Effects : old[j].h \in G => old[j].ops[s] \in G \cup {NoHandler}
      <4>1. ASSUME NEW j \in m .. k, NEW s \in Effects, old[j].h \in G
            PROVE  old[j].ops[s] \in G \cup {NoHandler}
        <5>1. to(j) \in 1 .. i /\ q[to(j)] = old[j]
          BY <1>1, <2>2, <2>4
        <5>. QED  BY <1>5, <4>1, <5>1 DEF Closed
      <4>. QED  BY <4>1
    <3>4. g \in G \/ \E j \in K .. k : old[j].h = g
      BY <2>1, <2>3, <3>1, <3>2, <3>3, ResumedWithinInner DEF n, z
    <3>5. ASSUME NEW j \in K .. k
          PROVE  j \in m .. k /\ to(j) \in M .. i
      <4>1. j \in m .. k /\ j \in m .. z /\ K <= j
        BY <1>1
      <4>2. M <= to(j)
        BY <1>3, <2>6, <4>1
      <4>3. to(j) \in n + 1 .. i
        BY <2>4, <4>1
      <4>4. M \in n + 1 .. to(z)
        BY <1>3, <2>6
      <4>. QED  BY <1>1, <2>2, <4>1, <4>2, <4>3, <4>4
    <3>. QED  BY <2>4, <3>4, <3>5
  <2>. QED  BY <1>3, <1>5, <1>a, <2>5, <2>6
<1>. QED  BY <1>3, <1>5, <1>6, <1>7, <1>a DEF q

LEMMA Join ==
  ASSUME NEW fs, NEW old, NEW oe, NEW ot, NEW m, NEW p, Resumes(fs, old, oe, ot, m, p), Len(fs) >= 1
  PROVE  Stack(Resumed(fs, old, m), oe, ot)
<1> DEFINE q == Resumed(fs, old, m)
           A == OpEnv(old[m].ops)
           at == old[m].in_tail
           n == Len(fs)
           z == Len(old)
           to(i) == Moved(fs, m, i)
<1>1. /\ n \in Nat /\ z \in Nat /\ m \in 1 .. z /\ m \in Nat /\ p \in Nat /\ p <= m - 1 /\ p <= n
  BY General
<1>a. IsSeq(q) /\ Len(q) = to(z) /\ \A j \in 1 .. n : q[j] = fs[j]
  BY ResumedFacts
<1>b. \A i \in m .. z : /\ q[to(i)] = old[i] /\ EnvAt(q, oe, to(i)) = EnvAt(old, oe, i)
                        /\ TailAt(q, ot, to(i)) = TailAt(old, ot, i)
  BY ResumedFacts
<1>c. \A j \in 0 .. n : EnvAt(q, oe, j) = EnvAt(fs, A, j) /\ TailAt(q, ot, j) = TailAt(fs, at, j)
  BY ResumedFacts
<1>3. /\ \A j \in 1 .. to(z) : j \in 1 .. n \/ \E i \in m .. z : j = to(i)
      /\ \A i \in m .. z : /\ to(i) \in n + 1 .. to(z)
                           /\ \A k \in m .. z : to(i) <= to(k) <=> i <= k
  BY Origin
<1>4. Stack(fs, A, at) /\ Stack(old, oe, ot)
  BY DEF Resumes
<1>5. Shared(fs, old, m, p) /\ Unique(fs) /\ Unique(old)
  BY <1>4 DEF Resumes, Stack
<1>z. to(z) \in Int
  BY <1>1 DEF Moved
<1> HIDE DEF q, A, at, to
<1>6. \A j \in 1 .. to(z) : Link(q[j], EnvAt(q, oe, j), TailAt(q, ot, j))
  <2>1. ASSUME NEW j \in 1 .. n
        PROVE  Link(q[j], EnvAt(q, oe, j), TailAt(q, ot, j))
    <3>1. j \in 0 .. n
      BY <1>1
    <3>2. q[j] = fs[j] /\ EnvAt(q, oe, j) = EnvAt(fs, A, j) /\ TailAt(q, ot, j) = TailAt(fs, at, j)
      BY <1>a, <1>c, <3>1
    <3>. QED  BY <1>4, <3>2 DEF Stack
  <2>2. ASSUME NEW i \in m .. z
        PROVE  Link(q[to(i)], EnvAt(q, oe, to(i)), TailAt(q, ot, to(i)))
    <3>1. i \in 1 .. z
      BY <1>1
    <3>2. Link(old[i], EnvAt(old, oe, i), TailAt(old, ot, i))
      BY <1>4, <3>1 DEF Stack
    <3>. QED  BY <1>b, <3>2
  <2>. QED  BY <1>3, <2>1, <2>2
<1>7. \A j \in 1 .. to(z) : q[j].mode = "MULTISHOT" => j > 1
  <2>1. \A j \in 1 .. n : q[j].mode = "MULTISHOT" => j > 1
    BY <1>4, <1>a DEF Stack
  <2>2. \A i \in m .. z : to(i) > 1
    BY <1>1, <1>3
  <2>. QED  BY <1>3, <2>1, <2>2
<1>8. Unique(q)
  <2>1. ASSUME NEW i \in 1 .. n, NEW j \in 1 .. n, IsHandler(fs[i]), fs[i].h = fs[j].h
        PROVE  i = j
    BY <1>5, <2>1 DEF Unique
  <2>2. ASSUME NEW i \in m .. z, NEW j \in m .. z, IsHandler(old[i]), old[i].h = old[j].h
        PROVE  i = j
    <3>1. i \in 1 .. z /\ j \in 1 .. z
      BY <1>1
    <3>. QED  BY <1>5, <2>2, <3>1 DEF Unique
  <2>3. ASSUME NEW j \in 1 .. n, NEW i \in m .. z, IsHandler(fs[j]), fs[j].h = old[i].h
        PROVE  FALSE
    <3>1. CASE j \in p + 1 .. n
      BY <1>5, <2>3, <3>1 DEF Shared
    <3>2. CASE j \in 1 .. p
      <4>1. fs[j] = old[j] /\ j \in 1 .. z /\ i \in 1 .. z /\ j # i
        BY <1>1, <1>5, <3>2 DEF Shared
      <4>. QED  BY <1>5, <2>3, <4>1 DEF Unique
    <3>. QED  BY <1>1, <3>1, <3>2
  <2>4. ASSUME NEW x \in 1 .. to(z), NEW y \in 1 .. to(z), IsHandler(q[x]), q[x].h = q[y].h
        PROVE  x = y
    <3>1. CASE x \in 1 .. n /\ y \in 1 .. n
      BY <1>a, <2>1, <2>4, <3>1
    <3>2. ASSUME x \in 1 .. n, NEW i \in m .. z, y = to(i)
          PROVE  x = y
      BY <1>a, <1>b, <2>3, <2>4, <3>2
    <3>3. ASSUME y \in 1 .. n, NEW i \in m .. z, x = to(i)
          PROVE  x = y
      <4>1. IsHandler(fs[y]) /\ fs[y].h = old[i].h
        BY <1>a, <1>b, <2>4, <3>3 DEF IsHandler
      <4>. QED  BY <2>3, <3>3, <4>1
    <3>4. ASSUME NEW i \in m .. z, x = to(i), NEW j \in m .. z, y = to(j)
          PROVE  x = y
      BY <1>b, <2>2, <2>4, <3>4
    <3>. QED  BY <1>3, <3>1, <3>2, <3>3, <3>4
  <2>. QED  BY <1>a, <2>4 DEF Unique
<1>9. Targets(q, oe)
  <2>1. ASSUME NEW j \in 1 .. n, IsRaise(fs[j])
        PROVE  \E t \in 1 .. j - 1 : Target(q, t, q[j], EnvAt(q, oe, j))
    <3>1. q[j] = fs[j] /\ EnvAt(q, oe, j) = EnvAt(fs, A, j) /\ j \in 0 .. n
      BY <1>1, <1>a, <1>c
    <3>2. Targets(fs, A)
      BY <1>4 DEF Stack
    <3>3. PICK t \in 1 .. j - 1 : Target(fs, t, fs[j], EnvAt(fs, A, j))
      BY <2>1, <3>2 DEF Targets
    <3>4. t \in 1 .. n /\ q[t] = fs[t] /\ to(z) \in n + 1 .. to(z)
      BY <1>1, <1>a, <1>3
    <3>5. t \in 1 .. to(z)
      BY <1>1, <3>4
    <3>. QED  BY <1>a, <3>1, <3>3, <3>4, <3>5 DEF Target
  <2>2. ASSUME NEW i \in m .. z, IsRaise(old[i])
        PROVE  \E t \in 1 .. to(i) - 1 : Target(q, t, q[to(i)], EnvAt(q, oe, to(i)))
    <3>1. i \in 1 .. z /\ q[to(i)] = old[i] /\ EnvAt(q, oe, to(i)) = EnvAt(old, oe, i)
      BY <1>1, <1>b
    <3>2. PICK t \in 1 .. i - 1 : Target(old, t, old[i], EnvAt(old, oe, i))
      BY <1>4, <2>2, <3>1 DEF Stack, Targets
    <3>3. to(i) \in n + 1 .. to(z) /\ to(i) \in Int /\ to(z) \in Int
      BY <1>3, <1>z
    <3>4. CASE t \in m .. z
      <4>1. to(t) <= to(i) /\ ~(to(i) <= to(t)) /\ to(t) \in n + 1 .. to(z)
        <5>1. t <= i /\ ~(i <= t)
          BY <1>1
        <5>. QED  BY <1>3, <3>4, <5>1
      <4>2. to(t) \in 1 .. to(i) - 1 /\ to(t) \in 1 .. to(z) /\ q[to(t)] = old[t]
        BY <1>1, <1>b, <3>3, <3>4, <4>1
      <4>. QED  BY <1>a, <3>1, <3>2, <4>2 DEF Target
    <3>5. CASE t < m
      <4>1. i # m
        <5>1. IsHandler(old[m]) /\ Link(old[m], EnvAt(old, oe, m), TailAt(old, ot, m))
          BY <1>1, <1>4, General DEF Stack
        <5>2. ~IsRaise(old[m])
          BY <5>1 DEF Link, HandlerLink
        <5>. QED  BY <2>2, <5>2
      <4>2. i - 1 \in m .. z /\ t \in 1 .. z
        BY <1>1, <3>1, <4>1
      <4>3. EnvAt(old, oe, i - 1) = old[i].env
        <5>1. IsSeq(old)
          BY General
        <5>. QED  BY <3>1, <5>1, Below
      <4>4. Means(old[i].pushed, EnvAt(old, oe, i - 1), old[t].h)
        BY <3>2, <4>3 DEF Target
      <4>5. IsHandler(old[t])
        BY <4>4, Constants DEF IsHandler, Means
      <4>6. old[t].h \in HandlersOf(old, p) \/ \E j \in m .. i - 1 : old[j].h = old[t].h
        BY <4>2, <4>4, ResumptionNames
      <4>7. ~ \E j \in m .. i - 1 : old[j].h = old[t].h
        <5>1. \A j \in m .. i - 1 : j \in 1 .. z /\ j # t
          BY <1>1, <3>5
        <5>. QED  BY <1>5, <4>2, <4>5, <5>1 DEF Unique
      <4>8. PICK j \in 1 .. p : j \in 1 .. n /\ j \in 1 .. z /\ fs[j] = old[j] /\ fs[j].h = old[t].h
        BY <4>6, <4>7, StillThere
      <4>9. j = t
        BY <1>5, <4>2, <4>5, <4>8 DEF Unique
      <4>10. t \in 1 .. to(i) - 1 /\ t \in 1 .. to(z) /\ q[t] = old[t]
        BY <1>1, <1>a, <3>3, <4>8, <4>9
      <4>. QED  BY <1>a, <3>1, <3>2, <4>10 DEF Target
    <3>. QED  BY <1>1, <3>1, <3>4, <3>5
  <2>3. ASSUME NEW j \in 1 .. to(z), IsRaise(q[j])
        PROVE  \E t \in 1 .. j - 1 : Target(q, t, q[j], EnvAt(q, oe, j))
    <3>1. CASE j \in 1 .. n
      BY <1>a, <2>1, <2>3, <3>1
    <3>2. ASSUME NEW i \in m .. z, j = to(i)
          PROVE  \E t \in 1 .. j - 1 : Target(q, t, q[j], EnvAt(q, oe, j))
      BY <1>b, <2>2, <2>3, <3>2
    <3>. QED  BY <1>3, <3>1, <3>2
  <2>. QED  BY <1>a, <2>3 DEF Targets
<1>10. ~TailAt(q, ot, 0)
  <2>1. 0 \in 0 .. n
    BY <1>1
  <2>. QED  BY <1>4, <1>c, <2>1 DEF Stack
<1>11. GoodEnv(oe) /\ ot \in BOOLEAN /\ (ot => oe = OpEnv(oe.captured))
  BY <1>4 DEF Stack
<1>12. Scoped(q, oe) /\ Within(q, oe)
  BY ResumedScoped, ResumedWithin DEF q
<1>. QED  BY <1>a, <1>6, <1>7, <1>8, <1>9, <1>10, <1>11, <1>12 DEF Stack, q

-----------------------------------------------------------------------------
(***************************************************************************)
(* The walk                                                                *)
(***************************************************************************)
\* What a clue is about at return address i; at a raise, the raising code.
SeenAt(fs, e, i) == IF IsRaise(fs[i]) THEN fs[i].env ELSE EnvAt(fs, e, i)

\* The clue means the handler at ps[1]; each clue put aside, what that handler's
\* successor in ps is to it; the last is the handler the raise means.
Depth(w) == Len(w.clue_stack) + 1
Chain(fs, e, w, ps) ==
  /\ ps \in [1 .. Depth(w) -> 1 .. Len(fs)]
  /\ \A a, b \in 1 .. Depth(w) : a < b => ps[b] < ps[a]
  /\ ps[1] <= w.stack_iter
  /\ Means(w.clue, SeenAt(fs, e, w.stack_iter), fs[ps[1]].h)
  /\ \A a \in 1 .. Depth(w) - 1 :
       /\ w.clue_stack[a] = Clue(w.clue_stack[a].sig, Infty)
       /\ fs[ps[a]].ops[w.clue_stack[a].sig] = fs[ps[a + 1]].h
  /\ \A a \in 1 .. Depth(w) : IsHandler(fs[ps[a]])
  /\ fs[ps[Depth(w)]].h = Denotes(w.raised, e)

OnWay(fs, e, w) ==
  /\ w \in Walks /\ w.stack_iter \in 1 .. Len(fs)
  /\ Means(w.raised, e, Denotes(w.raised, e))
  /\ w.to_jump <=> IsRaise(fs[w.stack_iter])
  /\ w.found => fs[w.stack_iter].h = Denotes(w.raised, e)
  /\ \E ps : Chain(fs, e, w, ps)

\* Outwards from code that is no tail operation there is no clue to jump over, and
\* what the code names is there.
LEMMA Outwards ==
  ASSUME NEW fs, NEW e, NEW tl, Stack(fs, e, tl), NEW i \in 1 .. Len(fs), ~fs[i].in_tail,
         NEW c, NEW g, Means(c, fs[i].env, g)
  PROVE  /\ i - 1 \in 1 .. Len(fs) /\ ~IsRaise(fs[i - 1])
         /\ SeenAt(fs, e, i - 1) = fs[i].env
         /\ \E j \in 1 .. i - 1 : fs[j].h = g
<1>1. IsSeq(fs) /\ Scoped(fs, e)
  BY DEF Stack
<1>2. /\ EnvAt(fs, e, i - 1) = fs[i].env /\ i - 1 \in 0 .. Len(fs) /\ Len(fs) \in Nat
      /\ TailAt(fs, tl, i - 1) = fs[i].in_tail
  BY <1>1, Below
<1>3. PICK j \in 1 .. i - 1 : fs[j].h = g
  BY <1>1, <1>2 DEF Scoped
<1>4. i - 1 \in 1 .. Len(fs)
  BY <1>2
<1>5. Link(fs[i - 1], EnvAt(fs, e, i - 1), TailAt(fs, tl, i - 1))
  BY <1>4 DEF Stack
<1>6. ~IsRaise(fs[i - 1])
  BY <1>2, <1>5 DEF Link, HandlerLink
<1>. QED  BY <1>2, <1>3, <1>4, <1>6 DEF SeenAt

\* On top of a handler, what is not its own label is captured.
LEMMA OverHandler ==
  ASSUME NEW fs, NEW e, NEW tl, Stack(fs, e, tl), NEW i \in 1 .. Len(fs), IsHandler(fs[i]),
         NEW c, NEW g, Means(c, EnvAt(fs, e, i), g)
  PROVE  \/ Own(c) /\ g = fs[i].h
         \/ ~Own(c) /\ c = Clue(c.sig, Infty) /\ c.sig \in Effects /\ fs[i].ops[c.sig] = g
<1>1. fs[i].h \in Handlers /\ fs[i].ops \in Capability
      /\ HandlerLink(fs[i], EnvAt(fs, e, i), TailAt(fs, tl, i))
  BY DEF Stack, Link, IsFrame, IsHandler
<1>2. CASE EnvAt(fs, e, i) = OpEnv(fs[i].ops)
  <2>1. c = Clue(c.sig, Infty) /\ c.sig \in Effects /\ fs[i].ops[c.sig] = g
    BY <1>1, <1>2, OpEnvMeans
  <2>2. ~Own(c)
    BY <2>1 DEF Own, Clue, Infty
  <2>. QED  BY <2>1, <2>2
<1>3. CASE EnvAt(fs, e, i) = BodyEnv(fs[i].h, fs[i].ops)
  BY <1>1, <1>3, BodyEnvMeans
<1>. QED  BY <1>1, <1>2, <1>3 DEF HandlerLink

\* The handler's row takes what it captures to its installer's name for it.
LEMMA HandlerRow ==
  ASSUME NEW fs, NEW e, NEW tl, Stack(fs, e, tl), NEW i \in 1 .. Len(fs), IsHandler(fs[i]),
         NEW s \in Effects, NEW g \in Handlers, fs[i].ops[s] = g
  PROVE  /\ ~fs[i].in_tail
         /\ Means(UPDATE_CLUE(Clue(s, Infty), fs[i].row), fs[i].env, g)
<1>1. HandlerLink(fs[i], EnvAt(fs, e, i), TailAt(fs, tl, i))
  BY DEF Stack, Link
<1>2. g # NoHandler
  BY Constants
<1>. QED  BY <1>1, <1>2, NoCapabilityShape DEF HandlerLink

LEMMA ConstRow ==
  ASSUME NEW c
  PROVE  UPDATE_CLUE(c, Const) = c
BY DEF UPDATE_CLUE, Const

\* Whatever the walker is at, it is in the table; and over a call by code that is
\* no tail operation the row takes the clue outwards.
LEMMA OverCall ==
  ASSUME NEW fs, NEW e, NEW tl, Stack(fs, e, tl), NEW i \in 1 .. Len(fs),
         NEW c, NEW g, Means(c, SeenAt(fs, e, i), g)
  PROVE  /\ fs[i].entry
         /\ ~IsHandler(fs[i]) => Means(UPDATE_CLUE(c, fs[i].row), fs[i].env, g)
         /\ ~IsHandler(fs[i]) /\ fs[i].in_tail =>
              c = Clue(c.sig, Infty) /\ c.sig \in Effects /\ fs[i].env.captured[c.sig] = g
<1>1. Link(fs[i], EnvAt(fs, e, i), TailAt(fs, tl, i))
  BY DEF Stack
<1>2. CASE IsHandler(fs[i])
  BY <1>1, <1>2 DEF Link, HandlerLink
<1>3. CASE ~IsHandler(fs[i]) /\ IsRaise(fs[i])
  <2>1. fs[i].row = Const /\ fs[i].entry /\ Means(c, fs[i].env, g)
    BY <1>1, <1>3 DEF Link, SeenAt
  <2>2. Means(UPDATE_CLUE(c, fs[i].row), fs[i].env, g)
    BY <2>1, ConstRow
  <2>3. ASSUME fs[i].in_tail
        PROVE  c = Clue(c.sig, Infty) /\ c.sig \in Effects /\ fs[i].env.captured[c.sig] = g
    <3>1. fs[i].env = OpEnv(fs[i].env.captured) /\ fs[i].env.captured \in Capability
      BY <1>1, <2>3 DEF Link, GoodEnv, Env
    <3>. QED  BY <2>1, <3>1, OpEnvMeans
  <2>. QED  BY <1>3, <2>1, <2>2, <2>3
<1>4. CASE ~IsHandler(fs[i]) /\ ~IsRaise(fs[i])
  <2>1. Carries(fs[i], EnvAt(fs, e, i)) /\ Means(c, EnvAt(fs, e, i), g)
    BY <1>1, <1>4 DEF Link, SeenAt
  <2>2. c.sig \in Effects
    BY <2>1 DEF Means, Clues
  <2>. QED  BY <1>4, <2>1, <2>2 DEF Carries
<1>. QED  BY <1>2, <1>3, <1>4

\* The walk goes one return address on.
Goes(w, w2, fs) ==
  /\ w \in Walks /\ w2 \in Walks
  /\ w2.raised = w.raised /\ w2.stack_iter = w.stack_iter - 1
  /\ ~w2.found /\ w2.stack_iter \in 1 .. Len(fs)
  /\ w2.to_jump <=> IsRaise(fs[w2.stack_iter])

\* With the clue for the same handler.
LEMMA StepOn ==
  ASSUME NEW fs, NEW e, NEW tl, Stack(fs, e, tl), NEW w, OnWay(fs, e, w), NEW ps, Chain(fs, e, w, ps),
         NEW w2, Goes(w, w2, fs), w2.clue_stack = w.clue_stack,
         ~fs[w.stack_iter].in_tail, Means(w2.clue, fs[w.stack_iter].env, fs[ps[1]].h)
  PROVE  OnWay(fs, e, w2)
<1> DEFINE i == w.stack_iter
           c == w2.clue
           g == fs[ps[1]].h
<1>1. i \in 1 .. Len(fs) /\ w2.stack_iter = i - 1 /\ Depth(w2) = Depth(w) /\ w2.raised = w.raised
  BY DEF OnWay, Goes, Depth
<1>i. ~fs[i].in_tail /\ Means(c, fs[i].env, g)
  OBVIOUS
<1> HIDE DEF i, c, g
<1>2. /\ SeenAt(fs, e, i - 1) = fs[i].env
      /\ \E j \in 1 .. i - 1 : fs[j].h = g
  BY <1>1, <1>i, Outwards
<1> USE DEF i, c, g
<1>3. PICK j \in 1 .. i - 1 : fs[j].h = fs[ps[1]].h
  BY <1>2
<1>4. w.clue_stack \in Seq(Clues)
  BY DEF Goes, Walks
<1>5. 1 \in 1 .. Depth(w) /\ Len(fs) \in Nat
  BY <1>4, SeqShape DEF Depth, Stack
<1>6. ps[1] \in 1 .. Len(fs) /\ IsHandler(fs[ps[1]])
  BY <1>5 DEF Chain
<1>7. j \in 1 .. Len(fs) /\ j <= i - 1
  BY <1>1, <1>5
<1>8. ps[1] = j
  BY <1>3, <1>6, <1>7 DEF Stack, Unique
<1>9. ps[1] <= w2.stack_iter
  BY <1>1, <1>7, <1>8
<1>10. Means(w2.clue, SeenAt(fs, e, w2.stack_iter), fs[ps[1]].h)
  BY <1>1, <1>2
<1>11. Chain(fs, e, w2, ps)
  BY <1>1, <1>9, <1>10 DEF Chain
<1>. QED  BY <1>1, <1>11 DEF OnWay, Goes

\* Out of a handler's own operation, with the operation's clue.
LEMMA StepBack ==
  ASSUME NEW fs, NEW e, NEW tl, Stack(fs, e, tl), NEW w, OnWay(fs, e, w), NEW ps, Chain(fs, e, w, ps),
         NEW w2, Goes(w, w2, fs), w.clue_stack # <<>>, w2.clue_stack = Tail(w.clue_stack),
         ~fs[w.stack_iter].in_tail, Means(w2.clue, fs[w.stack_iter].env, fs[ps[2]].h)
  PROVE  OnWay(fs, e, w2)
<1> DEFINE i == w.stack_iter
           n == Depth(w)
           qs == [a \in 1 .. n - 1 |-> ps[a + 1]]
<1>1. i \in 1 .. Len(fs) /\ w2.stack_iter = i - 1 /\ w2.raised = w.raised
  BY DEF OnWay, Goes
<1>i. ~fs[i].in_tail /\ Means(w2.clue, fs[i].env, fs[ps[2]].h)
  OBVIOUS
<1> HIDE DEF i
<1>2. SeenAt(fs, e, i - 1) = fs[i].env
  BY <1>1, <1>i, Outwards
<1> USE DEF i
<1>3. IsSeq(w.clue_stack)
  BY DEF Goes, Walks, IsSeq
<1>4. /\ Len(w2.clue_stack) = Len(w.clue_stack) - 1 /\ Len(w.clue_stack) >= 1
      /\ \A a \in 1 .. Len(w.clue_stack) - 1 : w2.clue_stack[a] = w.clue_stack[a + 1]
  BY <1>3, TailShape
<1>5. Len(w.clue_stack) \in Nat
  BY <1>3, SeqShape
<1>6. n \in Nat /\ n >= 2 /\ Depth(w2) = n - 1 /\ Len(w.clue_stack) = n - 1
  BY <1>4, <1>5 DEF Depth
<1>7. /\ ps \in [1 .. n -> 1 .. Len(fs)]
      /\ \A a, b \in 1 .. n : a < b => ps[b] < ps[a]
      /\ ps[1] <= i
      /\ \A a \in 1 .. n - 1 :
           /\ w.clue_stack[a] = Clue(w.clue_stack[a].sig, Infty)
           /\ fs[ps[a]].ops[w.clue_stack[a].sig] = fs[ps[a + 1]].h
      /\ \A a \in 1 .. n : IsHandler(fs[ps[a]])
      /\ fs[ps[n]].h = Denotes(w.raised, e)
  BY DEF Chain
<1> HIDE DEF n
<1>8. /\ qs \in [1 .. n - 1 -> 1 .. Len(fs)]
      /\ \A a, b \in 1 .. n - 1 : a < b => qs[b] < qs[a]
      /\ \A a \in 1 .. n - 1 : IsHandler(fs[qs[a]])
      /\ fs[qs[n - 1]].h = Denotes(w.raised, e)
  <2>1. \A a \in 1 .. n - 1 : a + 1 \in 1 .. n /\ qs[a] = ps[a + 1]
    BY <1>6
  <2>2. qs \in [1 .. n - 1 -> 1 .. Len(fs)]
    BY <1>7, <2>1
  <2>3. \A a, b \in 1 .. n - 1 : a < b => a + 1 < b + 1
    BY <1>6
  <2>4. qs[n - 1] = ps[n]
    BY <1>6
  <2>. QED  BY <1>7, <2>1, <2>2, <2>3, <2>4
<1>9. qs[1] = ps[2] /\ ps[2] < ps[1] /\ ps[2] \in 1 .. Len(fs) /\ ps[1] \in 1 .. Len(fs)
  BY <1>6, <1>7
<1>10. qs[1] <= w2.stack_iter
  <2>1. Len(fs) \in Nat
    BY SeqShape DEF Stack
  <2>. QED  BY <1>1, <1>7, <1>9, <2>1
<1>11. Means(w2.clue, SeenAt(fs, e, w2.stack_iter), fs[qs[1]].h)
  BY <1>1, <1>2, <1>9
<1>12. ASSUME NEW a \in 1 .. n - 1 - 1
       PROVE  /\ w2.clue_stack[a] = Clue(w2.clue_stack[a].sig, Infty)
              /\ fs[qs[a]].ops[w2.clue_stack[a].sig] = fs[qs[a + 1]].h
  <2>1. a + 1 \in 1 .. n - 1 /\ a \in 1 .. Len(w.clue_stack) - 1 /\ a \in 1 .. n - 1
    BY <1>6
  <2>2. w2.clue_stack[a] = w.clue_stack[a + 1] /\ qs[a] = ps[a + 1] /\ qs[a + 1] = ps[(a + 1) + 1]
    BY <1>4, <2>1
  <2>. QED  BY <1>7, <2>1, <2>2
<1> HIDE DEF qs
<1>13. Chain(fs, e, w2, qs)
  BY <1>1, <1>6, <1>8, <1>10, <1>11, <1>12 DEF Chain
<1>. QED  BY <1>1, <1>13 DEF OnWay, Goes

\* Below a tail operation that has something to name is its raise.
LEMMA TailRaise ==
  ASSUME NEW fs, NEW e, NEW tl, Stack(fs, e, tl), NEW i \in 1 .. Len(fs), fs[i].in_tail,
         NEW s \in Effects, NEW g \in Handlers, fs[i].env.captured[s] = g
  PROVE  /\ i > 1 /\ i - 1 \in 1 .. Len(fs) /\ IsRaise(fs[i - 1])
         /\ \E t \in 1 .. i - 2 : Target(fs, t, fs[i - 1], fs[i].env)
<1>1. IsSeq(fs)
  BY DEF Stack
<1>2. /\ EnvAt(fs, e, i - 1) = fs[i].env /\ i \in Nat /\ Len(fs) \in Nat
      /\ TailAt(fs, tl, i - 1) = fs[i].in_tail
  BY <1>1, Below
<1>3. i # 1
  <2>1. SUFFICES ASSUME i = 1 PROVE FALSE
    OBVIOUS
  <2>2. i - 1 = 0
    BY <2>1
  <2>. QED  BY <1>2, <2>2 DEF Stack
<1>4. i - 1 \in 1 .. Len(fs) /\ i > 1
  BY <1>2, <1>3
<1>5. Link(fs[i - 1], fs[i].env, TailAt(fs, tl, i - 1))
  BY <1>2, <1>4 DEF Stack
<1>6. fs[i].env # OpEnv(NoCapability)
  BY NoCapabilityShape, Constants DEF OpEnv
<1>7. IsRaise(fs[i - 1])
  BY <1>2, <1>5, <1>6 DEF Link
<1>8. Targets(fs, e)
  BY DEF Stack
<1>9. PICK t \in 1 .. (i - 1) - 1 : Target(fs, t, fs[i - 1], EnvAt(fs, e, i - 1))
  BY <1>4, <1>7, <1>8 DEF Targets
<1>10. t \in 1 .. i - 2
  BY <1>2
<1>. QED  BY <1>2, <1>4, <1>7, <1>9, <1>10

\* Out of a tail operation, to its raise: with the raise's clue.
LEMMA StepAside ==
  ASSUME NEW fs, NEW e, NEW tl, Stack(fs, e, tl), NEW w, OnWay(fs, e, w), NEW ps, Chain(fs, e, w, ps),
         NEW w2, Goes(w, w2, fs), w2.clue_stack = <<w.clue>> \o w.clue_stack,
         w2.clue = fs[w2.stack_iter].pushed,
         fs[w.stack_iter].in_tail, ~IsHandler(fs[w.stack_iter])
  PROVE  OnWay(fs, e, w2)
<1> DEFINE i == w.stack_iter
           n == Depth(w)
           c == w.clue
<1>1. i \in 1 .. Len(fs) /\ w2.stack_iter = i - 1 /\ w2.raised = w.raised
  BY DEF OnWay, Goes
<1>3. IsSeq(w.clue_stack) /\ IsSeq(<<c>>) /\ Len(<<c>>) = 1 /\ <<c>>[1] = c
  <2>1. IsSeq(w.clue_stack)
    BY DEF Goes, Walks, IsSeq
  <2>2. <<c>> \in Seq({c})
    OBVIOUS
  <2>. QED  BY <2>1, <2>2 DEF IsSeq
<1>5. Len(w.clue_stack) \in Nat
  BY <1>3, SeqShape
<1>4. /\ Len(w2.clue_stack) = 1 + Len(w.clue_stack)
      /\ w2.clue_stack[1] = c
      /\ \A a \in 1 .. Len(w.clue_stack) : w2.clue_stack[1 + a] = w.clue_stack[a]
  <2> DEFINE x == <<c>>
  <2>0. IsSeq(x) /\ Len(x) = 1 /\ x[1] = c
    BY <1>3
  <2> HIDE DEF x
  <2>1. IsSeq(x)
    BY <2>0
  <2>2. IsSeq(w.clue_stack)
    BY <1>3
  <2>3. /\ Len(x \o w.clue_stack) = Len(x) + Len(w.clue_stack)
        /\ \A a \in 1 .. Len(x) : (x \o w.clue_stack)[a] = x[a]
        /\ \A a \in 1 .. Len(w.clue_stack) : (x \o w.clue_stack)[Len(x) + a] = w.clue_stack[a]
    BY <2>1, <2>2, ConcatShape
  <2>4. w2.clue_stack = x \o w.clue_stack
    BY DEF x
  <2>. QED  BY <2>0, <2>3, <2>4
<1>6. n \in Nat /\ n >= 1 /\ Depth(w2) = n + 1 /\ Len(w.clue_stack) = n - 1
  BY <1>4, <1>5 DEF Depth
<1>7. /\ ps \in [1 .. n -> 1 .. Len(fs)]
      /\ \A a, b \in 1 .. n : a < b => ps[b] < ps[a]
      /\ Means(c, SeenAt(fs, e, i), fs[ps[1]].h)
      /\ \A a \in 1 .. n - 1 :
           /\ w.clue_stack[a] = Clue(w.clue_stack[a].sig, Infty)
           /\ fs[ps[a]].ops[w.clue_stack[a].sig] = fs[ps[a + 1]].h
      /\ \A a \in 1 .. n : IsHandler(fs[ps[a]])
      /\ fs[ps[n]].h = Denotes(w.raised, e)
  BY DEF Chain
<1>i. fs[i].in_tail /\ ~IsHandler(fs[i])
  OBVIOUS
<1> HIDE DEF n, c, i
<1>8. c = Clue(c.sig, Infty) /\ c.sig \in Effects /\ fs[i].env.captured[c.sig] = fs[ps[1]].h
  BY <1>1, <1>7, <1>i, OverCall
<1>9. ps[1] \in 1 .. Len(fs) /\ fs[ps[1]].h \in Handlers /\ IsHandler(fs[ps[1]])
  BY <1>6, <1>7 DEF Means
<1>10. /\ IsRaise(fs[i - 1]) /\ i - 1 \in 1 .. Len(fs)
       /\ \E t \in 1 .. i - 2 : Target(fs, t, fs[i - 1], fs[i].env)
  BY <1>1, <1>8, <1>9, <1>i, TailRaise
<1>11. PICK t \in 1 .. i - 2 : Target(fs, t, fs[i - 1], fs[i].env)
  BY <1>10
<1>12. /\ t \in 1 .. Len(fs) /\ Means(fs[i - 1].pushed, fs[i - 1].env, fs[t].h)
       /\ fs[i].env = OpEnv(fs[t].ops) /\ IsHandler(fs[t])
  BY <1>11, Constants DEF Target, Means, IsHandler
<1>13. fs[t].ops[c.sig] = fs[ps[1]].h
  BY <1>8, <1>12 DEF OpEnv
<1>14. ps[1] < t
  <2>0. fs[t].ops[c.sig] # NoHandler
    BY <1>9, <1>13, Constants
  <2>1. PICK j \in 1 .. t - 1 : fs[j].h = fs[t].ops[c.sig]
    BY <1>8, <1>12, <2>0, CapturedBelow
  <2>2. j \in 1 .. Len(fs) /\ j < t
    <3>1. Len(fs) \in Nat
      BY SeqShape DEF Stack
    <3>. QED  BY <1>12, <3>1
  <2>3. j = ps[1]
    BY <1>9, <1>13, <2>1, <2>2 DEF Stack, Unique
  <2>. QED  BY <2>2, <2>3
<1> DEFINE qs == [a \in 1 .. n + 1 |-> IF a = 1 THEN t ELSE ps[a - 1]]
<1>15. qs[1] = t /\ \A a \in 2 .. n + 1 : qs[a] = ps[a - 1] /\ a - 1 \in 1 .. n
  BY <1>6
<1>16. qs \in [1 .. n + 1 -> 1 .. Len(fs)]
  BY <1>6, <1>7, <1>12
<1> HIDE DEF qs
<1>17. ASSUME NEW a \in 1 .. n + 1, NEW b \in 1 .. n + 1, a < b
       PROVE  qs[b] < qs[a]
  <2>1. b \in 2 .. n + 1 /\ qs[b] = ps[b - 1] /\ b - 1 \in 1 .. n
    BY <1>6, <1>15, <1>17
  <2>2. CASE a = 1
    <3>1. qs[a] = t /\ ps[1] \in Int /\ t \in Int
      BY <1>9, <1>15, <2>2
    <3>2. CASE b - 1 = 1
      BY <1>14, <2>1, <3>1, <3>2
    <3>3. CASE b - 1 # 1
      <4>1. 1 < b - 1 /\ 1 \in 1 .. n
        BY <1>6, <2>1, <3>3
      <4>2. ps[b - 1] < ps[1] /\ ps[b - 1] \in Int
        BY <1>7, <2>1, <4>1
      <4>. QED  BY <1>14, <2>1, <3>1, <4>2
    <3>. QED  BY <3>2, <3>3
  <2>3. CASE a # 1
    <3>1. a \in 2 .. n + 1 /\ a - 1 < b - 1
      BY <1>6, <1>17, <2>3
    <3>2. qs[a] = ps[a - 1] /\ a - 1 \in 1 .. n
      BY <1>15, <3>1
    <3>. QED  BY <1>7, <2>1, <3>1, <3>2
  <2>. QED  BY <2>2, <2>3
<1>18. qs[1] <= w2.stack_iter
  <2>1. Len(fs) \in Nat
    BY SeqShape DEF Stack
  <2>. QED  BY <1>1, <1>15, <2>1
<1>19. Means(w2.clue, SeenAt(fs, e, w2.stack_iter), fs[qs[1]].h)
  BY <1>1, <1>10, <1>12, <1>15 DEF SeenAt
<1>20. ASSUME NEW a \in 1 .. n
       PROVE  /\ w2.clue_stack[a] = Clue(w2.clue_stack[a].sig, Infty)
              /\ fs[qs[a]].ops[w2.clue_stack[a].sig] = fs[qs[a + 1]].h
  <2>1. CASE a = 1
    <3>1. qs[a] = t /\ qs[a + 1] = ps[1] /\ w2.clue_stack[a] = c
      <4>1. 2 \in 2 .. n + 1 /\ a + 1 = 2 /\ 2 - 1 = 1
        BY <1>6, <2>1
      <4>. QED  BY <1>4, <1>15, <2>1, <4>1
    <3>. QED  BY <1>8, <1>13, <3>1
  <2>2. CASE a # 1
    <3>1. a \in 2 .. n + 1 /\ a + 1 \in 2 .. n + 1 /\ a - 1 \in 1 .. n - 1 /\ (a + 1) - 1 = (a - 1) + 1
          /\ 1 + (a - 1) = a
      BY <1>6, <2>2
    <3>2. qs[a] = ps[a - 1] /\ qs[a + 1] = ps[(a - 1) + 1] /\ w2.clue_stack[a] = w.clue_stack[a - 1]
      BY <1>4, <1>6, <1>15, <3>1
    <3>. QED  BY <1>7, <3>1, <3>2
  <2>. QED  BY <2>1, <2>2
<1>21. ASSUME NEW a \in 1 .. n + 1
       PROVE  IsHandler(fs[qs[a]])
  <2>1. CASE a = 1
    BY <1>12, <1>15, <2>1
  <2>2. CASE a # 1
    <3>1. a \in 2 .. n + 1
      BY <1>6, <2>2
    <3>. QED  BY <1>7, <1>15, <3>1
  <2>. QED  BY <2>1, <2>2
<1>22. fs[qs[n + 1]].h = Denotes(w2.raised, e)
  <2>1. n + 1 \in 2 .. n + 1 /\ (n + 1) - 1 = n
    BY <1>6
  <2>. QED  BY <1>1, <1>7, <1>15, <2>1
<1>23. Depth(w2) - 1 = n /\ Depth(w2) = n + 1
  BY <1>6
<1>24. Chain(fs, e, w2, qs)
  BY <1>16, <1>17, <1>18, <1>19, <1>20, <1>21, <1>22, <1>23 DEF Chain
<1>. QED  BY <1>1, <1>24 DEF OnWay, Goes

-----------------------------------------------------------------------------
(***************************************************************************)
(* Each frame the program pushes fits                                      *)
(***************************************************************************)
LEMMA NoClueShape ==
  /\ NoClue \in Clues
  /\ \A c, e, g : Means(c, e, g) => c # NoClue
<1>1. NoClue = [sig |-> 0, type |-> 15, index |-> 15]
  BY DEF NoClue, Clue, NA
<1>2. NoClue \in Clues
  BY <1>1, Constants DEF Clues
<1>3. \A e : Denotes(NoClue, e) = NoHandler
  BY <1>1 DEF Denotes, Den, Infty
<1>. QED  BY <1>2, <1>3, Constants DEF Means

LEMMA ConstIsRow == IsRow(Const)
BY DEF IsRow, Const

\* What every site of the running function has.
LEMMA SiteShape ==
  ASSUME NEW row, NEW entry
  PROVE  /\ Site(row, entry).env = env /\ Site(row, entry).in_tail = in_tail
         /\ Site(row, entry).row = row /\ Site(row, entry).entry = entry
         /\ ~IsHandler(Site(row, entry)) /\ ~IsRaise(Site(row, entry))
         /\ Site(row, entry).mode # "MULTISHOT"
BY DEF Site, IsHandler, IsRaise, NoMode

LEMMA SiteIsFrame ==
  ASSUME NEW fs, Stack(fs, env, in_tail), NEW row, IsRow(row), NEW entry \in BOOLEAN
  PROVE  IsFrame(Site(row, entry))
<1>1. env \in Env /\ in_tail \in BOOLEAN
  BY DEF Stack, GoodEnv
<1>2. NoClue \in Clues /\ NoCapability \in Capability
  BY NoClueShape, NoCapabilityShape
<1>. QED  BY <1>1, <1>2 DEF IsFrame, Site, NoMode

\* A frame that is no handler and no raise fits if its row carries.
LEMMA SiteFits ==
  ASSUME NEW fs, Stack(fs, env, in_tail), NEW row, IsRow(row), NEW entry \in BOOLEAN,
         NEW A, GoodEnv(A), NEW ta \in BOOLEAN, ta => A = OpEnv(NoCapability),
         Carries(Site(row, entry), A)
  PROVE  Fits(fs, env, in_tail, Site(row, entry), A, ta)
<1> DEFINE f == Site(row, entry)
<1>1. /\ f.env = env /\ f.in_tail = in_tail /\ ~IsHandler(f) /\ ~IsRaise(f) /\ f.mode # "MULTISHOT"
  BY SiteShape
<1>2. IsFrame(f)
  BY SiteIsFrame
<1> HIDE DEF f
<1>3. GoodEnv(env) /\ (in_tail => env = OpEnv(env.captured))
  BY DEF Stack
<1>4. ta => A = OpEnv(A.captured)
  BY OpEnvShape, NoCapabilityShape
<1>5. Carries(f, A)
  BY DEF f
<1>6. Link(f, A, ta)
  BY <1>1, <1>2, <1>3, <1>5 DEF Link
<1>. QED  BY <1>1, <1>4, <1>6 DEF Fits, f

LEMMA SiteCarries ==
  ASSUME NEW row, NEW entry, NEW A,
         \A c, g : Means(c, A, g) =>
           /\ entry /\ Means(UPDATE_CLUE(c, row), env, g)
           /\ in_tail => c = Clue(c.sig, Infty) /\ env.captured[c.sig] = g
  PROVE  Carries(Site(row, entry), A)
<1> DEFINE f == Site(row, entry)
<1>1. f.env = env /\ f.in_tail = in_tail /\ f.row = row /\ f.entry = entry
  BY SiteShape
<1> HIDE DEF f
<1>2. Carries(f, A)
  BY <1>1 DEF Carries
<1>. QED  BY <1>2 DEF f

LEMMA CallFits ==
  ASSUME NEW fs, Stack(fs, env, in_tail), NEW md, Passed(md, env),
         in_tail => md.cap_insts = <<>> /\ md.label_insts = <<>>,
         NEW ta \in BOOLEAN, ~ta
  PROVE  Fits(fs, env, in_tail, CallSite(md), Callee(md, env), ta)
<1> DEFINE A == Callee(md, env)
           row == hopper(md)
<1>e. PICK entry \in BOOLEAN : entry <=> ~Empty(md)
  <2>1. \E x \in BOOLEAN : x <=> ~Empty(md)
    BY TRUE \in BOOLEAN, FALSE \in BOOLEAN
  <2>. QED  BY <2>1
<1>1. GoodEnv(env)
  BY DEF Stack
<1>2. GoodEnv(A) /\ IsRow(row)
  BY <1>1, CalleeGood, HopperShape
<1>3. Carries(Site(row, entry), A)
  <2>1. SUFFICES ASSUME NEW c, NEW g, Means(c, A, g)
                 PROVE  /\ entry /\ Means(UPDATE_CLUE(c, row), env, g)
                        /\ in_tail => c = Clue(c.sig, Infty) /\ env.captured[c.sig] = g
    BY SiteCarries
  <2>2. entry /\ Means(UPDATE_CLUE(c, row), env, g)
    BY <1>1, <1>e, <2>1, RowTranslatesClue
  <2>3. ASSUME in_tail
        PROVE  c = Clue(c.sig, Infty) /\ env.captured[c.sig] = g
    <3>1. env = OpEnv(env.captured) /\ env.captured \in Capability
      BY <1>1, <2>3 DEF Stack, GoodEnv, Env
    <3>2. A = OpEnv(Value(md.captured_set, env))
      BY <2>3 DEF Callee, OpEnv
    <3>3. md.captured_set \in Written(env)
      BY DEF Passed
    <3>4. Value(md.captured_set, env) \in Capability
      BY <1>1, <3>3, ValueGood
    <3>5. /\ c = Clue(c.sig, Infty) /\ c.sig \in Effects /\ g # NoHandler
          /\ Value(md.captured_set, env)[c.sig] = g
      BY <2>1, <3>2, <3>4, OpEnvMeans
    <3>6. Den(c.sig, Cell(md.captured_set, c.sig), env) = g
      BY <1>1, <3>3, <3>5, ValueGood
    <3> DEFINE ops == env.captured
    <3>e. env = OpEnv(ops) /\ ops \in Capability
      BY <3>1
    <3> HIDE DEF ops
    <3>7. Den(c.sig, Cell(md.captured_set, c.sig), env) \in {NoHandler, ops[c.sig]}
      BY <3>e, <3>3, <3>5, TailCell
    <3>. QED  BY <3>5, <3>6, <3>7 DEF ops
  <2>. QED  BY <2>2, <2>3
<1>4. CallSite(md) = Site(row, entry)
  BY <1>e DEF CallSite
<1> HIDE DEF A, row
<1>. QED  BY <1>2, <1>3, <1>4, SiteFits DEF A

LEMMA OnlyCapturedFits ==
  ASSUME NEW fs, Stack(fs, env, in_tail), NEW k \in Written(env), NEW ta \in BOOLEAN, ~ta
  PROVE  Fits(fs, env, in_tail, CallSite(OnlyCaptured(k)), OpEnv(Value(k, env)), ta)
<1>1. /\ Passed(OnlyCaptured(k), env) /\ Callee(OnlyCaptured(k), env) = OpEnv(Value(k, env))
  BY OnlyCapturedPasses
<1>2. OnlyCaptured(k).cap_insts = <<>> /\ OnlyCaptured(k).label_insts = <<>>
  BY DEF OnlyCaptured
<1>. QED  BY <1>1, <1>2, CallFits

\* The call of stackwalk.
LEMMA WalkSiteFits ==
  ASSUME NEW fs, Stack(fs, env, in_tail), NEW entry \in BOOLEAN, entry, NEW ta \in BOOLEAN, ~ta
  PROVE  Fits(fs, env, in_tail, Site(Const, entry), env, ta)
<1> DEFINE row == Const
           A == env
<1>1. GoodEnv(env)
  BY DEF Stack
<1>2. ASSUME NEW c, NEW g, Means(c, A, g)
      PROVE  /\ entry /\ Means(UPDATE_CLUE(c, row), env, g)
             /\ in_tail => c = Clue(c.sig, Infty) /\ env.captured[c.sig] = g
  <2>2. Means(UPDATE_CLUE(c, row), env, g)
    BY <1>2, ConstRow
  <2>3. ASSUME in_tail
        PROVE  c = Clue(c.sig, Infty) /\ env.captured[c.sig] = g
    <3>1. env = OpEnv(env.captured) /\ env.captured \in Capability
      BY <1>1, <2>3 DEF Stack, GoodEnv, Env
    <3> DEFINE ops == env.captured
    <3>2. env = OpEnv(ops) /\ ops \in Capability
      BY <3>1
    <3>3. Means(c, OpEnv(ops), g)
      BY <3>2, <1>2
    <3> HIDE DEF ops
    <3>4. c = Clue(c.sig, Infty) /\ ops[c.sig] = g
      BY <3>2, <3>3, OpEnvMeans
    <3>. QED  BY <3>4 DEF ops
  <2>. QED  BY <2>2, <2>3
<1>3. IsRow(row) /\ GoodEnv(A)
  BY <1>1, ConstIsRow
<1> HIDE DEF row, A
<1>4. Carries(Site(row, entry), A)
  <2> DEFINE f == Site(row, entry)
  <2>1. f.env = env /\ f.in_tail = in_tail /\ f.row = row /\ f.entry = entry
    BY DEF Site
  <2> HIDE DEF f
  <2>2. Carries(f, A)
    <3>1. SUFFICES ASSUME NEW c, NEW g, Means(c, A, g)
                   PROVE  /\ f.entry /\ Means(UPDATE_CLUE(c, f.row), f.env, g)
                          /\ f.in_tail => c = Clue(c.sig, Infty) /\ f.env.captured[c.sig] = g
      BY DEF Carries
    <3>. QED  BY <1>2, <2>1, <3>1
  <2>. QED  BY <2>2 DEF f
<1>5. Fits(fs, env, in_tail, Site(row, entry), A, ta)
  BY <1>3, <1>4, SiteFits
<1>. QED  BY <1>5 DEF row, A

\* The call of the operation of a handler whose label is passed.
LEMMA StockSiteFits ==
  ASSUME NEW fs, Stack(fs, env, in_tail), NEW entry \in BOOLEAN, NEW ta \in BOOLEAN
  PROVE  Fits(fs, env, in_tail, Site(Const, entry), OpEnv(NoCapability), ta)
<1>1. GoodEnv(OpEnv(NoCapability))
  BY NoCapabilityShape, OpEnvShape
<1>2. Carries(Site(Const, entry), OpEnv(NoCapability))
  BY OpEnvMeans, NoCapabilityShape DEF Carries
<1>. QED  BY <1>1, <1>2, ConstIsRow, SiteFits
\* A handler in the stack of the code that installs it.
LEMMA HandlerSiteShape ==
  ASSUME NEW h, NEW k
  PROVE  /\ HandlerSite(h, OnlyCaptured(k)).env = env
         /\ HandlerSite(h, OnlyCaptured(k)).in_tail = in_tail
         /\ HandlerSite(h, OnlyCaptured(k)).row = hopper(OnlyCaptured(k))
         /\ HandlerSite(h, OnlyCaptured(k)).entry
         /\ HandlerSite(h, OnlyCaptured(k)).entry \in BOOLEAN
         /\ HandlerSite(h, OnlyCaptured(k)).pushed = NoClue
         /\ HandlerSite(h, OnlyCaptured(k)).h = h
         /\ HandlerSite(h, OnlyCaptured(k)).mode = "ABORT"
         /\ HandlerSite(h, OnlyCaptured(k)).ops = Value(k, env)
<1>1. HandlerEntry(OnlyCaptured(k)) = TRUE /\ OnlyCaptured(k).captured_set = k
  BY DEF HandlerEntry, OnlyCaptured
<1>. QED  BY <1>1 DEF HandlerSite, Site

LEMMA HandlerFits ==
  ASSUME NEW fs, Stack(fs, env, in_tail), NEW h \in Handlers, NEW k \in Written(env),
         in_tail => k = NothingWritten, \A i \in 1 .. Len(fs) : fs[i].h # h,
         NEW ta \in BOOLEAN, ~ta
  PROVE  Fits(fs, env, in_tail, HandlerSite(h, OnlyCaptured(k)), BodyEnv(h, Value(k, env)), ta)
<1> DEFINE f == HandlerSite(h, OnlyCaptured(k))
           ops == Value(k, env)
           row == hopper(OnlyCaptured(k))
           A == BodyEnv(h, ops)
<1>1. /\ f.env = env /\ f.in_tail = in_tail /\ f.row = row /\ f.entry /\ f.entry \in BOOLEAN
      /\ f.pushed = NoClue /\ f.h = h /\ f.mode = "ABORT" /\ f.ops = ops
  BY HandlerSiteShape
<1> HIDE DEF f
<1>2. GoodEnv(env) /\ in_tail \in BOOLEAN /\ (in_tail => env = OpEnv(env.captured))
  BY DEF Stack
<1>3. ops \in Capability /\ Sorted(ops) /\ \A s \in Effects : ops[s] = Den(s, Cell(k, s), env)
  BY <1>2, ValueGood
<1>4. Passed(OnlyCaptured(k), env) /\ Callee(OnlyCaptured(k), env) = OpEnv(ops)
  BY OnlyCapturedPasses
<1>5. IsRow(row)
  BY <1>2, <1>4, HopperShape
<1>6. GoodEnv(A)
  BY <1>3, BodyEnvShape
<1>7. IsHandler(f) /\ ~IsRaise(f)
  BY <1>1, NoHandlers, Constants DEF IsHandler, IsRaise
<1>8. IsFrame(f)
  <2>1. env \in Env /\ NoClue \in Clues
    BY <1>2, NoClueShape DEF GoodEnv
  <2>. QED  BY <1>1, <1>2, <1>3, <1>5, <2>1 DEF IsFrame, Modes
<1>9. ASSUME NEW s \in Effects, ops[s] # NoHandler
      PROVE  Means(UPDATE_CLUE(Clue(s, Infty), row), env, ops[s])
  <2> DEFINE c == Clue(s, Infty)
             g == ops[s]
             md == OnlyCaptured(k)
  <2>1. Means(c, OpEnv(ops), g)
    BY <1>3, <1>9, MeansOp
  <2>2. GoodEnv(env) /\ Passed(md, env) /\ Means(c, Callee(md, env), g)
    BY <1>2, <1>4, <2>1
  <2> HIDE DEF c, g, md
  <2>3. Means(UPDATE_CLUE(c, hopper(md)), env, g)
    BY <2>2, RowTranslatesClue
  <2>. QED  BY <2>3 DEF c, g, md
<1>10. in_tail => ops = NoCapability
  <2>1. SUFFICES ASSUME in_tail PROVE ops = NoCapability
    OBVIOUS
  <2>2. ASSUME NEW s \in Effects PROVE ops[s] = NoHandler
    <3>1. Cell(k, s) = NA
      BY <2>1, NothingCell
    <3>2. Den(s, NA, env) = NoHandler
      BY DEF Den, NA, Infty
    <3>. QED  BY <1>3, <3>1, <3>2
  <2>3. ops = [s \in Effects |-> ops[s]]
    BY DEF Value
  <2> HIDE DEF ops
  <2>. QED  BY <2>2, <2>3 DEF NoCapability
<1> HIDE DEF row, ops
<1>11. HandlerLink(f, A, ta)
  BY <1>1, <1>3, <1>7, <1>9, <1>10 DEF HandlerLink
<1>12. Link(f, A, ta)
  BY <1>1, <1>2, <1>7, <1>8, <1>11 DEF Link
<1> HIDE DEF A
<1>13. Fits(fs, env, in_tail, f, A, ta)
  BY <1>1, <1>6, <1>7, <1>12 DEF Fits
<1>. QED  BY <1>13 DEF f, A, ops
\* ENTER's frame, on the frame of HANDLE.
LEMMA EnterFits ==
  ASSUME NEW ops \in Capability, Sorted(ops), NEW fs, NEW tl \in BOOLEAN, ~tl,
         Stack(fs, OpEnv(ops), tl), fs # <<>>, NEW h \in Handlers,
         \A i \in 1 .. Len(fs) : fs[i].h # h, NEW ta \in BOOLEAN, ~ta
  PROVE  Fits(fs, OpEnv(ops), tl, EnterSite(h, ops), BodyEnv(h, ops), ta)
<1> DEFINE f == EnterSite(h, ops)
           e == OpEnv(ops)
           A == BodyEnv(h, ops)
<1>1. /\ f.env = e /\ ~f.in_tail /\ f.in_tail \in BOOLEAN /\ f.row = Const /\ f.entry
      /\ f.entry \in BOOLEAN /\ f.pushed = NoClue /\ f.h = h /\ f.mode = "MULTISHOT" /\ f.ops = ops
  BY DEF EnterSite
<1> HIDE DEF f
<1>2. e \in Env /\ GoodEnv(e) /\ e = OpEnv(e.captured)
  BY OpEnvShape
<1>3. GoodEnv(A)
  BY BodyEnvShape
<1>4. IsHandler(f) /\ ~IsRaise(f)
  BY <1>1, Constants DEF IsHandler, IsRaise
<1>5. IsFrame(f)
  BY <1>1, <1>2, ConstIsRow, NoClueShape DEF IsFrame, Modes
<1>6. ASSUME NEW s \in Effects, ops[s] # NoHandler
      PROVE  Means(UPDATE_CLUE(Clue(s, Infty), Const), e, ops[s])
  <2> DEFINE c == Clue(s, Infty)
  <2>1. Means(c, e, ops[s])
    BY <1>6, MeansOp
  <2> HIDE DEF c
  <2>2. UPDATE_CLUE(c, Const) = c
    BY ConstRow
  <2>. QED  BY <2>1, <2>2 DEF c
<1>7. A = BodyEnv(f.h, f.ops)
  BY <1>1
<1> HIDE DEF A, e
<1>8. HandlerLink(f, A, ta)
  BY <1>1, <1>4, <1>6, <1>7 DEF HandlerLink
<1>9. f.mode = "MULTISHOT" => IsHandler(f) /\ f.env = OpEnv(f.ops) /\ ~f.in_tail
  BY <1>1, <1>4 DEF e
<1>10. Link(f, A, ta)
  BY <1>1, <1>2, <1>4, <1>5, <1>8, <1>9 DEF Link
<1>11. f.in_tail = tl
  BY <1>1
<1>12. Fits(fs, e, tl, f, A, ta)
  BY <1>1, <1>3, <1>4, <1>10, <1>11 DEF Fits
<1>. QED  BY <1>12 DEF f, A, e

\* The raise of a tail operation, with the clue it pushes.
LEMMA RaiseFits ==
  ASSUME NEW fs, Stack(fs, env, in_tail), NEW t \in 1 .. Len(fs), IsHandler(fs[t]),
         NEW c, Means(c, env, fs[t].h), NEW ta \in BOOLEAN, ta
  PROVE  Fits(fs, env, in_tail, RaiseSite(c), OpEnv(fs[t].ops), ta)
<1> DEFINE f == RaiseSite(c)
           ops == fs[t].ops
           A == OpEnv(ops)
<1>1. /\ f.env = env /\ f.in_tail = in_tail /\ f.row = Const /\ f.entry /\ f.entry \in BOOLEAN
      /\ f.pushed = c /\ f.h = NoHandler /\ f.mode = NoMode /\ f.ops = NoCapability
  BY DEF RaiseSite, Site
<1> HIDE DEF f
<1>2. GoodEnv(env) /\ in_tail \in BOOLEAN /\ (in_tail => env = OpEnv(env.captured))
  BY DEF Stack
<1>3. ops \in Capability /\ Sorted(ops)
  BY DEF Stack, Link, IsFrame, HandlerLink
<1>4. GoodEnv(A) /\ A = OpEnv(A.captured)
  BY <1>3, OpEnvShape
<1>5. ~IsHandler(f) /\ IsRaise(f)
  BY <1>1, NoClueShape DEF IsHandler, IsRaise
<1>6. IsFrame(f)
  <2>1. env \in Env /\ c \in Clues
    BY <1>2 DEF GoodEnv, Means
  <2>. QED  BY <1>1, <1>2, <2>1, ConstIsRow, NoCapabilityShape DEF IsFrame
<1>7. f.mode # "MULTISHOT"
  BY <1>1 DEF NoMode
<1>8. Link(f, A, ta)
  BY <1>1, <1>2, <1>5, <1>6, <1>7 DEF Link
<1>9. Target(fs, t, f, A)
  BY <1>1 DEF Target
<1> HIDE DEF A
<1>10. Fits(fs, env, in_tail, f, A, ta)
  BY <1>1, <1>4, <1>5, <1>7, <1>8, <1>9 DEF Fits
<1>. QED  BY <1>10 DEF f, A

\* A handler in its installer's stack, with its operation in the body's place.
LEMMA AgainFits ==
  ASSUME NEW fs, NEW e, NEW tl, Stack(fs, e, tl), NEW i \in 1 .. Len(fs), IsHandler(fs[i]),
         fs[i].mode = "ABORT", NEW ta \in BOOLEAN, ~ta
  PROVE  Fits(SubSeq(fs, 1, i - 1), fs[i].env, fs[i].in_tail, fs[i], OpEnv(fs[i].ops), ta)
<1> DEFINE q == SubSeq(fs, 1, i - 1)
           f == fs[i]
           A == OpEnv(f.ops)
<1>1. Len(q) = i - 1 /\ \A j \in 1 .. i - 1 : q[j] = fs[j]
  BY PopTo
<1> HIDE DEF q
<1>2. Link(f, EnvAt(fs, e, i), TailAt(fs, tl, i)) /\ IsHandler(f) /\ f.mode # "MULTISHOT"
  BY DEF Stack
<1>3. HandlerLink(f, EnvAt(fs, e, i), TailAt(fs, tl, i)) /\ f.ops \in Capability
  BY <1>2 DEF Link, IsFrame
<1>4. HandlerLink(f, A, ta)
  BY <1>3 DEF HandlerLink
<1>5. ~IsRaise(f) /\ Sorted(f.ops)
  BY <1>4 DEF HandlerLink
<1>6. Link(f, A, ta)
  BY <1>2, <1>4, <1>5 DEF Link
<1>7. GoodEnv(A)
  BY <1>3, <1>5, OpEnvShape
<1>8. Len(fs) \in Nat /\ Unique(fs)
  BY SeqShape DEF Stack
<1>9. ASSUME NEW j \in 1 .. Len(q) PROVE q[j].h # f.h
  <2>1. j \in 1 .. i - 1 /\ j \in 1 .. Len(fs) /\ j # i
    BY <1>1, <1>8
  <2>2. q[j] = fs[j]
    BY <1>1, <2>1
  <2>. QED  BY <1>2, <1>8, <2>1, <2>2 DEF Unique
<1> HIDE DEF A, f
<1>10. Fits(q, f.env, f.in_tail, f, A, ta)
  BY <1>2, <1>5, <1>6, <1>7, <1>9 DEF Fits
<1>. QED  BY <1>10 DEF q, f, A

\* After an aborting operation has taken the place of the body of handler i.
LEMMA Aborted ==
  ASSUME NEW fs, NEW e, NEW tl, Stack(fs, e, tl), NEW i \in 1 .. Len(fs), IsHandler(fs[i]),
         fs[i].mode \in {"ABORT", "MULTISHOT"}, NEW ta \in BOOLEAN, ~ta
  PROVE  Stack(SubSeq(fs, 1, IF fs[i].mode = "ABORT" THEN i ELSE i - 1), OpEnv(fs[i].ops), ta)
<1>1. /\ Stack(SubSeq(fs, 1, i - 1), fs[i].env, fs[i].in_tail)
      /\ Len(SubSeq(fs, 1, i - 1)) = i - 1
      /\ \A j \in 1 .. i - 1 : SubSeq(fs, 1, i - 1)[j] = fs[j]
  BY PopTo
<1>2. CASE fs[i].mode = "ABORT"
  <2> DEFINE q == SubSeq(fs, 1, i - 1)
             f == fs[i]
             A == OpEnv(f.ops)
             r == SubSeq(fs, 1, i)
  <2>1. Fits(q, f.env, f.in_tail, f, A, ta)
    BY <1>2, AgainFits
  <2>2. Stack(q, f.env, f.in_tail) /\ Len(q) = i - 1 /\ \A j \in 1 .. i - 1 : q[j] = fs[j]
    BY <1>1
  <2>3. IsSeq(q) /\ IsSeq(fs) /\ Len(fs) \in Nat
    BY <2>2, SeqShape DEF Stack
  <2>4. IsSeq(r) /\ Len(r) = i /\ \A j \in 1 .. i : r[j] = fs[j]
    <3>1. 1 \in 1 .. Len(fs) + 1 /\ i \in 1 - 1 .. Len(fs) /\ i - 1 + 1 = i
      BY <2>3
    <3>2. IsSeq(r) /\ Len(r) = i - 1 + 1 /\ \A j \in 1 .. i - 1 + 1 : r[j] = fs[1 + j - 1]
      BY <2>3, <3>1, SliceShape
    <3>. QED  BY <3>1, <3>2
  <2> HIDE DEF q, f, A, r
  <2>5. Stack(Append(q, f), A, ta)
    BY <2>1, <2>2, PushOne
  <2> DEFINE a == Append(q, f)
  <2>6. IsSeq(a) /\ Len(a) = i /\ \A j \in 1 .. i : a[j] = fs[j]
    <3>1. /\ IsSeq(a) /\ Len(a) = (i - 1) + 1 /\ a[(i - 1) + 1] = f
          /\ \A j \in 1 .. i - 1 : a[j] = q[j]
      BY <2>2, <2>3, AppendShape
    <3>2. (i - 1) + 1 = i /\ \A j \in 1 .. i : j = i \/ j \in 1 .. i - 1
      BY <2>3
    <3>. QED  BY <2>2, <3>1, <3>2 DEF f
  <2> HIDE DEF a
  <2>7. a = r
    BY <2>4, <2>6, SameSeq
  <2>8. Stack(r, A, ta)
    BY <2>5, <2>7 DEF a
  <2>. QED  BY <1>2, <2>8 DEF r, A, f
<1>3. CASE fs[i].mode = "MULTISHOT"
  <2>1. fs[i].env = OpEnv(fs[i].ops) /\ ~fs[i].in_tail /\ fs[i].in_tail \in BOOLEAN
    BY <1>3 DEF Stack, Link, IsFrame
  <2>2. fs[i].in_tail = ta
    BY <2>1
  <2>3. fs[i].mode # "ABORT"
    BY <1>3
  <2>. QED  BY <1>1, <2>1, <2>2, <2>3
<1>. QED  BY <1>2, <1>3
-----------------------------------------------------------------------------
(***************************************************************************)
(* The program's resumption                                                *)
(***************************************************************************)
LEMMA OnePushed ==
  ASSUME NEW q, IsSeq(q), NEW x
  PROVE  q \o <<x>> = Append(q, x)
<1> DEFINE r == <<x>>
           v == Append(q, x)
<1>1. IsSeq(r) /\ Len(r) = 1 /\ r[1] = x
  <2>1. r \in Seq({x})
    OBVIOUS
  <2>. QED  BY <2>1 DEF IsSeq
<1>a. Len(q) \in Nat
  BY SeqShape
<1>3. IsSeq(v) /\ Len(v) = Len(q) + 1 /\ v[Len(q) + 1] = x /\ \A i \in 1 .. Len(q) : v[i] = q[i]
  BY AppendShape
<1> HIDE DEF r, v
<1>b. IsSeq(r)
  BY <1>1
<1>2. /\ IsSeq(q \o r) /\ Len(q \o r) = Len(q) + Len(r)
      /\ \A i \in 1 .. Len(q) : (q \o r)[i] = q[i]
      /\ \A i \in 1 .. Len(r) : (q \o r)[Len(q) + i] = r[i]
  BY <1>b, ConcatShape
<1>4. Len(q \o r) = Len(v) /\ Len(q \o r) = Len(q) + 1
  BY <1>1, <1>2, <1>3
<1>5. (q \o r)[Len(q) + 1] = x
  <2>1. 1 \in 1 .. Len(r)
    BY <1>1
  <2>. QED  BY <1>1, <1>2, <2>1
<1>6. \A i \in 1 .. Len(q \o r) : i = Len(q) + 1 \/ i \in 1 .. Len(q)
  BY <1>a, <1>4
<1>7. \A i \in 1 .. Len(q \o r) : (q \o r)[i] = v[i]
  BY <1>2, <1>3, <1>5, <1>6
<1>8. q \o r = v
  BY <1>2, <1>3, <1>4, <1>7, SameSeq
<1>. QED  BY <1>8 DEF v, r

LEMMA Associative ==
  ASSUME NEW q, IsSeq(q), NEW r, IsSeq(r), NEW z, IsSeq(z)
  PROVE  q \o (r \o z) = (q \o r) \o z
<1>1. PICK S : q \in Seq(S)
  BY DEF IsSeq
<1>2. PICK S2 : r \in Seq(S2)
  BY DEF IsSeq
<1>3. PICK S3 : z \in Seq(S3)
  BY DEF IsSeq
<1> DEFINE T == S \cup S2 \cup S3
<1>4. q \in Seq(T) /\ r \in Seq(T) /\ z \in Seq(T)
  BY <1>1, <1>2, <1>3
<1> HIDE DEF T
<1>. QED  BY <1>4, ConcatAssociative, SMTT(20)

\* The resumption was taken from a stack whose lower part is still there.
Resumable(fs, k) ==
  \/ k = NoCont
  \/ \E old, m, p : /\ Shared(fs, old, m, p) /\ Stack(old, k.env, k.in_tail)
                    /\ k.frames = SubSeq(old, m, Len(old))

\* Handler h is not in the resumption, and not known to it.
Foreign(k, h) ==
  k # NoCont => /\ \A i \in 1 .. Len(k.frames) : k.frames[i].h # h
                /\ \A s \in Effects : k.frames[1].ops[s] # h

LEMMA ResumptionFrames ==
  ASSUME NEW old, IsSeq(old), NEW m \in 1 .. Len(old), NEW r, r = SubSeq(old, m, Len(old))
  PROVE  /\ IsSeq(r) /\ Len(r) = Len(old) - m + 1 /\ Len(r) >= 1 /\ r[1] = old[m]
         /\ \A i \in m .. Len(old) : i - m + 1 \in 1 .. Len(r) /\ r[i - m + 1] = old[i]
         /\ \A i \in 1 .. Len(r) : m + i - 1 \in m .. Len(old) /\ r[i] = old[m + i - 1]
<1>1. Len(old) \in Nat /\ m \in Nat
  BY SeqShape
<1>2. m \in 1 .. Len(old) + 1 /\ Len(old) \in m - 1 .. Len(old)
  BY <1>1
<1>3. /\ IsSeq(r) /\ Len(r) = Len(old) - m + 1
      /\ \A i \in 1 .. Len(old) - m + 1 : r[i] = old[m + i - 1]
  BY <1>2, SliceShape
<1>4. Len(r) >= 1 /\ r[1] = old[m]
  <2>1. 1 \in 1 .. Len(old) - m + 1 /\ m + 1 - 1 = m
    BY <1>1
  <2>. QED  BY <1>1, <1>3, <2>1
<1>5. ASSUME NEW i \in m .. Len(old)
      PROVE  i - m + 1 \in 1 .. Len(r) /\ r[i - m + 1] = old[i]
  <2>1. i - m + 1 \in 1 .. Len(old) - m + 1 /\ m + (i - m + 1) - 1 = i
    BY <1>1
  <2>. QED  BY <1>3, <2>1
<1>6. ASSUME NEW i \in 1 .. Len(r)
      PROVE  m + i - 1 \in m .. Len(old) /\ r[i] = old[m + i - 1]
  BY <1>1, <1>3
<1>. QED  BY <1>3, <1>4, <1>5, <1>6

LEMMA ResumablePush ==
  ASSUME NEW fs, IsSeq(fs), NEW k, Resumable(fs, k), NEW f, IsHandler(f) => Foreign(k, f.h)
  PROVE  Resumable(Append(fs, f), k)
<1> DEFINE q == Append(fs, f)
           n == Len(fs)
<1>1. CASE k = NoCont
  BY <1>1 DEF Resumable
<1>2. CASE k # NoCont
  <2>1. PICK old, m, p : /\ Shared(fs, old, m, p) /\ Stack(old, k.env, k.in_tail)
                         /\ k.frames = SubSeq(old, m, Len(old))
    BY <1>2 DEF Resumable
  <2>2. IsSeq(q) /\ Len(q) = n + 1 /\ n \in Nat /\ q[n + 1] = f /\ \A i \in 1 .. n : q[i] = fs[i]
    BY AppendShape, SeqShape
  <2> HIDE DEF q
  <2>3. IsSeq(old) /\ m \in 1 .. Len(old) /\ p \in 0 .. m - 1 /\ p <= n /\ Len(old) \in Nat
    BY <2>1, SeqShape DEF Shared, Stack
  <2>4. \A i \in m .. Len(old) : i - m + 1 \in 1 .. Len(k.frames) /\ k.frames[i - m + 1] = old[i]
    BY <2>1, <2>3, ResumptionFrames
  <2>5. k.frames[1] = old[m]
    BY <2>1, <2>3, ResumptionFrames
  <2>6. ASSUME NEW j \in p + 1 .. Len(q), IsHandler(q[j])
        PROVE  /\ \A i \in m .. Len(old) : old[i].h # q[j].h
               /\ \A s \in Effects : old[m].ops[s] # q[j].h
    <3>1. j = n + 1 \/ (j \in p + 1 .. n /\ j \in 1 .. n)
      BY <2>2, <2>3
    <3>2. CASE j = n + 1
      <4>1. q[j] = f /\ Foreign(k, f.h)
        BY <2>2, <2>6, <3>2
      <4>2. \A i \in 1 .. Len(k.frames) : k.frames[i].h # f.h
        BY <1>2, <4>1 DEF Foreign
      <4>3. \A s \in Effects : old[m].ops[s] # f.h
        BY <1>2, <2>5, <4>1 DEF Foreign
      <4>4. \A i \in m .. Len(old) : old[i].h # f.h
        BY <2>4, <4>2
      <4>. QED  BY <4>1, <4>3, <4>4
    <3>3. CASE j \in p + 1 .. n /\ j \in 1 .. n
      <4>1. q[j] = fs[j]
        BY <2>2, <3>3
      <4>. QED  BY <2>1, <2>6, <3>3, <4>1 DEF Shared
    <3>. QED  BY <3>1, <3>2, <3>3
  <2>7. \A j \in 1 .. p : q[j] = old[j]
    <3>1. \A j \in 1 .. p : j \in 1 .. n
      BY <2>2, <2>3
    <3>. QED  BY <2>1, <2>2, <3>1 DEF Shared
  <2>8. p <= Len(q)
    BY <2>2, <2>3
  <2>9. Shared(q, old, m, p)
    BY <2>1, <2>3, <2>6, <2>7, <2>8 DEF Shared
  <2>. QED  BY <2>1, <2>9 DEF Resumable, q
<1>. QED  BY <1>1, <1>2

LEMMA ResumablePop ==
  ASSUME NEW fs, IsSeq(fs), NEW k, Resumable(fs, k), NEW n \in 0 .. Len(fs)
  PROVE  Resumable(SubSeq(fs, 1, n), k)
<1> DEFINE q == SubSeq(fs, 1, n)
<1>1. CASE k = NoCont
  BY <1>1 DEF Resumable
<1>2. CASE k # NoCont
  <2>1. PICK old, m, p : /\ Shared(fs, old, m, p) /\ Stack(old, k.env, k.in_tail)
                         /\ k.frames = SubSeq(old, m, Len(old))
    BY <1>2 DEF Resumable
  <2>a. Len(fs) \in Nat
    BY SeqShape
  <2>b. 1 \in 1 .. Len(fs) + 1 /\ n \in 1 - 1 .. Len(fs) /\ n - 1 + 1 = n
    BY <2>a
  <2>c. Len(q) = n - 1 + 1 /\ \A i \in 1 .. n - 1 + 1 : q[i] = fs[1 + i - 1]
    BY <2>b, SliceShape
  <2>2. Len(q) = n /\ \A i \in 1 .. n : q[i] = fs[i]
    BY <2>a, <2>b, <2>c
  <2> HIDE DEF q
  <2>3. m \in 1 .. Len(old) /\ p \in 0 .. m - 1 /\ p <= Len(fs) /\ Len(old) \in Nat
    BY <2>1, SeqShape DEF Shared, Stack
  <2>4. PICK r \in 0 .. p : r <= n /\ (r = p \/ r = n)
    <3>1. p \in 0 .. p /\ (p > n => n \in 0 .. p)
      BY <2>a, <2>3
    <3>2. p <= n \/ p > n
      BY <2>a, <2>3
    <3>3. n <= n
      BY <2>a
    <3>. QED  BY <3>1, <3>2, <3>3
  <2>5. r \in 0 .. m - 1 /\ r <= Len(q)
    BY <2>2, <2>3, <2>4
  <2>6. \A j \in 1 .. r : q[j] = old[j]
    <3>1. \A j \in 1 .. r : j \in 1 .. n /\ j \in 1 .. p
      BY <2>a, <2>3, <2>4
    <3>. QED  BY <2>1, <2>2, <3>1 DEF Shared
  <2>7. ASSUME NEW j \in r + 1 .. Len(q), IsHandler(q[j])
        PROVE  /\ \A i \in m .. Len(old) : old[i].h # q[j].h
               /\ \A s \in Effects : old[m].ops[s] # q[j].h
    <3>1. r = p
      BY <2>a, <2>2, <2>4, <2>3
    <3>2. j \in p + 1 .. Len(fs) /\ j \in 1 .. n
      BY <2>a, <2>2, <2>3, <3>1
    <3>3. q[j] = fs[j]
      BY <2>2, <3>2
    <3>. QED  BY <2>1, <2>7, <3>2, <3>3 DEF Shared
  <2>8. Shared(q, old, m, r)
    BY <2>1, <2>3, <2>5, <2>6, <2>7 DEF Shared
  <2>. QED  BY <2>1, <2>8 DEF Resumable, q
<1>. QED  BY <1>1, <1>2

\* The resumption an operation gets.
LEMMA ResumableTaken ==
  ASSUME NEW fs, NEW e, NEW tl, Stack(fs, e, tl), NEW i \in 1 .. Len(fs), fs[i].mode = "MULTISHOT",
         NEW k, k = [frames |-> SubSeq(fs, i, Len(fs)), env |-> e, in_tail |-> tl]
  PROVE  Resumable(SubSeq(fs, 1, i - 1), k)
<1> DEFINE q == SubSeq(fs, 1, i - 1)
<1>1. Len(q) = i - 1 /\ \A j \in 1 .. i - 1 : q[j] = fs[j]
  BY PopTo
<1> HIDE DEF q
<1>2. Len(fs) \in Nat
  BY SeqShape DEF Stack
<1>3. i - 1 \in 0 .. i - 1 /\ i - 1 <= Len(q) /\ \A j \in (i - 1) + 1 .. Len(q) : FALSE
  BY <1>1, <1>2
<1>4. Shared(q, fs, i, i - 1)
  BY <1>1, <1>3 DEF Shared
<1>5. k.frames = SubSeq(fs, i, Len(fs)) /\ k.env = e /\ k.in_tail = tl
  OBVIOUS
<1>. QED  BY <1>4, <1>5 DEF Resumable, q

LEMMA FreshEverywhere ==
  ASSUME NEW h \in Handlers, Fresh(h), IsSeq(frames), cont # NoCont => IsSeq(cont.frames)
  PROVE  /\ \A i \in 1 .. Len(frames) : frames[i].h # h
         /\ Foreign(cont, h)
<1>1. h # NoHandler /\ h.id \notin UsedIds
  BY Constants DEF Fresh
<1>2. DOMAIN frames = 1 .. Len(frames)
  BY SeqShape
<1>3. \A i \in 1 .. Len(frames) : frames[i].h # h
  BY <1>1, <1>2 DEF UsedIds, IdsOf, IsHandler
<1>4. ASSUME cont # NoCont
      PROVE  /\ \A i \in 1 .. Len(cont.frames) : cont.frames[i].h # h
             /\ \A s \in Effects : cont.frames[1].ops[s] # h
  <2>1. DOMAIN cont.frames = 1 .. Len(cont.frames)
    BY <1>4, SeqShape
  <2>2. \A i \in 1 .. Len(cont.frames) : cont.frames[i].h # h
    BY <1>1, <2>1 DEF UsedIds, IdsOf, IsHandler
  <2>3. h.id \notin KnownIds(cont.frames[1].ops)
    BY <1>1, <1>4 DEF UsedIds
  <2>. QED  BY <1>1, <2>2, <2>3 DEF KnownIds
<1>. QED  BY <1>3, <1>4 DEF Foreign
LEMMA TwoPushed ==
  ASSUME NEW q, IsSeq(q), NEW x, NEW y
  PROVE  q \o <<x, y>> = Append(Append(q, x), y)
<1> DEFINE r == <<x, y>>
           u == Append(q, x)
           v == Append(u, y)
           n == Len(q)
<1>1. IsSeq(r) /\ Len(r) = 2 /\ r[1] = x /\ r[2] = y
  <2>1. r \in Seq({x, y})
    OBVIOUS
  <2>. QED  BY <2>1 DEF IsSeq
<1>2. n \in Nat
  BY SeqShape
<1>3. IsSeq(u) /\ Len(u) = n + 1 /\ u[n + 1] = x /\ \A i \in 1 .. n : u[i] = q[i]
  BY AppendShape
<1> HIDE DEF r, u
<1>4. IsSeq(v) /\ Len(v) = Len(u) + 1 /\ v[Len(u) + 1] = y /\ \A i \in 1 .. Len(u) : v[i] = u[i]
  BY <1>3, AppendShape
<1> HIDE DEF v
<1>b. IsSeq(r)
  BY <1>1
<1>5. /\ IsSeq(q \o r) /\ Len(q \o r) = Len(q) + Len(r)
      /\ \A i \in 1 .. Len(q) : (q \o r)[i] = q[i]
      /\ \A i \in 1 .. Len(r) : (q \o r)[Len(q) + i] = r[i]
  BY <1>b, ConcatShape
<1> HIDE DEF n
<1>6. Len(q \o r) = n + 2 /\ Len(v) = n + 2
  BY <1>1, <1>2, <1>3, <1>4, <1>5 DEF n
<1>7. (q \o r)[n + 1] = x /\ (q \o r)[n + 2] = y
  <2>1. 1 \in 1 .. Len(r) /\ 2 \in 1 .. Len(r)
    BY <1>1
  <2>. QED  BY <1>1, <1>5, <2>1 DEF n
<1>8. v[n + 1] = x /\ v[n + 2] = y /\ \A i \in 1 .. n : v[i] = q[i]
  <2>1. n + 1 \in 1 .. Len(u) /\ Len(u) + 1 = n + 2 /\ \A i \in 1 .. n : i \in 1 .. Len(u)
    BY <1>2, <1>3
  <2>. QED  BY <1>3, <1>4, <2>1
<1>9. \A i \in 1 .. Len(q \o r) : i = n + 1 \/ i = n + 2 \/ i \in 1 .. n
  BY <1>2, <1>6
<1>10. \A i \in 1 .. Len(q \o r) : (q \o r)[i] = v[i]
  BY <1>5, <1>7, <1>8, <1>9 DEF n
<1>11. q \o r = v
  BY <1>4, <1>5, <1>6, <1>10, SameSeq
<1>. QED  BY <1>11 DEF v, u, r

-----------------------------------------------------------------------------
(***************************************************************************)
(* The invariant                                                           *)
(***************************************************************************)
\* During a walk the top frame is the call of stackwalk, and the walker is on
\* its way to the handler that the raise means.
Raising(fs, e, tl, w) ==
  /\ w \in Walks /\ fs # <<>>
  /\ fs[Len(fs)].env = e /\ fs[Len(fs)].in_tail = tl /\ ~IsHandler(fs[Len(fs)])
  /\ \E no \in BOOLEAN : ~no /\ Stack(fs, e, no)
  /\ OnWay(fs, e, w)

IInv ==
  /\ Resumable(frames, cont)
  /\ \/ walk = NoWalk /\ Stack(frames, env, in_tail)
     \/ Raising(frames, env, in_tail, walk)

LEMMA Idle ==
  ASSUME IInv, Running
  PROVE  /\ walk = NoWalk /\ Stack(frames, env, in_tail) /\ Resumable(frames, cont)
         /\ IsSeq(frames) /\ Len(frames) \in Nat
<1>1. walk \in Walks => walk.on
  BY DEF Walks
<1>2. walk = NoWalk /\ Stack(frames, env, in_tail) /\ Resumable(frames, cont)
  BY <1>1 DEF IInv, Running, Raising
<1>3. IsSeq(frames)
  BY <1>2 DEF Stack
<1>. QED  BY <1>2, <1>3, SeqShape

LEMMA Busy ==
  ASSUME IInv, walk.on
  PROVE  Raising(frames, env, in_tail, walk)
<1>1. ~NoWalk.on
  BY DEF NoWalk
<1>. QED  BY <1>1 DEF IInv

LEMMA No == \E no \in BOOLEAN : ~no
<1>1. FALSE \in BOOLEAN
  OBVIOUS
<1>. QED  BY <1>1

\* A step that pushes a frame that fits.
LEMMA Pushing ==
  ASSUME Stack(frames, env, in_tail), Resumable(frames, cont),
         NEW f, NEW A, NEW ta, Fits(frames, env, in_tail, f, A, ta),
         IsHandler(f) => Foreign(cont, f.h),
         frames' = Append(frames, f), env' = A, in_tail' = ta, cont' = cont, walk' = NoWalk
  PROVE  IInv'
<1>1. Stack(Append(frames, f), A, ta)
  BY PushOne
<1>2. IsSeq(frames)
  BY DEF Stack
<1>3. Resumable(Append(frames, f), cont)
  BY <1>2, ResumablePush
<1>. QED  BY <1>1, <1>3 DEF IInv

LEMMA CallFnStep ==
  ASSUME IInv, Allow = {}, NEW md \in Calls, CallFn(md)
  PROVE  IInv'
<1>1. /\ walk = NoWalk /\ Stack(frames, env, in_tail) /\ Resumable(frames, cont) /\ IsSeq(frames)
  BY Idle DEF CallFn
<1>2. PICK no \in BOOLEAN : ~no
  BY No
<1> DEFINE f == CallSite(md)
           A == Callee(md, env)
<1>3. Fits(frames, env, in_tail, f, A, no)
  <2>1. Passed(md, env)
    BY <1>1, CallsPass DEF Stack
  <2>2. in_tail => md.cap_insts = <<>> /\ md.label_insts = <<>>
    BY DEF CallFn, PlainInTail
  <2>. QED  BY <1>1, <1>2, <2>1, <2>2, CallFits
<1>4. /\ frames' = frames \o <<f>> /\ env' = A /\ ~in_tail' /\ in_tail' \in BOOLEAN
      /\ cont' = cont /\ walk' = walk
  BY DEF CallFn, Push
<1>5. ~IsHandler(f)
  BY SiteShape DEF CallSite
<1> HIDE DEF f, A
<1>6. frames' = Append(frames, f)
  BY <1>1, <1>4, OnePushed
<1>7. in_tail' = no /\ walk' = NoWalk
  BY <1>1, <1>2, <1>4
<1>. QED  BY <1>1, <1>3, <1>4, <1>5, <1>6, <1>7, Pushing

LEMMA ContFrames ==
  ASSUME Resumable(frames, cont), cont # NoCont
  PROVE  IsSeq(cont.frames) /\ Len(cont.frames) >= 1
<1>1. PICK old, m, p : /\ Shared(frames, old, m, p) /\ Stack(old, cont.env, cont.in_tail)
                       /\ cont.frames = SubSeq(old, m, Len(old))
  BY DEF Resumable
<1>2. IsSeq(old) /\ m \in 1 .. Len(old)
  BY <1>1 DEF Shared, Stack
<1>. QED  BY <1>1, <1>2, ResumptionFrames

LEMMA HandleInStackStep ==
  ASSUME IInv, Allow = {}, NEW h \in Handlers, NEW k \in Capturable(env), HANDLE_in_stack(h, k)
  PROVE  IInv'
<1>1. /\ walk = NoWalk /\ Stack(frames, env, in_tail) /\ Resumable(frames, cont) /\ IsSeq(frames)
  BY Idle DEF HANDLE_in_stack
<1>2. PICK no \in BOOLEAN : ~no
  BY No
<1>a. k \in Written(env)
  BY DEF Capturable
<1>b. (\A i \in 1 .. Len(frames) : frames[i].h # h) /\ Foreign(cont, h)
  BY <1>1, ContFrames, FreshEverywhere DEF HANDLE_in_stack
<1> DEFINE f == HandlerSite(h, OnlyCaptured(k))
           A == BodyEnv(h, Value(k, env))
<1>3. Fits(frames, env, in_tail, f, A, no)
  <2>1. in_tail => k = NothingWritten
    BY DEF HANDLE_in_stack, ClosedInTail
  <2>. QED  BY <1>1, <1>2, <1>a, <1>b, <2>1, HandlerFits
<1>4. /\ frames' = frames \o <<f>> /\ env' = A /\ ~in_tail' /\ in_tail' \in BOOLEAN
      /\ cont' = cont /\ walk' = walk
  BY DEF HANDLE_in_stack, Push
<1>5. f.h = h
  BY HandlerSiteShape
<1> HIDE DEF f, A
<1>6. frames' = Append(frames, f)
  BY <1>1, <1>4, OnePushed
<1>7. in_tail' = no /\ walk' = NoWalk
  BY <1>1, <1>2, <1>4
<1>. QED  BY <1>1, <1>b, <1>3, <1>4, <1>5, <1>6, <1>7, Pushing

LEMMA HandleGeneralStep ==
  ASSUME IInv, NEW h \in Handlers, NEW k \in Capturable(env), HANDLE_general(h, k)
  PROVE  IInv'
<1>1. /\ walk = NoWalk /\ Stack(frames, env, in_tail) /\ Resumable(frames, cont) /\ IsSeq(frames)
      /\ Len(frames) \in Nat
  BY Idle DEF HANDLE_general
<1>2. PICK no \in BOOLEAN : ~no
  BY No
<1>a. k \in Written(env) /\ GoodEnv(env)
  BY <1>1 DEF Capturable, Stack
<1>b. (\A i \in 1 .. Len(frames) : frames[i].h # h) /\ Foreign(cont, h)
  BY <1>1, ContFrames, FreshEverywhere DEF HANDLE_general
<1> DEFINE f == CallSite(OnlyCaptured(k))
           ops == Value(k, env)
           f2 == EnterSite(h, ops)
           A == OpEnv(ops)
           A2 == BodyEnv(h, ops)
           q == Append(frames, f)
<1>3. Fits(frames, env, in_tail, f, A, no)
  BY <1>1, <1>2, <1>a, OnlyCapturedFits
<1>4. /\ frames' = frames \o <<f, f2>> /\ env' = A2 /\ ~in_tail' /\ in_tail' \in BOOLEAN
      /\ cont' = cont /\ walk' = walk
  BY DEF HANDLE_general, Push
<1>5. f.h = NoHandler /\ ~IsHandler(f) /\ f2.h = h
  BY DEF CallSite, Site, EnterSite, IsHandler
<1>6. ops \in Capability /\ Sorted(ops)
  BY <1>a, ValueGood
<1> HIDE DEF f, A2, ops
<1>7. Stack(q, A, no) /\ IsSeq(q) /\ Resumable(q, cont)
  <2>1. Stack(q, A, no)
    BY <1>1, <1>3, PushOne
  <2>2. Resumable(q, cont)
    BY <1>1, <1>5, ResumablePush
  <2>. QED  BY <1>1, <2>1, <2>2, AppendShape
<1>8. q # <<>> /\ \A i \in 1 .. Len(q) : q[i].h # h
  <2>1. /\ Len(q) = Len(frames) + 1 /\ q[Len(frames) + 1] = f
        /\ \A i \in 1 .. Len(frames) : q[i] = frames[i]
    BY <1>1, AppendShape
  <2>2. \A i \in 1 .. Len(q) : i = Len(frames) + 1 \/ i \in 1 .. Len(frames)
    BY <1>1, <2>1
  <2>3. f.h # h
    BY <1>5, Constants
  <2> HIDE DEF q
  <2>4. \A i \in 1 .. Len(q) : q[i].h # h
    BY <1>b, <2>1, <2>2, <2>3
  <2>5. q # <<>>
    BY <1>1, <2>1
  <2>. QED  BY <2>4, <2>5
<1> HIDE DEF q
<1>9. Fits(q, A, no, f2, BodyEnv(h, ops), no)
  BY <1>2, <1>6, <1>7, <1>8, EnterFits DEF f2
<1> HIDE DEF f2, A
<1>10. Stack(Append(q, f2), A2, no)
  BY <1>7, <1>9, PushOne DEF A2
<1>11. Resumable(Append(q, f2), cont)
  BY <1>b, <1>5, <1>7, ResumablePush
<1>12. frames' = Append(q, f2)
  BY <1>1, <1>4, TwoPushed DEF q
<1>13. in_tail' = no /\ walk' = NoWalk
  BY <1>1, <1>2, <1>4
<1>. QED  BY <1>4, <1>10, <1>11, <1>12, <1>13 DEF IInv

LEMMA ReturnStep ==
  ASSUME IInv, Return
  PROVE  IInv'
<1>1. /\ walk = NoWalk /\ Stack(frames, env, in_tail) /\ Resumable(frames, cont) /\ IsSeq(frames)
      /\ Len(frames) \in Nat
  BY Idle DEF Return
<1>2. Top \in 1 .. Len(frames)
  <2>1. frames # <<>>
    BY DEF Return
  <2>2. Len(frames) >= 1
    BY <1>1, <2>1, TailShape
  <2>. QED  BY <1>1, <2>2 DEF Top
<1>3. frames[Top].mode = "MULTISHOT" => Top > 1
  BY <1>1, <1>2 DEF Stack
<1>4. PICK rest \in 1 .. Len(frames) :
        /\ frames' = SubSeq(frames, 1, rest - 1)
        /\ env' = frames[rest].env /\ in_tail' = frames[rest].in_tail
  <2>1. CASE frames[Top].mode = "MULTISHOT"
    <3>1. Top - 1 \in 1 .. Len(frames)
      BY <1>1, <1>2, <1>3, <2>1
    <3>2. /\ frames' = SubSeq(frames, 1, (Top - 1) - 1)
          /\ env' = frames[Top - 1].env /\ in_tail' = frames[Top - 1].in_tail
      BY <2>1 DEF Return
    <3>. QED  BY <3>1, <3>2
  <2>2. CASE frames[Top].mode # "MULTISHOT"
    <3>1. /\ frames' = SubSeq(frames, 1, Top - 1)
          /\ env' = frames[Top].env /\ in_tail' = frames[Top].in_tail
      BY <2>2 DEF Return
    <3>. QED  BY <1>2, <3>1
  <2>. QED  BY <2>1, <2>2
<1>5. Stack(SubSeq(frames, 1, rest - 1), frames[rest].env, frames[rest].in_tail)
  BY <1>1, PopTo
<1>6. rest - 1 \in 0 .. Len(frames)
  BY <1>1
<1>7. Resumable(SubSeq(frames, 1, rest - 1), cont)
  BY <1>1, <1>6, ResumablePop
<1>8. cont' = cont /\ walk' = NoWalk
  BY <1>1 DEF Return
<1>. QED  BY <1>4, <1>5, <1>7, <1>8 DEF IInv
\* An aborting operation.
LEMMA Aborting ==
  ASSUME NEW e, NEW tl, Stack(frames, e, tl), Resumable(frames, cont),
         NEW i \in 1 .. Len(frames), IsHandler(frames[i]), AbortOp(i), walk' = NoWalk
  PROVE  IInv'
<1>1. PICK no \in BOOLEAN : ~no
  BY No
<1> DEFINE n == IF frames[i].mode = "ABORT" THEN i ELSE i - 1
<1>2. /\ frames[i].mode \in {"ABORT", "MULTISHOT"}
      /\ frames' = SubSeq(frames, 1, n) /\ env' = OpEnv(frames[i].ops)
      /\ ~in_tail' /\ in_tail' \in BOOLEAN /\ cont' = cont
  BY DEF AbortOp
<1>3. Stack(SubSeq(frames, 1, n), OpEnv(frames[i].ops), no)
  BY <1>1, <1>2, Aborted
<1>4. IsSeq(frames) /\ Len(frames) \in Nat
  BY SeqShape DEF Stack
<1>5. n \in 0 .. Len(frames)
  BY <1>4
<1> HIDE DEF n
<1>6. Resumable(SubSeq(frames, 1, n), cont)
  BY <1>4, <1>5, ResumablePop
<1>7. in_tail' = no
  BY <1>1, <1>2
<1>. QED  BY <1>2, <1>3, <1>6, <1>7 DEF IInv

\* An operation that gets a resumption, from the raiser's frames fs.
LEMMA Capturing ==
  ASSUME NEW fs, Stack(fs, env, in_tail), NEW i \in 1 .. Len(fs), frames[i] = fs[i],
         SubSeq(frames, 1, i - 1) = SubSeq(fs, 1, i - 1), GeneralOp(i, fs), walk' = NoWalk
  PROVE  IInv'
<1> DEFINE q == SubSeq(fs, 1, i - 1)
           k == [frames |-> SubSeq(fs, i, Len(fs)), env |-> env, in_tail |-> in_tail]
<1>1. /\ fs[i].mode = "MULTISHOT" /\ cont' = k /\ frames' = q /\ env' = OpEnv(fs[i].ops)
      /\ ~in_tail' /\ in_tail' \in BOOLEAN
  BY DEF GeneralOp
<1>2. Stack(q, fs[i].env, fs[i].in_tail)
  BY PopTo
<1>3. Resumable(q, k)
  BY <1>1, ResumableTaken
<1>4. Link(fs[i], EnvAt(fs, env, i), TailAt(fs, in_tail, i))
  BY DEF Stack
<1>5. fs[i].env = OpEnv(fs[i].ops) /\ ~fs[i].in_tail /\ fs[i].in_tail \in BOOLEAN
  BY <1>1, <1>4 DEF Link, IsFrame
<1> HIDE DEF q, k
<1>6. in_tail' = fs[i].in_tail
  BY <1>1, <1>5
<1>. QED  BY <1>1, <1>2, <1>3, <1>5, <1>6 DEF IInv

LEMMA RaiseStep ==
  ASSUME IInv, Allow = {}, NEW i \in DOMAIN frames, RAISE(i)
  PROVE  IInv'
<1>1. /\ walk = NoWalk /\ Stack(frames, env, in_tail) /\ Resumable(frames, cont) /\ IsSeq(frames)
  BY Idle DEF RAISE
<1>2. i \in 1 .. Len(frames) /\ IsHandler(frames[i]) /\ walk' = NoWalk
  BY <1>1, SeqShape DEF RAISE, IsHandler
<1>3. CASE ClosedStock(frames[i].ops) /\ TailOp(i, frames, Site(Const, TRUE))
  <2>1. PICK yes \in BOOLEAN : yes
    <3>1. TRUE \in BOOLEAN
      OBVIOUS
    <3>. QED  BY <3>1
  <2>2. frames[i].ops = NoCapability
    BY <1>3 DEF ClosedStock
  <2> DEFINE f == Site(Const, yes)
             A == OpEnv(NoCapability)
  <2>3. Fits(frames, env, in_tail, f, A, yes)
    BY <1>1, StockSiteFits
  <2>4. Site(Const, TRUE) = f
    <3>1. yes = TRUE
      BY <2>1
    <3>. QED  BY <3>1
  <2>5. frames' = Append(frames, f) /\ env' = A /\ in_tail' /\ in_tail' \in BOOLEAN /\ cont' = cont
    BY <1>3, <2>2, <2>4 DEF TailOp
  <2>6. ~IsHandler(f)
    BY SiteShape
  <2> HIDE DEF f, A
  <2>7. in_tail' = yes
    BY <2>1, <2>5
  <2>. QED  BY <1>1, <1>2, <2>3, <2>5, <2>6, <2>7, Pushing
<1>4. CASE AbortOp(i)
  BY <1>1, <1>2, <1>4, Aborting
<1>5. CASE GeneralOp(i, frames)
  BY <1>1, <1>2, <1>5, Capturing
<1>. QED  BY <1>3, <1>4, <1>5 DEF RAISE

LEMMA FinalThrowStep ==
  ASSUME IInv, NEW k \in Capturable(env), FINAL_THROW(k)
  PROVE  IInv'
<1>1. /\ walk = NoWalk /\ Stack(frames, env, in_tail) /\ Resumable(frames, cont) /\ IsSeq(frames)
      /\ Len(frames) \in Nat
  BY Idle DEF FINAL_THROW
<1>2. PICK no \in BOOLEAN : ~no
  BY No
<1> DEFINE f == CallSite(OnlyCaptured(k))
           A == OpEnv(Value(k, env))
           q == Append(frames, f)
<1>3. Fits(frames, env, in_tail, f, A, no)
  BY <1>1, <1>2, OnlyCapturedFits DEF Capturable
<1>4. /\ cont # NoCont /\ Value(k, env) = cont.frames[1].ops
      /\ frames' = frames \o (<<f>> \o cont.frames)
      /\ env' = cont.env /\ in_tail' = cont.in_tail /\ cont' = NoCont /\ walk' = NoWalk
  BY <1>1 DEF FINAL_THROW, Push
<1>5. ~IsHandler(f)
  BY SiteShape DEF CallSite
<1>6. IsSeq(cont.frames)
  BY <1>1, <1>4, ContFrames
<1>7. IsSeq(<<f>>)
  <2>1. <<f>> \in Seq({f})
    OBVIOUS
  <2>. QED  BY <2>1 DEF IsSeq
<1> HIDE DEF f
<1>8. frames' = q \o cont.frames
  <2> DEFINE r == <<f>>
             z == cont.frames
  <2>a. frames' = frames \o (r \o z) /\ IsSeq(r) /\ IsSeq(z)
    BY <1>4, <1>6, <1>7
  <2> HIDE DEF r, z
  <2>b. frames \o (r \o z) = (frames \o r) \o z
    BY <1>1, <2>a, Associative
  <2>1. frames' = (frames \o <<f>>) \o cont.frames
    BY <2>a, <2>b DEF r, z
  <2>. QED  BY <1>1, <2>1, OnePushed
<1>9. Stack(q, A, no) /\ Len(q) >= 1
  <2>1. Stack(q, A, no)
    BY <1>1, <1>3, PushOne
  <2>2. Len(q) = Len(frames) + 1
    BY <1>1, AppendShape
  <2>. QED  BY <1>1, <2>1, <2>2
<1>10. Resumable(q, cont)
  BY <1>1, <1>5, ResumablePush
<1> HIDE DEF q, A
<1>11. PICK old, m, p : /\ Shared(q, old, m, p) /\ Stack(old, cont.env, cont.in_tail)
                        /\ cont.frames = SubSeq(old, m, Len(old))
  BY <1>4, <1>10 DEF Resumable
<1>12. IsSeq(old) /\ m \in 1 .. Len(old) /\ old[m].mode = "MULTISHOT"
  BY <1>11 DEF Shared, Stack
<1>13. A = OpEnv(old[m].ops)
  <2>1. cont.frames[1] = old[m]
    BY <1>11, <1>12, ResumptionFrames
  <2>. QED  BY <1>4, <2>1 DEF A
<1>14. old[m].in_tail = no
  <2>1. Link(old[m], EnvAt(old, cont.env, m), TailAt(old, cont.in_tail, m))
    BY <1>11, <1>12 DEF Stack
  <2>2. ~old[m].in_tail /\ old[m].in_tail \in BOOLEAN
    BY <1>12, <2>1 DEF Link, IsFrame
  <2>. QED  BY <1>2, <2>2
<1>15. Resumes(q, old, cont.env, cont.in_tail, m, p)
  BY <1>9, <1>11, <1>13, <1>14 DEF Resumes
<1>16. Stack(Resumed(q, old, m), cont.env, cont.in_tail)
  BY <1>9, <1>15, Join
<1>17. frames' = Resumed(q, old, m)
  BY <1>8, <1>11 DEF Resumed
<1>. QED  BY <1>4, <1>16, <1>17 DEF IInv, Resumable

LEMMA StartWalkStep ==
  ASSUME IInv, NEW c \in Labels(env), StartWalk(c)
  PROVE  IInv'
<1>1. /\ walk = NoWalk /\ Stack(frames, env, in_tail) /\ Resumable(frames, cont) /\ IsSeq(frames)
      /\ Len(frames) \in Nat
  BY Idle DEF StartWalk
<1>2. PICK no \in BOOLEAN : ~no
  BY No
<1>3. PICK yes \in BOOLEAN : yes
  <2>1. TRUE \in BOOLEAN
    OBVIOUS
  <2>. QED  BY <2>1
<1> DEFINE f == Site(Const, yes)
           q == Append(frames, f)
           n == Len(frames)
           w == [on |-> TRUE, raised |-> c, clue |-> c, clue_stack |-> <<>>,
                 stack_iter |-> n + 1, to_jump |-> FALSE, found |-> FALSE]
           g == Denotes(c, env)
<1>4. Fits(frames, env, in_tail, f, env, no)
  BY <1>1, <1>2, <1>3, WalkSiteFits
<1>5. frames' = q /\ walk' = w /\ env' = env /\ in_tail' = in_tail /\ cont' = cont
  <2>1. Site(Const, TRUE) = f
    <3>1. yes = TRUE
      BY <1>3
    <3>. QED  BY <3>1
  <2>. QED  BY <2>1 DEF StartWalk, Top
<1>6. f.env = env /\ f.in_tail = in_tail /\ ~IsHandler(f) /\ ~IsRaise(f)
  BY SiteShape
<1>7. Means(c, env, g) /\ c \in Clues
  <2>1. GoodEnv(env)
    BY <1>1 DEF Stack
  <2>. QED  BY <2>1, LabelMeans DEF Means
<1>8. /\ w.raised = c /\ w.clue = c /\ w.clue_stack = <<>> /\ w.stack_iter = n + 1
      /\ ~w.to_jump /\ ~w.found /\ w \in Walks
  <2>1. n + 1 \in Nat /\ <<>> \in Seq(Clues)
    BY <1>1
  <2>. QED  BY <1>7, <2>1 DEF Walks
<1> HIDE DEF f, w, g
<1>9. /\ Len(q) = n + 1 /\ q[n + 1] = f /\ IsSeq(q)
  BY <1>1, AppendShape
<1>10. Stack(q, env, no) /\ Resumable(q, cont)
  <2>1. Stack(q, env, no)
    BY <1>1, <1>4, PushOne
  <2>2. Resumable(q, cont)
    BY <1>1, <1>6, ResumablePush
  <2>. QED  BY <2>1, <2>2
<1> HIDE DEF q
<1>11. EnvAt(q, env, n + 1) = env /\ n + 1 \in 1 .. Len(q) /\ n + 1 \in 0 .. Len(q)
  <2>1. EnvAt(q, env, Len(q)) = env
    BY <1>9, OnTop
  <2>. QED  BY <1>1, <1>9, <2>1
<1>12. SeenAt(q, env, n + 1) = env
  BY <1>6, <1>9, <1>11 DEF SeenAt
<1>13. PICK j \in 1 .. n + 1 : q[j].h = g
  <2>1. Scoped(q, env)
    BY <1>10 DEF Stack
  <2>. QED  BY <1>7, <1>11, <2>1 DEF Scoped
<1> DEFINE ps == [a \in 1 .. 1 |-> j]
<1>14. Depth(w) = 1
  BY <1>8 DEF Depth
<1>15. ps \in [1 .. 1 -> 1 .. Len(q)] /\ ps[1] = j
  BY <1>9
<1> HIDE DEF ps
<1>16. Chain(q, env, w, ps)
  <2>1. \A a, b \in 1 .. 1 : a < b => ps[b] < ps[a]
    OBVIOUS
  <2>2. ps[1] <= w.stack_iter
    BY <1>1, <1>8, <1>15
  <2>3. Means(w.clue, SeenAt(q, env, w.stack_iter), q[ps[1]].h)
    BY <1>7, <1>8, <1>12, <1>13, <1>15
  <2>4. \A a \in 1 .. 1 - 1 : FALSE
    OBVIOUS
  <2>5. \A a \in 1 .. 1 : IsHandler(q[ps[a]])
    <3>1. g # NoHandler
      BY <1>7, Constants DEF Means
    <3>2. \A a \in 1 .. 1 : a = 1
      OBVIOUS
    <3>. QED  BY <1>13, <1>15, <3>1, <3>2 DEF IsHandler
  <2>6. q[ps[1]].h = Denotes(w.raised, env)
    BY <1>8, <1>13, <1>15 DEF g
  <2>. QED  BY <1>14, <1>15, <2>1, <2>2, <2>3, <2>4, <2>5, <2>6 DEF Chain
<1>17. OnWay(q, env, w)
  <2>1. Means(w.raised, env, Denotes(w.raised, env))
    BY <1>7, <1>8 DEF g
  <2>2. w.stack_iter \in 1 .. Len(q) /\ (w.to_jump <=> IsRaise(q[w.stack_iter]))
    BY <1>6, <1>8, <1>9, <1>11
  <2>. QED  BY <1>8, <1>16, <2>1, <2>2 DEF OnWay
<1>18. Raising(q, env, in_tail, w)
  <2>1. q # <<>>
    BY <1>1, <1>9
  <2>. QED  BY <1>2, <1>6, <1>8, <1>9, <1>10, <1>17, <2>1 DEF Raising
<1>. QED  BY <1>5, <1>10, <1>18 DEF IInv
\* A step of the walk.
LEMMA Walked ==
  ASSUME IInv, walk.on, NEW w, OnWay(frames, env, w),
         walk' = w, UNCHANGED <<frames, env, in_tail, cont>>
  PROVE  IInv'
<1>1. Raising(frames, env, in_tail, walk) /\ Resumable(frames, cont)
  BY Busy DEF IInv
<1>2. Raising(frames, env, in_tail, w)
  BY <1>1 DEF Raising, OnWay
<1>. QED  BY <1>1, <1>2 DEF IInv

\* What there is at the walker's return address.
LEMMA AtSite ==
  ASSUME NEW fs, NEW e, NEW tl, Stack(fs, e, tl), NEW w, OnWay(fs, e, w), NEW ps, Chain(fs, e, w, ps)
  PROVE  /\ w \in Walks /\ w.stack_iter \in 1 .. Len(fs) /\ w.stack_iter \in Nat /\ Len(fs) \in Nat
         /\ Means(w.clue, SeenAt(fs, e, w.stack_iter), fs[ps[1]].h)
         /\ fs[ps[1]].h \in Handlers /\ ps[1] \in 1 .. Len(fs) /\ IsHandler(fs[ps[1]])
         /\ IsHandler(fs[w.stack_iter]) =>
              SeenAt(fs, e, w.stack_iter) = EnvAt(fs, e, w.stack_iter)
         /\ IsSeq(w.clue_stack) /\ Len(w.clue_stack) \in Nat
<1>1. w \in Walks /\ w.stack_iter \in 1 .. Len(fs)
  BY DEF OnWay
<1>2. IsSeq(w.clue_stack) /\ Len(w.clue_stack) \in Nat
  <2>1. IsSeq(w.clue_stack)
    BY <1>1 DEF Walks, IsSeq
  <2>. QED  BY <2>1, SeqShape
<1>3. Len(fs) \in Nat /\ w.stack_iter \in Nat
  BY <1>1, SeqShape DEF Stack
<1>4. 1 \in 1 .. Depth(w)
  BY <1>2 DEF Depth
<1>5. ps[1] \in 1 .. Len(fs) /\ IsHandler(fs[ps[1]])
  BY <1>4 DEF Chain
<1>6. Means(w.clue, SeenAt(fs, e, w.stack_iter), fs[ps[1]].h)
  BY DEF Chain
<1>7. fs[ps[1]].h \in Handlers
  BY <1>6 DEF Means
<1>8. ASSUME IsHandler(fs[w.stack_iter])
      PROVE  SeenAt(fs, e, w.stack_iter) = EnvAt(fs, e, w.stack_iter)
  <2>1. ~IsRaise(fs[w.stack_iter])
    BY <1>1, <1>8 DEF Stack, Link, HandlerLink
  <2>. QED  BY <2>1 DEF SeenAt
<1>. QED  BY <1>1, <1>2, <1>3, <1>5, <1>6, <1>7, <1>8

LEMMA WalkFoundStep ==
  ASSUME IInv, WalkFound
  PROVE  IInv'
<1>1. walk.on /\ Raising(frames, env, in_tail, walk)
  BY Busy DEF WalkFound, Walking
<1>2. PICK no \in BOOLEAN : Stack(frames, env, no)
  BY <1>1 DEF Raising
<1>3. OnWay(frames, env, walk)
  BY <1>1 DEF Raising
<1>4. PICK ps : Chain(frames, env, walk, ps)
  BY <1>3 DEF OnWay
<1> DEFINE w == [walk EXCEPT !.found = TRUE]
           i == walk.stack_iter
<1>5. /\ walk \in Walks /\ i \in 1 .. Len(frames) /\ Means(walk.clue, SeenAt(frames, env, i), frames[ps[1]].h)
      /\ IsHandler(frames[i]) => SeenAt(frames, env, i) = EnvAt(frames, env, i)
  BY <1>2, <1>3, <1>4, AtSite
<1>6. IsHandler(frames[i]) /\ Own(walk.clue) /\ walk.clue_stack = <<>>
  BY DEF WalkFound, OwnLabel, At, Own
<1>7. frames[ps[1]].h = frames[i].h
  <2>1. Means(walk.clue, EnvAt(frames, env, i), frames[ps[1]].h)
    BY <1>5, <1>6
  <2> HIDE DEF i
  <2>. QED  BY <1>2, <1>5, <1>6, <2>1, OverHandler
<1>8. frames[i].h = Denotes(walk.raised, env)
  <2>1. Depth(walk) = 1
    BY <1>6 DEF Depth
  <2>. QED  BY <1>4, <1>7, <2>1 DEF Chain
<1>9. /\ w \in Walks /\ w.raised = walk.raised /\ w.clue = walk.clue
      /\ w.clue_stack = walk.clue_stack /\ w.stack_iter = i /\ w.to_jump = walk.to_jump
  BY <1>5 DEF Walks
<1> HIDE DEF w
<1>10. Chain(frames, env, w, ps)
  BY <1>4, <1>9 DEF Chain, Depth
<1>11. OnWay(frames, env, w)
  BY <1>3, <1>8, <1>9, <1>10 DEF OnWay
<1>. QED  BY <1>1, <1>11, Walked DEF WalkFound, w

LEMMA WalkOverCallStep ==
  ASSUME IInv, WalkOverCall
  PROVE  IInv'
<1>1. walk.on /\ Raising(frames, env, in_tail, walk)
  BY Busy DEF WalkOverCall, Walking
<1>2. PICK no \in BOOLEAN : Stack(frames, env, no)
  BY <1>1 DEF Raising
<1>3. OnWay(frames, env, walk)
  BY <1>1 DEF Raising
<1>4. PICK ps : Chain(frames, env, walk, ps)
  BY <1>3 DEF OnWay
<1> DEFINE i == walk.stack_iter
           f == frames[i]
           g == frames[ps[1]].h
           c == UPDATE_CLUE(walk.clue, f.row)
           w == [walk EXCEPT !.clue = UPDATE_CLUE(@, f.row), !.stack_iter = Outer(@), !.to_jump = FALSE]
<1>5. /\ walk \in Walks /\ i \in 1 .. Len(frames) /\ i \in Nat
      /\ Means(walk.clue, SeenAt(frames, env, i), g)
  BY <1>2, <1>3, <1>4, AtSite
<1>6. ~IsHandler(f) /\ ~f.in_tail /\ walk' = w /\ UNCHANGED <<frames, env, in_tail, cont>>
  BY DEF WalkOverCall, At
<1>7. Means(c, f.env, g)
  <2>1. Means(walk.clue, SeenAt(frames, env, i), g)
    BY <1>5
  <2> HIDE DEF i, g
  <2>. QED  BY <1>2, <1>5, <1>6, <2>1, OverCall
<1>8. i - 1 \in 1 .. Len(frames) /\ ~IsRaise(frames[i - 1])
  <2> HIDE DEF c, g, i
  <2>. QED  BY <1>2, <1>5, <1>6, <1>7, Outwards
<1>9. c \in Clues /\ i - 1 \in Nat
  BY <1>5, <1>7, <1>8 DEF Means
<1>10. /\ w \in Walks /\ w.clue = c /\ w.raised = walk.raised /\ w.clue_stack = walk.clue_stack
       /\ w.stack_iter = i - 1 /\ ~w.to_jump /\ w.found = walk.found
  BY <1>5, <1>9 DEF Walks, Outer
<1>11. ~walk.found
  BY DEF WalkOverCall, Walking
<1> HIDE DEF w, c, g
<1>12. Goes(walk, w, frames)
  BY <1>5, <1>8, <1>10, <1>11 DEF Goes
<1>13. OnWay(frames, env, w)
  BY <1>2, <1>3, <1>4, <1>6, <1>7, <1>10, <1>12, StepOn DEF g
<1>. QED  BY <1>1, <1>6, <1>13, Walked

LEMMA WalkOutOfOperationStep ==
  ASSUME IInv, WalkOutOfOperation
  PROVE  IInv'
<1>1. walk.on /\ Raising(frames, env, in_tail, walk)
  BY Busy DEF WalkOutOfOperation, Walking
<1>2. PICK no \in BOOLEAN : Stack(frames, env, no)
  BY <1>1 DEF Raising
<1>3. OnWay(frames, env, walk)
  BY <1>1 DEF Raising
<1>4. PICK ps : Chain(frames, env, walk, ps)
  BY <1>3 DEF OnWay
<1> DEFINE i == walk.stack_iter
           raise == frames[i - 1]
           w == [walk EXCEPT !.clue = raise.pushed, !.clue_stack = <<walk.clue>> \o @,
                             !.stack_iter = Outer(@), !.to_jump = TRUE]
<1>5. walk \in Walks /\ i \in 1 .. Len(frames) /\ i \in Nat /\ Len(frames) \in Nat
  BY <1>2, <1>3, <1>4, AtSite
<1>6. /\ ~IsHandler(frames[i]) /\ frames[i].in_tail /\ i > 1 /\ IsRaise(raise)
      /\ walk' = w /\ UNCHANGED <<frames, env, in_tail, cont>>
  BY DEF WalkOutOfOperation, At, Outer
<1>7. i - 1 \in 1 .. Len(frames) /\ i - 1 \in Nat
  BY <1>5, <1>6
<1>8. raise.pushed \in Clues
  BY <1>2, <1>7 DEF Stack, Link, IsFrame
<1>9. <<walk.clue>> \o walk.clue_stack \in Seq(Clues)
  <2>1. walk.clue \in Clues /\ walk.clue_stack \in Seq(Clues)
    BY <1>5 DEF Walks
  <2>2. <<walk.clue>> \in Seq(Clues)
    BY <2>1
  <2>. QED  BY <2>1, <2>2
<1>10. /\ w \in Walks /\ w.clue = raise.pushed /\ w.raised = walk.raised
       /\ w.clue_stack = <<walk.clue>> \o walk.clue_stack
       /\ w.stack_iter = i - 1 /\ w.to_jump /\ w.found = walk.found
  BY <1>5, <1>7, <1>8, <1>9 DEF Walks, Outer
<1>11. ~walk.found
  BY DEF WalkOutOfOperation, Walking
<1> HIDE DEF w
<1>12. Goes(walk, w, frames)
  BY <1>5, <1>6, <1>7, <1>10, <1>11 DEF Goes
<1>13. w.clue = frames[w.stack_iter].pushed
  BY <1>10
<1>14. OnWay(frames, env, w)
  BY <1>2, <1>3, <1>4, <1>6, <1>10, <1>12, <1>13, StepAside
<1>. QED  BY <1>1, <1>6, <1>14, Walked
LEMMA WalkOverHandlerStep ==
  ASSUME IInv, WalkOverHandler
  PROVE  IInv'
<1>1. walk.on /\ Raising(frames, env, in_tail, walk)
  BY Busy DEF WalkOverHandler, Walking
<1>2. PICK no \in BOOLEAN : Stack(frames, env, no)
  BY <1>1 DEF Raising
<1>3. OnWay(frames, env, walk)
  BY <1>1 DEF Raising
<1>4. PICK ps : Chain(frames, env, walk, ps)
  BY <1>3 DEF OnWay
<1> DEFINE i == walk.stack_iter
           f == frames[i]
           g == frames[ps[1]].h
<1>5. /\ walk \in Walks /\ i \in 1 .. Len(frames) /\ i \in Nat /\ Len(frames) \in Nat
      /\ g \in Handlers /\ ps[1] \in 1 .. Len(frames) /\ IsHandler(frames[ps[1]])
      /\ Means(walk.clue, SeenAt(frames, env, i), g)
      /\ IsHandler(f) => SeenAt(frames, env, i) = EnvAt(frames, env, i)
      /\ IsSeq(walk.clue_stack) /\ Len(walk.clue_stack) \in Nat
  BY <1>2, <1>3, <1>4, AtSite
<1>6. IsHandler(f) /\ ~walk.found /\ UNCHANGED <<frames, env, in_tail, cont>>
  BY DEF WalkOverHandler, Walking, At
<1>7. Means(walk.clue, EnvAt(frames, env, i), g)
  BY <1>5, <1>6
<1>8. \/ Own(walk.clue) /\ g = f.h
      \/ /\ ~Own(walk.clue) /\ walk.clue = Clue(walk.clue.sig, Infty)
         /\ walk.clue.sig \in Effects /\ f.ops[walk.clue.sig] = g
  <2> DEFINE c == walk.clue
  <2>1. Means(c, EnvAt(frames, env, i), g) /\ IsHandler(frames[i])
    BY <1>6, <1>7
  <2> HIDE DEF i, g, c
  <2>2. \/ Own(c) /\ g = frames[i].h
        \/ ~Own(c) /\ c = Clue(c.sig, Infty) /\ c.sig \in Effects /\ frames[i].ops[c.sig] = g
    BY <1>2, <1>5, <2>1, OverHandler
  <2>. QED  BY <2>2 DEF c
<1>9. CASE ~Own(walk.clue)
  <2> DEFINE s == walk.clue.sig
             c == UPDATE_CLUE(walk.clue, f.row)
             w == [walk EXCEPT !.clue = c, !.clue_stack = @, !.stack_iter = Outer(@), !.to_jump = FALSE]
  <2>1. walk' = w
    BY <1>9 DEF WalkOverHandler, OwnLabel, Own, At
  <2>2. walk.clue = Clue(s, Infty) /\ s \in Effects /\ f.ops[s] = g
    BY <1>8, <1>9
  <2>3. ~f.in_tail /\ Means(UPDATE_CLUE(Clue(s, Infty), f.row), f.env, g)
    <3>1. IsHandler(frames[i]) /\ frames[i].ops[s] = g
      BY <1>6, <2>2
    <3> HIDE DEF s, g, i
    <3>. QED  BY <1>2, <1>5, <2>2, <3>1, HandlerRow
  <2>4. Means(c, f.env, g)
    BY <2>2, <2>3
  <2>5. i - 1 \in 1 .. Len(frames) /\ ~IsRaise(frames[i - 1])
    <3> HIDE DEF c, g, i
    <3>. QED  BY <1>2, <1>5, <2>3, <2>4, Outwards
  <2>6. c \in Clues /\ i - 1 \in Nat
    BY <1>5, <2>4, <2>5 DEF Means
  <2> HIDE DEF c
  <2>7. /\ w \in Walks /\ w.clue = c /\ w.raised = walk.raised /\ w.clue_stack = walk.clue_stack
        /\ w.stack_iter = i - 1 /\ ~w.to_jump /\ w.found = walk.found
    BY <1>5, <2>6 DEF Walks, Outer
  <2> HIDE DEF w
  <2>8. Goes(walk, w, frames)
    BY <1>5, <1>6, <2>5, <2>7 DEF Goes
  <2>9. OnWay(frames, env, w)
    BY <1>2, <1>3, <1>4, <2>3, <2>4, <2>7, <2>8, StepOn
  <2>. QED  BY <1>1, <1>6, <2>1, <2>9, Walked
<1>10. CASE Own(walk.clue)
  <2>1. walk.clue_stack # <<>>
    BY <1>10 DEF WalkOverHandler, OwnLabel, Own
  <2>2. Len(walk.clue_stack) >= 1 /\ Head(walk.clue_stack) = walk.clue_stack[1]
    <3> DEFINE q == walk.clue_stack
    <3>1. IsSeq(q) /\ q # <<>>
      BY <1>5, <2>1
    <3> HIDE DEF q
    <3>2. Len(q) >= 1 /\ Head(q) = q[1]
      BY <3>1, TailShape
    <3>. QED  BY <3>2 DEF q
  <2>3. ps[1] = i
    <3>1. g = f.h
      BY <1>8, <1>10
    <3>2. Unique(frames)
      BY <1>2 DEF Stack
    <3>. QED  BY <1>5, <3>1, <3>2 DEF Unique
  <2> DEFINE d == walk.clue_stack[1]
             s == d.sig
             g2 == frames[ps[2]].h
             c == UPDATE_CLUE(d, f.row)
             w == [walk EXCEPT !.clue = c, !.clue_stack = Tail(@), !.stack_iter = Outer(@), !.to_jump = FALSE]
  <2>4. walk' = w
    BY <1>10, <2>2 DEF WalkOverHandler, OwnLabel, Own, At
  <2>5. 1 \in 1 .. Depth(walk) - 1 /\ 2 \in 1 .. Depth(walk)
    BY <1>5, <2>2 DEF Depth
  <2>6. d = Clue(s, Infty) /\ f.ops[s] = g2
    <3>1. \A a \in 1 .. Depth(walk) - 1 :
            /\ walk.clue_stack[a] = Clue(walk.clue_stack[a].sig, Infty)
            /\ frames[ps[a]].ops[walk.clue_stack[a].sig] = frames[ps[a + 1]].h
      BY <1>4 DEF Chain
    <3>. QED  BY <2>3, <2>5, <3>1
  <2>7. d \in Clues /\ s \in Effects
    <3>1. walk.clue_stack \in Seq(Clues)
      BY <1>5 DEF Walks
    <3>2. d \in Clues
      BY <2>2, <3>1
    <3>. QED  BY <3>2 DEF Clues
  <2>8. g2 \in Handlers
    <3>1. ps[2] \in 1 .. Len(frames) /\ IsHandler(frames[ps[2]])
      BY <1>4, <2>5 DEF Chain
    <3>. QED  BY <1>2, <3>1 DEF Stack, Link, IsFrame, IsHandler
  <2>9. ~f.in_tail /\ Means(UPDATE_CLUE(Clue(s, Infty), f.row), f.env, g2)
    <3>1. IsHandler(frames[i]) /\ frames[i].ops[s] = g2
      BY <1>6, <2>6
    <3> HIDE DEF s, d, g2, i
    <3>. QED  BY <1>2, <1>5, <2>7, <2>8, <3>1, HandlerRow
  <2>10. Means(c, f.env, g2)
    BY <2>6, <2>9
  <2>11. i - 1 \in 1 .. Len(frames) /\ ~IsRaise(frames[i - 1])
    <3> HIDE DEF c, g2, i, d
    <3>. QED  BY <1>2, <1>5, <2>9, <2>10, Outwards
  <2>12. c \in Clues /\ i - 1 \in Nat
    BY <1>5, <2>10, <2>11 DEF Means
  <2>13. Tail(walk.clue_stack) \in Seq(Clues)
    BY <1>5, <2>1 DEF Walks
  <2> HIDE DEF c
  <2>14. /\ w \in Walks /\ w.clue = c /\ w.raised = walk.raised
         /\ w.clue_stack = Tail(walk.clue_stack)
         /\ w.stack_iter = i - 1 /\ ~w.to_jump /\ w.found = walk.found
    BY <1>5, <2>12, <2>13 DEF Walks, Outer
  <2> HIDE DEF w
  <2>15. Goes(walk, w, frames)
    BY <1>5, <1>6, <2>11, <2>14 DEF Goes
  <2>16. OnWay(frames, env, w)
    BY <1>2, <1>3, <1>4, <2>1, <2>9, <2>10, <2>14, <2>15, StepBack
  <2>. QED  BY <1>1, <1>6, <2>4, <2>16, Walked
<1>. QED  BY <1>9, <1>10

LEMMA RaiseZStep ==
  ASSUME IInv, RAISEZ
  PROVE  IInv'
<1>1. walk.on /\ walk.found /\ Raising(frames, env, in_tail, walk) /\ Resumable(frames, cont)
  BY Busy DEF RAISEZ, IInv
<1>2. PICK no \in BOOLEAN : Stack(frames, env, no)
  BY <1>1 DEF Raising
<1> DEFINE i == walk.stack_iter
           n == Len(frames)
           fs == SubSeq(frames, 1, n - 1)
           c == walk.raised
           g == Denotes(c, env)
<1>3. /\ i \in 1 .. n /\ frames[i].h = g /\ Means(c, env, g)
  BY <1>1 DEF Raising, OnWay
<1>4. IsSeq(frames) /\ n \in Nat
  BY <1>2, SeqShape DEF Stack
<1>5. g # NoHandler
  BY <1>3, Constants DEF Means
<1>6. i \in 1 .. n - 1 /\ n \in 1 .. n
  <2>1. i # n
    BY <1>1, <1>3, <1>5 DEF Raising, IsHandler
  <2>. QED  BY <1>3, <1>4, <2>1
<1>7. Stack(fs, env, in_tail) /\ Len(fs) = n - 1 /\ \A j \in 1 .. n - 1 : fs[j] = frames[j]
  <2>1. frames[n].env = env /\ frames[n].in_tail = in_tail
    BY <1>1 DEF Raising
  <2>2. /\ Stack(fs, frames[n].env, frames[n].in_tail)
        /\ Len(fs) = n - 1 /\ \A j \in 1 .. n - 1 : fs[j] = frames[j]
    BY <1>2, <1>6, PopTo
  <2>. QED  BY <2>1, <2>2
<1>8. i \in 1 .. Len(fs) /\ fs[i] = frames[i] /\ IsHandler(frames[i]) /\ IsHandler(fs[i])
  BY <1>3, <1>5, <1>6, <1>7 DEF IsHandler
<1>9. Resumable(fs, cont)
  <2>1. n - 1 \in 0 .. Len(frames)
    BY <1>4, <1>6
  <2>. QED  BY <1>1, <1>4, <2>1, ResumablePop
<1>10. walk' = NoWalk
  BY DEF RAISEZ
<1>11. CASE TailOp(i, fs, RaiseSite(c))
  <2>1. PICK yes \in BOOLEAN : yes
    <3>1. TRUE \in BOOLEAN
      OBVIOUS
    <3>. QED  BY <3>1
  <2> DEFINE f == RaiseSite(c)
             A == OpEnv(fs[i].ops)
  <2>2. Fits(fs, env, in_tail, f, A, yes)
    <3>1. Means(c, env, fs[i].h)
      BY <1>3, <1>8
    <3> HIDE DEF c, i, fs
    <3>. QED  BY <1>7, <1>8, <2>1, <3>1, RaiseFits
  <2>3. frames' = Append(fs, f) /\ env' = A /\ in_tail' /\ in_tail' \in BOOLEAN /\ cont' = cont
    BY <1>8, <1>11 DEF TailOp
  <2>4. ~IsHandler(f)
    BY DEF RaiseSite, Site, IsHandler
  <2> HIDE DEF f, A, fs
  <2>5. Stack(Append(fs, f), A, yes)
    BY <1>7, <2>2, PushOne
  <2>6. Resumable(Append(fs, f), cont)
    BY <1>7, <1>9, <2>4, ResumablePush DEF Stack
  <2>7. in_tail' = yes
    BY <2>1, <2>3
  <2>. QED  BY <1>10, <2>3, <2>5, <2>6, <2>7 DEF IInv
<1>12. CASE AbortOp(i)
  BY <1>1, <1>2, <1>3, <1>8, <1>10, <1>12, Aborting
<1>13. CASE GeneralOp(i, fs)
  <2>1. SubSeq(frames, 1, i - 1) = SubSeq(fs, 1, i - 1)
    <3> DEFINE q == SubSeq(frames, 1, i - 1)
               r == SubSeq(fs, 1, i - 1)
    <3>1. IsSeq(q) /\ Len(q) = i - 1 /\ \A j \in 1 .. i - 1 : q[j] = frames[j]
      BY <1>2, <1>3, PopTo DEF Stack
    <3>2. IsSeq(r) /\ Len(r) = i - 1 /\ \A j \in 1 .. i - 1 : r[j] = fs[j]
      <4> HIDE DEF fs
      <4>. QED  BY <1>7, <1>8, PopTo DEF Stack
    <3>3. \A j \in 1 .. i - 1 : fs[j] = frames[j]
      <4>1. \A j \in 1 .. i - 1 : j \in 1 .. n - 1
        BY <1>4, <1>6
      <4>. QED  BY <1>7, <4>1
    <3> HIDE DEF q, r, fs
    <3>4. Len(q) = Len(r) /\ \A j \in 1 .. Len(q) : q[j] = r[j]
      BY <3>1, <3>2, <3>3
    <3>5. q = r
      BY <3>1, <3>2, <3>4, SameSeq
    <3>. QED  BY <3>5 DEF q, r
  <2> HIDE DEF fs, i
  <2>. QED  BY <1>7, <1>8, <1>10, <1>13, <2>1, Capturing
<1>. QED  BY <1>11, <1>12, <1>13 DEF RAISEZ, Top
LEMMA Started ==
  ASSUME Init
  PROVE  IInv
<1> DEFINE e == OpEnv(NoCapability)
           q == <<>>
<1>1. PICK no \in BOOLEAN : ~no
  BY No
<1>2. frames = q /\ env = e /\ ~in_tail /\ in_tail \in BOOLEAN /\ cont = NoCont /\ walk = NoWalk
  BY DEF Init
<1>3. IsSeq(q) /\ Len(q) = 0
  <2>1. q \in Seq({})
    OBVIOUS
  <2>. QED  BY <2>1 DEF IsSeq
<1>4. GoodEnv(e) /\ e = OpEnv(e.captured)
  BY NoCapabilityShape, OpEnvShape
<1>5. \A c, g : ~Means(c, e, g)
  BY NoCapabilityShape, OpEnvMeans
<1> HIDE DEF e, q
<1>6. \A i \in 1 .. Len(q) : FALSE
  BY <1>3
<1>7. \A i \in 0 .. Len(q) : EnvAt(q, e, i) = e /\ TailAt(q, no, i) = no
  <2>1. \A i \in 0 .. Len(q) : i = Len(q)
    BY <1>3
  <2>. QED  BY <1>3, <2>1, OnTop
<1>8. Scoped(q, e)
  BY <1>5, <1>7 DEF Scoped
<1>9. Unique(q) /\ Within(q, e) /\ Targets(q, e)
  BY <1>6 DEF Unique, Within, Targets
<1>10. ~TailAt(q, no, 0)
  <2>1. 0 \in 0 .. Len(q)
    BY <1>3
  <2>. QED  BY <1>1, <1>7, <2>1
<1>11. Stack(q, e, no)
  BY <1>1, <1>3, <1>4, <1>6, <1>8, <1>9, <1>10 DEF Stack
<1>12. in_tail = no
  BY <1>1, <1>2
<1>. QED  BY <1>2, <1>11, <1>12 DEF IInv, Resumable

LEMMA Preserved ==
  ASSUME IInv, Allow = {}, [Next]_vars
  PROVE  IInv'
<1>1. ASSUME NEW md \in Calls, CallFn(md) PROVE IInv'
  BY <1>1, CallFnStep
<1>2. ASSUME NEW h \in Handlers, NEW k \in Capturable(env), HANDLE_general(h, k) PROVE IInv'
  BY <1>2, HandleGeneralStep
<1>3. ASSUME NEW h \in Handlers, NEW k \in Capturable(env), HANDLE_in_stack(h, k) PROVE IInv'
  BY <1>3, HandleInStackStep
<1>4. ASSUME NEW i \in DOMAIN frames, RAISE(i) PROVE IInv'
  BY <1>4, RaiseStep
<1>5. ASSUME NEW k \in Capturable(env), FINAL_THROW(k) PROVE IInv'
  BY <1>5, FinalThrowStep
<1>6. ASSUME NEW c \in Labels(env), StartWalk(c) PROVE IInv'
  BY <1>6, StartWalkStep
<1>7. CASE Return
  BY <1>7, ReturnStep
<1>8. CASE WalkStep
  BY <1>8, WalkFoundStep, WalkOverHandlerStep, WalkOutOfOperationStep, WalkOverCallStep DEF WalkStep
<1>9. CASE RAISEZ
  BY <1>9, RaiseZStep
<1>10. CASE UNCHANGED vars
  <2>1. frames' = frames /\ env' = env /\ in_tail' = in_tail /\ cont' = cont /\ walk' = walk
    BY <1>10 DEF vars
  <2>. QED  BY <2>1 DEF IInv
<1>. QED  BY <1>1, <1>2, <1>3, <1>4, <1>5, <1>6, <1>7, <1>8, <1>9, <1>10 DEF Next

-----------------------------------------------------------------------------
(***************************************************************************)
(* What the invariant says                                                 *)
(***************************************************************************)
LEMMA Lexical ==
  ASSUME IInv
  PROVE  WalkFindsLexicalHandler
<1>1. SUFFICES ASSUME walk.on
               PROVE  LET meant == Denotes(walk.raised, env) IN
                      /\ \E i \in 1 .. walk.stack_iter : frames[i].h = meant
                      /\ walk.found => At.h = meant
  BY DEF WalkFindsLexicalHandler
<1>2. Raising(frames, env, in_tail, walk)
  BY <1>1, Busy
<1>3. OnWay(frames, env, walk)
  BY <1>2 DEF Raising
<1>4. PICK no \in BOOLEAN : Stack(frames, env, no)
  BY <1>2 DEF Raising
<1>5. PICK ps : Chain(frames, env, walk, ps)
  BY <1>3 DEF OnWay
<1> DEFINE n == Depth(walk)
<1>6. Len(walk.clue_stack) \in Nat /\ Len(frames) \in Nat /\ walk.stack_iter \in Nat
  BY <1>3, <1>4, <1>5, AtSite
<1>7. n \in 1 .. n /\ 1 \in 1 .. n /\ (n = 1 \/ 1 < n)
  BY <1>6 DEF Depth
<1> HIDE DEF n
<1>8. /\ ps \in [1 .. n -> 1 .. Len(frames)] /\ ps[1] <= walk.stack_iter
      /\ \A a, b \in 1 .. n : a < b => ps[b] < ps[a]
      /\ frames[ps[n]].h = Denotes(walk.raised, env)
  BY <1>5 DEF Chain, n
<1>9. ps[n] \in 1 .. Len(frames) /\ ps[1] \in 1 .. Len(frames)
  BY <1>7, <1>8
<1>a. ps[n] = ps[1] \/ ps[n] < ps[1]
  BY <1>7, <1>8
<1>10. ps[n] \in 1 .. walk.stack_iter
  BY <1>6, <1>8, <1>9, <1>a
<1>11. walk.found => At.h = Denotes(walk.raised, env)
  BY <1>3 DEF OnWay, At
<1>. QED  BY <1>8, <1>10, <1>11

LEMMA Known ==
  ASSUME IInv
  PROVE  WalkerKnowsEverySite
<1>1. SUFFICES ASSUME walk.on, ~walk.found
               PROVE  /\ OnSite
                      /\ ~IsHandler(At) /\ At.in_tail =>
                           walk.stack_iter > 1 /\ IsRaise(frames[walk.stack_iter - 1])
  BY DEF WalkerKnowsEverySite
<1>2. Raising(frames, env, in_tail, walk)
  BY <1>1, Busy
<1>3. OnWay(frames, env, walk)
  BY <1>2 DEF Raising
<1>4. PICK no \in BOOLEAN : Stack(frames, env, no)
  BY <1>2 DEF Raising
<1>5. PICK ps : Chain(frames, env, walk, ps)
  BY <1>3 DEF OnWay
<1> DEFINE i == walk.stack_iter
           g == frames[ps[1]].h
           c == walk.clue
<1>6. /\ walk \in Walks /\ i \in 1 .. Len(frames) /\ i \in Nat /\ g \in Handlers
      /\ Means(c, SeenAt(frames, env, i), g)
  BY <1>3, <1>4, <1>5, AtSite
<1> HIDE DEF i, g, c
<1>7. /\ frames[i].entry
      /\ ~IsHandler(frames[i]) /\ frames[i].in_tail =>
           c = Clue(c.sig, Infty) /\ c.sig \in Effects /\ frames[i].env.captured[c.sig] = g
  BY <1>4, <1>6, OverCall
<1>8. ~IsHandler(frames[i]) /\ frames[i].in_tail => i > 1 /\ IsRaise(frames[i - 1])
  <2>1. SUFFICES ASSUME ~IsHandler(frames[i]), frames[i].in_tail
                 PROVE  i > 1 /\ IsRaise(frames[i - 1])
    OBVIOUS
  <2>2. c.sig \in Effects /\ frames[i].env.captured[c.sig] = g
    BY <1>7, <2>1
  <2> DEFINE s == c.sig
  <2>3. s \in Effects /\ frames[i].env.captured[s] = g
    BY <2>2
  <2> HIDE DEF s
  <2>. QED  BY <1>4, <1>6, <2>1, <2>3, TailRaise
<1>9. i > 0 /\ (walk.to_jump <=> IsRaise(frames[i])) /\ walk.to_jump \in BOOLEAN
  BY <1>3, <1>6 DEF OnWay, Walks, i
<1>10. OnSite
  BY <1>7, <1>9 DEF OnSite, At, IsRaise, i
<1>. QED  BY <1>8, <1>10 DEF At, i

LEMMA Typed ==
  ASSUME IInv
  PROVE  TypeOK
<1>1. PICK no : Stack(frames, env, no)
  BY DEF IInv, Raising
<1>2. DOMAIN frames = 1 .. Len(frames)
  BY <1>1, SeqShape DEF Stack
<1>3. \A i \in DOMAIN frames : IsFrame(frames[i])
  BY <1>1, <1>2 DEF Stack, Link
<1>4. env \in Env
  BY <1>1 DEF Stack, GoodEnv
<1>5. walk = NoWalk \/ walk \in Walks
  BY DEF IInv, Raising
<1>6. in_tail \in BOOLEAN
  <2>1. CASE Stack(frames, env, in_tail)
    BY <2>1 DEF Stack
  <2>2. CASE Raising(frames, env, in_tail, walk)
    <3>1. frames # <<>> /\ frames[Len(frames)].in_tail = in_tail
      BY <2>2 DEF Raising
    <3>2. IsSeq(frames)
      BY <1>1 DEF Stack
    <3>3. Len(frames) >= 1 /\ Len(frames) \in Nat
      BY <3>1, <3>2, TailShape, SeqShape
    <3>4. Len(frames) \in DOMAIN frames
      BY <1>2, <3>3
    <3>. QED  BY <1>3, <3>1, <3>4 DEF IsFrame
  <2>. QED  BY <2>1, <2>2 DEF IInv
<1>7. ASSUME cont # NoCont
      PROVE  /\ \A i \in DOMAIN cont.frames : IsFrame(cont.frames[i])
             /\ cont.env \in Env /\ cont.in_tail \in BOOLEAN
  <2>1. PICK old, m, p : /\ Shared(frames, old, m, p) /\ Stack(old, cont.env, cont.in_tail)
                         /\ cont.frames = SubSeq(old, m, Len(old))
    BY <1>7 DEF IInv, Resumable
  <2>2. IsSeq(old) /\ m \in 1 .. Len(old)
    BY <2>1 DEF Shared, Stack
  <2>3. /\ IsSeq(cont.frames)
        /\ \A i \in 1 .. Len(cont.frames) :
             m + i - 1 \in m .. Len(old) /\ cont.frames[i] = old[m + i - 1]
    <3> DEFINE r == cont.frames
    <3>1. IsSeq(old) /\ m \in 1 .. Len(old) /\ r = SubSeq(old, m, Len(old))
      BY <2>1, <2>2
    <3> HIDE DEF r
    <3>2. IsSeq(r)
      BY <3>1, ResumptionFrames
    <3>3. \A i \in 1 .. Len(r) : m + i - 1 \in m .. Len(old) /\ r[i] = old[m + i - 1]
      BY <3>1, ResumptionFrames
    <3>. QED  BY <3>2, <3>3 DEF r
  <2>4. DOMAIN cont.frames = 1 .. Len(cont.frames)
    BY <2>3, SeqShape
  <2>5. \A i \in 1 .. Len(old) : IsFrame(old[i])
    BY <2>1 DEF Stack, Link
  <2>6. \A i \in m .. Len(old) : i \in 1 .. Len(old)
    BY <2>2, SeqShape
  <2>7. \A i \in DOMAIN cont.frames : IsFrame(cont.frames[i])
    BY <2>3, <2>4, <2>5, <2>6
  <2>8. cont.env \in Env /\ cont.in_tail \in BOOLEAN
    BY <2>1 DEF Stack, GoodEnv
  <2>. QED  BY <2>7, <2>8
<1>. QED  BY <1>3, <1>4, <1>5, <1>6, <1>7 DEF TypeOK

LEMMA Invariance ==
  ASSUME Allow = {}
  PROVE  Spec => []IInv
<1>1. Init => IInv
  BY Started
<1>2. IInv /\ [Next]_vars => IInv'
  BY Preserved
<1>. QED  BY <1>1, <1>2, PTL DEF Spec

\* If the operations of tail-resumptive handlers keep the client contract (they pass
\* no label and no capability on, install no handler in their stack that captures, and
\* raise nothing zero-cost where their own effect is not), the walk ends at no handler
\* but the one the raise means by lexical scoping, and never passes it (stackwalk,
\* stackwalk.c:94-203), through any nesting of calls, handlers and resumed stacks.
THEOREM WalkIsLexical ==
  ASSUME Allow = {}
  PROVE  Spec => []WalkFindsLexicalHandler
<1>1. IInv => WalkFindsLexicalHandler
  BY Lexical
<1>. QED  BY <1>1, Invariance, PTL

\* Under the same conditions the walker is never at a return address that is missing
\* in the clue table, and never looks for a pushed clue where there is none.
THEOREM WalkerNeverLost ==
  ASSUME Allow = {}
  PROVE  Spec => []WalkerKnowsEverySite
<1>1. IInv => WalkerKnowsEverySite
  BY Known
<1>. QED  BY <1>1, Invariance, PTL

\* Frames, environments, the resumption and the locals of stackwalk have their types.
THEOREM WalkTyping ==
  ASSUME Allow = {}
  PROVE  Spec => []TypeOK
<1>1. IInv => TypeOK
  BY Typed
<1>. QED  BY <1>1, Invariance, PTL



-----------------------------------------------------------------------------
(***************************************************************************)
(* The safety half of WalkEnds.                                            *)
(***************************************************************************)
\* One of the branches of stackwalk's loop can be taken.
StepPossible ==
  /\ Walking
  /\ \/ IsHandler(At) /\ OwnLabel /\ walk.clue_stack = <<>>
     \/ IsHandler(At) /\ (OwnLabel => walk.clue_stack # <<>>)
     \/ ~IsHandler(At) /\ At.in_tail /\ walk.stack_iter > 1 /\ IsRaise(frames[Outer(walk.stack_iter)])
     \/ ~IsHandler(At) /\ ~At.in_tail

\* The frames the walk may still have to go over.
Remaining == IF walk.found THEN 0 ELSE walk.stack_iter

LEMMA StepLowers ==
  ASSUME TypeOK, WalkStep
  PROVE  Remaining \in Nat /\ Remaining' \in Nat /\ Remaining' < Remaining
<1>1. walk.on /\ ~walk.found /\ walk.stack_iter > 0
  BY DEF WalkStep, WalkFound, WalkOverHandler, WalkOutOfOperation, WalkOverCall, Walking, OnSite
<1>2. walk \in Walks
  BY <1>1 DEF TypeOK, NoWalk
<1>3. walk.stack_iter \in Nat
  BY <1>2 DEF Walks
<1>4. walk'.found \/ (~walk'.found /\ walk'.stack_iter = walk.stack_iter - 1)
  <2>1. CASE WalkFound
    BY <1>2, <2>1 DEF WalkFound, Walks
  <2>2. CASE WalkOverHandler
    BY <1>1, <1>2, <2>2 DEF WalkOverHandler, Walks, Outer
  <2>3. CASE WalkOutOfOperation
    BY <1>1, <1>2, <2>3 DEF WalkOutOfOperation, Walks, Outer
  <2>4. CASE WalkOverCall
    BY <1>1, <1>2, <2>4 DEF WalkOverCall, Walks, Outer
  <2>. QED  BY <2>1, <2>2, <2>3, <2>4 DEF WalkStep
<1>. QED  BY <1>1, <1>3, <1>4 DEF Remaining

\* While a walk has not found its handler a round of stackwalk's loop is possible, and
\* each round leaves fewer frames to go over: it is never stuck, and it takes no
\* more rounds than there are frames (the loop of stackwalk.c).
THEOREM WalkNeverSticks ==
  ASSUME Allow = {}
  PROVE  Spec => /\ [](walk.on /\ ~walk.found => StepPossible)
                 /\ [][WalkStep => Remaining' \in Nat /\ Remaining' < Remaining]_vars
<1>1. WalkerKnowsEverySite => (walk.on /\ ~walk.found => StepPossible)
  BY DEF WalkerKnowsEverySite, StepPossible, Walking, Outer
<1>2. TypeOK => [WalkStep => Remaining' \in Nat /\ Remaining' < Remaining]_vars
  BY StepLowers
<1>. QED  BY <1>1, <1>2, WalkerNeverLost, WalkTyping, PTL
=============================================================================
