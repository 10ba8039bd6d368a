------------------------- MODULE StackTrekRefinement -------------------------
(***************************************************************************)
(* StackTrek implements DelimitedControl, under the client contract, for   *)
(* every number of stacks, resumptions and call sites.                     *)
(*                                                                         *)
(* A line is a chain as a sequence of segments: place i of the chain is    *)
(* segment i + 1.  What the exchangers lead through is the line of its     *)
(* chain, and each action does to the lines what the abstract one does.    *)
(***************************************************************************)
EXTENDS StackTrekProofs

AFrames == {[kind |-> "call", at |-> c] : c \in CallSites} \cup {[kind |-> "abort"]}
Segs == [prompt : AllStacks, frames : Seq(AFrames)]

\* The segment of stack t in memory m.
Seg(m, t) ==
  [prompt |-> IF t = Main THEN Main ELSE Own(m, t),
   frames |-> [i \in 1 .. Len(m[t]) - Base(t) |-> AbstractFrame(m[t][i + Base(t)])]]

\* Every place of chain h up to n is taken; q is the line of its segments.
Filled(D, H, d, h, n) == \A i \in 0 .. n : \E u \in D : H[u] = h /\ d[u] = i
IsLine(q, m, D, H, d, h, n) ==
  /\ q \in Seq(Segs)
  /\ Len(q) = n + 1
  /\ \A u \in D : H[u] = h /\ d[u] <= n => q[d[u] + 1] = Seg(m, u)

LEMMA OneLine ==
  ASSUME NEW D, NEW H, NEW d, NEW h, NEW n \in Nat, Filled(D, H, d, h, n),
         NEW m, NEW a, NEW b, IsLine(a, m, D, H, d, h, n), IsLine(b, m, D, H, d, h, n)
  PROVE  a = b
<1>1. a \in Seq(Segs) /\ b \in Seq(Segs) /\ Len(a) = n + 1 /\ Len(b) = n + 1
  BY DEF IsLine
<1>2. ASSUME NEW i \in 1 .. n + 1 PROVE a[i] = b[i]
  <2>1. i - 1 \in 0 .. n /\ i - 1 <= n /\ (i - 1) + 1 = i
    BY <1>2
  <2>2. PICK u \in D : H[u] = h /\ d[u] = i - 1
    BY <2>1 DEF Filled
  <2>. QED  BY <2>1, <2>2 DEF IsLine
<1>. QED  BY <1>1, <1>2, SeqEqual

-----------------------------------------------------------------------------
(***************************************************************************)
(* Segments.                                                               *)
(***************************************************************************)
LEMMA SegmentIsSeg ==
  ASSUME NEW t \in AllStacks
  PROVE  SegmentOf(t) = Seg(mem, t)
BY DEF SegmentOf, Seg, Owner, Own

\* A stack without stray base frames is a segment.
Proper(m, t) ==
  /\ t \in AllStacks /\ m[t] \in Seq(Frame)
  /\ t # Main => HasBase(m, t) /\ Own(m, t) \in Stacks
  /\ t = Main => NoBase(m)

LEMMA AbstractFrames ==
  ASSUME NEW f \in Frame, f.kind # "enter"
  PROVE  AbstractFrame(f) \in AFrames
BY DEF Frame, AbstractFrame, AFrames, CallFrame, AbortFrame, EnterFrame

LEMMA SegShape ==
  ASSUME NEW m, NEW t
  PROVE  /\ Seg(m, t) = [prompt |-> Seg(m, t).prompt, frames |-> Seg(m, t).frames]
         /\ Seg(m, t).prompt = IF t = Main THEN Main ELSE Own(m, t)
BY DEF Seg

LEMMA FramesLen ==
  ASSUME NEW m, NEW t, Proper(m, t)
  PROVE  /\ Base(t) \in {0, 1} /\ Base(t) <= Len(m[t]) /\ Len(m[t]) \in Nat
         /\ Seg(m, t).frames \in Seq(AFrames)
         /\ Len(Seg(m, t).frames) = Len(m[t]) - Base(t)
         /\ \A i \in 1 .. Len(m[t]) - Base(t) : Seg(m, t).frames[i] = AbstractFrame(m[t][i + Base(t)])
         /\ Seg(m, t) \in Segs
         /\ Seg(m, t).prompt = IF t = Main THEN Main ELSE Own(m, t)
<1>1. Base(t) \in {0, 1} /\ m[t] \in Seq(Frame) /\ Len(m[t]) \in Nat
  BY DEF Base, Proper
<1>2. Base(t) <= Len(m[t])
  <2>1. t # Main => Len(m[t]) # 0
    BY <1>1 DEF Proper, HasBase
  <2>. QED  BY <1>1, <2>1 DEF Base
<1>3. ASSUME NEW i \in 1 .. Len(m[t]) - Base(t)
      PROVE  AbstractFrame(m[t][i + Base(t)]) \in AFrames
  <2>1. i + Base(t) \in DOMAIN m[t] /\ (t # Main => i + Base(t) > 1)
    BY <1>1, <1>2 DEF Base
  <2>2. m[t][i + Base(t)] \in Frame
    BY <1>1, <2>1
  <2>3. m[t][i + Base(t)].kind # "enter"
    BY <2>1 DEF Proper, HasBase, NoBase
  <2>. QED  BY <2>2, <2>3, AbstractFrames
<1> DEFINE n == Len(m[t]) - Base(t)
           F(i) == AbstractFrame(m[t][i + Base(t)])
<1>4. n \in Nat /\ Seg(m, t).frames = [i \in 1 .. n |-> F(i)] /\ \A i \in 1 .. n : F(i) \in AFrames
  BY <1>1, <1>2, <1>3 DEF Seg
<1>5. Seg(m, t).frames \in Seq(AFrames) /\ Len(Seg(m, t).frames) = n
  <2> HIDE DEF n, F
  <2>. QED  BY <1>4
<1>6. Seg(m, t).prompt = (IF t = Main THEN Main ELSE Own(m, t)) /\ Seg(m, t).prompt \in AllStacks
  BY DEF Seg, Proper, AllStacks
<1>7. Seg(m, t) \in Segs
  <2>1. Seg(m, t) = [prompt |-> Seg(m, t).prompt, frames |-> Seg(m, t).frames]
    BY DEF Seg
  <2>. QED  BY <1>5, <1>6, <2>1 DEF Segs
<1>. QED  BY <1>1, <1>2, <1>4, <1>5, <1>6, <1>7

\* A call or an abort handler's body on stack t; its return; cutting it back.
LEMMA SegPush ==
  ASSUME NEW m, NEW m2, NEW t, Proper(m, t), Proper(m2, t), NEW f \in Frame,
         m2[t] = Append(m[t], f)
  PROVE  Seg(m2, t) = [Seg(m, t) EXCEPT !.frames = Append(@, AbstractFrame(f))]
<1>1. m[t] # <<>> \/ t = Main
  BY DEF Proper, HasBase
<1>2. Own(m2, t) = Own(m, t) \/ t = Main
  BY <1>1 DEF Own, Proper
<1> DEFINE n == Len(m[t]) - Base(t)
           a == Seg(m2, t).frames
           g == Seg(m, t).frames
           x == AbstractFrame(f)
<1>3. Len(m2[t]) = Len(m[t]) + 1 /\ m2[t][Len(m[t]) + 1] = f
      /\ \A i \in 1 .. Len(m[t]) : m2[t][i] = m[t][i]
  BY DEF Proper
<1>4. /\ g \in Seq(AFrames) /\ Len(g) = n
      /\ Base(t) \in {0, 1} /\ Base(t) <= Len(m[t]) /\ Len(m[t]) \in Nat
      /\ \A i \in 1 .. n : g[i] = AbstractFrame(m[t][i + Base(t)])
  BY FramesLen
<1>5. n \in Nat
  BY <1>4
<1>6. /\ a \in Seq(AFrames) /\ Len(a) = n + 1
      /\ \A i \in 1 .. n + 1 : a[i] = AbstractFrame(m2[t][i + Base(t)])
  <2>1. /\ a \in Seq(AFrames) /\ Len(a) = Len(m2[t]) - Base(t)
        /\ \A i \in 1 .. Len(m2[t]) - Base(t) : a[i] = AbstractFrame(m2[t][i + Base(t)])
    BY FramesLen
  <2>2. Len(m2[t]) - Base(t) = n + 1
    BY <1>3, <1>4
  <2>. QED  BY <2>1, <2>2
<1>7. a[n + 1] = x
  <2>1. (n + 1) + Base(t) = Len(m[t]) + 1 /\ n + 1 \in 1 .. n + 1
    BY <1>4, <1>5
  <2>. QED  BY <1>3, <1>6, <2>1
<1>8. ASSUME NEW i \in 1 .. n PROVE a[i] = g[i]
  <2>1. i \in 1 .. n + 1 /\ i + Base(t) \in 1 .. Len(m[t])
    BY <1>4, <1>5
  <2>. QED  BY <1>3, <1>4, <1>6, <2>1
<1> HIDE DEF a, g, x, n
<1>9. a = Append(g, x)
  <2>1. x \in AFrames
    BY <1>5, <1>6, <1>7
  <2>2. Append(g, x) \in Seq(AFrames) /\ Len(Append(g, x)) = n + 1
    BY <1>4, <2>1
  <2>3. \A i \in 1 .. n + 1 : a[i] = Append(g, x)[i]
    BY <1>4, <1>5, <1>7, <1>8, <2>1
  <2>. QED  BY <1>6, <2>2, <2>3, SeqEqual
<1>10. Seg(m2, t).prompt = Seg(m, t).prompt
  BY <1>2, SegShape
<1>. QED  BY <1>9, <1>10, SegShape DEF a, g, x

LEMMA SegCut ==
  ASSUME NEW m, NEW m2, NEW t, Proper(m, t), Proper(m2, t),
         NEW n \in Nat, Base(t) <= n, n <= Len(m[t]), Len(m2[t]) = n,
         \A i \in 1 .. n : m2[t][i] = m[t][i]
  PROVE  Seg(m2, t) = [Seg(m, t) EXCEPT !.frames = SubSeq(@, 1, n - Base(t))]
<1>1. t # Main => Own(m2, t) = Own(m, t)
  BY DEF Own, Base
<1> DEFINE r == n - Base(t)
           a == Seg(m2, t).frames
           g == Seg(m, t).frames
<1>2. /\ g \in Seq(AFrames) /\ Len(g) = Len(m[t]) - Base(t)
      /\ Base(t) \in {0, 1} /\ Len(m[t]) \in Nat
      /\ \A i \in 1 .. Len(m[t]) - Base(t) : g[i] = AbstractFrame(m[t][i + Base(t)])
      /\ a \in Seq(AFrames) /\ Len(a) = r
      /\ \A i \in 1 .. r : a[i] = AbstractFrame(m2[t][i + Base(t)])
  BY FramesLen
<1>3. r \in Nat /\ r <= Len(g)
  BY <1>2
<1>4. ASSUME NEW i \in 1 .. r PROVE a[i] = g[i]
  <2>1. i \in 1 .. Len(m[t]) - Base(t) /\ i + Base(t) \in 1 .. n
    BY <1>2
  <2>. QED  BY <1>2, <2>1
<1> HIDE DEF a, g, r
<1>5. a = SubSeq(g, 1, r)
  <2>1. SubSeq(g, 1, r) \in Seq(AFrames) /\ Len(SubSeq(g, 1, r)) = r
    BY <1>2, <1>3
  <2>2. \A i \in 1 .. r : SubSeq(g, 1, r)[i] = g[i]
    BY <1>2, <1>3
  <2>. QED  BY <1>2, <1>4, <2>1, <2>2, SeqEqual
<1>6. Seg(m2, t).prompt = Seg(m, t).prompt
  BY <1>1, SegShape
<1>. QED  BY <1>5, <1>6, SegShape DEF a, g, r
-----------------------------------------------------------------------------
(***************************************************************************)
(* The exchangers lead through the line of a chain.                        *)
(***************************************************************************)
LEMMA AllProper ==
  ASSUME TypeOK, NEW D, NEW H, NEW d, IsChained(D, H, d), NEW u \in D
  PROVE  Proper(mem, u)
<1>1. /\ u \in AllStacks /\ mem \in Memory /\ inUse \subseteq Stacks
      /\ (u # Main => u \in inUse)
      /\ \A t \in inUse : HasBase(mem, t) /\ Own(mem, t) \in inUse
  BY Facts
<1>2. NoBase(mem)
  BY DEF IsChained, Chained
<1>. QED  BY <1>1, <1>2 DEF Proper, Memory

\* A chain has no gap.
LEMMA FilledBelow ==
  ASSUME TypeOK, NEW D, NEW H, NEW d, IsChained(D, H, d), NEW t \in D
  PROVE  Filled(D, H, d, H[t], d[t])
<1>. SUFFICES ASSUME NEW i \in 0 .. d[t] PROVE \E u \in D : H[u] = H[t] /\ d[u] = i
  BY DEF Filled
<1> DEFINE T == {n \in Nat : n >= i /\ \E u \in D : H[u] = H[t] /\ d[u] = n}
<1>1. \A u \in D : d[u] \in Nat
  BY Facts
<1>2. d[t] \in T /\ T \in SUBSET Nat /\ i \in Nat
  BY <1>1
<1>3. PICK n \in T : \A m \in T : n <= m
  BY <1>2, LeastNatural
<1>4. PICK u \in D : H[u] = H[t] /\ d[u] = n
  BY <1>3
<1>5. CASE n > i
  <2>1. PICK v \in D : H[v] = H[t] /\ d[v] = n - 1
    BY <1>1, <1>2, <1>3, <1>4, <1>5 DEF IsChained, Chained, Linked
  <2>2. n - 1 \in T /\ ~(n <= n - 1)
    BY <1>1, <1>2, <1>3, <1>5, <2>1
  <2>. QED  BY <1>3, <2>2
<1>. QED  BY <1>2, <1>3, <1>4, <1>5

\* No chain is longer than there are stacks.
LEMMA DepthBound ==
  ASSUME TypeOK, NEW D, NEW H, NEW d, IsChained(D, H, d), NEW t \in D
  PROVE  Cardinality(Stacks) \in Nat /\ d[t] <= Cardinality(Stacks)
<1> DEFINE n == d[t]
           f == [i \in 0 .. n |-> CHOOSE u \in D : H[u] = H[t] /\ d[u] = i]
<1>1. n \in Nat /\ D \subseteq AllStacks /\ Main \notin Stacks /\ IsFiniteSet(Stacks)
  BY Facts, TrekAssumption
<1>2. \A i \in 0 .. n : f[i] \in D /\ d[f[i]] = i
  BY FilledBelow DEF Filled
<1> HIDE DEF f, n
<1>3. f \in Injection(0 .. n, AllStacks)
  <2>1. f \in [0 .. n -> AllStacks]
    BY <1>1, <1>2 DEF f
  <2>2. \A i, j \in 0 .. n : f[i] = f[j] => i = j
    BY <1>2
  <2>. QED  BY <2>1, <2>2 DEF Injection, IsInjective
<1>4. IsFiniteSet(AllStacks) /\ Cardinality(AllStacks) = Cardinality(Stacks) + 1
      /\ Cardinality(Stacks) \in Nat
  BY <1>1, FS_AddElement, FS_CardinalityType DEF AllStacks
<1>5. Cardinality(0 .. n) = n + 1
  <2>1. 0 \in Int /\ n \in Int /\ 0 <= n
    BY <1>1
  <2>2. IsFiniteSet(0 .. n) /\ Cardinality(0 .. n) = IF 0 > n THEN 0 ELSE n - 0 + 1
    BY <2>1, FS_Interval
  <2>3. (IF 0 > n THEN 0 ELSE n - 0 + 1) = n + 1
    BY <2>1
  <2>. QED  BY <2>2, <2>3
<1>6. Cardinality(0 .. n) <= Cardinality(AllStacks)
  BY <1>3, <1>4, FS_Injection
<1>7. n + 1 <= Cardinality(Stacks) + 1
  BY <1>4, <1>5, <1>6
<1>8. n <= Cardinality(Stacks)
  BY <1>1, <1>4, <1>7
<1>. QED  BY <1>4, <1>8 DEF n

\* The rounds of SegmentsWithin.
Round(e, f, n) ==
  [t \in AllStacks |->
     IF n = 0 \/ t = Main \/ Owner(t) = e
     THEN <<SegmentOf(t)>>
     ELSE Append(f[n - 1][Below(t)], SegmentOf(t))]
Rounds(e, f, N) == f = [n \in 0 .. N |-> Round(e, f, n)]

LEMMA RoundLocal ==
  ASSUME NEW e, NEW f, NEW g, NEW n, n = 0 \/ f[n - 1] = g[n - 1]
  PROVE  Round(e, f, n) = Round(e, g, n)
BY DEF Round

LEMMA RoundsExist ==
  ASSUME NEW e, NEW N \in Nat
  PROVE  \E f : Rounds(e, f, N)
<1> DEFINE S == {n \in Nat : \E f : Rounds(e, f, n)}
<1>1. 0 \in S
  <2> DEFINE x == Round(e, <<>>, 0)
             f == [n \in 0 .. 0 |-> x]
  <2>1. \A n \in 0 .. 0 : n = 0
    OBVIOUS
  <2>2. \A n \in 0 .. 0 : Round(e, f, n) = x
    BY <2>1, RoundLocal
  <2> HIDE DEF x
  <2>3. f = [n \in 0 .. 0 |-> Round(e, f, n)]
    BY <2>2
  <2>. QED  BY <2>3 DEF Rounds
<1>2. ASSUME NEW n \in Nat, n \in S PROVE n + 1 \in S
  <2>1. PICK f : Rounds(e, f, n)
    BY <1>2
  <2> DEFINE x == Round(e, f, n + 1)
             g == [i \in 0 .. n + 1 |-> IF i = n + 1 THEN x ELSE f[i]]
  <2>2. ASSUME NEW i \in 0 .. n + 1 PROVE g[i] = Round(e, g, i)
    <3>1. i = 0 \/ (i - 1 \in 0 .. n + 1 /\ i - 1 # n + 1)
      OBVIOUS
    <3>2. i = 0 \/ f[i - 1] = g[i - 1]
      BY <3>1
    <3>3. Round(e, f, i) = Round(e, g, i)
      BY <3>2, RoundLocal
    <3>4. i # n + 1 => f[i] = Round(e, f, i)
      BY <2>1 DEF Rounds
    <3>. QED  BY <3>3, <3>4
  <2> HIDE DEF x
  <2>3. g = [i \in 0 .. n + 1 |-> g[i]]
    OBVIOUS
  <2> HIDE DEF g
  <2>4. g = [i \in 0 .. n + 1 |-> Round(e, g, i)]
    BY <2>2, <2>3
  <2>. QED  BY <2>4 DEF Rounds
<1> HIDE DEF S
<1>3. N \in S
  BY <1>1, <1>2, NatSetInduction
<1>. QED  BY <1>3 DEF S

LEMMA LineGrows ==
  ASSUME TypeOK, NEW D, NEW H, NEW d, IsChained(D, H, d), NEW t \in D, d[t] > 0,
         NEW q, IsLine(q, mem, D, H, d, H[t], d[t] - 1)
  PROVE  IsLine(Append(q, SegmentOf(t)), mem, D, H, d, H[t], d[t])
<1>1. /\ \A u \in D : d[u] \in Nat
      /\ \A u, v \in D : H[u] = H[v] /\ d[u] = d[v] => u = v
      /\ t \in AllStacks
  BY Facts
<1>2. SegmentOf(t) = Seg(mem, t) /\ Seg(mem, t) \in Segs
  BY <1>1, SegmentIsSeg, AllProper, FramesLen
<1>3. q \in Seq(Segs) /\ Len(q) = d[t]
      /\ \A u \in D : H[u] = H[t] /\ d[u] <= d[t] - 1 => q[d[u] + 1] = Seg(mem, u)
  BY <1>1 DEF IsLine
<1> DEFINE x == SegmentOf(t)
           b == Append(q, x)
<1>4. b \in Seq(Segs) /\ Len(b) = d[t] + 1 /\ b[d[t] + 1] = x
      /\ \A i \in 1 .. d[t] : b[i] = q[i]
  BY <1>2, <1>3
<1> HIDE DEF b
<1>5. ASSUME NEW u \in D, H[u] = H[t], d[u] <= d[t] PROVE b[d[u] + 1] = Seg(mem, u)
  <2>1. CASE d[u] = d[t]
    BY <1>1, <1>2, <1>4, <1>5, <2>1
  <2>2. CASE d[u] # d[t]
    <3>1. d[u] <= d[t] - 1 /\ d[u] + 1 \in 1 .. d[t]
      BY <1>1, <1>5, <2>2
    <3>. QED  BY <1>3, <1>4, <1>5, <3>1
  <2>. QED  BY <2>1, <2>2
<1>. QED  BY <1>4, <1>5 DEF IsLine, b

LEMMA LineStarts ==
  ASSUME TypeOK, NEW D, NEW H, NEW d, IsChained(D, H, d), NEW t \in D, d[t] = 0
  PROVE  IsLine(<<SegmentOf(t)>>, mem, D, H, d, H[t], 0)
<1>1. /\ \A u \in D : d[u] \in Nat
      /\ \A u, v \in D : H[u] = H[v] /\ d[u] = d[v] => u = v
      /\ t \in AllStacks
  BY Facts
<1>2. SegmentOf(t) = Seg(mem, t) /\ Seg(mem, t) \in Segs
  BY <1>1, SegmentIsSeg, AllProper, FramesLen
<1>3. \A u \in D : H[u] = H[t] /\ d[u] <= 0 => u = t /\ d[u] = 0
  BY <1>1
<1>. QED  BY <1>2, <1>3 DEF IsLine

\* Following the exchangers from t down to the first stack owned by e.
LEMMA SegmentsAreLine ==
  ASSUME TypeOK, NEW D, NEW H, NEW d, IsChained(D, H, d), NEW t \in D, NEW e,
         \A u \in D : H[u] = H[t] => (d[u] = 0 <=> u = Main \/ Own(mem, u) = e)
  PROVE  IsLine(Segments(t, e), mem, D, H, d, H[t], d[t])
<1> DEFINE N == Cardinality(Stacks)
           f == SegmentsWithin(e)
           S == {n \in Nat : n <= N => \A u \in D :
                   H[u] = H[t] /\ d[u] <= n => IsLine(f[n][u], mem, D, H, d, H[u], d[u])}
<1>1. /\ N \in Nat /\ d[t] <= N /\ D \subseteq AllStacks
      /\ \A u \in D : d[u] \in Nat /\ (d[u] > 0 => u # Main)
  BY DepthBound, Facts
<1>2. f = [n \in 0 .. N |-> Round(e, f, n)]
  <2>1. f = CHOOSE g : Rounds(e, g, N)
    BY DEF SegmentsWithin, Rounds, Round
  <2>2. Rounds(e, f, N)
    BY <1>1, <2>1, RoundsExist
  <2>. QED  BY <2>2 DEF Rounds
<1> HIDE DEF f, N
<1>3. \A n \in 0 .. N : f[n] = Round(e, f, n)
  BY <1>2
<1>4. ASSUME NEW n \in 0 .. N, NEW u \in D, H[u] = H[t], d[u] = 0
      PROVE  IsLine(f[n][u], mem, D, H, d, H[u], d[u])
  <2>1. u \in AllStacks /\ (u = Main \/ Owner(u) = e)
    BY <1>1, <1>4 DEF Own, Owner
  <2>2. f[n][u] = <<SegmentOf(u)>>
    BY ZenonT(20), <1>3, <2>1 DEF Round
  <2>. QED  BY <1>4, <2>2, LineStarts
<1>5. 0 \in S
  <2>1. 0 \in 0 .. N /\ \A u \in D : d[u] <= 0 => d[u] = 0
    BY <1>1
  <2>. QED  BY <1>4, <2>1
<1>6. ASSUME NEW n \in Nat, n \in S PROVE n + 1 \in S
  <2>. SUFFICES ASSUME n + 1 <= N, NEW u \in D, H[u] = H[t], d[u] <= n + 1
                PROVE  IsLine(f[n + 1][u], mem, D, H, d, H[u], d[u])
    OBVIOUS
  <2>1. n \in 0 .. N /\ n + 1 \in 0 .. N /\ n + 1 # 0 /\ (n + 1) - 1 = n
    BY <1>1
  <2>2. CASE d[u] = 0
    BY <1>4, <2>1, <2>2
  <2>3. CASE d[u] # 0
    <3>1. d[u] > 0 /\ u # Main /\ Owner(u) # e /\ u \in AllStacks
      BY <1>1, <2>3 DEF Own, Owner
    <3>2. Below(u) \in D /\ H[Below(u)] = H[u] /\ d[Below(u)] = d[u] - 1
      BY <3>1 DEF IsChained, Chained, Linked, Below, Owner, Own
    <3>3. IsLine(f[n][Below(u)], mem, D, H, d, H[u], d[u] - 1)
      <4>1. d[u] - 1 <= n /\ n <= N
        BY <1>1, <2>1
      <4>. QED  BY <1>6, <3>2, <4>1
    <3>4. f[n + 1][u] = Append(f[n][Below(u)], SegmentOf(u))
      <4>1. f[n + 1] = Round(e, f, n + 1)
        BY <1>3, <2>1
      <4>2. Round(e, f, n + 1)[u] = Append(f[(n + 1) - 1][Below(u)], SegmentOf(u))
        BY <2>1, <3>1 DEF Round
      <4>. QED  BY <2>1, <4>1, <4>2
    <3>. QED  BY <3>1, <3>3, <3>4, LineGrows
  <2>. QED  BY <2>2, <2>3
<1> HIDE DEF S
<1>7. N \in S
  BY <1>1, <1>5, <1>6, NatSetInduction
<1>8. IsLine(f[N][t], mem, D, H, d, H[t], d[t])
  BY <1>1, <1>7 DEF S
<1>. QED  BY <1>8 DEF Segments, f, N

\* What the abstract specification sees.
CtxBar   == Segments(cur, Main)
ContsBar == [k \in Conts |-> IF Live(k) THEN Segments(rsp_sp(k).stk, exc(k)) ELSE <<>>]

Reads(q, qs, m, r, xs, cs, D, H, d) ==
  /\ IsLine(q, m, D, H, d, {}, d[r]) /\ Filled(D, H, d, {}, d[r])
  /\ \A k \in Conts : cs[k] = NoCont => qs[k] = <<>>
  /\ \A k \in Alive(cs) :
       LET n == d[Sp(xs, cs, k).stk]
       IN IsLine(qs[k], m, D, H, d, {k}, n) /\ Filled(D, H, d, {k}, n)

ReadsLines ==
  TypeOK => \A D, H, d : IsChained(D, H, d) =>
    Reads(CtxBar, ContsBar, mem, cur, exchanger, conts, D, H, d)

LEMMA Lines == ReadsLines
<1>. SUFFICES ASSUME NEW D, NEW H, NEW d, TypeOK, IsChained(D, H, d)
              PROVE  Reads(CtxBar, ContsBar, mem, cur, exchanger, conts, D, H, d)
  BY DEF ReadsLines
<1>1. /\ cur \in D /\ H[cur] = {} /\ Main \notin Stacks
      /\ \A u \in D : /\ d[u] \in Nat /\ (d[u] > 0 => u # Main) /\ (H[u] # {} => u # Main)
                      /\ (H[u] = {} /\ d[u] = 0 => u = Main)
                      /\ (u # Main => Own(mem, u) \in Stacks)
  BY Facts
<1>2. IsLine(CtxBar, mem, D, H, d, {}, d[cur]) /\ Filled(D, H, d, {}, d[cur])
  <2>1. \A u \in D : H[u] = H[cur] => (d[u] = 0 <=> u = Main \/ Own(mem, u) = Main)
    BY <1>1
  <2>. QED  BY <1>1, <2>1, SegmentsAreLine, FilledBelow DEF CtxBar
<1>3. \A k \in Conts : conts[k] = NoCont => ContsBar[k] = <<>>
  BY DEF ContsBar, Live
<1>4. ASSUME NEW k \in Alive(conts)
      PROVE  LET n == d[Sp(exchanger, conts, k).stk]
             IN IsLine(ContsBar[k], mem, D, H, d, {k}, n) /\ Filled(D, H, d, {k}, n)
  <2> DEFINE t == Sp(exchanger, conts, k).stk
             e == Ex(conts, k)
  <2>1. k \in Conts /\ Live(k) /\ rsp_sp(k).stk = t /\ exc(k) = e
    BY Scope DEF Alive, Live
  <2>2. ContsBar[k] = Segments(t, e)
    BY <2>1 DEF ContsBar
  <2>3. t \in D /\ H[t] = {k} /\ \A u \in D : H[u] = {k} => (d[u] = 0 <=> Own(mem, u) = e)
    BY DEF IsChained, Chained, Held
  <2> HIDE DEF t, e
  <2>4. \A u \in D : H[u] = H[t] => (d[u] = 0 <=> u = Main \/ Own(mem, u) = e)
    BY <1>1, <2>3
  <2>5. IsLine(Segments(t, e), mem, D, H, d, H[t], d[t]) /\ Filled(D, H, d, H[t], d[t])
    BY <2>3, <2>4, SegmentsAreLine, FilledBelow
  <2>. QED  BY <2>2, <2>3, <2>5 DEF t
<1>. QED  BY <1>2, <1>3, <1>4 DEF Reads

LEMMA NextLines ==
  ASSUME TypeOK', NEW D, NEW H, NEW d, NextChained(D, H, d)
  PROVE  Reads(CtxBar', ContsBar', mem', cur', exchanger', conts', D, H, d)
<1>1. ReadsLines'
  BY Lines, PTL
<1>2. IsChained(D, H, d)'
  BY DEF IsChained, NextChained
<1>. QED  BY <1>1, <1>2 DEF ReadsLines

\* The stacks a resumption holds, read off the next state's placement.
ReadsCaptured ==
  TypeOK => \A D, H, d : IsChained(D, H, d) =>
    \A k \in Alive(conts) : Captured(k) = {u \in D : H[u] = {k}}

LEMMA CapturedLines == ReadsCaptured
BY Scope DEF ReadsCaptured

LEMMA NextCaptured ==
  ASSUME TypeOK', NEW D, NEW H, NEW d, NextChained(D, H, d), NEW k \in Alive(conts')
  PROVE  Captured(k)' = {u \in D : H[u] = {k}}
<1>1. ReadsCaptured'
  BY CapturedLines, PTL
<1>2. IsChained(D, H, d)'
  BY DEF IsChained, NextChained
<1>3. k \in Alive(conts)'
  OBVIOUS
<1>. QED  BY <1>1, <1>2, <1>3 DEF ReadsCaptured

SameDepth(d, d2, D2, H2, k) == \A u \in D2 : H2[u] = {k} => d2[u] = d[u]

\* A resumption that the step leaves alone holds the same segments.
LEMMA OthersStay ==
  ASSUME Contract, TypeOK, TypeOK', NEW D, NEW H, NEW d, IsChained(D, H, d), [Next]_vars,
         NEW D2, NEW H2, NEW d2, NextChained(D2, H2, d2),
         NEW k \in Conts, conts'[k] = conts[k], SameDepth(d, d2, D2, H2, k)
  PROVE  ContsBar'[k] = ContsBar[k]
<1>1. /\ Reads(CtxBar, ContsBar, mem, cur, exchanger, conts, D, H, d)
      /\ Reads(CtxBar', ContsBar', mem', cur', exchanger', conts', D2, H2, d2)
  BY Lines, NextLines DEF ReadsLines
<1>2. CASE conts[k] = NoCont
  BY <1>1, <1>2 DEF Reads
<1>3. CASE k \in Alive(conts)
  <2> DEFINE S == Captured(k)
             t == Sp(exchanger, conts, k).stk
             t2 == Sp(exchanger', conts', k).stk
  <2>1. k \in Alive(conts') /\ S = {u \in D : H[u] = {k}} /\ S' = {u \in D2 : H2[u] = {k}}
    <3>1. k \in Alive(conts')
      BY <1>3 DEF Alive
    <3>. QED  BY <1>3, <3>1, Scope, NextCaptured
  <2>2. CapturedFrames(k)' = CapturedFrames(k)
    BY <1>3, IntactStep
  <2>3. S' = S /\ \A u \in S : mem'[u] = mem[u]
    BY <2>2 DEF CapturedFrames
  <2>4. t \in D /\ H[t] = {k} /\ \A u \in D : H[u] = {k} => d[u] <= d[t]
    BY <1>3 DEF IsChained, Chained, Held
  <2>5. t2 \in D2 /\ H2[t2] = {k} /\ \A u \in D2 : H2[u] = {k} => d2[u] <= d2[t2]
    BY <2>1 DEF NextChained, Chained, Held
  <2>6. /\ IsLine(ContsBar[k], mem, D, H, d, {k}, d[t])
        /\ IsLine(ContsBar'[k], mem', D2, H2, d2, {k}, d2[t2])
        /\ Filled(D2, H2, d2, {k}, d2[t2])
    BY <1>1, <1>3, <2>1 DEF Reads
  <2> HIDE DEF t, t2, S
  <2>7. \A u \in D : d[u] \in Nat
    BY Facts
  <2>8. t2 \in D /\ H[t2] = {k} /\ t \in D2 /\ H2[t] = {k}
    BY <2>1, <2>3, <2>4, <2>5
  <2>9. d2[t2] = d[t2] /\ d2[t] = d[t] /\ d[t] \in Nat /\ d[t2] \in Nat
    BY <2>4, <2>5, <2>7, <2>8 DEF SameDepth
  <2>10. d2[t2] = d[t]
    BY <2>4, <2>5, <2>8, <2>9
  <2>11. \A u \in D2 : H2[u] = {k} => u \in D /\ H[u] = {k} /\ d2[u] = d[u] /\ Seg(mem', u) = Seg(mem, u)
    BY <2>1, <2>3 DEF SameDepth, Seg, Own
  <2>12. IsLine(ContsBar[k], mem', D2, H2, d2, {k}, d2[t2])
    BY <2>6, <2>10, <2>11 DEF IsLine
  <2>13. d2[t2] \in Nat
    BY <2>9
  <2>. QED  BY <2>6, <2>12, <2>13, OneLine
<1>. QED  BY <1>2, <1>3 DEF Alive

-----------------------------------------------------------------------------
(***************************************************************************)
(* What can be done to a line.                                             *)
(***************************************************************************)
Places(D, H, d) ==
  /\ \A u \in D : d[u] \in Nat
  /\ \A u, v \in D : H[u] = H[v] /\ d[u] = d[v] => u = v

LEMMA ChainPlaces ==
  ASSUME TypeOK, NEW D, NEW H, NEW d, IsChained(D, H, d)
  PROVE  Places(D, H, d)
BY Facts DEF Places

AgreeBelow(m, m2, D, H, d, h, n) == \A u \in D : H[u] = h /\ d[u] < n => m2[u] = m[u]

LEMMA SameSeg ==
  ASSUME NEW m, NEW m2, NEW u, m2[u] = m[u]
  PROVE  Seg(m2, u) = Seg(m, u)
BY DEF Seg, Own

\* The topmost segment is replaced.
LEMMA LineTop ==
  ASSUME NEW D, NEW H, NEW d, Places(D, H, d), NEW h, NEW n \in Nat,
         NEW m, NEW q, IsLine(q, m, D, H, d, h, n),
         NEW t \in D, H[t] = h, d[t] = n,
         NEW m2, AgreeBelow(m, m2, D, H, d, h, n), NEW x, x = Seg(m2, t), x \in Segs
  PROVE  /\ IsLine(SubSeq(q, 1, Len(q) - 1) \o <<x>>, m2, D, H, d, h, n)
         /\ q # <<>> /\ Len(q) > 0 /\ q[Len(q)] = Seg(m, t)
<1> DEFINE b == SubSeq(q, 1, n) \o <<x>>
<1>1. q \in Seq(Segs) /\ Len(q) = n + 1 /\ Len(q) - 1 = n
      /\ \A u \in D : H[u] = h /\ d[u] <= n => q[d[u] + 1] = Seg(m, u)
  BY DEF IsLine
<1>2. SubSeq(q, 1, n) \in Seq(Segs) /\ Len(SubSeq(q, 1, n)) = n
      /\ \A i \in 1 .. n : SubSeq(q, 1, n)[i] = q[i]
  BY <1>1
<1>3. b \in Seq(Segs) /\ Len(b) = n + 1 /\ b[n + 1] = x /\ \A i \in 1 .. n : b[i] = q[i]
  BY <1>2
<1>4. b = SubSeq(q, 1, Len(q) - 1) \o <<x>>
  BY <1>1
<1> HIDE DEF b
<1>5. ASSUME NEW u \in D, H[u] = h, d[u] <= n PROVE b[d[u] + 1] = Seg(m2, u)
  <2>1. CASE d[u] = n
    BY <1>3, <1>5, <2>1 DEF Places
  <2>2. CASE d[u] # n
    <3>1. d[u] \in Nat /\ d[u] < n /\ d[u] + 1 \in 1 .. n
      BY <1>5, <2>2 DEF Places
    <3>2. Seg(m2, u) = Seg(m, u)
      BY <1>5, <3>1, SameSeg DEF AgreeBelow
    <3>. QED  BY <1>1, <1>3, <1>5, <3>1, <3>2
  <2>. QED  BY <2>1, <2>2
<1>6. IsLine(b, m2, D, H, d, h, n)
  BY <1>3, <1>5 DEF IsLine
<1>7. q[Len(q)] = Seg(m, t) /\ q # <<>> /\ Len(q) > 0
  BY <1>1
<1>. QED  BY <1>4, <1>6, <1>7

\* A line is cut.
LEMMA LineCut ==
  ASSUME NEW D, NEW H, NEW d, Places(D, H, d), NEW h, NEW n \in Nat,
         NEW m, NEW q, IsLine(q, m, D, H, d, h, n), NEW a \in 0 .. n
  PROVE  IsLine(SubSeq(q, 1, a + 1), m, D, H, d, h, a)
<1> DEFINE b == SubSeq(q, 1, a + 1)
<1>1. q \in Seq(Segs) /\ Len(q) = n + 1
      /\ \A u \in D : H[u] = h /\ d[u] <= n => q[d[u] + 1] = Seg(m, u)
  BY DEF IsLine
<1>2. b \in Seq(Segs) /\ Len(b) = a + 1 /\ \A i \in 1 .. a + 1 : b[i] = q[i]
  BY <1>1
<1> HIDE DEF b
<1>3. ASSUME NEW u \in D, H[u] = h, d[u] <= a PROVE b[d[u] + 1] = Seg(m, u)
  <2>1. d[u] \in Nat /\ d[u] <= n /\ d[u] + 1 \in 1 .. a + 1
    BY <1>3 DEF Places
  <2>. QED  BY <1>1, <1>2, <1>3, <2>1
<1>. QED  BY <1>2, <1>3 DEF IsLine, b

\* The placement and the memory change elsewhere.
Elsewhere(m, m2, D, H, d, D2, H2, d2, h, n) ==
  \A u \in D2 : H2[u] = h /\ d2[u] <= n =>
    u \in D /\ H[u] = h /\ d2[u] = d[u] /\ Seg(m2, u) = Seg(m, u)

LEMMA LineMoves ==
  ASSUME NEW D, NEW H, NEW d, NEW h, NEW n, NEW m, NEW q, IsLine(q, m, D, H, d, h, n),
         NEW m2, NEW D2, NEW H2, NEW d2, Elsewhere(m, m2, D, H, d, D2, H2, d2, h, n)
  PROVE  IsLine(q, m2, D2, H2, d2, h, n)
BY DEF IsLine, Elsewhere

-----------------------------------------------------------------------------
(***************************************************************************)
(* The next state's lines are what the step made of this state's.          *)
(***************************************************************************)
LEMMA ContextIs ==
  ASSUME TypeOK', NEW D, NEW H, NEW d, NextChained(D, H, d),
         NEW x, IsLine(x, mem', D, H, d, {}, d[cur'])
  PROVE  CtxBar' = x
<1>1. /\ IsLine(CtxBar', mem', D, H, d, {}, d[cur'])
      /\ Filled(D, H, d, {}, d[cur'])
  BY NextLines DEF Reads
<1>2. d[cur'] \in Nat
  BY DEF NextChained, Chained, Placed
<1>. QED  BY <1>1, <1>2, OneLine

LEMMA ResumptionIs ==
  ASSUME TypeOK', NEW D, NEW H, NEW d, NextChained(D, H, d), NEW k \in Alive(conts'),
         NEW n, n = d[Sp(exchanger', conts', k).stk],
         NEW x, IsLine(x, mem', D, H, d, {k}, n)
  PROVE  ContsBar'[k] = x
<1>1. IsLine(ContsBar'[k], mem', D, H, d, {k}, n) /\ Filled(D, H, d, {k}, n)
  BY NextLines DEF Reads
<1>2. n \in Nat
  BY DEF NextChained, Chained, Placed, Held
<1>. QED  BY <1>1, <1>2, OneLine

LEMMA ConsumedIs ==
  ASSUME TypeOK', NEW D, NEW H, NEW d, NextChained(D, H, d), NEW k \in Conts, conts'[k] = NoCont
  PROVE  ContsBar'[k] = <<>>
BY NextLines DEF Reads

LEMMA ContsBarShape == ContsBar = [k \in Conts |-> ContsBar[k]]
BY DEF ContsBar

ContsBarIsFunction == ContsBar = [k \in Conts |-> ContsBar[k]]
LEMMA NextContsBarShape == ContsBar' = [k \in Conts |-> ContsBar'[k]]
<1>1. ContsBarIsFunction
  BY ContsBarShape DEF ContsBarIsFunction
<1>2. ContsBarIsFunction'
  BY <1>1, PTL
<1>. QED  BY <1>2 DEF ContsBarIsFunction

\* The running chain is cut at r2; nothing is captured or resumed.
LEMMA CutsTo ==
  ASSUME Contract, TypeOK, TypeOK', [Next]_vars, NEW D, NEW H, NEW d, IsChained(D, H, d),
         NEW r2 \in D, H[r2] = {}, cur' = r2, conts' = conts, Cuts(D, H, d, r2),
         NEW x, IsLine(x, mem', D, H, d, {}, d[r2])
  PROVE  CtxBar' = x /\ ContsBar' = ContsBar
<1> DEFINE D2 == CutPlaces(D, H, d, r2)
           H2 == Restrict(H, D2)
           d2 == Restrict(d, D2)
<1>1. NextChained(D2, H2, d2)
  BY DEF Cuts
<1>2. /\ D2 \subseteq D /\ r2 \in D2
      /\ \A u \in D2 : H2[u] = H[u] /\ d2[u] = d[u]
  <2>1. D2 \subseteq D /\ r2 \in D2
    BY Facts DEF CutPlaces
  <2>2. DOMAIN H = D /\ DOMAIN d = D
    BY DEF IsChained, Chained, Placed
  <2> HIDE DEF D2
  <2>. QED  BY <2>1, <2>2 DEF Restrict
<1> HIDE DEF D2, H2, d2
<1>3. IsLine(x, mem', D2, H2, d2, {}, d2[cur'])
  BY <1>2 DEF IsLine
<1>4. CtxBar' = x
  BY <1>1, <1>3, ContextIs
<1>5. ASSUME NEW k \in Conts PROVE ContsBar'[k] = ContsBar[k]
  <2>1. SameDepth(d, d2, D2, H2, k)
    BY <1>2 DEF SameDepth
  <2>. QED  BY <1>1, <2>1, OthersStay
<1>6. ContsBar' = ContsBar
  BY <1>5, ContsBarShape, NextContsBarShape
<1>. QED  BY <1>4, <1>6

\* The top segment gets a frame, or loses one.
LEMMA PushLine ==
  ASSUME NEW D, NEW H, NEW d, Places(D, H, d), NEW h, NEW n \in Nat,
         NEW m, NEW q, IsLine(q, m, D, H, d, h, n),
         NEW t \in D, H[t] = h, d[t] = n,
         NEW m2, AgreeBelow(m, m2, D, H, d, h, n), Proper(m, t), Proper(m2, t),
         NEW f \in Frame, m2[t] = Append(m[t], f)
  PROVE  IsLine(Abstract!Push(q, AbstractFrame(f)), m2, D, H, d, h, n)
<1> DEFINE x == [Seg(m, t) EXCEPT !.frames = Append(@, AbstractFrame(f))]
<1>1. x = Seg(m2, t) /\ Seg(m2, t) \in Segs
  <2>1. Seg(m2, t) \in Segs
    BY FramesLen
  <2>2. Seg(m2, t) = [Seg(m, t) EXCEPT !.frames = Append(@, AbstractFrame(f))]
    BY SegPush
  <2>. QED  BY <2>1, <2>2
<1> HIDE DEF x
<1>2. /\ IsLine(SubSeq(q, 1, Len(q) - 1) \o <<x>>, m2, D, H, d, h, n)
      /\ q[Len(q)] = Seg(m, t)
  BY SMTT(20), <1>1, LineTop
<1>3. Abstract!Push(q, AbstractFrame(f)) = SubSeq(q, 1, Len(q) - 1) \o <<x>>
  BY <1>2 DEF Abstract!Push, Abstract!Front, Abstract!Last, x
<1>. QED  BY <1>2, <1>3

LEMMA PopLine ==
  ASSUME NEW D, NEW H, NEW d, Places(D, H, d), NEW h, NEW n \in Nat,
         NEW m, NEW q, IsLine(q, m, D, H, d, h, n),
         NEW t \in D, H[t] = h, d[t] = n,
         NEW m2, AgreeBelow(m, m2, D, H, d, h, n), Proper(m, t), Proper(m2, t),
         Base(t) < Len(m[t]), Len(m2[t]) = Len(m[t]) - 1,
         \A i \in 1 .. Len(m[t]) - 1 : m2[t][i] = m[t][i]
  PROVE  /\ IsLine(Abstract!Pop(q), m2, D, H, d, h, n)
         /\ q # <<>> /\ Abstract!Last(q).frames # <<>>
<1> DEFINE N == Len(m[t]) - 1
           x == [Seg(m, t) EXCEPT !.frames = SubSeq(@, 1, N - Base(t))]
<1>1. Base(t) \in {0, 1} /\ Len(m[t]) \in Nat /\ Len(Seg(m, t).frames) = Len(m[t]) - Base(t)
  BY FramesLen
<1>2. N \in Nat /\ Base(t) <= N /\ N <= Len(m[t]) /\ N - Base(t) = Len(Seg(m, t).frames) - 1
      /\ Len(Seg(m, t).frames) > 0
  BY <1>1
<1>3. Seg(m2, t) \in Segs /\ Len(m2[t]) = N /\ \A i \in 1 .. N : m2[t][i] = m[t][i]
  BY FramesLen
<1>4. x = [Seg(m, t) EXCEPT !.frames = SubSeq(@, 1, Len(@) - 1)]
  BY <1>2
<1> HIDE DEF N
<1>5. x = Seg(m2, t)
  BY <1>2, <1>3, SegCut
<1> HIDE DEF x
<1>6. x = Seg(m2, t) /\ x \in Segs
  BY <1>3, <1>5
<1>7. /\ IsLine(SubSeq(q, 1, Len(q) - 1) \o <<x>>, m2, D, H, d, h, n)
      /\ q # <<>> /\ q[Len(q)] = Seg(m, t)
  BY <1>6, LineTop
<1>8. Abstract!Pop(q) = SubSeq(q, 1, Len(q) - 1) \o <<x>>
  BY <1>4, <1>7 DEF Abstract!Pop, Abstract!Front, Abstract!Last
<1>9. Abstract!Last(q).frames # <<>>
  BY <1>2, <1>7 DEF Abstract!Last
<1>. QED  BY <1>7, <1>8, <1>9

ReadsProper ==
  TypeOK => \A D, H, d : IsChained(D, H, d) => \A u \in D : Proper(mem, u)
LEMMA ProperLines == ReadsProper
BY AllProper DEF ReadsProper

LEMMA NextProper ==
  ASSUME TypeOK', NEW D, NEW H, NEW d, NextChained(D, H, d), NEW u \in D
  PROVE  Proper(mem', u)
<1>1. ReadsProper'
  BY ProperLines, PTL
<1>2. IsChained(D, H, d)'
  BY DEF IsChained, NextChained
<1>. QED  BY <1>1, <1>2 DEF ReadsProper

LEMMA BaseBelow ==
  ASSUME NEW t, NEW n \in Nat, n > 0, t # Main => n # 1
  PROVE  Base(t) < n
<1>1. Base(t) = 0 \/ (Base(t) = 1 /\ t # Main)
  BY DEF Base
<1>2. n \in Nat /\ n > 0 /\ (t # Main => n # 1)
  OBVIOUS
<1>. QED  BY <1>1, <1>2

\* The running line.
LEMMA Running ==
  ASSUME TypeOK, NEW D, NEW H, NEW d, IsChained(D, H, d)
  PROVE  /\ IsLine(CtxBar, mem, D, H, d, {}, d[cur]) /\ Filled(D, H, d, {}, d[cur])
         /\ Places(D, H, d)
         /\ cur \in D /\ H[cur] = {} /\ d[cur] \in Nat /\ Proper(mem, cur)
         /\ CtxBar \in Seq(Segs) /\ Len(CtxBar) = d[cur] + 1
         /\ CtxBar # <<>> /\ CtxBar[Len(CtxBar)] = Seg(mem, cur)
<1>1. cur \in D /\ H[cur] = {} /\ d[cur] \in Nat
  BY Facts
<1>2. IsLine(CtxBar, mem, D, H, d, {}, d[cur]) /\ Filled(D, H, d, {}, d[cur])
  BY Lines DEF ReadsLines, Reads
<1>3. Places(D, H, d) /\ Proper(mem, cur)
  BY <1>1, ChainPlaces, AllProper
<1>4. CtxBar \in Seq(Segs) /\ Len(CtxBar) = d[cur] + 1 /\ CtxBar[d[cur] + 1] = Seg(mem, cur)
  BY <1>1, <1>2 DEF IsLine
<1>5. CtxBar # <<>> /\ CtxBar[Len(CtxBar)] = Seg(mem, cur)
  BY <1>1, <1>4
<1>. QED  BY <1>1, <1>2, <1>3, <1>4, <1>5

\* A cut at a stack leaves it in its chain.
LEMMA CutProper ==
  ASSUME TypeOK, TypeOK', NEW D, NEW H, NEW d, IsChained(D, H, d),
         NEW r2 \in D, Cuts(D, H, d, r2)
  PROVE  Proper(mem', r2)
<1> DEFINE D2 == CutPlaces(D, H, d, r2)
           H2 == Restrict(H, D2)
           d2 == Restrict(d, D2)
<1>1. r2 \in D2
  BY Facts DEF CutPlaces
<1>2. NextChained(D2, H2, d2)
  BY DEF Cuts
<1> HIDE DEF D2, H2, d2
<1>. QED  BY <1>1, <1>2, NextProper

-----------------------------------------------------------------------------
(***************************************************************************)
(* Each action, as the abstract specification sees it.                     *)
(***************************************************************************)
LEMMA CallMaps ==
  ASSUME Contract, TypeOK, TypeOK', [Next]_vars, NEW D, NEW H, NEW d, IsChained(D, H, d),
         (\E c \in CallSites : Call(c)) \/ HANDLE_ABORT
  PROVE  Abstract!Next
<1>1. /\ IsLine(CtxBar, mem, D, H, d, {}, d[cur]) /\ Places(D, H, d)
      /\ cur \in D /\ H[cur] = {} /\ d[cur] \in Nat /\ Proper(mem, cur)
  BY Running
<1>2. PICK f \in Frame : /\ mem' = PushOn(mem, cur, f)
                         /\ AbstractFrame(f) \in Abstract!Frames
  <2>1. ASSUME NEW c \in CallSites, Call(c)
        PROVE  /\ CallFrame(c) \in Frame /\ mem' = PushOn(mem, cur, CallFrame(c))
               /\ AbstractFrame(CallFrame(c)) \in Abstract!Frames
    BY <2>1, FrameTypes DEF Call, Pushed, CallFrame, PushOn, AbstractFrame, Abstract!Frames
  <2>2. ASSUME HANDLE_ABORT
        PROVE  /\ AbortFrame(cur) \in Frame /\ mem' = PushOn(mem, cur, AbortFrame(cur))
               /\ AbstractFrame(AbortFrame(cur)) \in Abstract!Frames
    <3>1. cur \in AllStacks
      BY Facts
    <3>. QED  BY <2>2, <3>1, FrameTypes DEF HANDLE_ABORT, PushOn, AbortFrame, AbstractFrame, Abstract!Frames
  <2>. QED  BY <2>1, <2>2
<1>3. cur' = cur /\ conts' = conts
  BY DEF Call, HANDLE_ABORT
<1>4. mem'[cur] = Append(mem[cur], f) /\ \A t \in AllStacks : t # cur => mem'[t] = mem[t]
  BY <1>2, Facts DEF PushOn, Memory
<1>5. Cuts(D, H, d, cur) /\ Proper(mem', cur)
  BY <1>1, CallStep, CutProper
<1>6. AgreeBelow(mem, mem', D, H, d, {}, d[cur])
  BY <1>1, <1>4, Facts DEF AgreeBelow
<1>7. IsLine(Abstract!Push(CtxBar, AbstractFrame(f)), mem', D, H, d, {}, d[cur])
  BY <1>1, <1>4, <1>5, <1>6, PushLine
<1>8. CtxBar' = Abstract!Push(CtxBar, AbstractFrame(f)) /\ ContsBar' = ContsBar
  BY <1>1, <1>3, <1>5, <1>7, CutsTo
<1>9. Abstract!Enter(AbstractFrame(f))
  BY <1>8 DEF Abstract!Enter, CtxBar, ContsBar
<1>. QED  BY <1>2, <1>9 DEF Abstract!Next

LEMMA ReturnMaps ==
  ASSUME Contract, TypeOK, TypeOK', [Next]_vars, NEW D, NEW H, NEW d, IsChained(D, H, d), Return
  PROVE  Abstract!Next
<1>1. /\ IsLine(CtxBar, mem, D, H, d, {}, d[cur]) /\ Places(D, H, d)
      /\ cur \in D /\ H[cur] = {} /\ d[cur] \in Nat /\ Proper(mem, cur)
  BY Running
<1>2. cur' = cur /\ conts' = conts /\ mem[cur] # <<>> /\ Last(mem[cur]).kind # "enter"
  BY DEF Return
<1>3. mem[cur] \in Seq(Frame) /\ cur \in AllStacks /\ Len(mem[cur]) \in Nat /\ Len(mem[cur]) > 0
  BY <1>1, <1>2 DEF Proper
<1>4. mem'[cur] = Front(mem[cur]) /\ \A t \in AllStacks : t # cur => mem'[t] = mem[t]
  BY <1>3, Facts DEF Return, Memory
<1>5. Len(mem'[cur]) = Len(mem[cur]) - 1 /\ \A i \in 1 .. Len(mem[cur]) - 1 : mem'[cur][i] = mem[cur][i]
  BY <1>3, <1>4 DEF Front
<1>6. Base(cur) < Len(mem[cur])
  <2>1. CASE cur = Main
    BY <1>3, <2>1, BaseBelow
  <2>2. CASE cur # Main
    <3>1. mem[cur][1].kind = "enter"
      BY <1>1, <2>2 DEF Proper, HasBase
    <3>2. Len(mem[cur]) # 1
      BY <1>2, <3>1 DEF Last
    <3>. QED  BY <1>3, <2>2, <3>2, BaseBelow
  <2>. QED  BY <2>1, <2>2
<1>7. Cuts(D, H, d, cur) /\ Proper(mem', cur)
  BY <1>1, ReturnStep, CutProper
<1>8. AgreeBelow(mem, mem', D, H, d, {}, d[cur])
  BY <1>1, <1>4, Facts DEF AgreeBelow
<1>9. IsLine(Abstract!Pop(CtxBar), mem', D, H, d, {}, d[cur])
      /\ Abstract!Last(CtxBar).frames # <<>>
  BY <1>1, <1>5, <1>6, <1>7, <1>8, PopLine
<1>10. CtxBar' = Abstract!Pop(CtxBar) /\ ContsBar' = ContsBar
  BY <1>1, <1>2, <1>7, <1>9, CutsTo
<1>11. Abstract!Return
  BY <1>9, <1>10 DEF Abstract!Return, CtxBar, ContsBar
<1>. QED  BY <1>11 DEF Abstract!Next

LEMMA LeaveMaps ==
  ASSUME Contract, TypeOK, TypeOK', [Next]_vars, NEW D, NEW H, NEW d, IsChained(D, H, d), ENTER_return
  PROVE  Abstract!Next
<1> DEFINE p == exchanger[Last(mem[cur]).at]
           m1 == [mem EXCEPT ![cur] = <<>>]
           q == Abstract!Front(CtxBar)
<1>1. /\ IsLine(CtxBar, mem, D, H, d, {}, d[cur]) /\ Places(D, H, d)
      /\ cur \in D /\ H[cur] = {} /\ d[cur] \in Nat /\ Proper(mem, cur)
      /\ Len(CtxBar) = d[cur] + 1 /\ CtxBar[Len(CtxBar)] = Seg(mem, cur)
  BY Running
<1>2. /\ cur # Main /\ HasBase(mem, cur) /\ mem \in Memory /\ cur \in AllStacks /\ D \subseteq AllStacks
      /\ (H[cur] = {} /\ d[cur] = 0 => cur = Main)
  BY <1>1, Facts DEF ENTER_return
<1>3. Last(mem[cur]).at = Own(mem, cur) /\ d[cur] > 0
  BY <1>1, <1>2, LastIsBase DEF ENTER_return
<1>4. p.stk \in D /\ H[p.stk] = {} /\ d[p.stk] = d[cur] - 1 /\ Wait(mem, p)
  BY <1>1, <1>3 DEF IsChained, Chained, Linked
<1>5. p \in SP
  <2>1. Last(mem[cur]) \in Frame /\ Last(mem[cur]).kind = "enter"
    BY PopType DEF ENTER_return, TypeOK
  <2>. QED  BY <2>1, FrameTypes DEF TypeOK
<1>6. /\ mem' = RetTo(m1, p) /\ cur' = p.stk /\ conts' = conts
  BY DEF ENTER_return
<1>7. m1 \in Memory /\ m1[p.stk] = mem[p.stk] /\ \A t \in AllStacks : t # cur => m1[t] = mem[t]
  BY <1>1, <1>2, <1>4 DEF Memory
<1>8. Cuts(D, H, d, p.stk)
  BY <1>3, ReturnToParent
<1> HIDE DEF p, m1
<1>9. Wait(m1, p)
  BY <1>4, <1>7 DEF Wait
<1>10. /\ \A t \in AllStacks : t # p.stk => mem'[t] = m1[t]
       /\ Len(mem'[p.stk]) = Len(m1[p.stk]) - 1
       /\ \A i \in 1 .. Len(m1[p.stk]) - 1 : mem'[p.stk][i] = m1[p.stk][i]
  BY <1>5, <1>6, <1>7, <1>9, RetFrame
<1>11. Proper(mem, p.stk) /\ Proper(mem', p.stk)
  BY <1>4, <1>8, AllProper, CutProper
<1>12. AgreeBelow(mem, mem', D, H, d, {}, d[p.stk])
  <2>. SUFFICES ASSUME NEW u \in D, H[u] = {}, d[u] < d[p.stk] PROVE mem'[u] = mem[u]
    BY DEF AgreeBelow
  <2>1. d[u] \in Nat
    BY Facts
  <2>2. u # p.stk /\ u # cur /\ u \in AllStacks
    BY <1>1, <1>2, <1>4, <2>1
  <2>. QED  BY <1>7, <1>10, <2>2
<1>13. IsLine(q, mem, D, H, d, {}, d[p.stk])
  <2>1. d[p.stk] \in 0 .. d[cur] /\ d[p.stk] + 1 = Len(CtxBar) - 1
    BY <1>1, <1>3, <1>4
  <2>2. IsLine(SubSeq(CtxBar, 1, d[p.stk] + 1), mem, D, H, d, {}, d[p.stk])
    BY <1>1, <2>1, LineCut
  <2>. QED  BY <2>1, <2>2 DEF Abstract!Front
<1>14. Base(p.stk) < Len(mem[p.stk])
  <2>1. mem[p.stk] \in Seq(Frame) /\ Len(mem[p.stk]) > 0 /\ mem[p.stk][Len(mem[p.stk])].kind = "call"
        /\ Len(mem[p.stk]) \in Nat
    BY <1>4, <1>11 DEF Wait, Proper
  <2>2. p.stk # Main => mem[p.stk][1].kind = "enter"
    BY <1>11 DEF Proper, HasBase
  <2>3. p.stk # Main => Len(mem[p.stk]) # 1
    BY <2>1, <2>2
  <2>. QED  BY <2>1, <2>3, BaseBelow
<1>15. d[p.stk] \in Nat
  BY <1>1, <1>3, <1>4
<1>16. Len(mem'[p.stk]) = Len(mem[p.stk]) - 1 /\ \A i \in 1 .. Len(mem[p.stk]) - 1 : mem'[p.stk][i] = mem[p.stk][i]
  BY <1>7, <1>10
<1> HIDE DEF q
<1>17. IsLine(Abstract!Pop(q), mem', D, H, d, {}, d[p.stk])
  BY <1>1, <1>4, <1>11, <1>12, <1>13, <1>14, <1>15, <1>16, PopLine
<1>18. CtxBar' = Abstract!Pop(q) /\ ContsBar' = ContsBar
  BY <1>4, <1>6, <1>8, <1>17, CutsTo
<1>19. Len(CtxBar) > 1 /\ Abstract!Last(CtxBar) = Seg(mem, cur)
  BY <1>1, <1>3 DEF Abstract!Last
<1>20. Seg(mem, cur).frames = <<>>
  <2>1. mem[cur] \in Seq(Frame) /\ mem[cur][Len(mem[cur])].kind = "enter" /\ Len(mem[cur]) \in Nat
    BY <1>1 DEF ENTER_return, Last, Proper
  <2>2. ~(Len(mem[cur]) > 1) \/ Len(mem[cur]) \notin DOMAIN mem[cur]
    BY <1>2, <2>1 DEF HasBase
  <2>3. Len(mem[cur]) - Base(cur) <= 0
    BY <1>2, <2>1, <2>2 DEF Base
  <2>4. Len(Seg(mem, cur).frames) = Len(mem[cur]) - Base(cur) /\ Seg(mem, cur).frames \in Seq(AFrames)
    BY <1>1, FramesLen
  <2>5. Len(Seg(mem, cur).frames) = 0
    BY <2>3, <2>4
  <2>. QED  BY <2>4, <2>5
<1>21. Abstract!Last(CtxBar).frames = <<>>
  BY <1>19, <1>20
<1>22. Abstract!Leave
  BY <1>18, <1>19, <1>21 DEF Abstract!Leave, CtxBar, ContsBar, q
<1>. QED  BY <1>22 DEF Abstract!Next

\* Of two segments of the running line under one prompt there is none below
\* another but the outermost.
LEMMA RunningPrompts ==
  ASSUME TypeOK, NEW D, NEW H, NEW d, IsChained(D, H, d), NEW w \in D, H[w] = {}, d[w] > 0
  PROVE  /\ d[w] + 1 \in 2 .. Len(CtxBar)
         /\ CtxBar[d[w] + 1] = Seg(mem, w)
         /\ Abstract!Innermost(d[w] + 1)
<1>1. /\ IsLine(CtxBar, mem, D, H, d, {}, d[cur]) /\ Filled(D, H, d, {}, d[cur])
      /\ Len(CtxBar) = d[cur] + 1 /\ d[cur] \in Nat
  BY Running
<1>2. \A u \in D : d[u] \in Nat /\ (d[u] > 0 => u # Main) /\ (H[u] = {} => d[u] <= d[cur])
  BY Facts
<1>3. CtxBar[d[w] + 1] = Seg(mem, w) /\ d[w] + 1 \in 2 .. Len(CtxBar)
  BY <1>1, <1>2 DEF IsLine
<1>4. ASSUME NEW j \in DOMAIN CtxBar, j > d[w] + 1
      PROVE  CtxBar[j].prompt # CtxBar[d[w] + 1].prompt
  <2>1. j \in 1 .. d[cur] + 1
    BY <1>1, <1>4, Running
  <2>2. j - 1 \in 0 .. d[cur] /\ j - 1 > d[w] /\ (j - 1) + 1 = j
    <3>1. d[w] \in Nat /\ d[cur] \in Nat
      BY <1>1, <1>2
    <3>. QED  BY <1>4, <2>1, <3>1
  <2>3. PICK u \in D : H[u] = {} /\ d[u] = j - 1
    BY <1>1, <2>2 DEF Filled
  <2>4. CtxBar[j] = Seg(mem, u) /\ d[u] > 0 /\ u # w /\ u # Main /\ w # Main
    BY <1>1, <1>2, <2>2, <2>3 DEF IsLine
  <2>5. Own(mem, u) # Own(mem, w)
    BY <2>4 DEF IsChained, Chained, OneUser
  <2>. QED  BY <1>3, <2>4, <2>5, SegShape
<1>. QED  BY <1>3, <1>4 DEF Abstract!Innermost, CtxBar

LEMMA AbortCuts ==
  ASSUME Contract, TypeOK, TypeOK', NEW D, NEW H, NEW d, IsChained(D, H, d),
         NEW p \in AbortTargets, RAISE_ABORT(p)
  PROVE  /\ p.stk \in D /\ H[p.stk] = {} /\ d[p.stk] \in Nat /\ d[p.stk] <= d[cur]
         /\ p.h \in Nat /\ p.h > 0 /\ p.h <= Len(mem[p.stk])
         /\ cur' = p.stk /\ conts' = conts /\ Cuts(D, H, d, p.stk)
         /\ Proper(mem, p.stk) /\ Proper(mem', p.stk)
         /\ Len(mem'[p.stk]) = p.h /\ \A i \in 1 .. p.h : mem'[p.stk][i] = mem[p.stk][i]
         /\ AgreeBelow(mem, mem', D, H, d, {}, d[p.stk])
         /\ IsLine(SubSeq(CtxBar, 1, d[p.stk] + 1), mem, D, H, d, {}, d[p.stk])
<1>1. p \in SP /\ p.stk \in D /\ H[p.stk] = {} /\ p.h > 0 /\ p.h <= Len(mem[p.stk])
  BY AbortPlace
<1>2. /\ cur \in AllStacks /\ mem \in Memory /\ D \subseteq AllStacks /\ cur \in D /\ H[cur] = {}
      /\ \A u \in D : d[u] \in Nat /\ (d[u] > 0 => u # Main) /\ (H[u] = {} => d[u] <= d[cur])
      /\ \A u, v \in D : H[u] = H[v] /\ d[u] = d[v] => u = v
  BY Facts
<1>3. p.h \in Nat
  BY <1>1 DEF SP
<1>4. Cuts(D, H, d, p.stk)
  BY AbortStep
<1>5. Proper(mem, p.stk) /\ Proper(mem', p.stk)
  BY <1>1, <1>4, AllProper, CutProper
<1> DEFINE m1 == IF LeavesStack(p) THEN [mem EXCEPT ![cur] = <<>>] ELSE mem
<1>6. mem' = CutTo(m1, p) /\ cur' = p.stk /\ conts' = conts
  BY DEF RAISE_ABORT
<1>7. m1 \in Memory /\ m1[p.stk] = mem[p.stk] /\ \A t \in AllStacks : t # cur => m1[t] = mem[t]
  BY <1>1, <1>2 DEF Memory, LeavesStack
<1> HIDE DEF m1
<1>8. /\ \A t \in AllStacks : t # p.stk => mem'[t] = m1[t]
      /\ Len(mem'[p.stk]) = p.h
      /\ \A i \in 1 .. p.h : mem'[p.stk][i] = m1[p.stk][i]
  BY <1>1, <1>6, <1>7, CutFrames
<1>9. AgreeBelow(mem, mem', D, H, d, {}, d[p.stk])
  <2>. SUFFICES ASSUME NEW u \in D, H[u] = {}, d[u] < d[p.stk] PROVE mem'[u] = mem[u]
    BY DEF AgreeBelow
  <2>1. u # p.stk /\ u # cur /\ u \in AllStacks
    BY <1>1, <1>2
  <2>. QED  BY <1>7, <1>8, <2>1
<1>10. IsLine(SubSeq(CtxBar, 1, d[p.stk] + 1), mem, D, H, d, {}, d[p.stk])
  <2>1. d[p.stk] \in 0 .. d[cur] /\ d[cur] \in Nat
    BY <1>1, <1>2
  <2>. QED  BY <2>1, Running, LineCut
<1>11. \A i \in 1 .. p.h : mem'[p.stk][i] = mem[p.stk][i]
  BY <1>7, <1>8
<1>. QED  BY <1>1, <1>2, <1>3, <1>4, <1>5, <1>6, <1>8, <1>9, <1>10, <1>11

LEMMA ConcatAppend ==
  ASSUME NEW S, NEW a \in Seq(S), NEW x \in S
  PROVE  a \o <<x>> = Append(a, x)
OBVIOUS

\* An abort to a general handler.
LEMMA AbortMaps ==
  ASSUME Contract, TypeOK, TypeOK', [Next]_vars, NEW D, NEW H, NEW d, IsChained(D, H, d),
         NEW e \in InScope, exchanger[e] \in AbortTargets, RAISE_ABORT(exchanger[e])
  PROVE  Abstract!Next
<1> DEFINE p == exchanger[e]
           q == SubSeq(CtxBar, 1, d[p.stk] + 1)
<1>1. PICK w \in D : H[w] = {} /\ d[w] > 0 /\ Own(mem, w) = e
  BY Scope
<1>2. p.stk \in D /\ H[p.stk] = {} /\ d[p.stk] = d[w] - 1 /\ p.h = Len(mem[p.stk])
  BY <1>1 DEF IsChained, Chained, Linked, Wait
<1>3. /\ d[p.stk] \in Nat /\ p.h \in Nat
      /\ cur' = p.stk /\ conts' = conts /\ Cuts(D, H, d, p.stk)
      /\ Proper(mem, p.stk) /\ Proper(mem', p.stk)
      /\ Len(mem'[p.stk]) = p.h /\ \A i \in 1 .. p.h : mem'[p.stk][i] = mem[p.stk][i]
      /\ AgreeBelow(mem, mem', D, H, d, {}, d[p.stk])
      /\ IsLine(q, mem, D, H, d, {}, d[p.stk])
  BY AbortCuts
<1> HIDE DEF p, q
<1>4. mem'[p.stk] = mem[p.stk]
  <2>1. mem'[p.stk] \in Seq(Frame) /\ mem[p.stk] \in Seq(Frame)
    BY <1>3 DEF Proper
  <2>. QED  BY <1>2, <1>3, <2>1, SeqEqual
<1>5. Elsewhere(mem, mem', D, H, d, D, H, d, {}, d[p.stk])
  <2>. SUFFICES ASSUME NEW u \in D, H[u] = {}, d[u] <= d[p.stk] PROVE Seg(mem', u) = Seg(mem, u)
    BY DEF Elsewhere
  <2>1. d[u] < d[p.stk] \/ d[u] = d[p.stk]
    BY <1>3, Facts
  <2>2. CASE d[u] < d[p.stk]
    BY <1>3, <2>2, SameSeg DEF AgreeBelow
  <2>3. CASE d[u] = d[p.stk]
    <3>1. Places(D, H, d)
      BY Running
    <3>2. u = p.stk
      BY <1>2, <2>3, <3>1 DEF Places
    <3>. QED  BY <1>4, <3>2, SameSeg
  <2>. QED  BY <2>1, <2>2, <2>3
<1>6. IsLine(q, mem', D, H, d, {}, d[p.stk])
  BY <1>3, <1>5, LineMoves
<1>7. CtxBar' = q /\ ContsBar' = ContsBar
  BY <1>2, <1>3, <1>6, CutsTo
<1>8. d[w] + 1 \in 2 .. Len(CtxBar) /\ Abstract!Innermost(d[w] + 1)
  BY <1>1, RunningPrompts
<1>9. q = SubSeq(CtxBar, 1, (d[w] + 1) - 1) /\ d[w] + 1 \in DOMAIN CtxBar
  <2>1. d[w] \in Nat /\ CtxBar \in Seq(Segs)
    BY <1>1, Facts, Running
  <2>2. d[p.stk] + 1 = (d[w] + 1) - 1
    BY <1>2, <2>1
  <2>. QED  BY <1>8, <2>1, <2>2 DEF q
<1>10. Abstract!Abort(d[w] + 1)
  BY <1>7, <1>8, <1>9 DEF Abstract!Abort, CtxBar, ContsBar
<1>. QED  BY <1>9, <1>10 DEF Abstract!Next, CtxBar

\* An abort to an abort handler.
LEMMA AbortInlineMaps ==
  ASSUME Contract, TypeOK, TypeOK', [Next]_vars, NEW D, NEW H, NEW d, IsChained(D, H, d),
         NEW t \in Context, NEW i \in AbortFrames(t), NEW p, p = StubExchanger(mem[t][i], i),
         p \in AbortTargets, RAISE_ABORT(p)
  PROVE  Abstract!Next
<1> DEFINE n == d[t]
           q == SubSeq(CtxBar, 1, n + 1)
           j == i - Base(t)
           x == [Seg(mem, t) EXCEPT !.frames = SubSeq(@, 1, j)]
<1>1. t \in D /\ H[t] = {} /\ t \in AllStacks /\ i \in DOMAIN mem[t] /\ mem[t][i].kind = "abort"
  BY Scope, Facts DEF AbortFrames
<1>2. p.stk = t /\ p.h = i
  <2>1. mem[t][i].at = t
    BY <1>1 DEF IsChained, Chained, Stubs
  <2>. QED  BY <2>1 DEF StubExchanger
<1>3. /\ n \in Nat /\ n <= d[cur] /\ i \in Nat /\ i > 0 /\ i <= Len(mem[t])
      /\ cur' = t /\ conts' = conts /\ Cuts(D, H, d, t)
      /\ Proper(mem, t) /\ Proper(mem', t)
      /\ Len(mem'[t]) = i /\ \A l \in 1 .. i : mem'[t][l] = mem[t][l]
      /\ AgreeBelow(mem, mem', D, H, d, {}, n)
      /\ IsLine(q, mem, D, H, d, {}, n)
  BY <1>2, AbortCuts
<1> HIDE DEF q
<1>4. Base(t) < i
  <2>1. t # Main => i # 1
    BY <1>1, <1>3 DEF Proper, HasBase
  <2>. QED  BY <1>3, <2>1, BaseBelow
<1>5. /\ Base(t) \in {0, 1} /\ Seg(mem, t).frames \in Seq(AFrames)
      /\ Len(Seg(mem, t).frames) = Len(mem[t]) - Base(t) /\ Len(mem[t]) \in Nat
      /\ \A l \in 1 .. Len(mem[t]) - Base(t) : Seg(mem, t).frames[l] = AbstractFrame(mem[t][l + Base(t)])
  BY <1>3, FramesLen
<1>6. j \in 1 .. Len(mem[t]) - Base(t) /\ j + Base(t) = i
  BY <1>3, <1>4, <1>5
<1>7. Seg(mem, t).frames[j] = AbstractFrame(mem[t][i]) /\ j \in DOMAIN Seg(mem, t).frames
  BY <1>5, <1>6
<1>8. Seg(mem, t).frames[j].kind = "abort"
  BY <1>1, <1>7 DEF AbstractFrame
<1>9. Base(t) <= i
  BY <1>3, <1>4, <1>5
<1>10. x = Seg(mem', t) /\ Seg(mem', t) \in Segs
  <2>1. x = Seg(mem', t)
    BY <1>3, <1>9, SegCut
  <2>. QED  BY <1>3, <2>1, FramesLen
<1> HIDE DEF n, j, x
<1>11. IsLine(SubSeq(q, 1, Len(q) - 1) \o <<x>>, mem', D, H, d, {}, n)
  <2>1. x = Seg(mem', t) /\ x \in Segs
    BY <1>10
  <2>2. Places(D, H, d) /\ d[t] = n
    BY Running DEF n
  <2>. QED  BY <1>1, <1>3, <2>1, <2>2, LineTop
<1>12. CtxBar' = SubSeq(q, 1, Len(q) - 1) \o <<x>> /\ ContsBar' = ContsBar
  BY <1>1, <1>3, <1>11, CutsTo DEF n
<1>13. /\ CtxBar \in Seq(Segs) /\ Len(CtxBar) = d[cur] + 1 /\ d[cur] \in Nat
       /\ CtxBar[n + 1] = Seg(mem, t)
  <2>1. /\ IsLine(CtxBar, mem, D, H, d, {}, d[cur]) /\ CtxBar \in Seq(Segs)
        /\ Len(CtxBar) = d[cur] + 1 /\ d[cur] \in Nat
    BY Running
  <2>2. t \in D /\ H[t] = {} /\ d[t] <= d[cur] /\ d[t] = n
    BY <1>1, <1>3 DEF n
  <2>. QED  BY <2>1, <2>2 DEF IsLine
<1>14. SubSeq(q, 1, Len(q) - 1) \o <<x>> = Append(SubSeq(CtxBar, 1, (n + 1) - 1), x)
       /\ n + 1 \in DOMAIN CtxBar
  <2>1. x \in Segs
    BY <1>10
  <2>2. q \in Seq(Segs) /\ Len(q) = n + 1 /\ \A l \in 1 .. n + 1 : q[l] = CtxBar[l]
    BY <1>3, <1>13 DEF q
  <2>3. SubSeq(q, 1, Len(q) - 1) = SubSeq(CtxBar, 1, (n + 1) - 1)
        /\ SubSeq(CtxBar, 1, (n + 1) - 1) \in Seq(Segs)
    <3> DEFINE a == SubSeq(q, 1, Len(q) - 1)
               b == SubSeq(CtxBar, 1, (n + 1) - 1)
    <3>1. a \in Seq(Segs) /\ Len(a) = n /\ \A l \in 1 .. n : a[l] = q[l]
      BY <1>3, <2>2
    <3>2. b \in Seq(Segs) /\ Len(b) = n /\ \A l \in 1 .. n : b[l] = CtxBar[l]
      BY <1>3, <1>13
    <3> HIDE DEF a, b
    <3>3. \A l \in 1 .. n : a[l] = b[l]
      BY <1>3, <2>2, <3>1, <3>2
    <3>4. a = b
      BY <1>3, <3>1, <3>2, <3>3, SeqEqual
    <3>. QED  BY <3>2, <3>4 DEF a, b
  <2>4. n + 1 \in DOMAIN CtxBar
    BY <1>3, <1>13
  <2>. QED  BY <2>1, <2>3, <2>4, ConcatAppend
<1>15. CtxBar' = Append(SubSeq(CtxBar, 1, (n + 1) - 1), [CtxBar[n + 1] EXCEPT !.frames = SubSeq(@, 1, j)])
  BY <1>12, <1>13, <1>14 DEF x
<1>16. CtxBar[n + 1].frames[j].kind = "abort" /\ j \in DOMAIN CtxBar[n + 1].frames
  BY <1>7, <1>8, <1>13
<1>17. Abstract!AbortInline(n + 1, j)
  BY <1>12, <1>15, <1>16 DEF Abstract!AbortInline, CtxBar, ContsBar
<1>. QED  BY <1>14, <1>16, <1>17 DEF Abstract!Next, CtxBar

\* A stack is put on top of a line.
Topped(m, m2, D, H, d, D2, H2, d2, h, n, s) ==
  /\ d2[s] = n + 1
  /\ \A u \in D2 : H2[u] = h /\ d2[u] <= n + 1 /\ u # s =>
       d2[u] <= n /\ u \in D /\ H[u] = h /\ d2[u] = d[u] /\ d2[u] \in Nat /\ Seg(m2, u) = Seg(m, u)

LEMMA LineAppend ==
  ASSUME NEW D, NEW H, NEW d, NEW h, NEW n \in Nat, NEW m, NEW q, IsLine(q, m, D, H, d, h, n),
         NEW m2, NEW D2, NEW H2, NEW d2, NEW s, Topped(m, m2, D, H, d, D2, H2, d2, h, n, s),
         NEW x, x = Seg(m2, s), x \in Segs
  PROVE  IsLine(Append(q, x), m2, D2, H2, d2, h, n + 1)
<1> DEFINE b == Append(q, x)
<1>1. q \in Seq(Segs) /\ Len(q) = n + 1
      /\ \A u \in D : H[u] = h /\ d[u] <= n => q[d[u] + 1] = Seg(m, u)
  BY DEF IsLine
<1>2. b \in Seq(Segs) /\ Len(b) = n + 2 /\ b[n + 2] = x /\ \A i \in 1 .. n + 1 : b[i] = q[i]
  BY <1>1
<1> HIDE DEF b
<1>3. ASSUME NEW u \in D2, H2[u] = h, d2[u] <= n + 1 PROVE b[d2[u] + 1] = Seg(m2, u)
  <2>1. CASE u = s
    <3>1. d2[u] + 1 = n + 2
      BY <2>1 DEF Topped
    <3>. QED  BY <1>2, <2>1, <3>1
  <2>2. CASE u # s
    <3>1. d2[u] <= n /\ u \in D /\ H[u] = h /\ d2[u] = d[u] /\ d2[u] \in Nat /\ Seg(m2, u) = Seg(m, u)
      BY <1>3, <2>2 DEF Topped
    <3>2. d2[u] + 1 \in 1 .. n + 1
      BY <3>1
    <3>. QED  BY <1>1, <1>2, <3>1, <3>2
  <2>. QED  BY <2>1, <2>2
<1>4. Len(b) = (n + 1) + 1
  BY <1>2
<1>. QED  BY <1>2, <1>3, <1>4 DEF IsLine, b

\* The caller's return address is pushed before a switch.
LEMMA PushedLine ==
  ASSUME TypeOK, NEW D, NEW H, NEW d, IsChained(D, H, d), NEW c \in CallSites
  PROVE  /\ IsLine(Abstract!Push(CtxBar, Abstract!Call(c)), Pushed(c), D, H, d, {}, d[cur])
         /\ Proper(Pushed(c), cur)
<1>1. /\ IsLine(CtxBar, mem, D, H, d, {}, d[cur]) /\ Places(D, H, d)
      /\ cur \in D /\ H[cur] = {} /\ d[cur] \in Nat /\ Proper(mem, cur)
  BY Running
<1>2. /\ Pushed(c) \in Memory /\ mem \in Memory /\ cur \in AllStacks /\ D \subseteq AllStacks
      /\ \A t \in AllStacks : t # cur => Pushed(c)[t] = mem[t]
      /\ Edited(mem, Pushed(c), cur)
  BY <1>1, PushedWaits, Facts
<1>3. CallFrame(c) \in Frame /\ AbstractFrame(CallFrame(c)) = Abstract!Call(c)
  BY FrameTypes DEF CallFrame, AbstractFrame, Abstract!Call
<1>4. Pushed(c)[cur] = Append(mem[cur], CallFrame(c)) /\ mem[cur] \in Seq(Frame)
  BY <1>2 DEF Pushed, Memory
<1>5. Pushed(c)[cur] # <<>> /\ Pushed(c)[cur] \in Seq(Frame)
  BY <1>3, <1>4
<1>6. cur = Main => NoBase(Pushed(c))
  BY <1>1, <1>2, EditedNoBase DEF Proper
<1>7. cur # Main => HasBase(Pushed(c), cur) /\ Own(Pushed(c), cur) = Own(mem, cur)
  BY <1>1, <1>2, <1>5, EditedBase DEF Proper
<1>8. Proper(Pushed(c), cur)
  BY <1>1, <1>5, <1>6, <1>7 DEF Proper
<1>9. AgreeBelow(mem, Pushed(c), D, H, d, {}, d[cur])
  BY <1>1, <1>2 DEF AgreeBelow, Places
<1>10. IsLine(Abstract!Push(CtxBar, AbstractFrame(CallFrame(c))), Pushed(c), D, H, d, {}, d[cur])
  BY <1>1, <1>3, <1>4, <1>8, <1>9, PushLine
<1>. QED  BY <1>3, <1>8, <1>10

\* Stack s is put on top of the running chain.
LEMMA GrowsTo ==
  ASSUME Contract, TypeOK, TypeOK', [Next]_vars, NEW D, NEW H, NEW d, IsChained(D, H, d),
         NEW s, s \notin D, Grows(D, H, d, s), cur' = s, conts' = conts, NEW c \in CallSites,
         \A u \in D : mem'[u] = Pushed(c)[u]
  PROVE  /\ CtxBar' = Append(Abstract!Push(CtxBar, Abstract!Call(c)), Seg(mem', s))
         /\ ContsBar' = ContsBar
         /\ Seg(mem', s) \in Segs /\ Proper(mem', s)
         /\ Abstract!Push(CtxBar, Abstract!Call(c)) \in Seq(Segs)
<1> DEFINE n == d[cur]
           q == Abstract!Push(CtxBar, Abstract!Call(c))
           D2 == D \cup {s}
           H2 == GrowHolder(D, H, s)
           d2 == GrowDepth(D, d, s, n + 1)
<1>1. NextChained(D2, H2, d2)
  BY DEF Grows
<1>2. /\ s \in D2 /\ H2[s] = {} /\ d2[s] = n + 1
      /\ \A u \in D2 : u # s => u \in D /\ H2[u] = H[u] /\ d2[u] = d[u]
  BY DEF GrowHolder, GrowDepth
<1>3. IsLine(q, Pushed(c), D, H, d, {}, n) /\ n \in Nat
  BY PushedLine, Running
<1> HIDE DEF n, q, D2, H2, d2
<1>4. Proper(mem', s) /\ Seg(mem', s) \in Segs
  BY <1>1, <1>2, NextProper, FramesLen
<1>5. \A u \in D : d[u] \in Nat /\ (H[u] = {} => d[u] <= n)
  BY Facts DEF n
<1>6. \A u \in D : Seg(mem', u) = Seg(Pushed(c), u)
  BY SameSeg
<1>7. Topped(Pushed(c), mem', D, H, d, D2, H2, d2, {}, n, s)
  BY <1>2, <1>5, <1>6 DEF Topped
<1>8. IsLine(Append(q, Seg(mem', s)), mem', D2, H2, d2, {}, d2[cur'])
  <2>1. IsLine(Append(q, Seg(mem', s)), mem', D2, H2, d2, {}, n + 1)
    BY <1>3, <1>4, <1>7, LineAppend
  <2>. QED  BY <1>2, <2>1
<1>9. CtxBar' = Append(q, Seg(mem', s))
  BY <1>1, <1>8, ContextIs
<1>10. ASSUME NEW k \in Conts PROVE ContsBar'[k] = ContsBar[k]
  <2>1. SameDepth(d, d2, D2, H2, k)
    BY <1>2 DEF SameDepth
  <2>. QED  BY <1>1, <2>1, OthersStay
<1>11. ContsBar' = ContsBar
  BY <1>10, ContsBarShape, NextContsBarShape
<1>. QED  BY <1>3, <1>4, <1>9, <1>11 DEF q, IsLine

\* Every prompt is that of a handler whose stack is in use.
LEMMA PromptsInUse ==
  ASSUME TypeOK, NEW D, NEW H, NEW d, IsChained(D, H, d), NEW h, NEW n \in Nat,
         NEW q, IsLine(q, mem, D, H, d, h, n), Filled(D, H, d, h, n), NEW i \in DOMAIN q
  PROVE  q[i].prompt \in inUse \cup {Main}
<1>1. i - 1 \in 0 .. n /\ (i - 1) + 1 = i
  BY DEF IsLine
<1>2. PICK u \in D : H[u] = h /\ d[u] = i - 1
  BY <1>1 DEF Filled
<1>3. d[u] <= n /\ d[u] + 1 = i
  BY <1>1, <1>2
<1>4. q[i] = Seg(mem, u)
  BY <1>2, <1>3 DEF IsLine
<1>5. u # Main => Own(mem, u) \in inUse
  BY Facts
<1>. QED  BY <1>4, <1>5, SegShape

LEMMA FreshPrompt ==
  ASSUME TypeOK, NEW D, NEW H, NEW d, IsChained(D, H, d), NEW s \in Stacks, s \notin inUse
  PROVE  Abstract!Fresh(s)
<1>1. s \notin inUse \cup {Main}
  BY Facts
<1>2. \A i \in DOMAIN CtxBar : CtxBar[i].prompt # s
  BY <1>1, Running, PromptsInUse
<1>3. ASSUME NEW k \in Conts, NEW i \in DOMAIN ContsBar[k] PROVE ContsBar[k][i].prompt # s
  <2>1. Reads(CtxBar, ContsBar, mem, cur, exchanger, conts, D, H, d)
    BY Lines DEF ReadsLines
  <2>2. CASE conts[k] = NoCont
    BY <1>3, <2>1, <2>2 DEF Reads
  <2>3. CASE k \in Alive(conts)
    <3> DEFINE n == d[Sp(exchanger, conts, k).stk]
    <3>1. IsLine(ContsBar[k], mem, D, H, d, {k}, n) /\ Filled(D, H, d, {k}, n)
      BY <2>1, <2>3 DEF Reads
    <3>2. n \in Nat
      BY <2>3, Facts DEF IsChained, Chained, Held
    <3> HIDE DEF n
    <3>. QED  BY <1>1, <1>3, <3>1, <3>2, PromptsInUse
  <2>. QED  BY <2>2, <2>3 DEF Alive
<1>. QED  BY <1>2, <1>3 DEF Abstract!Fresh, CtxBar, ContsBar

LEMMA HandleMaps ==
  ASSUME Contract, TypeOK, TypeOK', [Next]_vars, NEW D, NEW H, NEW d, IsChained(D, H, d),
         NEW s \in Stacks, NEW c \in CallSites, HANDLE(s, c)
  PROVE  Abstract!Next
<1>1. s \notin inUse /\ cur' = s /\ conts' = conts /\ mem' = [Pushed(c) EXCEPT ![s] = <<EnterFrame(s)>>]
  BY DEF HANDLE
<1>2. Pushed(c) \in Memory /\ s \in AllStacks /\ s # Main
  BY PushedWaits, Facts DEF AllStacks
<1>3. s \notin D
  BY <1>1, <1>2, Facts
<1>4. mem'[s] = <<EnterFrame(s)>> /\ \A u \in AllStacks : u # s => mem'[u] = Pushed(c)[u]
  BY <1>1, <1>2 DEF Memory
<1>5. Grows(D, H, d, s)
  BY HandleStep
<1>6. \A u \in D : mem'[u] = Pushed(c)[u]
  BY <1>3, <1>4, Facts
<1>7. /\ CtxBar' = Append(Abstract!Push(CtxBar, Abstract!Call(c)), Seg(mem', s))
      /\ ContsBar' = ContsBar /\ Proper(mem', s)
  BY <1>1, <1>3, <1>5, <1>6, GrowsTo
<1>8. Seg(mem', s) = Abstract!Segment(s, <<>>)
  <2>1. Len(mem'[s]) = 1 /\ Own(mem', s) = s /\ Base(s) = 1
    BY <1>2, <1>4 DEF Own, EnterFrame, Base
  <2>2. Seg(mem', s).frames \in Seq(AFrames) /\ Len(Seg(mem', s).frames) = 0
    BY <1>7, <2>1, FramesLen
  <2>3. Seg(mem', s).frames = <<>> /\ Seg(mem', s).prompt = s
    BY <1>2, <2>1, <2>2, SegShape
  <2>. QED  BY <2>3, SegShape DEF Abstract!Segment
<1>9. Abstract!Fresh(s)
  BY <1>1, FreshPrompt
<1>10. Abstract!Handle(s, c)
  BY <1>7, <1>8, <1>9 DEF Abstract!Handle, CtxBar, ContsBar
<1>. QED  BY <1>10 DEF Abstract!Next

HeldBy(H, t, k) == H[t] = {k}

\* The line of a resumption, and the stack on its top.
LEMMA HeldLine ==
  ASSUME TypeOK, NEW D, NEW H, NEW d, IsChained(D, H, d), NEW k \in Alive(conts),
         NEW t, t = rsp_sp(k).stk
  PROVE  /\ IsLine(ContsBar[k], mem, D, H, d, {k}, d[t])
         /\ t \in D /\ HeldBy(H, t, k) /\ d[t] \in Nat /\ t # Main /\ t # cur /\ t \in inUse
         /\ Proper(mem, t) /\ Wait(mem, rsp_sp(k)) /\ rsp_sp(k) \in SP
         /\ Base(t) < Len(mem[t]) /\ ContsBar[k] # <<>>
<1> DEFINE p == rsp_sp(k)
<1>1. k \in Conts /\ p = Sp(exchanger, conts, k) /\ exc(k) = Ex(conts, k)
  BY Scope DEF Alive
<1>2. t \in D /\ H[t] = {k} /\ Wait(mem, p)
  BY <1>1 DEF IsChained, Chained, Held
<1>3. d[t] \in Nat /\ t # Main /\ t # cur /\ t \in inUse /\ Proper(mem, t)
  BY <1>2, Facts, AllProper
<1>4. p \in SP
  BY <1>1, ResumptionType DEF Alive, Live
<1>5. IsLine(ContsBar[k], mem, D, H, d, {k}, d[t])
  BY <1>1, Lines DEF ReadsLines, Reads
<1>6. Base(t) < Len(mem[t])
  <2>1. mem[t] \in Seq(Frame) /\ Len(mem[t]) > 0 /\ mem[t][Len(mem[t])].kind = "call"
        /\ Len(mem[t]) \in Nat
    BY <1>2, <1>3 DEF Wait, Proper
  <2>2. mem[t][1].kind = "enter"
    BY <1>3 DEF Proper, HasBase
  <2>3. Len(mem[t]) # 1
    BY <2>1, <2>2
  <2>. QED  BY <2>1, <2>3, BaseBelow
<1>7. ContsBar[k] # <<>>
  <2>1. Len(ContsBar[k]) = d[t] + 1
    BY <1>5 DEF IsLine
  <2>2. Len(ContsBar[k]) # 0
    BY <1>3, <2>1
  <2>. QED  BY <2>2
<1>. QED  BY <1>2, <1>3, <1>4, <1>5, <1>6, <1>7 DEF HeldBy

LEMMA CopyMaps ==
  ASSUME Contract, TypeOK, TypeOK', [Next]_vars, NEW D, NEW H, NEW d, IsChained(D, H, d),
         NEW k \in Conts, NEW s \in Stacks, NEW c \in CallSites, THROW(k, s, c)
  PROVE  Abstract!Next
<1> DEFINE p == rsp_sp(k)
           t == p.stk
           q == CopyOf(p, s)
           m1 == Duplicate(Pushed(c), t, s)
           m3 == [mem EXCEPT ![t] = mem'[s]]
           b == Abstract!Pop(ContsBar[k])
<1>1. /\ k \in Alive(conts) /\ s \notin inUse /\ cur' = s /\ conts' = conts /\ Copyable(k)
      /\ mem' = RetTo(m1, q)
  BY DEF THROW, Live, Alive, RESUME, CopyOf
<1>2. /\ IsLine(ContsBar[k], mem, D, H, d, {k}, d[t])
      /\ t \in D /\ H[t] = {k} /\ d[t] \in Nat /\ t # Main /\ t # cur /\ t \in inUse
      /\ Proper(mem, t) /\ Wait(mem, p) /\ p \in SP
      /\ Base(t) < Len(mem[t]) /\ ContsBar[k] # <<>>
  <2>1. p = rsp_sp(k) /\ t = rsp_sp(k).stk /\ k \in Alive(conts)
    BY <1>1
  <2> HIDE DEF p, t
  <2>2. /\ IsLine(ContsBar[k], mem, D, H, d, {k}, d[t])
        /\ t \in D /\ HeldBy(H, t, k) /\ d[t] \in Nat /\ t # Main /\ t # cur /\ t \in inUse
        /\ Proper(mem, t) /\ Wait(mem, rsp_sp(k)) /\ rsp_sp(k) \in SP
        /\ Base(t) < Len(mem[t]) /\ ContsBar[k] # <<>>
    BY <2>1, HeldLine
  <2>. QED  BY <2>1, <2>2 DEF HeldBy
<1>3. /\ s # t /\ s # Main /\ s \in AllStacks /\ t \in AllStacks /\ D \subseteq AllStacks /\ s \notin D
      /\ mem \in Memory
  BY <1>1, <1>2, Facts DEF AllStacks
<1>4. Own(mem, t) = exc(k) /\ d[t] = 0
  <2>1. Owner(t) = exc(k)
    BY <1>1 DEF Copyable, Contract
  <2>2. Own(mem, t) = Ex(conts, k)
    BY <1>1, <2>1, Scope DEF Own, Owner, Alive
  <2>. QED  BY <1>1, <1>2, <2>1, <2>2 DEF IsChained, Chained, Held, Own, Owner
<1>5. /\ Pushed(c) \in Memory /\ \A u \in AllStacks : u # cur => Pushed(c)[u] = mem[u]
  BY PushedWaits
<1>6. m1 \in Memory /\ m1[s] = mem[t] /\ \A u \in AllStacks : u # s => m1[u] = Pushed(c)[u]
  BY <1>2, <1>3, <1>5 DEF Duplicate, Memory
<1>7. q.stk = s /\ q.h = p.h /\ q \in SP
  BY <1>2, <1>3 DEF CopyOf, SP
<1> HIDE DEF p, t, q, m1
<1>8. Wait(m1, q)
  BY <1>2, <1>6, <1>7 DEF Wait, t
<1>9. /\ \A u \in AllStacks : u # s => mem'[u] = m1[u]
      /\ Len(mem'[s]) = Len(mem[t]) - 1
      /\ \A i \in 1 .. Len(mem[t]) - 1 : mem'[s][i] = mem[t][i]
  BY <1>1, <1>6, <1>7, <1>8, RetFrame
<1>10. Grows(D, H, d, s)
  BY CopyStep
<1>11. \A u \in D : mem'[u] = Pushed(c)[u]
  BY <1>3, <1>6, <1>9
<1>12. /\ CtxBar' = Append(Abstract!Push(CtxBar, Abstract!Call(c)), Seg(mem', s))
       /\ ContsBar' = ContsBar /\ Proper(mem', s) /\ Seg(mem', s) \in Segs
       /\ Abstract!Push(CtxBar, Abstract!Call(c)) \in Seq(Segs)
  BY <1>1, <1>3, <1>10, <1>11, GrowsTo
\* The copy holds the segment of the original, but for the frame returned to.
<1>13. m3[t] = mem'[s]
  BY <1>3 DEF Memory
<1> HIDE DEF m3
<1>14. Proper(m3, t) /\ Seg(m3, t) = Seg(mem', s)
  <2>1. Base(t) = 1 /\ Base(s) = 1 /\ Own(m3, t) = Own(mem', s)
    BY <1>2, <1>3, <1>13 DEF Base, Own
  <2>2. Proper(m3, t)
    BY <1>2, <1>3, <1>12, <1>13, <2>1 DEF Proper, HasBase
  <2>3. Seg(m3, t) = Seg(mem', s)
    BY <1>2, <1>3, <1>13, <2>1 DEF Seg
  <2>. QED  BY <2>2, <2>3
<1>15. AgreeBelow(mem, m3, D, H, d, {k}, d[t])
  BY <1>4, Facts DEF AgreeBelow
<1>16. IsLine(b, m3, D, H, d, {k}, d[t])
  <2>1. Places(D, H, d)
    BY Running
  <2>2. Len(m3[t]) = Len(mem[t]) - 1 /\ \A i \in 1 .. Len(mem[t]) - 1 : m3[t][i] = mem[t][i]
    BY <1>9, <1>13
  <2>. QED  BY <1>2, <1>14, <1>15, <2>1, <2>2, PopLine
<1> HIDE DEF b
<1>17. b = <<Seg(mem', s)>>
  <2>1. b \in Seq(Segs) /\ Len(b) = 1 /\ b[1] = Seg(mem', s)
    BY <1>2, <1>4, <1>14, <1>16 DEF IsLine
  <2>. QED  BY <2>1
<1>18. CtxBar' = Abstract!Push(CtxBar, Abstract!Call(c)) \o b
  BY <1>12, <1>17, ConcatAppend
<1>19. Abstract!ResumeCopy(k, c)
  BY <1>2, <1>12, <1>18 DEF Abstract!ResumeCopy, Abstract!Reinstate, CtxBar, ContsBar, b
<1>. QED  BY <1>19 DEF Abstract!Next

\* One line is put on another.
Joined(m1, m2, D, H, d, H2, d2, h1, h2, n1, n2) ==
  \A u \in D : H2[u] = h1 =>
    \/ H[u] = h1 /\ d2[u] = d[u] /\ d[u] \in Nat /\ d[u] <= n1 /\ Seg(m2, u) = Seg(m1, u)
    \/ H[u] = h2 /\ d2[u] = d[u] + n1 + 1 /\ d[u] \in Nat /\ d[u] <= n2

LEMMA LineConcat ==
  ASSUME NEW D, NEW H, NEW d, NEW h1, NEW h2, NEW n1 \in Nat, NEW n2 \in Nat, NEW m1, NEW m2,
         NEW a, IsLine(a, m1, D, H, d, h1, n1), NEW b, IsLine(b, m2, D, H, d, h2, n2),
         NEW H2, NEW d2, Joined(m1, m2, D, H, d, H2, d2, h1, h2, n1, n2)
  PROVE  IsLine(a \o b, m2, D, H2, d2, h1, n2 + n1 + 1)
<1> DEFINE q == a \o b
<1>1. /\ a \in Seq(Segs) /\ Len(a) = n1 + 1 /\ b \in Seq(Segs) /\ Len(b) = n2 + 1
      /\ \A u \in D : H[u] = h1 /\ d[u] <= n1 => a[d[u] + 1] = Seg(m1, u)
      /\ \A u \in D : H[u] = h2 /\ d[u] <= n2 => b[d[u] + 1] = Seg(m2, u)
  BY DEF IsLine
<1>2. q \in Seq(Segs) /\ Len(q) = (n2 + n1 + 1) + 1
  BY <1>1
<1>3. \A i \in 1 .. n1 + 1 : q[i] = a[i]
  BY <1>1
<1>4. \A i \in 1 .. n2 + 1 : q[i + n1 + 1] = b[i]
  BY <1>1
<1> HIDE DEF q
<1>5. ASSUME NEW u \in D, H2[u] = h1 PROVE q[d2[u] + 1] = Seg(m2, u)
  <2>1. CASE H[u] = h1 /\ d2[u] = d[u] /\ d[u] \in Nat /\ d[u] <= n1 /\ Seg(m2, u) = Seg(m1, u)
    <3>1. d[u] + 1 \in 1 .. n1 + 1
      BY <2>1
    <3>. QED  BY <1>1, <1>3, <2>1, <3>1
  <2>2. CASE H[u] = h2 /\ d2[u] = d[u] + n1 + 1 /\ d[u] \in Nat /\ d[u] <= n2
    <3>1. d[u] + 1 \in 1 .. n2 + 1 /\ d2[u] + 1 = (d[u] + 1) + n1 + 1
      BY <2>2
    <3>. QED  BY <1>1, <1>4, <2>2, <3>1
  <2>. QED  BY <1>5, <2>1, <2>2 DEF Joined
<1>. QED  BY <1>2, <1>5 DEF IsLine, q

\* What RESUME does to the stacks: the one resumed loses the frame it waits at.
LEMMA RetPops ==
  ASSUME NEW m \in Memory, NEW p \in SP, Wait(m, p), NEW t, t = p.stk,
         NEW m2, m2 = RetTo(m, p)
  PROVE  /\ \A u \in AllStacks : u # t => m2[u] = m[u]
         /\ Len(m2[t]) = Len(m[t]) - 1
         /\ \A i \in 1 .. Len(m[t]) - 1 : m2[t][i] = m[t][i]
  BY RetFrame

LEMMA ResumeMaps ==
  ASSUME Contract, TypeOK, TypeOK', [Next]_vars, NEW D, NEW H, NEW d, IsChained(D, H, d),
         NEW k \in Conts, NEW c \in CallSites, FINAL_THROW(k, c)
  PROVE  Abstract!Next
<1> DEFINE p == rsp_sp(k)
           t == p.stk
           n == d[cur]
           a == Abstract!Push(CtxBar, Abstract!Call(c))
           b == Abstract!Pop(ContsBar[k])
           H2 == ResumeHolder(D, H, k)
           d2 == ResumeDepth(D, H, d, k, cur)
<1>1. /\ k \in Alive(conts) /\ cur' = t /\ conts' = [conts EXCEPT ![k] = NoCont]
      /\ mem' = RetTo(Pushed(c), p)
  BY DEF FINAL_THROW, Live, Alive, RESUME
<1>2. /\ IsLine(ContsBar[k], mem, D, H, d, {k}, d[t])
      /\ t \in D /\ H[t] = {k} /\ d[t] \in Nat /\ t # Main /\ t # cur /\ t \in inUse
      /\ Proper(mem, t) /\ Wait(mem, p) /\ p \in SP
      /\ Base(t) < Len(mem[t]) /\ ContsBar[k] # <<>>
  <2>1. p = rsp_sp(k) /\ t = rsp_sp(k).stk /\ k \in Alive(conts)
    BY <1>1
  <2> HIDE DEF p, t
  <2>2. /\ IsLine(ContsBar[k], mem, D, H, d, {k}, d[t])
        /\ t \in D /\ HeldBy(H, t, k) /\ d[t] \in Nat /\ t # Main /\ t # cur /\ t \in inUse
        /\ Proper(mem, t) /\ Wait(mem, rsp_sp(k)) /\ rsp_sp(k) \in SP
        /\ Base(t) < Len(mem[t]) /\ ContsBar[k] # <<>>
    BY <2>1, HeldLine
  <2>. QED  BY <2>1, <2>2 DEF HeldBy
<1>3. NextChained(D, H2, d2)
  BY ResumeStep DEF Resumes
<1>4. /\ \A u \in D : H2[u] = IF H[u] = {k} THEN {} ELSE H[u]
      /\ \A u \in D : d2[u] = IF H[u] = {k} THEN d[u] + n + 1 ELSE d[u]
  BY DEF ResumeHolder, ResumeDepth
<1>5. /\ IsLine(a, Pushed(c), D, H, d, {}, n) /\ n \in Nat /\ Places(D, H, d)
  BY PushedLine, Running
<1>6. /\ Pushed(c) \in Memory /\ \A u \in AllStacks : u # cur => Pushed(c)[u] = mem[u]
  BY PushedWaits
<1>7. t \in AllStacks /\ D \subseteq AllStacks /\ H[cur] = {} /\ \A u \in D : d[u] \in Nat /\ (H[u] = {} => d[u] <= n)
  BY <1>2, Facts
<1>8. \A u \in D : H[u] = {k} => d[u] <= d[t]
  <2>1. Held(mem, exchanger, conts, D, H, d)
    BY DEF IsChained, Chained
  <2>2. t = Sp(exchanger, conts, k).stk
    BY <1>1, Scope
  <2> HIDE DEF t
  <2>. QED  BY <1>1, <2>1, <2>2 DEF Held
<1>9. Proper(mem', t)
  BY <1>2, <1>3, NextProper
<1> HIDE DEF p, n, a, b, H2, d2
<1>10. Wait(Pushed(c), p)
  BY <1>2, <1>6, <1>7 DEF Wait
<1>11. /\ \A u \in AllStacks : u # t => mem'[u] = Pushed(c)[u]
       /\ Len(mem'[t]) = Len(mem[t]) - 1
       /\ \A i \in 1 .. Len(mem[t]) - 1 : mem'[t][i] = mem[t][i]
  <2>1. Pushed(c)[t] = mem[t]
    BY <1>2, <1>6, <1>7
  <2>2. p \in SP /\ mem' = RetTo(Pushed(c), p) /\ Pushed(c) \in Memory /\ t = p.stk
    BY <1>1, <1>2, <1>6
  <2> HIDE DEF t
  <2>3. /\ \A u \in AllStacks : u # t => mem'[u] = Pushed(c)[u]
        /\ Len(mem'[t]) = Len(Pushed(c)[t]) - 1
        /\ \A i \in 1 .. Len(Pushed(c)[t]) - 1 : mem'[t][i] = Pushed(c)[t][i]
    BY <1>10, <2>2, RetPops
  <2>. QED  BY <2>1, <2>3
<1> HIDE DEF t
<1>12. AgreeBelow(mem, mem', D, H, d, {k}, d[t])
  <2>. SUFFICES ASSUME NEW u \in D, H[u] = {k}, d[u] < d[t] PROVE mem'[u] = mem[u]
    BY DEF AgreeBelow
  <2>1. d[u] # d[t]
    BY <1>2, <1>7
  <2>2. u # t /\ u # cur /\ u \in AllStacks
    BY <1>7, <2>1
  <2>. QED  BY <1>6, <1>11, <2>2
<1>13. IsLine(b, mem', D, H, d, {k}, d[t])
  BY <1>2, <1>5, <1>9, <1>11, <1>12, PopLine DEF b
<1>14. Joined(Pushed(c), mem', D, H, d, H2, d2, {}, {k}, n, d[t])
  <2>. SUFFICES ASSUME NEW u \in D, H2[u] = {}
                PROVE  \/ H[u] = {} /\ d2[u] = d[u] /\ d[u] \in Nat /\ d[u] <= n /\ Seg(mem', u) = Seg(Pushed(c), u)
                       \/ H[u] = {k} /\ d2[u] = d[u] + n + 1 /\ d[u] \in Nat /\ d[u] <= d[t]
    BY DEF Joined
  <2>1. CASE H[u] = {k}
    BY <1>4, <1>7, <1>8, <2>1
  <2>2. CASE H[u] # {k}
    <3>1. H[u] = {} /\ d2[u] = d[u] /\ d[u] \in Nat /\ d[u] <= n
      BY <1>4, <1>7, <2>2
    <3>2. u # t /\ u \in AllStacks
      BY <1>2, <1>7, <2>2
    <3>3. Seg(mem', u) = Seg(Pushed(c), u)
      BY <1>11, <3>2, SameSeg
    <3>. QED  BY <3>1, <3>3
  <2>. QED  BY <2>1, <2>2
<1>15. IsLine(a \o b, mem', D, H2, d2, {}, d[t] + n + 1)
  BY <1>2, <1>5, <1>13, <1>14, LineConcat
<1>16. CtxBar' = a \o b
  <2>1. d2[cur'] = d[t] + n + 1
    BY <1>1, <1>2, <1>4
  <2>. QED  BY <1>3, <1>15, <2>1, ContextIs
<1>17. ContsBar' = [ContsBar EXCEPT ![k] = <<>>]
  <2>1. ContsBar'[k] = <<>>
    <3>1. conts'[k] = NoCont
      BY <1>1 DEF TypeOK
    <3>. QED  BY <1>3, <3>1, ConsumedIs
  <2>2. ASSUME NEW j \in Conts, j # k PROVE ContsBar'[j] = ContsBar[j]
    <3>1. conts'[j] = conts[j]
      BY <1>1, <2>2 DEF TypeOK
    <3>2. SameDepth(d, d2, D, H2, j)
      <4>1. \A u \in D : H2[u] = {j} => H[u] # {k}
        BY <1>4
      <4>. QED  BY <1>4, <4>1 DEF SameDepth
    <3>. QED  BY <1>3, <3>1, <3>2, OthersStay
  <2>. QED  BY <2>1, <2>2, ContsBarShape, NextContsBarShape
<1>18. Abstract!Resume(k, c)
  BY <1>2, <1>16, <1>17 DEF Abstract!Resume, Abstract!Reinstate, CtxBar, ContsBar, a, b
<1>. QED  BY <1>18 DEF Abstract!Next

\* A line is cut off below.
Lifted(m, m2, D, H, d, H2, d2, h, h2, a, n) ==
  \A u \in D : H2[u] = h2 =>
    H[u] = h /\ d[u] \in Nat /\ d[u] >= a /\ d[u] <= n /\ d2[u] = d[u] - a /\ Seg(m2, u) = Seg(m, u)

LEMMA LineTail ==
  ASSUME NEW D, NEW H, NEW d, NEW h, NEW n \in Nat, NEW m, NEW q, IsLine(q, m, D, H, d, h, n),
         NEW a \in 0 .. n, NEW m2, NEW H2, NEW d2, NEW h2, Lifted(m, m2, D, H, d, H2, d2, h, h2, a, n)
  PROVE  IsLine(SubSeq(q, a + 1, n + 1), m2, D, H2, d2, h2, n - a)
<1> DEFINE b == SubSeq(q, a + 1, n + 1)
<1>1. q \in Seq(Segs) /\ Len(q) = n + 1
      /\ \A u \in D : H[u] = h /\ d[u] <= n => q[d[u] + 1] = Seg(m, u)
  BY DEF IsLine
<1>2. b \in Seq(Segs) /\ Len(b) = (n - a) + 1 /\ \A i \in 1 .. (n - a) + 1 : b[i] = q[i + a]
  BY SMTT(20), <1>1
<1> HIDE DEF b
<1>3. ASSUME NEW u \in D, H2[u] = h2 PROVE b[d2[u] + 1] = Seg(m2, u)
  <2>1. H[u] = h /\ d[u] \in Nat /\ d[u] >= a /\ d[u] <= n /\ d2[u] = d[u] - a /\ Seg(m2, u) = Seg(m, u)
    BY <1>3 DEF Lifted
  <2>2. d2[u] + 1 \in 1 .. (n - a) + 1 /\ (d2[u] + 1) + a = d[u] + 1
    BY <2>1
  <2>. QED  BY <1>1, <1>2, <2>1, <2>2
<1>. QED  BY <1>2, <1>3 DEF IsLine, b

\* The stacks after a raise, and where its resumption waits.
LEMMA RaisedFrames ==
  ASSUME TypeOK, NEW D, NEW H, NEW d, IsChained(D, H, d),
         NEW k \in Conts, NEW e \in Stacks, NEW c \in CallSites, RAISE(k, e, c) \/ RAISE_M(k, e, c),
         NEW w \in D, H[w] = {}, d[w] > 0, e = Own(mem, w)
  PROVE  /\ \A t \in AllStacks : mem'[t] = Pushed(c)[t]
         /\ cur' \in D /\ H[cur'] = {} /\ d[cur'] = d[w] - 1
         /\ conts[k] = NoCont /\ \A j \in Conts : j # k => conts'[j] = conts[j]
         /\ Sp(exchanger', conts', k).stk = cur
<1> DEFINE p == exchanger[e]
<1>1. p.stk \in D /\ H[p.stk] = {} /\ d[p.stk] = d[w] - 1 /\ Wait(mem, p)
  BY DEF IsChained, Chained, Linked
<1>2. mem' = CutTo(Pushed(c), p) /\ cur' = p.stk /\ exchanger' = [exchanger EXCEPT ![e] = rsp]
  BY DEF RAISE, RAISE_M, Swap
<1>3. p \in SP /\ p.stk \in AllStacks /\ p.h \in Nat
  BY DEF TypeOK, SP
<1>4. /\ Pushed(c) \in Memory /\ rsp.stk = cur
      /\ \A t \in AllStacks : t # cur => Pushed(c)[t] = mem[t]
  BY PushedWaits
<1>5. p.stk # cur
  <2>1. d[w] <= d[cur] /\ d[w] \in Nat /\ d[cur] \in Nat
    BY Facts
  <2>. QED  BY <1>1, <2>1
<1> HIDE DEF p
<1>6. p.h = Len(Pushed(c)[p.stk])
  BY <1>1, <1>3, <1>4, <1>5 DEF Wait
<1>7. /\ mem' \in Memory
      /\ \A t \in AllStacks : t # p.stk => mem'[t] = Pushed(c)[t]
      /\ Len(mem'[p.stk]) = p.h
      /\ \A i \in 1 .. p.h : mem'[p.stk][i] = Pushed(c)[p.stk][i]
  <2>1. p.h <= Len(Pushed(c)[p.stk])
    BY <1>3, <1>6
  <2>. QED  BY <1>2, <1>3, <1>4, <2>1, CutFrames
<1>8. mem'[p.stk] = Pushed(c)[p.stk]
  <2>1. mem'[p.stk] \in Seq(Frame) /\ Pushed(c)[p.stk] \in Seq(Frame)
    BY <1>3, <1>4, <1>7 DEF Memory
  <2>. QED  BY <1>6, <1>7, <2>1, SeqEqual
<1>9. conts[k] = NoCont /\ \A j \in Conts : j # k => conts'[j] = conts[j]
  BY DEF RAISE, RAISE_M, Live, TypeOK
<1>10. Sp(exchanger', conts', k).stk = cur
  <2>1. CASE RAISE(k, e, c)
    <3>1. conts'[k] = [exchanger_ptr |-> e]
      BY <2>1 DEF RAISE, TypeOK
    <3>2. Sp(exchanger', conts', k) = exchanger'[e]
      BY <3>1 DEF Sp, Multi, Ex
    <3>. QED  BY <1>2, <1>4, <3>2 DEF TypeOK
  <2>2. CASE RAISE_M(k, e, c)
    <3>1. conts'[k] = NewResumption(e)
      BY <2>2 DEF RAISE_M, TypeOK
    <3>2. Sp(exchanger', conts', k) = rsp
      BY <3>1 DEF Sp, Multi, NewResumption
    <3>. QED  BY <1>4, <3>2
  <2>. QED  BY <2>1, <2>2
<1>. QED  BY <1>1, <1>2, <1>7, <1>8, <1>9, <1>10

LEMMA RaiseMaps ==
  ASSUME Contract, TypeOK, TypeOK', [Next]_vars, NEW D, NEW H, NEW d, IsChained(D, H, d),
         NEW k \in Conts, NEW e \in Stacks, NEW c \in CallSites, RAISE(k, e, c) \/ RAISE_M(k, e, c)
  PROVE  Abstract!Next
<1>1. PICK w \in D : H[w] = {} /\ d[w] > 0 /\ e = Own(mem, w) /\ Raises(D, H, d, k, w)
  BY RaiseSteps
<1> DEFINE n == d[cur]
           a == d[w]
           q == Abstract!Push(CtxBar, Abstract!Call(c))
           H2 == RaiseHolder(D, H, d, k, w)
           d2 == RaiseDepth(D, H, d, w)
<1>2. NextChained(D, H2, d2)
  BY <1>1 DEF Raises
<1>3. /\ \A u \in D : H2[u] = IF H[u] = {} /\ d[u] >= a THEN {k} ELSE H[u]
      /\ \A u \in D : d2[u] = IF H[u] = {} /\ d[u] >= a THEN d[u] - a ELSE d[u]
  BY DEF RaiseHolder, RaiseDepth
<1>4. /\ IsLine(q, Pushed(c), D, H, d, {}, n) /\ n \in Nat /\ Places(D, H, d)
      /\ IsLine(CtxBar, mem, D, H, d, {}, n) /\ Len(CtxBar) = n + 1
      /\ cur \in D /\ H[cur] = {} /\ CtxBar \in Seq(Segs)
  BY PushedLine, Running
<1>5. /\ D \subseteq AllStacks
      /\ \A u \in D : d[u] \in Nat
      /\ \A u \in D : H[u] = {} => d[u] <= n
  BY Facts
<1>6. a \in Nat /\ a > 0 /\ a <= n
  BY <1>1, <1>5
<1>7. /\ \A t \in AllStacks : mem'[t] = Pushed(c)[t]
      /\ cur' \in D /\ H[cur'] = {} /\ d[cur'] = a - 1
      /\ conts[k] = NoCont /\ \A j \in Conts : j # k => conts'[j] = conts[j]
      /\ Sp(exchanger', conts', k).stk = cur
  BY <1>1, RaisedFrames
<1>8. \A u \in D : H[u] # {k}
  BY <1>7 DEF IsChained, Chained, Held, Alive
<1>9. \A t \in AllStacks : t # cur => mem'[t] = mem[t]
  BY <1>7, PushedWaits
<1>10. a + 1 \in 2 .. Len(CtxBar) /\ Abstract!Innermost(a + 1)
  BY <1>1, RunningPrompts
<1> HIDE DEF n, a, q, H2, d2
\* What stays.
<1>11. IsLine(SubSeq(CtxBar, 1, a), mem, D, H, d, {}, a - 1)
  <2>1. a - 1 \in 0 .. n /\ (a - 1) + 1 = a
    BY <1>4, <1>6
  <2>2. IsLine(SubSeq(CtxBar, 1, (a - 1) + 1), mem, D, H, d, {}, a - 1)
    BY <1>4, <2>1, LineCut
  <2>. QED  BY <2>1, <2>2
<1>12. Elsewhere(mem, mem', D, H, d, D, H2, d2, {}, a - 1)
  <2>. SUFFICES ASSUME NEW u \in D, H2[u] = {} PROVE H[u] = {} /\ d2[u] = d[u] /\ Seg(mem', u) = Seg(mem, u)
    BY DEF Elsewhere
  <2>1. ~(H[u] = {} /\ d[u] >= a)
    BY <1>3
  <2>2. H[u] = {} /\ d2[u] = d[u]
    BY <1>3, <2>1
  <2>3. u # cur /\ u \in AllStacks
    BY <1>4, <1>5, <1>6, <2>1, <2>2 DEF n
  <2>. QED  BY <1>9, <2>2, <2>3, SameSeg
<1>13. CtxBar' = SubSeq(CtxBar, 1, a)
  <2>1. d2[cur'] = a - 1
    BY <1>3, <1>6, <1>7
  <2>2. IsLine(SubSeq(CtxBar, 1, a), mem', D, H2, d2, {}, a - 1)
    BY <1>11, <1>12, LineMoves
  <2>. QED  BY <1>2, <2>1, <2>2, ContextIs
\* What is captured.
<1>14. Lifted(Pushed(c), mem', D, H, d, H2, d2, {}, {k}, a, n)
  <2>. SUFFICES ASSUME NEW u \in D, H2[u] = {k}
                PROVE  /\ H[u] = {} /\ d[u] \in Nat /\ d[u] >= a /\ d[u] <= n /\ d2[u] = d[u] - a
                       /\ Seg(mem', u) = Seg(Pushed(c), u)
    BY DEF Lifted
  <2>1. H[u] = {} /\ d[u] >= a
    BY <1>3, <1>8
  <2>2. d[u] \in Nat /\ d[u] <= n /\ d2[u] = d[u] - a
    BY <1>3, <1>5, <2>1
  <2>3. Seg(mem', u) = Seg(Pushed(c), u)
    BY <1>5, <1>7, SameSeg
  <2>. QED  BY <2>1, <2>2, <2>3
<1>15. IsLine(SubSeq(q, a + 1, n + 1), mem', D, H2, d2, {k}, n - a)
  <2>1. a \in 0 .. n
    BY <1>4, <1>6
  <2>. QED  BY <1>4, <1>14, <2>1, LineTail
<1>16. ContsBar'[k] = SubSeq(q, a + 1, n + 1)
  <2>1. d2[cur] = n - a
    BY <1>3, <1>4, <1>6 DEF n
  <2>2. k \in Alive(conts')
    <3>1. CASE RAISE(k, e, c)
      <4>1. conts'[k] = [exchanger_ptr |-> e]
        BY <3>1 DEF RAISE, TypeOK
      <4>. QED  BY <4>1, TrekAssumption DEF Alive
    <3>2. CASE RAISE_M(k, e, c)
      <4>1. conts'[k] = [rsp_sp |-> rsp, exchanger_ptr |-> e]
        BY <3>2 DEF RAISE_M, TypeOK, NewResumption
      <4>2. rsp \in [stk : Stacks \cup {Main}, h : Nat]
        BY PushedWaits DEF SP, AllStacks
      <4>. QED  BY <4>1, <4>2, TrekAssumption DEF Alive
    <3>. QED  BY <3>1, <3>2
  <2>3. n - a = d2[Sp(exchanger', conts', k).stk]
    BY <1>7, <2>1
  <2>. QED  BY <1>2, <1>15, <2>2, <2>3, ResumptionIs
<1>17. ASSUME NEW j \in Conts, j # k PROVE ContsBar'[j] = ContsBar[j]
  <2>1. conts'[j] = conts[j]
    BY <1>7, <1>17
  <2>2. SameDepth(d, d2, D, H2, j)
    <3>1. \A u \in D : H2[u] = {j} => ~(H[u] = {} /\ d[u] >= a)
      BY <1>3, <1>17
    <3>. QED  BY <1>3, <3>1 DEF SameDepth
  <2>. QED  BY <1>2, <2>1, <2>2, OthersStay
<1>18. ContsBar' = [ContsBar EXCEPT ![k] = SubSeq(q, a + 1, Len(CtxBar))]
  BY <1>4, <1>16, <1>17, ContsBarShape, NextContsBarShape
<1>19. ContsBar[k] = <<>>
  BY <1>7 DEF ContsBar, Live
<1>20. CtxBar' = SubSeq(CtxBar, 1, (a + 1) - 1) /\ a + 1 \in DOMAIN CtxBar
  BY <1>4, <1>6, <1>13
<1>21. Abstract!Raise(k, a + 1, c)
  BY <1>10, <1>18, <1>19, <1>20 DEF Abstract!Raise, CtxBar, ContsBar, q
<1>. QED  BY <1>20, <1>21 DEF Abstract!Next, CtxBar

-----------------------------------------------------------------------------
LEMMA StepMaps ==
  Contract /\ TypeOK /\ TypeOK' /\ Chains /\ [Next]_vars => [Abstract!Next]_(Abstract!vars)
<1>. SUFFICES ASSUME Contract, TypeOK, TypeOK', Chains, [Next]_vars
              PROVE  Abstract!Next \/ Abstract!vars' = Abstract!vars
  OBVIOUS
<1>1. PICK D, H, d : IsChained(D, H, d)
  BY DEF Chains, IsChained
<1>2. CASE (\E c \in CallSites : Call(c)) \/ HANDLE_ABORT
  BY <1>1, <1>2, CallMaps
<1>3. CASE Return
  BY <1>1, <1>3, ReturnMaps
<1>4. CASE \E s \in Stacks, c \in CallSites : HANDLE(s, c)
  BY <1>1, <1>4, HandleMaps
<1>5. CASE ENTER_return
  BY <1>1, <1>5, LeaveMaps
<1>6. CASE \E k \in Conts, e \in Stacks, c \in CallSites : RAISE(k, e, c) \/ RAISE_M(k, e, c)
  BY <1>1, <1>6, RaiseMaps
<1>7. ASSUME NEW p \in AbortTargets, RAISE_ABORT(p) PROVE Abstract!Next
  <2>1. CASE \E e \in InScope : p = exchanger[e]
    BY <1>1, <1>7, <2>1, AbortMaps
  <2>2. CASE \E t \in Context : \E i \in AbortFrames(t) : p = StubExchanger(mem[t][i], i)
    BY <1>1, <1>7, <2>2, AbortInlineMaps
  <2>. QED  BY <1>7, <2>1, <2>2 DEF AbortTargets
<1>8. CASE \E k \in Conts, s \in Stacks, c \in CallSites : THROW(k, s, c)
  BY <1>1, <1>8, CopyMaps
<1>9. CASE \E k \in Conts, c \in CallSites : FINAL_THROW(k, c)
  BY <1>1, <1>9, ResumeMaps
<1>10. CASE UNCHANGED vars
  <2>1. UNCHANGED <<mem, cur, inUse, exchanger, conts, gc_sp>>
    BY <1>10 DEF vars
  <2>2. Chained(mem', cur', inUse', exchanger', conts', gc_sp', D, H, d)
    BY <1>1, <2>1 DEF IsChained
  <2>3. CtxBar' = CtxBar
    <3>1. IsLine(CtxBar, mem', D, H, d, {}, d[cur'])
      BY <1>1, <2>1, Running
    <3>. QED  BY <2>2, <3>1, ContextIs DEF NextChained
  <2>4. ContsBar' = ContsBar
    <3>1. \A k \in Conts : conts'[k] = conts[k] /\ SameDepth(d, d, D, H, k)
      BY <2>1 DEF SameDepth
    <3>2. NextChained(D, H, d)
      BY <2>2 DEF NextChained
    <3>3. \A k \in Conts : ContsBar'[k] = ContsBar[k]
      BY <1>1, <3>1, <3>2, OthersStay
    <3>. QED  BY <3>3, ContsBarShape, NextContsBarShape
  <2>. QED  BY <2>3, <2>4 DEF Abstract!vars, CtxBar, ContsBar
<1>. QED
  BY <1>2, <1>3, <1>4, <1>5, <1>6, <1>7, <1>8, <1>9, <1>10 DEF Next

LEMMA InitMaps == Init => Abstract!Init
<1>. SUFFICES ASSUME Init PROVE Abstract!Init
  OBVIOUS
<1>1. TypeOK /\ Chains
  BY InitType, InitChains
<1>2. PICK D, H, d : IsChained(D, H, d)
  BY <1>1 DEF Chains, IsChained
<1>3. cur = Main /\ mem[Main] = <<>> /\ \A k \in Conts : conts[k] = NoCont
  BY DEF Init, AllStacks
<1>4. CtxBar \in Seq(Segs) /\ Len(CtxBar) = 1 /\ CtxBar[1] = Seg(mem, Main)
  <2>1. d[Main] = 0
    BY <1>2 DEF IsChained, Chained, Placed
  <2>2. CtxBar \in Seq(Segs) /\ Len(CtxBar) = d[cur] + 1 /\ CtxBar[Len(CtxBar)] = Seg(mem, cur)
    BY <1>1, <1>2, Running
  <2>3. CtxBar \in Seq(Segs) /\ Len(CtxBar) = d[Main] + 1 /\ CtxBar[Len(CtxBar)] = Seg(mem, Main)
    BY <1>3, <2>2
  <2>. QED  BY <2>1, <2>3
<1>5. Seg(mem, Main) = Abstract!Segment(Main, <<>>)
  <2>1. Proper(mem, Main)
    BY <1>1, <1>2, <1>3, Running
  <2>2. Seg(mem, Main).frames \in Seq(AFrames) /\ Len(Seg(mem, Main).frames) = 0
    <3>1. Base(Main) = 0 /\ Len(mem[Main]) = 0
      BY <1>3 DEF Base
    <3>. QED  BY <2>1, <3>1, FramesLen
  <2>3. Seg(mem, Main).frames = <<>> /\ Seg(mem, Main).prompt = Main
    BY <2>2, SegShape
  <2>. QED  BY <2>3, SegShape DEF Abstract!Segment
<1>6. CtxBar = <<Abstract!Segment(Main, <<>>)>>
  BY <1>4, <1>5
<1>7. ContsBar = [k \in Conts |-> <<>>]
  BY <1>3 DEF ContsBar, Live
<1>. QED  BY <1>6, <1>7 DEF Abstract!Init, CtxBar, ContsBar

\* Under the client contract the runtime's pointers behave as captured and
\* reinstated segments: ENTER, RAISE, RESUME, THROW and the aborts implement
\* delimited control.
THEOREM TrekImplementsDelimitedControl == Contract => (Spec => ImplementsDelimitedControl)
<1>. SUFFICES ASSUME Contract PROVE Spec => ImplementsDelimitedControl
  OBVIOUS
<1>1. Spec => []Chains
  BY ChainsHold
<1>2. TypeOK /\ TypeOK' /\ Chains /\ [Next]_vars => [Abstract!Next]_(Abstract!vars)
  BY StepMaps
<1>. QED  BY <1>1, <1>2, InitMaps, Typing, PTL DEF Spec, ImplementsDelimitedControl, Abstract!Spec
=============================================================================
