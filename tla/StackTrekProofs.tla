--------------------------- MODULE StackTrekProofs ---------------------------
(***************************************************************************)
(* StackTrek for every number of stacks, resumptions and call sites and    *)
(* every bound on frames: types, whatever part of the client contract is   *)
(* dropped; then, under the contract, the chains of waiting stacks and     *)
(* what follows from them.                                                 *)
(***************************************************************************)
EXTENDS StackTrek, SequenceTheorems, FiniteSetTheorems, WellFoundedInduction, TLAPS

Memory == [AllStacks -> Seq(Frame)]

LEMMA FrameTypes ==
  /\ \A c \in CallSites : CallFrame(c) \in Frame
  /\ \A t \in AllStacks : AbortFrame(t) \in Frame
  /\ \A e \in Stacks : EnterFrame(e) \in Frame
  /\ \A f \in Frame : f.kind = "enter" => f.at \in Stacks
  /\ \A f \in Frame : f.kind = "abort" => f.at \in AllStacks
<1>1. \A c \in CallSites : CallFrame(c) \in Frame
  BY DEF Frame
<1>2. \A t \in AllStacks : AbortFrame(t) \in Frame
  BY DEF Frame
<1>3. \A e \in Stacks : EnterFrame(e) \in Frame
  BY DEF Frame
<1>4. \A f \in Frame : f.kind = "enter" => f.at \in Stacks
  BY DEF Frame, CallFrame, AbortFrame, EnterFrame
<1>5. \A f \in Frame : f.kind = "abort" => f.at \in AllStacks
  BY DEF Frame, CallFrame, AbortFrame, EnterFrame
<1>. QED  BY <1>1, <1>2, <1>3, <1>4, <1>5

LEMMA PrefixType ==
  ASSUME NEW S, NEW q \in Seq(S), NEW n \in Nat, n <= Len(q)
  PROVE  SubSeq(q, 1, n) \in Seq(S)
<1>1. \A i \in 1 .. n : q[i] \in S
  OBVIOUS
<1>. QED  BY <1>1, SubSeqProperties

LEMMA PopType ==
  ASSUME NEW S, NEW q \in Seq(S), q # <<>>
  PROVE  /\ Last(q) \in S
         /\ Front(q) \in Seq(S)
BY DEF Last, Front

\* Switching to an address leaves memory well-typed.
LEMMA CutType ==
  ASSUME NEW m \in Memory, NEW p \in SP
  PROVE  CutTo(m, p) \in Memory /\ RetTo(m, p) \in Memory
<1>1. \A x \in SP : CutTo(m, x) \in Memory
  <2>. SUFFICES ASSUME NEW x \in SP PROVE CutTo(m, x) \in Memory
    OBVIOUS
  <2>1. m[x.stk] \in Seq(Frame) /\ x.h \in Nat
    BY DEF Memory, SP
  <2>2. (IF x.h < Len(m[x.stk]) THEN x.h ELSE Len(m[x.stk])) \in 0 .. Len(m[x.stk])
    BY <2>1
  <2>3. SubSeq(m[x.stk], 1, IF x.h < Len(m[x.stk]) THEN x.h ELSE Len(m[x.stk])) \in Seq(Frame)
    BY <2>1, <2>2, PrefixType
  <2>. QED  BY <2>3 DEF CutTo, Memory
<1>2. [stk |-> p.stk, h |-> IF p.h = 0 THEN 0 ELSE p.h - 1] \in SP
  BY DEF SP
<1>3. CutTo(m, p) \in Memory
  BY <1>1
<1>4. CutTo(m, [stk |-> p.stk, h |-> IF p.h = 0 THEN 0 ELSE p.h - 1]) \in Memory
  BY <1>1, <1>2
<1>. QED  BY <1>3, <1>4 DEF RetTo

\* The address and the memory an operation leaves behind.
LEMMA PushType ==
  ASSUME TypeOK, NEW c \in CallSites
  PROVE  rsp \in SP /\ Pushed(c) \in Memory
BY FrameTypes DEF TypeOK, rsp, SP, Pushed, Memory

LEMMA ResumptionType ==
  ASSUME TypeOK, NEW k \in Conts, Live(k)
  PROVE  rsp_sp(k) \in SP /\ exc(k) \in Stacks
<1>1. CASE conts[k] \in SingleShot
  BY <1>1 DEF SingleShot, TypeOK, rsp_sp, exc, IsMulti
<1>2. CASE conts[k] \in MultiShot
  BY <1>2 DEF MultiShot, TypeOK, rsp_sp, exc, IsMulti
<1>. QED  BY <1>1, <1>2 DEF TypeOK, Live

LEMMA AbortTargetType ==
  ASSUME TypeOK, NEW p \in AbortTargets
  PROVE  p \in SP
<1>1. CASE \E e \in InScope : p = exchanger[e]
  BY <1>1 DEF InScope, TypeOK
<1>2. ASSUME NEW t \in Context, NEW i \in AbortFrames(t), p = StubExchanger(mem[t][i], i)
      PROVE  p \in SP
  <2>1. t \in AllStacks
    BY DEF Context, From
  <2>2. mem[t] \in Seq(Frame) /\ i \in DOMAIN mem[t]
    BY <2>1 DEF TypeOK, AbortFrames
  <2>3. mem[t][i] \in Frame /\ i \in Nat /\ mem[t][i].kind = "abort"
    BY <2>2 DEF AbortFrames
  <2>. QED  BY <1>2, <2>3, FrameTypes DEF StubExchanger, SP
<1>. QED  BY <1>1, <1>2 DEF AbortTargets

LEMMA ResumeType ==
  ASSUME TypeOK, NEW m \in Memory, NEW xs \in [Stacks -> SP], NEW p \in SP, NEW e \in Stacks,
         RESUME(m, xs, p, e)
  PROVE  mem' \in Memory /\ cur' \in AllStacks /\ exchanger' \in [Stacks -> SP]
<1>1. rsp \in SP
  BY DEF TypeOK, rsp, SP
<1>. QED  BY <1>1, CutType DEF RESUME, SP

LEMMA GCType ==
  ASSUME TypeOK, GC_set_main_stack_sp
  PROVE  gc_sp' \in Nat
BY DEF TypeOK, GC_set_main_stack_sp, rsp

LEMMA InitType == Init => TypeOK
BY DEF Init, TypeOK, AllStacks, SP

\* One step per action.
LEMMA NextType == TypeOK /\ [Next]_vars => TypeOK'
<1>. SUFFICES ASSUME TypeOK, [Next]_vars PROVE TypeOK'
  OBVIOUS
<1>. USE DEF Memory
<1>1. ASSUME NEW c \in CallSites, Call(c) PROVE TypeOK'
  BY <1>1, PushType DEF Call, TypeOK
<1>2. CASE HANDLE_ABORT
  BY <1>2, FrameTypes DEF HANDLE_ABORT, TypeOK
<1>3. CASE Return
  BY <1>3, PopType DEF Return, TypeOK
<1>4. ASSUME NEW s \in Stacks, NEW c \in CallSites, HANDLE(s, c) PROVE TypeOK'
  <2>1. <<EnterFrame(s)>> \in Seq(Frame)
    BY FrameTypes
  <2>2. s \in AllStacks
    BY DEF AllStacks
  <2>. QED  BY <1>4, <2>1, <2>2, PushType, GCType DEF HANDLE, TypeOK
<1>5. CASE ENTER_return
  <2>1. Last(mem[cur]) \in Frame /\ Last(mem[cur]).kind = "enter"
    BY <1>5, PopType DEF ENTER_return, TypeOK
  <2>2. exchanger[Last(mem[cur]).at] \in SP
    BY <2>1, FrameTypes DEF TypeOK
  <2>3. [mem EXCEPT ![cur] = <<>>] \in Memory
    BY DEF TypeOK
  <2>. QED  BY <1>5, <2>2, <2>3, CutType DEF ENTER_return, Freed, TypeOK, SP
<1>6. ASSUME NEW e \in Stacks, NEW c \in CallSites, Swap(e, c)
      PROVE  mem' \in Memory /\ cur' \in AllStacks /\ exchanger' \in [Stacks -> SP]
  <2>1. exchanger[e] \in SP
    BY DEF TypeOK
  <2>. QED  BY <1>6, <2>1, PushType, CutType DEF Swap, TypeOK, SP
<1>7. ASSUME NEW k \in Conts, NEW e \in Stacks, NEW c \in CallSites, RAISE(k, e, c)
      PROVE  TypeOK'
  BY <1>6, <1>7 DEF RAISE, TypeOK, SingleShot
<1>8. ASSUME NEW k \in Conts, NEW e \in Stacks, NEW c \in CallSites, RAISE_M(k, e, c)
      PROVE  TypeOK'
  <2>1. NewResumption(e) \in MultiShot
    BY PushType, <1>8 DEF NewResumption, MultiShot
  <2>. QED  BY <1>6, <1>8, <2>1 DEF RAISE_M, TypeOK
<1>9. ASSUME NEW p \in AbortTargets, RAISE_ABORT(p) PROVE TypeOK'
  <2>1. p \in SP
    BY AbortTargetType
  <2>2. [mem EXCEPT ![cur] = <<>>] \in Memory /\ mem \in Memory
    BY DEF TypeOK
  <2>3. CutTo([mem EXCEPT ![cur] = <<>>], p) \in Memory /\ CutTo(mem, p) \in Memory
    BY <2>1, <2>2, CutType
  <2>4. mem' \in Memory
    BY <1>9, <2>3 DEF RAISE_ABORT
  <2>5. inUse' \subseteq Stacks /\ cur' \in AllStacks
    BY <1>9, <2>1 DEF RAISE_ABORT, Freed, TypeOK, SP
  <2>. QED  BY <1>9, <2>4, <2>5 DEF RAISE_ABORT, TypeOK
<1>10. ASSUME NEW k \in Conts, NEW s \in Stacks, NEW c \in CallSites, THROW(k, s, c)
       PROVE  TypeOK'
  <2>1. rsp_sp(k) \in SP /\ exc(k) \in Stacks
    BY <1>10, ResumptionType DEF THROW
  <2>2. s \in AllStacks /\ CopyOf(rsp_sp(k), s) \in SP
    BY <2>1 DEF AllStacks, CopyOf, SP
  <2>3. Duplicate(Pushed(c), rsp_sp(k).stk, s) \in Memory
    BY <2>1, <2>2, PushType DEF Duplicate, SP
  <2>4. rsp_sp(k).stk \in Stacks => [exchanger EXCEPT ![s] = exchanger[rsp_sp(k).stk]] \in [Stacks -> SP]
    BY DEF TypeOK
  <2>5. rsp_sp(k).stk \in Stacks
    BY <1>10 DEF THROW, Copyable
  <2>. QED  BY <1>10, <2>1, <2>2, <2>3, <2>4, <2>5, ResumeType, GCType DEF THROW, TypeOK
<1>11. ASSUME NEW k \in Conts, NEW c \in CallSites, FINAL_THROW(k, c) PROVE TypeOK'
  <2>1. rsp_sp(k) \in SP /\ exc(k) \in Stacks
    BY <1>11, ResumptionType DEF FINAL_THROW
  <2>. QED  BY <1>11, <2>1, PushType, ResumeType, GCType DEF FINAL_THROW, TypeOK
<1>12. CASE UNCHANGED vars
  BY <1>12 DEF vars, TypeOK
<1>. QED
  BY <1>1, <1>2, <1>3, <1>4, <1>5, <1>7, <1>8, <1>9, <1>10, <1>11, <1>12 DEF Next

\* Every action keeps memory, exchangers and resumptions well-typed: stored
\* addresses are addresses, whatever the client does.
THEOREM Typing == Spec => []TypeOK
BY InitType, NextType, PTL DEF Spec

-----------------------------------------------------------------------------
(***************************************************************************)
(* Chains, under the client contract (aborts may cross handlers).          *)
(*                                                                         *)
(* The stacks form chains, each stack below the ones that will return to   *)
(* it: one chain runs, one belongs to each live resumption.  A placement   *)
(* of the stacks says which chain each is in and how deep:                 *)
(*   D      the stacks that are in a chain; the others were left behind by *)
(*          an abort, or are free;                                         *)
(*   H      whose chain it is: {} is the running one, {k} that of k;       *)
(*   d      how many stacks are below in the chain.                        *)
(* The state is spelled out as arguments (m: mem, r: cur, U: inUse,        *)
(* xs: exchanger, cs: conts), so that a lemma can speak of two states.     *)
(***************************************************************************)

Own(m, t)   == m[t][1].at
Wait(m, p)  == p.h = Len(m[p.stk]) /\ p.h > 0 /\ m[p.stk][p.h].kind = "call"
Ex(cs, k)   == cs[k].exchanger_ptr
Multi(cs, k) == "rsp_sp" \in DOMAIN cs[k]
Sp(xs, cs, k) == IF Multi(cs, k) THEN cs[k].rsp_sp ELSE xs[Ex(cs, k)]
Alive(cs)   == {k \in Conts : cs[k] # NoCont}

\* Every place of a chain is taken once; main is at the bottom of the running
\* one, and the running code at its top.
Placed(r, U, D, H, d) ==
  /\ D \subseteq U \cup {Main}
  /\ H \in [D -> SUBSET Conts]
  /\ d \in [D -> Nat]
  /\ \A u, v \in D : H[u] = H[v] /\ d[u] = d[v] => u = v
  /\ Main \in D /\ H[Main] = {} /\ d[Main] = 0
  /\ r \in D /\ H[r] = {}
  /\ \A u \in D : H[u] = {} => d[u] <= d[r]

\* A stack's exchanger leads to the one below it, which waits there.
Linked(m, xs, D, H, d) ==
  \A u \in D : d[u] > 0 =>
    LET p == xs[Own(m, u)] IN
    p.stk \in D /\ H[p.stk] = H[u] /\ d[p.stk] = d[u] - 1 /\ Wait(m, p)

\* A resumption's stack pointer is at the top of its chain, and the bottom is
\* the one stack there that goes back through the resumption's exchanger.
Held(m, xs, cs, D, H, d) ==
  /\ \A u \in D : H[u] = {} \/ \E k \in Alive(cs) : H[u] = {k}
  /\ \A k \in Alive(cs) :
       LET p == Sp(xs, cs, k) IN
       /\ p.stk \in D /\ H[p.stk] = {k} /\ Wait(m, p)
       /\ \A u \in D : H[u] = {k} => d[u] <= d[p.stk]
       /\ \A u \in D : H[u] = {k} => (d[u] = 0 <=> Own(m, u) = Ex(cs, k))

\* At most one stack that has another one below goes through an exchanger.
OneUser(m, D, d) ==
  \A u, v \in D : d[u] > 0 /\ d[v] > 0 /\ Own(m, u) = Own(m, v) => u = v

\* While a single-shot resumption is held in an exchanger nothing else uses it.
Singles(m, cs, D, d) ==
  \A k \in Alive(cs) : ~Multi(cs, k) =>
    /\ \A u \in D : d[u] > 0 => Own(m, u) # Ex(cs, k)
    /\ \A j \in Alive(cs) : Ex(cs, j) = Ex(cs, k) => j = k

\* A stack has one base frame, which names a stack in use; a stub is where its
\* exchanger says.
HasBase(m, t) ==
  /\ m[t] # <<>> /\ m[t][1].kind = "enter"
  /\ \A i \in DOMAIN m[t] : i > 1 => m[t][i].kind # "enter"
Based(m, U) == \A t \in U : HasBase(m, t) /\ Own(m, t) \in U
NoBase(m) == \A i \in DOMAIN m[Main] : m[Main][i].kind # "enter"
Stubs(m) == \A t \in AllStacks : \A i \in DOMAIN m[t] : m[t][i].kind = "abort" => m[t][i].at = t

Owned(U, cs) == \A k \in Alive(cs) : Ex(cs, k) \in U

\* What only aborts across handlers leave behind.
Complete(U, D) == "abort_across" \notin Allow => U \subseteq D

Scanned(m, r, g) == r # Main => g = Len(m[Main])

Chained(m, r, U, xs, cs, g, D, H, d) ==
  /\ Placed(r, U, D, H, d)
  /\ Linked(m, xs, D, H, d)
  /\ Held(m, xs, cs, D, H, d)
  /\ OneUser(m, D, d)
  /\ Singles(m, cs, D, d)
  /\ Based(m, U) /\ NoBase(m) /\ Stubs(m)
  /\ Owned(U, cs)
  /\ Complete(U, D)
  /\ Scanned(m, r, g)

Contract == Allow \subseteq {"abort_across"}

Chains == \E D, H, d : Chained(mem, cur, inUse, exchanger, conts, gc_sp, D, H, d)

-----------------------------------------------------------------------------
(***************************************************************************)
(* What follows from the invariant alone.                                  *)
(***************************************************************************)
LEMMA InChain ==
  ASSUME NEW r, NEW U, NEW D, NEW H, NEW d, Placed(r, U, D, H, d), NEW u \in D
  PROVE  /\ d[u] \in Nat
         /\ u = Main \/ u \in U
         /\ d[u] > 0 => u # Main /\ u \in U
         /\ H[u] # {} => u # Main /\ u \in U
         /\ H[u] = {} /\ d[u] = 0 => u = Main
BY DEF Placed

-----------------------------------------------------------------------------
(***************************************************************************)
(* How the chains change.                                                  *)
(***************************************************************************)
\* What stays as it was: the stacks of S but for those of X, the base frames,
\* the exchangers but for e's, the resumptions but for k.
Unmoved(m, m2, S, X) == \A t \in S : t \notin X => m2[t] = m[t]
SameOwners(m, m2, S) == \A t \in S : t # Main => Own(m2, t) = Own(m, t)
Exchanged(xs, xs2, U, e, q) == xs2[e] = q /\ \A f \in U : f # e => xs2[f] = xs[f]
Replaced(cs, cs2, k) == \A j \in Conts : j # k => cs2[j] = cs[j]

OwnersIn(m, D, U) == \A t \in D : t # Main => Own(m, t) \in U
WithinUse(D, U)   == D \subseteq U \cup {Main}

\* No stack but at the end of a chain goes through exchanger e; no single-shot
\* resumption is in it.
Idle(m, D, d, e) == \A u \in D : d[u] > 0 => Own(m, u) # e
NoSingle(cs, e)  == \A j \in Alive(cs) : ~Multi(cs, j) => Ex(cs, j) # e

\* The chains of one state, and what a switch through exchanger e changes: the
\* stack r that ran waits at q, which is in the exchanger.
InOrder(m, r, U, xs, cs, D, H, d) ==
  /\ Placed(r, U, D, H, d) /\ Linked(m, xs, D, H, d) /\ Held(m, xs, cs, D, H, d)
  /\ OneUser(m, D, d) /\ Singles(m, cs, D, d)
Switched(m, r, U, xs, D, m2, xs2, e, q, X) ==
  /\ OwnersIn(m, D, U) /\ SameOwners(m, m2, D) /\ Unmoved(m, m2, D, X)
  /\ Exchanged(xs, xs2, U, e, q) /\ q.stk = r /\ Wait(m2, q)

CutPlaces(D, H, d, r2) == {u \in D : H[u] = {} => d[u] <= d[r2]}

\* The running chain is cut at r2, which runs on: calls and returns (r2 = r),
\* the end of a handler's body, an abort.
LEMMA CutChain ==
  ASSUME NEW m, NEW r, NEW U, NEW xs, NEW cs, NEW D, NEW H, NEW d,
         InOrder(m, r, U, xs, cs, D, H, d),
         NEW m2, NEW r2 \in D, H[r2] = {}, NEW U2, NEW D2,
         D2 = CutPlaces(D, H, d, r2),
         WithinUse(D2, U2), Unmoved(m, m2, D2, {r2}), SameOwners(m, m2, D2),
         NEW H2, H2 = Restrict(H, D2),
         NEW d2, d2 = Restrict(d, D2)
  PROVE  InOrder(m2, r2, U2, xs, cs, D2, H2, d2)
<1>. USE DEF InOrder, Switched, CutPlaces, Restrict, WithinUse, Unmoved, SameOwners
<1>1. \A u \in D : d[u] \in Nat /\ (d[u] > 0 => u # Main) /\ (H[u] # {} => u # Main)
  BY InChain
<1>2. D2 \subseteq D /\ r2 \in D2 /\ Main \in D2 /\ \A u \in D : H[u] # {} => u \in D2
  BY <1>1 DEF Placed
<1>3. \A u \in D2 : H2[u] = H[u] /\ d2[u] = d[u]
  OBVIOUS
<1>4. Placed(r2, U2, D2, H2, d2)
  BY ZenonT(20), <1>2, <1>3 DEF Placed
<1>5. Linked(m2, xs, D2, H2, d2)
  <2>. SUFFICES ASSUME NEW u \in D2, d2[u] > 0, NEW p, p = xs[Own(m2, u)]
                PROVE  p.stk \in D2 /\ H2[p.stk] = H2[u] /\ d2[p.stk] = d2[u] - 1 /\ Wait(m2, p)
    BY DEF Linked
  <2>1. d[u] > 0 /\ u # Main /\ p = xs[Own(m, u)]
    BY <1>1, <1>2, <1>3
  <2>2. p.stk \in D /\ H[p.stk] = H[u] /\ d[p.stk] = d[u] - 1 /\ Wait(m, p)
    BY <1>2, <2>1 DEF Linked
  <2>3. p.stk \in D2 /\ p.stk # r2
    BY <1>1, <1>2, <2>2
  <2>4. m2[p.stk] = m[p.stk]
    BY <2>3
  <2>. QED  BY <1>3, <2>2, <2>3, <2>4 DEF Wait
<1>6. Held(m2, xs, cs, D2, H2, d2)
  <2>1. \A u \in D2 : H2[u] = {} \/ \E k \in Alive(cs) : H2[u] = {k}
    BY <1>2, <1>3 DEF Held
  <2>2. ASSUME NEW k \in Alive(cs), NEW p, p = Sp(xs, cs, k)
        PROVE  /\ p.stk \in D2 /\ H2[p.stk] = {k} /\ Wait(m2, p)
               /\ \A u \in D2 : H2[u] = {k} => d2[u] <= d2[p.stk]
               /\ \A u \in D2 : H2[u] = {k} => (d2[u] = 0 <=> Own(m2, u) = Ex(cs, k))
    <3>1. /\ p.stk \in D /\ H[p.stk] = {k} /\ Wait(m, p)
          /\ \A u \in D : H[u] = {k} => d[u] <= d[p.stk]
          /\ \A u \in D : H[u] = {k} => (d[u] = 0 <=> Own(m, u) = Ex(cs, k))
      BY <2>2 DEF Held
    <3>2. p.stk \in D2 /\ p.stk # r2
      BY <3>1, <1>2
    <3>3. Wait(m2, p)
      BY <3>1, <3>2 DEF Wait
    <3>4. \A u \in D2 : H2[u] = {k} => Own(m2, u) = Own(m, u)
      BY <1>1, <1>2, <1>3
    <3>. QED  BY <1>2, <1>3, <3>1, <3>2, <3>3, <3>4
  <2>. QED  BY <2>1, <2>2 DEF Held
<1>7. \A u \in D2 : d2[u] > 0 => u \in D /\ d[u] > 0 /\ Own(m2, u) = Own(m, u)
  BY <1>1, <1>2, <1>3
<1>8. OneUser(m2, D2, d2)
  BY SMTT(20), <1>7 DEF OneUser
<1>9. Singles(m2, cs, D2, d2)
  BY <1>7 DEF Singles
<1>. QED  BY <1>4, <1>5, <1>6, <1>8, <1>9

GrowHolder(D, H, s)   == [u \in D \cup {s} |-> IF u = s THEN {} ELSE H[u]]
GrowDepth(D, d, s, n) == [u \in D \cup {s} |-> IF u = s THEN n ELSE d[u]]

\* A stack s is put on top of the running chain, with the stack that ran
\* waiting in its exchanger: a handler is installed, a copy is resumed.
LEMMA GrowChain ==
  ASSUME NEW m, NEW r, NEW U, NEW xs, NEW cs, NEW D, NEW H, NEW d,
         InOrder(m, r, U, xs, cs, D, H, d), Owned(U, cs),
         NEW m2, NEW xs2, NEW e, NEW q, Switched(m, r, U, xs, D, m2, xs2, e, q, {r}),
         NEW s, s \notin U, s # Main, e = Own(m2, s),
         Idle(m, D, d, e), NoSingle(cs, e),
         NEW D2, D2 = D \cup {s},
         NEW H2, H2 = GrowHolder(D, H, s),
         NEW d2, d2 = GrowDepth(D, d, s, d[r] + 1)
  PROVE  InOrder(m2, s, U \cup {s}, xs2, cs, D2, H2, d2)
<1>. USE DEF InOrder, Switched, GrowHolder, GrowDepth, OwnersIn, Unmoved, SameOwners, Idle, NoSingle, Exchanged
<1>1. \A u \in D : d[u] \in Nat /\ (d[u] > 0 => u # Main) /\ (H[u] # {} => u # Main)
  BY InChain
<1>2. s \notin D /\ r \in D /\ d[r] \in Nat /\ H[r] = {}
  BY DEF Placed
<1>3. H2[s] = {} /\ d2[s] = d[r] + 1
  BY <1>2
<1>4. \A u \in D : u \in D2 /\ u # s /\ H2[u] = H[u] /\ d2[u] = d[u]
  BY <1>2
<1>5. Placed(s, U \cup {s}, D2, H2, d2)
  <2>1. H2 \in [D2 -> SUBSET Conts] /\ d2 \in [D2 -> Nat]
    BY <1>2 DEF Placed
  <2>2. \A u \in D : H[u] = {} => d[u] < d2[s]
    BY <1>1, <1>2, <1>3 DEF Placed
  <2>3. \A u, v \in D2 : H2[u] = H2[v] /\ d2[u] = d2[v] => u = v
    BY <1>1, <1>2, <1>3, <1>4, <2>2 DEF Placed
  <2>4. \A u \in D2 : H2[u] = {} => d2[u] <= d2[s]
    BY <1>1, <1>2, <1>3, <1>4, <2>2
  <2>. QED  BY <1>3, <1>4, <2>1, <2>3, <2>4 DEF Placed
<1>6. \A t \in D : t # Main => xs2[Own(m2, t)] = xs[Own(m, t)] \/ Own(m, t) = e
  OBVIOUS
<1>7. ASSUME NEW p, p.stk \in D, p.stk # r, Wait(m, p)
      PROVE  Wait(m2, p)
  BY <1>7 DEF Wait
<1>8. Linked(m2, xs2, D2, H2, d2)
  <2>. SUFFICES ASSUME NEW u \in D2, d2[u] > 0, NEW p, p = xs2[Own(m2, u)]
                PROVE  p.stk \in D2 /\ H2[p.stk] = H2[u] /\ d2[p.stk] = d2[u] - 1 /\ Wait(m2, p)
    BY DEF Linked
  <2>1. CASE u = s
    BY <2>1, <1>2, <1>3, <1>4
  <2>2. CASE u # s
    <3>1. u \in D /\ d[u] > 0 /\ u # Main
      BY <2>2, <1>1, <1>4
    <3>2. p = xs[Own(m, u)]
      BY <3>1, <1>6
    <3>3. p.stk \in D /\ H[p.stk] = H[u] /\ d[p.stk] = d[u] - 1 /\ Wait(m, p)
      BY <3>1, <3>2 DEF Linked
    <3>4. p.stk # r
      BY <3>1, <3>3, <1>1 DEF Placed
    <3>. QED  BY <3>1, <3>3, <3>4, <1>4, <1>7
  <2>. QED  BY <2>1, <2>2
<1>9. Held(m2, xs2, cs, D2, H2, d2)
  <2>1. \A u \in D2 : H2[u] = {} \/ \E k \in Alive(cs) : H2[u] = {k}
    BY <1>3, <1>4 DEF Held
  <2>2. ASSUME NEW k \in Alive(cs), NEW p, p = Sp(xs2, cs, k)
        PROVE  /\ p.stk \in D2 /\ H2[p.stk] = {k} /\ Wait(m2, p)
               /\ \A u \in D2 : H2[u] = {k} => d2[u] <= d2[p.stk]
               /\ \A u \in D2 : H2[u] = {k} => (d2[u] = 0 <=> Own(m2, u) = Ex(cs, k))
    <3>0. p = Sp(xs, cs, k)
      BY <2>2 DEF Sp, Owned
    <3>1. /\ p.stk \in D /\ H[p.stk] = {k} /\ Wait(m, p)
          /\ \A u \in D : H[u] = {k} => d[u] <= d[p.stk]
          /\ \A u \in D : H[u] = {k} => (d[u] = 0 <=> Own(m, u) = Ex(cs, k))
      BY <3>0 DEF Held
    <3>2. Wait(m2, p)
      BY <3>1, <1>2, <1>7
    <3>3. \A u \in D2 : H2[u] = {k} => u \in D /\ H[u] = {k} /\ Own(m2, u) = Own(m, u)
      BY <1>1, <1>3, <1>4
    <3>. QED  BY <1>4, <3>1, <3>2, <3>3
  <2>. QED  BY <2>1, <2>2 DEF Held
<1>10. \A u \in D2 : u # s /\ d2[u] > 0 => u \in D /\ d[u] > 0 /\ Own(m2, u) = Own(m, u)
  BY <1>1, <1>4
<1>11. OneUser(m2, D2, d2)
  BY <1>10 DEF OneUser
<1>12. Singles(m2, cs, D2, d2)
  BY <1>10 DEF Singles
<1>. QED  BY <1>5, <1>8, <1>9, <1>11, <1>12

RaiseHolder(D, H, d, k, w) == [u \in D |-> IF H[u] = {} /\ d[u] >= d[w] THEN {k} ELSE H[u]]
RaiseDepth(D, H, d, w) == [u \in D |-> IF H[u] = {} /\ d[u] >= d[w] THEN d[u] - d[w] ELSE d[u]]

\* k becomes a resumption for e, suspended at q, like others for e multi-shot if
\* there are any.
NewCont(cs, cs2, xs2, k, e, q) ==
  /\ cs[k] = NoCont /\ Replaced(cs, cs2, k) /\ cs2[k] # NoCont
  /\ Ex(cs2, k) = e /\ Sp(xs2, cs2, k) = q
  /\ \A j \in Alive(cs) : Ex(cs, j) = e => Multi(cs, j) /\ Multi(cs2, k)

\* The running chain is cut above the stack that w returns to; from w on it
\* is the chain of resumption k.
LEMMA RaiseChain ==
  ASSUME NEW m, NEW r, NEW U, NEW xs, NEW cs, NEW D, NEW H, NEW d,
         InOrder(m, r, U, xs, cs, D, H, d), Owned(U, cs),
         NEW k \in Conts,
         NEW w \in D, H[w] = {}, d[w] > 0, NEW e, e = Own(m, w),
         NEW m2, NEW xs2, NEW q, Switched(m, r, U, xs, D, m2, xs2, e, q, {r}),
         NEW cs2, NewCont(cs, cs2, xs2, k, e, q),
         NEW r2, r2 = xs[e].stk,
         NEW H2, H2 = RaiseHolder(D, H, d, k, w),
         NEW d2, d2 = RaiseDepth(D, H, d, w)
  PROVE  InOrder(m2, r2, U, xs2, cs2, D, H2, d2)
<1>. USE DEF InOrder, Switched, NewCont, RaiseHolder, RaiseDepth, OwnersIn, Unmoved, SameOwners, Exchanged, Replaced, Owned
<1>1. \A u \in D : d[u] \in Nat /\ (d[u] > 0 => u # Main) /\ (H[u] # {} => u # Main)
  BY InChain
<1>2. Alive(cs2) = Alive(cs) \cup {k} /\ k \notin Alive(cs) /\ \A u \in D : H[u] # {k}
  BY DEF Alive, Held
<1>3. /\ r \in D /\ H[r] = {} /\ \A u \in D : H[u] = {} => d[u] <= d[r]
      /\ \A u, v \in D : H[u] = H[v] /\ d[u] = d[v] => u = v
  BY DEF Placed
<1>4. r2 \in D /\ H[r2] = {} /\ d[r2] = d[w] - 1
  BY DEF Linked
<1>5. \A u \in D : H[u] = {} /\ d[u] >= d[w] => H2[u] = {k} /\ d2[u] = d[u] - d[w]
  OBVIOUS
<1>6. \A u \in D : ~(H[u] = {} /\ d[u] >= d[w]) => H2[u] = H[u] /\ d2[u] = d[u]
  OBVIOUS
<1>7. Placed(r2, U, D, H2, d2)
  <2>1. H2 \in [D -> SUBSET Conts]
    BY DEF Placed
  <2>2. d2 \in [D -> Nat]
    BY <1>1, <1>5, <1>6
  <2>3. \A u, v \in D : H2[u] = H2[v] /\ d2[u] = d2[v] => u = v
    <3>. SUFFICES ASSUME NEW u \in D, NEW v \in D, H2[u] = H2[v], d2[u] = d2[v] PROVE u = v
      OBVIOUS
    <3>0. d[u] \in Nat /\ d[v] \in Nat /\ d[w] \in Nat /\ H[u] # {k} /\ H[v] # {k} /\ {k} # {}
      BY <1>1, <1>2
    <3>1. H[u] = H[v] /\ d[u] = d[v]
      <4>1. CASE (H[u] = {} /\ d[u] >= d[w]) /\ (H[v] = {} /\ d[v] >= d[w])
        BY <4>1, <3>0, <1>5
      <4>2. CASE ~(H[u] = {} /\ d[u] >= d[w]) /\ ~(H[v] = {} /\ d[v] >= d[w])
        BY <4>2, <1>6
      <4>3. CASE (H[u] = {} /\ d[u] >= d[w]) /\ ~(H[v] = {} /\ d[v] >= d[w])
        BY <4>3, <3>0, <1>5, <1>6
      <4>4. CASE ~(H[u] = {} /\ d[u] >= d[w]) /\ (H[v] = {} /\ d[v] >= d[w])
        BY <4>4, <3>0, <1>5, <1>6
      <4>. QED  BY <4>1, <4>2, <4>3, <4>4
    <3>. QED  BY <3>1, <1>3
  <2>4. \A u \in D : H2[u] = {} => d2[u] <= d2[r2]
    BY <1>1, <1>4, <1>5, <1>6
  <2>5. Main \in D /\ H2[Main] = {} /\ d2[Main] = 0
    BY <1>6 DEF Placed
  <2>6. H2[r2] = {}
    BY <1>1, <1>4, <1>6
  <2>. QED  BY <1>4, <2>1, <2>2, <2>3, <2>4, <2>5, <2>6 DEF Placed
<1>8. ASSUME NEW p, p.stk \in D, p.stk # r, Wait(m, p)
      PROVE  Wait(m2, p)
  BY <1>8 DEF Wait
<1>9. \A u \in D : d2[u] > 0 => d[u] > 0 /\ u # w /\ u # Main /\ Own(m2, u) = Own(m, u)
  BY <1>1, <1>5, <1>6
<1>10. \A u \in D : d2[u] > 0 => Own(m, u) # e
  BY <1>9 DEF OneUser
<1>11. Linked(m2, xs2, D, H2, d2)
  <2>. SUFFICES ASSUME NEW u \in D, d2[u] > 0, NEW p, p = xs2[Own(m2, u)]
                PROVE  p.stk \in D /\ H2[p.stk] = H2[u] /\ d2[p.stk] = d2[u] - 1 /\ Wait(m2, p)
    BY DEF Linked
  <2>1. p = xs[Own(m, u)]
    BY <1>9, <1>10
  <2>2. p.stk \in D /\ H[p.stk] = H[u] /\ d[p.stk] = d[u] - 1 /\ Wait(m, p)
    BY <1>9, <2>1 DEF Linked
  <2>3. p.stk # r
    BY <1>1, <1>3, <1>9, <2>2
  <2>4. H2[p.stk] = H2[u] /\ d2[p.stk] = d2[u] - 1
    BY <1>1, <1>5, <1>6, <2>2
  <2>. QED  BY <2>2, <2>3, <2>4, <1>8
<1>12. Held(m2, xs2, cs2, D, H2, d2)
  <2>1. \A u \in D : H2[u] = {} \/ \E j \in Alive(cs2) : H2[u] = {j}
    BY <1>2, <1>5, <1>6 DEF Held
  <2>2. ASSUME NEW j \in Alive(cs), NEW p, p = Sp(xs2, cs2, j)
        PROVE  /\ p.stk \in D /\ H2[p.stk] = {j} /\ Wait(m2, p)
               /\ \A u \in D : H2[u] = {j} => d2[u] <= d2[p.stk]
               /\ \A u \in D : H2[u] = {j} => (d2[u] = 0 <=> Own(m2, u) = Ex(cs2, j))
    <3>1. j \in Conts /\ j # k /\ cs2[j] = cs[j]
      BY <1>2 DEF Alive
    <3>2. Multi(cs, j) \/ Ex(cs, j) # e
      OBVIOUS
    <3>3. p = Sp(xs, cs, j) /\ Ex(cs2, j) = Ex(cs, j)
      BY <2>2, <3>1, <3>2 DEF Sp, Multi, Ex
    <3>4. /\ p.stk \in D /\ H[p.stk] = {j} /\ Wait(m, p)
          /\ \A u \in D : H[u] = {j} => d[u] <= d[p.stk]
          /\ \A u \in D : H[u] = {j} => (d[u] = 0 <=> Own(m, u) = Ex(cs, j))
      BY <3>3 DEF Held
    <3>5. Wait(m2, p)
      BY <3>4, <1>3, <1>8
    <3>6. \A u \in D : H2[u] = {j} => H[u] = {j} /\ d2[u] = d[u] /\ Own(m2, u) = Own(m, u)
      BY <1>1, <1>5, <1>6, <3>1
    <3>7. H2[p.stk] = {j} /\ d2[p.stk] = d[p.stk]
      BY <1>6, <3>4
    <3>. QED  BY <3>3, <3>4, <3>5, <3>6, <3>7
  <2>3. /\ q.stk \in D /\ H2[q.stk] = {k} /\ Wait(m2, q)
        /\ \A u \in D : H2[u] = {k} => d2[u] <= d2[q.stk]
    BY <1>1, <1>2, <1>3, <1>5, <1>6
  <2>4. ASSUME NEW u \in D, H2[u] = {k} PROVE d2[u] = 0 <=> Own(m2, u) = Ex(cs2, k)
    <3>1. H[u] = {} /\ d[u] >= d[w] /\ d2[u] = d[u] - d[w] /\ u # Main
      BY <1>1, <1>2, <1>5, <1>6, <2>4
    <3>2. CASE d2[u] = 0
      <4>0. d[u] = d[w]
        BY <1>1, <3>1, <3>2
      <4>1. u = w
        BY <1>3, <3>1, <4>0
      <4>. QED  BY <3>1, <3>2, <4>1
    <3>3. CASE d2[u] # 0
      <4>1. d2[u] > 0
        BY <1>1, <3>1, <3>3
      <4>. QED  BY <4>1, <1>9, <1>10
    <3>. QED  BY <3>2, <3>3
  <2>5. ASSUME NEW j \in Alive(cs2), NEW p, p = Sp(xs2, cs2, j)
        PROVE  /\ p.stk \in D /\ H2[p.stk] = {j} /\ Wait(m2, p)
               /\ \A u \in D : H2[u] = {j} => d2[u] <= d2[p.stk]
               /\ \A u \in D : H2[u] = {j} => (d2[u] = 0 <=> Own(m2, u) = Ex(cs2, j))
    <3>1. CASE j = k
      BY <2>3, <2>4, <2>5, <3>1
    <3>2. CASE j # k
      BY <1>2, <2>2, <2>5, <3>2
    <3>. QED  BY <3>1, <3>2
  <2>. QED  BY <2>1, <2>5 DEF Held
<1>13. OneUser(m2, D, d2)
  BY <1>9 DEF OneUser
<1>14. Singles(m2, cs2, D, d2)
  <2>1. ASSUME NEW j \in Alive(cs2), ~Multi(cs2, j), NEW u \in D, d2[u] > 0
        PROVE  Own(m2, u) # Ex(cs2, j)
    <3>1. CASE j = k
      BY <2>1, <3>1, <1>9, <1>10
    <3>2. CASE j # k
      <4>1. j \in Alive(cs) /\ cs2[j] = cs[j]
        BY <3>2, <1>2 DEF Alive
      <4>2. ~Multi(cs, j) /\ Ex(cs2, j) = Ex(cs, j)
        BY <2>1, <4>1 DEF Multi, Ex
      <4>. QED  BY <2>1, <4>1, <4>2, <1>9 DEF Singles
    <3>. QED  BY <3>1, <3>2
  <2>2. ASSUME NEW j \in Alive(cs2), ~Multi(cs2, j), NEW i \in Alive(cs2), Ex(cs2, i) = Ex(cs2, j)
        PROVE  i = j
    <3>1. \A h \in Alive(cs2) : h # k => h \in Alive(cs) /\ Ex(cs2, h) = Ex(cs, h) /\ (Multi(cs2, h) <=> Multi(cs, h))
      BY <1>2 DEF Alive, Ex, Multi
    <3>. QED  BY <2>2, <3>1 DEF Singles
  <2>. QED  BY <2>1, <2>2 DEF Singles
<1>. QED  BY <1>7, <1>11, <1>12, <1>13, <1>14

ResumeHolder(D, H, k)   == [u \in D |-> IF H[u] = {k} THEN {} ELSE H[u]]
ResumeDepth(D, H, d, k, r) == [u \in D |-> IF H[u] = {k} THEN d[u] + d[r] + 1 ELSE d[u]]

\* The chain of resumption k is put on top of the running one.
LEMMA ResumeChain ==
  ASSUME NEW m, NEW r, NEW U, NEW xs, NEW cs, NEW D, NEW H, NEW d,
         InOrder(m, r, U, xs, cs, D, H, d), Owned(U, cs),
         NEW k \in Alive(cs), NEW e, e = Ex(cs, k), NEW r2, r2 = Sp(xs, cs, k).stk,
         Idle(m, D, d, e),
         NEW m2, NEW xs2, NEW q, Switched(m, r, U, xs, D, m2, xs2, e, q, {r, r2}),
         NEW cs2, Replaced(cs, cs2, k), cs2[k] = NoCont,
         NEW H2, H2 = ResumeHolder(D, H, k),
         NEW d2, d2 = ResumeDepth(D, H, d, k, r)
  PROVE  InOrder(m2, r2, U, xs2, cs2, D, H2, d2)
<1>. USE DEF InOrder, Switched, ResumeHolder, ResumeDepth, OwnersIn, Unmoved, SameOwners, Idle, Exchanged, Replaced, Owned
<1>1. \A u \in D : d[u] \in Nat /\ (d[u] > 0 => u # Main) /\ (H[u] # {} => u # Main)
  BY InChain
<1>2. Alive(cs2) = Alive(cs) \ {k} /\ k \in Conts
  BY DEF Alive
<1>3. /\ r \in D /\ H[r] = {} /\ \A u \in D : H[u] = {} => d[u] <= d[r]
      /\ \A u, v \in D : H[u] = H[v] /\ d[u] = d[v] => u = v
  BY DEF Placed
<1>4. /\ r2 \in D /\ H[r2] = {k}
      /\ \A u \in D : H[u] = {k} => d[u] <= d[r2]
      /\ \A u \in D : H[u] = {k} => (d[u] = 0 <=> Own(m, u) = e)
  BY DEF Held
<1>5. \A u \in D : H[u] = {k} => H2[u] = {} /\ d2[u] = d[u] + d[r] + 1
  OBVIOUS
<1>6. \A u \in D : H[u] # {k} => H2[u] = H[u] /\ d2[u] = d[u]
  OBVIOUS
<1>7. Placed(r2, U, D, H2, d2)
  <2>1. H2 \in [D -> SUBSET Conts]
    BY DEF Placed
  <2>2. d2 \in [D -> Nat]
    BY <1>1, <1>3, <1>5, <1>6
  <2>3. \A u, v \in D : H2[u] = H2[v] /\ d2[u] = d2[v] => u = v
    <3>. SUFFICES ASSUME NEW u \in D, NEW v \in D, H2[u] = H2[v], d2[u] = d2[v] PROVE u = v
      OBVIOUS
    <3>0. d[u] \in Nat /\ d[v] \in Nat /\ d[r] \in Nat
      BY <1>1, <1>3
    <3>1. H[u] = H[v] /\ d[u] = d[v]
      <4>1. CASE H[u] = {k} /\ H[v] = {k}
        BY <4>1, <3>0, <1>5
      <4>2. CASE H[u] # {k} /\ H[v] # {k}
        BY <4>2, <1>6
      <4>3. CASE H[u] = {k} /\ H[v] # {k}
        BY <4>3, <3>0, <1>3, <1>5, <1>6
      <4>4. CASE H[u] # {k} /\ H[v] = {k}
        BY <4>4, <3>0, <1>3, <1>5, <1>6
      <4>. QED  BY <4>1, <4>2, <4>3, <4>4
    <3>. QED  BY <3>1, <1>3
  <2>4. \A u \in D : H2[u] = {} => d2[u] <= d2[r2]
    BY <1>1, <1>3, <1>4, <1>5, <1>6
  <2>5. Main \in D /\ H2[Main] = {} /\ d2[Main] = 0
    BY <1>6 DEF Placed
  <2>. QED  BY <1>4, <1>5, <2>1, <2>2, <2>3, <2>4, <2>5 DEF Placed
<1>8. ASSUME NEW p, p.stk \in D, p.stk # r, p.stk # r2, Wait(m, p)
      PROVE  Wait(m2, p)
  BY <1>8 DEF Wait
<1>9. \A u \in D : d2[u] > 0 => u # Main /\ Own(m2, u) = Own(m, u)
  BY <1>1, <1>3, <1>5, <1>6
<1>10. \A u \in D : d2[u] > 0 =>
         (d[u] > 0 /\ Own(m, u) # e) \/ (H[u] = {k} /\ d[u] = 0 /\ Own(m, u) = e)
  BY <1>1, <1>4, <1>6
<1>11. Linked(m2, xs2, D, H2, d2)
  <2>. SUFFICES ASSUME NEW u \in D, d2[u] > 0, NEW p, p = xs2[Own(m2, u)]
                PROVE  p.stk \in D /\ H2[p.stk] = H2[u] /\ d2[p.stk] = d2[u] - 1 /\ Wait(m2, p)
    BY DEF Linked
  <2>1. CASE d[u] > 0 /\ Own(m, u) # e
    <3>1. p = xs[Own(m, u)]
      BY <1>9, <2>1
    <3>2. p.stk \in D /\ H[p.stk] = H[u] /\ d[p.stk] = d[u] - 1 /\ Wait(m, p)
      BY <2>1, <3>1 DEF Linked
    <3>3. p.stk # r /\ p.stk # r2
      BY <1>1, <1>3, <1>4, <3>2
    <3>4. H2[p.stk] = H2[u] /\ d2[p.stk] = d2[u] - 1
      BY <1>1, <1>3, <1>5, <1>6, <3>2
    <3>. QED  BY <3>2, <3>3, <3>4, <1>8
  <2>2. CASE H[u] = {k} /\ d[u] = 0 /\ Own(m, u) = e
    <3>1. p = q
      BY <1>9, <2>2
    <3>2. p.stk = r /\ Wait(m2, p) /\ r \in D /\ d[r] \in Nat
      BY <1>1, <1>3, <3>1
    <3>3. {k} # {}
      OBVIOUS
    <3>4. H2[r] = {} /\ d2[r] = d[r]
      BY <1>3, <1>6, <3>3
    <3>5. H2[u] = {} /\ d2[u] = 0 + d[r] + 1
      BY <1>5, <2>2
    <3>6. d2[r] = d2[u] - 1
      BY <3>2, <3>4, <3>5
    <3>7. H2[r] = H2[u]
      BY <3>4, <3>5, Zenon
    <3>. QED  BY <3>2, <3>6, <3>7
  <2>. QED  BY <1>10, <2>1, <2>2
<1>12. Held(m2, xs2, cs2, D, H2, d2)
  <2>1. \A u \in D : H2[u] = {} \/ \E j \in Alive(cs2) : H2[u] = {j}
    BY <1>2, <1>5, <1>6 DEF Held
  <2>2. ASSUME NEW j \in Alive(cs2), NEW p, p = Sp(xs2, cs2, j)
        PROVE  /\ p.stk \in D /\ H2[p.stk] = {j} /\ Wait(m2, p)
               /\ \A u \in D : H2[u] = {j} => d2[u] <= d2[p.stk]
               /\ \A u \in D : H2[u] = {j} => (d2[u] = 0 <=> Own(m2, u) = Ex(cs2, j))
    <3>1. j \in Conts /\ j # k /\ cs2[j] = cs[j] /\ j \in Alive(cs)
      BY <1>2 DEF Alive
    <3>2. Multi(cs, j) \/ Ex(cs, j) # e
      BY <3>1 DEF Singles
    <3>3. p = Sp(xs, cs, j) /\ Ex(cs2, j) = Ex(cs, j)
      BY <2>2, <3>1, <3>2 DEF Sp, Multi, Ex
    <3>4. /\ p.stk \in D /\ H[p.stk] = {j} /\ Wait(m, p)
          /\ \A u \in D : H[u] = {j} => d[u] <= d[p.stk]
          /\ \A u \in D : H[u] = {j} => (d[u] = 0 <=> Own(m, u) = Ex(cs, j))
      BY <3>1, <3>3 DEF Held
    <3>5. Wait(m2, p)
      BY <3>1, <3>4, <1>3, <1>4, <1>8
    <3>6. \A u \in D : H2[u] = {j} => H[u] = {j} /\ d2[u] = d[u] /\ Own(m2, u) = Own(m, u)
      BY <1>1, <1>5, <1>6, <3>1
    <3>7. H2[p.stk] = {j} /\ d2[p.stk] = d[p.stk]
      BY <1>6, <3>1, <3>4
    <3>. QED  BY <3>3, <3>4, <3>5, <3>6, <3>7
  <2>. QED  BY <2>1, <2>2 DEF Held
<1>13. OneUser(m2, D, d2)
  <2>. SUFFICES ASSUME NEW u \in D, NEW v \in D, d2[u] > 0, d2[v] > 0, Own(m2, u) = Own(m2, v)
                PROVE  u = v
    BY DEF OneUser
  <2>1. Own(m, u) = Own(m, v)
    BY <1>9
  <2>2. CASE Own(m, u) = e
    <3>1. H[u] = {k} /\ d[u] = 0
      BY <1>10, <2>2
    <3>2. H[v] = {k} /\ d[v] = 0
      BY <1>10, <2>1, <2>2
    <3>3. H[u] = H[v] /\ d[u] = d[v]
      BY <3>1, <3>2, Zenon
    <3>. QED  BY <1>3, <3>3
  <2>3. CASE Own(m, u) # e
    BY <1>10, <2>1, <2>3 DEF OneUser
  <2>. QED  BY <2>2, <2>3
<1>14. Singles(m2, cs2, D, d2)
  <2>1. \A j \in Alive(cs2) :
          /\ j \in Alive(cs) /\ j # k /\ Ex(cs2, j) = Ex(cs, j)
          /\ Multi(cs2, j) <=> Multi(cs, j)
    BY <1>2 DEF Alive, Ex, Multi
  <2>2. \A j \in Alive(cs2) : ~Multi(cs2, j) => Ex(cs, j) # e
    BY <2>1 DEF Singles
  <2>. QED  BY <1>9, <1>10, <2>1, <2>2 DEF Singles
<1>. QED  BY <1>7, <1>11, <1>12, <1>13, <1>14

-----------------------------------------------------------------------------
(***************************************************************************)
(* How the frames change.                                                  *)
(***************************************************************************)
\* Stack t has the frames it had, but for some cut off, or pushed, at the top.
Edited(m, m2, t) ==
  \A i \in DOMAIN m2[t] :
    IF i \in DOMAIN m[t] THEN m2[t][i] = m[t][i]
    ELSE m2[t][i].kind = "call" \/ m2[t][i] = AbortFrame(t)

LEMMA OwnKept ==
  ASSUME NEW m \in Memory, NEW m2 \in Memory, NEW t \in AllStacks,
         Edited(m, m2, t), m[t] # <<>>, m2[t] # <<>>
  PROVE  Own(m2, t) = Own(m, t)
<1>1. 1 \in DOMAIN m[t] /\ 1 \in DOMAIN m2[t]
  BY DEF Memory
<1>. QED  BY <1>1 DEF Edited, Own

LEMMA EditedBase ==
  ASSUME NEW m \in Memory, NEW m2 \in Memory, NEW t \in AllStacks,
         Edited(m, m2, t), HasBase(m, t), m2[t] # <<>>
  PROVE  HasBase(m2, t) /\ Own(m2, t) = Own(m, t)
<1>1. 1 \in DOMAIN m[t] /\ 1 \in DOMAIN m2[t]
  BY DEF Memory, HasBase
<1>2. m2[t][1] = m[t][1]
  BY <1>1 DEF Edited
<1>3. ASSUME NEW i \in DOMAIN m2[t], i > 1 PROVE m2[t][i].kind # "enter"
  <2>1. CASE i \in DOMAIN m[t]
    BY <1>3, <2>1 DEF Edited, HasBase
  <2>2. CASE i \notin DOMAIN m[t]
    BY <1>3, <2>2 DEF Edited, AbortFrame
  <2>. QED  BY <2>1, <2>2
<1>. QED  BY <1>2, <1>3 DEF HasBase, Own

LEMMA EditedNoBase ==
  ASSUME NEW m, NEW m2, Edited(m, m2, Main), NoBase(m)
  PROVE  NoBase(m2)
<1>. SUFFICES ASSUME NEW i \in DOMAIN m2[Main] PROVE m2[Main][i].kind # "enter"
  BY DEF NoBase
<1>1. CASE i \in DOMAIN m[Main]
  BY <1>1 DEF Edited, NoBase
<1>2. CASE i \notin DOMAIN m[Main]
  BY <1>2 DEF Edited, AbortFrame
<1>. QED  BY <1>1, <1>2

LEMMA EditedStubs ==
  ASSUME NEW m, NEW m2, Stubs(m),
         \A t \in AllStacks : Edited(m, m2, t) \/ \A i \in DOMAIN m2[t] : m2[t][i].kind # "abort"
  PROVE  Stubs(m2)
<1>. SUFFICES ASSUME NEW t \in AllStacks, NEW i \in DOMAIN m2[t], m2[t][i].kind = "abort"
              PROVE  m2[t][i].at = t
  BY DEF Stubs
<1>1. Edited(m, m2, t)
  OBVIOUS
<1>2. CASE i \in DOMAIN m[t]
  BY <1>1, <1>2 DEF Edited, Stubs
<1>3. CASE i \notin DOMAIN m[t]
  BY <1>1, <1>3 DEF Edited, AbortFrame
<1>. QED  BY <1>2, <1>3

PushOn(m, r, f) == [m EXCEPT ![r] = Append(@, f)]

LEMMA PushFrame ==
  ASSUME NEW m \in Memory, NEW r \in AllStacks, NEW f \in Frame,
         f.kind = "call" \/ f = AbortFrame(r),
         NEW m2, m2 = PushOn(m, r, f)
  PROVE  /\ m2 \in Memory
         /\ \A t \in AllStacks : t # r => m2[t] = m[t]
         /\ Len(m2[r]) = Len(m[r]) + 1 /\ m2[r] # <<>> /\ m2[r][Len(m2[r])] = f
         /\ \A t \in AllStacks : Edited(m, m2, t)
<1>. USE DEF PushOn
<1>1. m[r] \in Seq(Frame) /\ m2[r] = Append(m[r], f)
  BY DEF Memory
<1>2. m2 \in Memory
  BY <1>1 DEF Memory
<1>3. \A t \in AllStacks : t # r => m2[t] = m[t]
  BY DEF Memory
<1>4. Len(m2[r]) = Len(m[r]) + 1 /\ m2[r] # <<>> /\ m2[r][Len(m2[r])] = f
  BY <1>1
<1>5. ASSUME NEW t \in AllStacks PROVE Edited(m, m2, t)
  <2>1. CASE t # r
    BY <1>3, <2>1 DEF Edited
  <2>2. CASE t = r
    <3>1. \A i \in DOMAIN m2[r] : i \in DOMAIN m[r] \/ m2[r][i] = f
      BY <1>1
    <3>2. \A i \in DOMAIN m[r] : m2[r][i] = m[r][i]
      BY <1>1
    <3>. QED  BY <2>2, <3>1, <3>2 DEF Edited
  <2>. QED  BY <2>1, <2>2
<1>. QED  BY <1>2, <1>3, <1>4, <1>5

LEMMA CutFrames ==
  ASSUME NEW m \in Memory, NEW p \in SP, p.h <= Len(m[p.stk]),
         NEW m2, m2 = CutTo(m, p)
  PROVE  /\ m2 \in Memory
         /\ \A t \in AllStacks : t # p.stk => m2[t] = m[t]
         /\ Len(m2[p.stk]) = p.h
         /\ \A i \in 1 .. p.h : m2[p.stk][i] = m[p.stk][i]
         /\ \A t \in AllStacks : Edited(m, m2, t)
<1>1. p.stk \in AllStacks /\ p.h \in Nat /\ m[p.stk] \in Seq(Frame)
  BY DEF Memory, SP
<1>2. (IF p.h < Len(m[p.stk]) THEN p.h ELSE Len(m[p.stk])) = p.h
  BY <1>1
<1>3. m2 = [m EXCEPT ![p.stk] = SubSeq(m[p.stk], 1, p.h)]
  BY <1>2 DEF CutTo
<1>4. m2[p.stk] = SubSeq(m[p.stk], 1, p.h)
  BY <1>1, <1>3 DEF Memory
<1>5. Len(m2[p.stk]) = p.h /\ DOMAIN m2[p.stk] = 1 .. p.h
  BY <1>1, <1>4
<1>6. \A i \in 1 .. p.h : m2[p.stk][i] = m[p.stk][i] /\ i \in DOMAIN m[p.stk]
  BY <1>1, <1>4
<1>7. \A t \in AllStacks : t # p.stk => m2[t] = m[t]
  BY <1>3 DEF Memory
<1>8. m2 \in Memory
  BY CutType
<1>9. \A t \in AllStacks : Edited(m, m2, t)
  BY <1>5, <1>6, <1>7 DEF Edited
<1>. QED  BY <1>5, <1>6, <1>7, <1>8, <1>9

\* A ret to where something waits pops one frame.
LEMMA RetFrame ==
  ASSUME NEW m \in Memory, NEW p \in SP, Wait(m, p),
         NEW m2, m2 = RetTo(m, p)
  PROVE  /\ m2 \in Memory
         /\ \A t \in AllStacks : t # p.stk => m2[t] = m[t]
         /\ Len(m2[p.stk]) = Len(m[p.stk]) - 1
         /\ \A i \in 1 .. Len(m[p.stk]) - 1 : m2[p.stk][i] = m[p.stk][i]
         /\ \A t \in AllStacks : Edited(m, m2, t)
         /\ HasBase(m, p.stk) => m2[p.stk] # <<>>
<1> DEFINE p1 == [stk |-> p.stk, h |-> p.h - 1]
<1>1. p.stk \in AllStacks /\ p.h \in Nat /\ m[p.stk] \in Seq(Frame)
      /\ p.h = Len(m[p.stk]) /\ p.h > 0
  BY DEF Memory, SP, Wait
<1>2. p1 \in SP /\ p1.h <= Len(m[p1.stk]) /\ p1.stk = p.stk /\ p1.h = Len(m[p.stk]) - 1
  BY <1>1 DEF SP
<1>3. m2 = CutTo(m, p1)
  BY <1>1 DEF RetTo
<1> HIDE DEF p1
<1>4. /\ m2 \in Memory
      /\ \A t \in AllStacks : t # p1.stk => m2[t] = m[t]
      /\ Len(m2[p1.stk]) = p1.h
      /\ \A i \in 1 .. p1.h : m2[p1.stk][i] = m[p1.stk][i]
      /\ \A t \in AllStacks : Edited(m, m2, t)
  BY <1>2, <1>3, CutFrames
<1>5. ASSUME HasBase(m, p.stk) PROVE m2[p.stk] # <<>>
  <2>1. m[p.stk][1].kind = "enter" /\ m[p.stk][p.h].kind = "call"
    BY <1>5 DEF HasBase, Wait
  <2>2. p.h # 1
    BY <2>1
  <2>3. Len(m2[p.stk]) # 0
    BY <1>1, <1>2, <1>4, <2>2
  <2>. QED  BY <2>3
<1>. QED  BY <1>2, <1>4, <1>5

-----------------------------------------------------------------------------
(***************************************************************************)
(* Following the exchangers goes through the chains.                       *)
(***************************************************************************)
\* The natural numbers are well-ordered; with it, induction on them for a set.
Less == {s \in Nat \X Nat : s[1] < s[2]}
LEMMA LeastNatural ==
  ASSUME NEW T \in SUBSET Nat, T # {}
  PROVE  \E n \in T : \A m \in T : n <= m
<1>1. Less = OpToRel(<, Nat)
  BY DEF Less, OpToRel
<1>2. PICK x \in T : \A y \in T : ~ (<<y, x>> \in Less)
  BY <1>1, NatLessThanWellFounded, WFMin
<1>3. \A y \in T : x \in Nat /\ y \in Nat /\ <<y, x>> \in Nat \X Nat
  OBVIOUS
<1>4. \A y \in T : ~(<<y, x>>[1] < <<y, x>>[2])
  BY <1>2, <1>3 DEF Less
<1>5. \A y \in T : ~(y < x)
  BY <1>4
<1>. QED  BY <1>3, <1>5

LEMMA NatSetInduction ==
  ASSUME NEW S, 0 \in S, \A n \in Nat : n \in S => n + 1 \in S
  PROVE  \A n \in Nat : n \in S
<1>1. SUFFICES ASSUME Nat \ S # {} PROVE FALSE
  OBVIOUS
<1>2. PICK n \in Nat \ S : \A m \in Nat \ S : n <= m
  BY <1>1, LeastNatural
<1>3. n # 0 /\ n - 1 \in Nat /\ n - 1 < n /\ n = (n - 1) + 1
  BY <1>2
<1>4. n - 1 \in S
  BY <1>2, <1>3
<1>. QED  BY <1>2, <1>3, <1>4

\* The chain of t from t down, if e ends it.
Down(D, H, d, t) == {u \in D : H[u] = H[t] /\ d[u] <= d[t]}

LEMMA FromIsDown ==
  ASSUME NEW D, NEW H, NEW d, Placed(cur, inUse, D, H, d), Linked(mem, exchanger, D, H, d),
         Based(mem, inUse), inUse \subseteq Stacks,
         NEW t \in D, NEW e,
         \A u \in D : H[u] = H[t] /\ u # Main => (d[u] = 0 <=> Own(mem, u) = e)
  PROVE  From(t, e) = Down(D, H, d, t)
<1>0. \A u \in D : d[u] \in Nat /\ (d[u] > 0 => u # Main) /\ (u # Main => u \in inUse) /\ u \in AllStacks
  BY InChain DEF AllStacks
<1>1. ASSUME NEW u \in D, H[u] = H[t], u # Main, Owner(u) # e
      PROVE  Below(u) \in D /\ H[Below(u)] = H[t] /\ d[Below(u)] = d[u] - 1
  <2>1. d[u] > 0
    BY <1>0, <1>1 DEF Own, Owner
  <2>2. Below(u) = exchanger[Own(mem, u)].stk
    BY <1>1 DEF Below, Own, Owner
  <2>. QED  BY <1>1, <2>1, <2>2 DEF Linked
<1>2. Closed(Down(D, H, d, t), e)
  <2>. SUFFICES ASSUME NEW u \in D, H[u] = H[t], d[u] <= d[t], u # Main, Owner(u) # e
                PROVE  Below(u) \in Down(D, H, d, t)
    BY DEF Closed, Down
  <2>1. Below(u) \in D /\ H[Below(u)] = H[t] /\ d[Below(u)] = d[u] - 1
    BY <1>1
  <2>. QED  BY <1>0, <2>1 DEF Down
<1>3. ASSUME NEW u \in Down(D, H, d, t), NEW S, t \in S, Closed(S, e), u \notin S
      PROVE  FALSE
  <2> DEFINE T == {n \in Nat : n >= d[u] /\ \E v \in S \cap D : H[v] = H[t] /\ d[v] = n}
  <2>1. u \in D /\ H[u] = H[t] /\ d[u] <= d[t] /\ d[u] \in Nat /\ d[t] \in Nat
    BY <1>0, <1>3 DEF Down
  <2>2. d[t] \in T
    BY <1>3, <2>1
  <2>3. PICK n \in T : \A m \in T : n <= m
    BY <2>2, LeastNatural
  <2>4. PICK v \in S \cap D : H[v] = H[t] /\ d[v] = n
    BY <2>3
  <2>5. d[v] > d[u]
    BY <1>3, <2>1, <2>3, <2>4 DEF Placed
  <2>6. v # Main /\ d[v] # 0 /\ v \in inUse
    BY <1>0, <2>1, <2>4, <2>5
  <2>7. Owner(v) # e /\ mem[v] # <<>>
    BY <2>4, <2>6 DEF Own, Owner, Based, HasBase
  <2>8. Below(v) \in S
    BY <1>3, <2>4, <2>6, <2>7 DEF Closed
  <2>9. Below(v) \in D /\ H[Below(v)] = H[t] /\ d[Below(v)] = n - 1
    BY <1>1, <2>4, <2>6, <2>7
  <2>10. n - 1 \in T
    BY <2>1, <2>3, <2>4, <2>5, <2>8, <2>9
  <2>. QED  BY <2>3, <2>10
<1>4. From(t, e) \subseteq Down(D, H, d, t)
  <2>1. Down(D, H, d, t) \in SUBSET AllStacks /\ t \in Down(D, H, d, t)
    BY <1>0 DEF Down
  <2>. QED  BY <1>2, <2>1 DEF From
<1>5. Down(D, H, d, t) \subseteq From(t, e)
  BY <1>0, <1>3 DEF From, Down
<1>. QED  BY <1>4, <1>5

\* The state's chains, by name.
IsChained(D, H, d) == Chained(mem, cur, inUse, exchanger, conts, gc_sp, D, H, d)

LEMMA Scope ==
  ASSUME TypeOK, NEW D, NEW H, NEW d, IsChained(D, H, d)
  PROVE  /\ Context = {u \in D : H[u] = {}}
         /\ InScope = {Own(mem, u) : u \in {v \in D : H[v] = {} /\ d[v] > 0}}
         /\ LiveConts = Alive(conts)
         /\ \A k \in Alive(conts) : Captured(k) = {u \in D : H[u] = {k}}
         /\ \A k \in Conts : exc(k) = Ex(conts, k) /\ (IsMulti(k) <=> Multi(conts, k))
                             /\ rsp_sp(k) = Sp(exchanger, conts, k)
<1>. USE DEF IsChained, Chained
<1>0. \A k \in Conts : exc(k) = Ex(conts, k) /\ (IsMulti(k) <=> Multi(conts, k))
                       /\ rsp_sp(k) = Sp(exchanger, conts, k)
  BY DEF exc, Ex, IsMulti, Multi, rsp_sp, Sp
<1>1. \A u \in D : d[u] \in Nat /\ (d[u] > 0 => u # Main) /\ (u # Main => u \in inUse)
                   /\ (H[u] = {} /\ d[u] = 0 => u = Main) /\ (H[u] # {} => u # Main)
  BY InChain
<1>2. \A u \in D : u # Main => Own(mem, u) \in Stacks
  BY <1>1 DEF Based, TypeOK
<1>3. Main \notin Stacks
  BY TrekAssumption
<1>4. Context = {u \in D : H[u] = {}}
  <2>1. cur \in D /\ H[cur] = {} /\ \A u \in D : H[u] = {} => d[u] <= d[cur]
    BY DEF Placed
  <2>2. \A u \in D : H[u] = H[cur] /\ u # Main => (d[u] = 0 <=> Own(mem, u) = Main)
    BY <1>1, <1>2, <1>3, <2>1
  <2>3. inUse \subseteq Stacks
    BY DEF TypeOK
  <2>4. From(cur, Main) = Down(D, H, d, cur)
    BY <2>1, <2>2, <2>3, FromIsDown
  <2>. QED  BY <2>1, <2>4 DEF Context, Down
<1>5. LiveConts = Alive(conts)
  BY DEF LiveConts, Live, Alive
<1>6. ASSUME NEW k \in Alive(conts) PROVE Captured(k) = {u \in D : H[u] = {k}}
  <2> DEFINE t == rsp_sp(k).stk
  <2>0. k \in Conts
    BY DEF Alive
  <2>1. /\ t \in D /\ H[t] = {k}
        /\ \A u \in D : H[u] = {k} => d[u] <= d[t]
        /\ \A u \in D : H[u] = {k} => (d[u] = 0 <=> Own(mem, u) = exc(k))
    BY <1>0, <2>0 DEF Held
  <2> HIDE DEF t
  <2>2. \A u \in D : H[u] = H[t] /\ u # Main => (d[u] = 0 <=> Own(mem, u) = exc(k))
    BY <2>1
  <2>3. inUse \subseteq Stacks
    BY DEF TypeOK
  <2>4. From(t, exc(k)) = Down(D, H, d, t)
    BY <2>1, <2>2, <2>3, FromIsDown
  <2>5. Captured(k) = From(t, exc(k))
    BY DEF Captured, t
  <2>. QED  BY <2>1, <2>4, <2>5 DEF Down
<1>7. InScope = {Own(mem, u) : u \in {v \in D : H[v] = {} /\ d[v] > 0}}
  <2>1. \A u \in Context : u \in D /\ H[u] = {} /\ (u # Main <=> d[u] > 0)
    BY <1>1, <1>4
  <2>2. \A u : Own(mem, u) = Owner(u)
    BY DEF Own, Owner
  <2>3. \A u \in Context \ {Main} : Owner(u) \in Stacks
    BY <1>2, <2>1, <2>2
  <2>. QED  BY <1>4, <2>1, <2>2, <2>3 DEF InScope
<1>. QED  BY <1>0, <1>4, <1>5, <1>6, <1>7

-----------------------------------------------------------------------------
(***************************************************************************)
(* One lemma per action.                                                   *)
(***************************************************************************)
LEMMA Facts ==
  ASSUME TypeOK, NEW D, NEW H, NEW d, IsChained(D, H, d)
  PROVE  /\ mem \in Memory /\ cur \in AllStacks /\ inUse \subseteq Stacks /\ Main \notin Stacks
         /\ D \subseteq AllStacks /\ cur \in D /\ H[cur] = {}
         /\ \A u \in D : d[u] \in Nat /\ (d[u] > 0 => u # Main) /\ (u # Main => u \in inUse)
                         /\ (H[u] = {} /\ d[u] = 0 => u = Main) /\ (H[u] # {} => u # Main)
         /\ \A u \in D : H[u] = {} => d[u] <= d[cur]
         /\ \A u, v \in D : H[u] = H[v] /\ d[u] = d[v] => u = v
         /\ \A t \in inUse : HasBase(mem, t) /\ Own(mem, t) \in inUse
         /\ cur # Main => cur \in inUse
<1>1. Placed(cur, inUse, D, H, d) /\ Based(mem, inUse)
  BY DEF IsChained, Chained
<1>2. \A u \in D : d[u] \in Nat /\ (d[u] > 0 => u # Main) /\ (u # Main => u \in inUse)
                   /\ (H[u] = {} /\ d[u] = 0 => u = Main) /\ (H[u] # {} => u # Main)
  BY <1>1, InChain
<1>3. cur \in AllStacks /\ inUse \subseteq Stacks /\ Main \notin Stacks /\ mem \in Memory
  BY TrekAssumption DEF TypeOK, Memory
<1>. QED  BY <1>1, <1>2, <1>3 DEF Placed, Based, AllStacks

\* How a step changes the placement.
NextChained(D, H, d) == Chained(mem', cur', inUse', exchanger', conts', gc_sp', D, H, d)
Cuts(D, H, d, r2) ==
  LET D2 == CutPlaces(D, H, d, r2) IN NextChained(D2, Restrict(H, D2), Restrict(d, D2))
Grows(D, H, d, s) == NextChained(D \cup {s}, GrowHolder(D, H, s), GrowDepth(D, d, s, d[cur] + 1))
Raises(D, H, d, k, w) == NextChained(D, RaiseHolder(D, H, d, k, w), RaiseDepth(D, H, d, w))
Resumes(D, H, d, k) == NextChained(D, ResumeHolder(D, H, k), ResumeDepth(D, H, d, k, cur))

\* The running chain is cut at r2, and the stack that ran freed if it is left.
LEMMA CutStep ==
  ASSUME TypeOK, NEW D, NEW H, NEW d, IsChained(D, H, d),
         NEW r2 \in D, H[r2] = {}, cur' = r2, mem' \in Memory,
         exchanger' = exchanger, conts' = conts, gc_sp' = gc_sp,
         r2 = cur => inUse' = inUse,
         r2 # cur => /\ inUse' = inUse \ {cur}
                     /\ \A t \in inUse \ {cur} : Own(mem, t) # cur
                     /\ \A k \in Alive(conts) : Ex(conts, k) # cur,
         \A t \in AllStacks : t # r2 /\ t # cur => mem'[t] = mem[t],
         \A t \in AllStacks : Edited(mem, mem', t),
         r2 # Main => mem'[r2] # <<>>,
         "abort_across" \notin Allow => d[r2] >= d[cur] - 1
  PROVE  Cuts(D, H, d, r2)
<1> DEFINE D2 == CutPlaces(D, H, d, r2)
           H2 == Restrict(H, D2)
           d2 == Restrict(d, D2)
<1>1. /\ mem \in Memory /\ inUse \subseteq Stacks /\ Main \notin Stacks
      /\ D \subseteq AllStacks /\ cur \in D /\ H[cur] = {}
      /\ \A u \in D : d[u] \in Nat /\ (d[u] > 0 => u # Main) /\ (u # Main => u \in inUse)
      /\ \A u \in D : H[u] = {} => d[u] <= d[cur]
      /\ \A u, v \in D : H[u] = H[v] /\ d[u] = d[v] => u = v
      /\ \A t \in inUse : HasBase(mem, t) /\ Own(mem, t) \in inUse
  BY Facts
<1>2. r2 # cur => d[r2] < d[cur]
  <2>1. d[r2] \in Nat /\ d[cur] \in Nat /\ d[r2] <= d[cur] /\ H[r2] = H[cur]
    BY <1>1
  <2>2. d[r2] = d[cur] => r2 = cur
    BY <1>1, <2>1
  <2>. QED  BY <2>1, <2>2
<1>3. \A u \in D2 : u \in D /\ (u = cur => r2 = cur)
  BY <1>1, <1>2 DEF CutPlaces
<1>4. inUse' \subseteq inUse /\ \A u \in D2 : u # Main => u \in inUse'
  BY <1>1, <1>3
<1>5. \A t \in inUse' : t # r2 => t # cur /\ mem'[t] = mem[t]
  BY <1>1 DEF AllStacks
<1>6. \A t \in inUse' : mem'[t] # <<>>
  BY <1>1, <1>4, <1>5 DEF HasBase
<1>7. \A t \in inUse' : HasBase(mem', t) /\ Own(mem', t) = Own(mem, t)
  <2>. SUFFICES ASSUME NEW t \in inUse' PROVE HasBase(mem', t) /\ Own(mem', t) = Own(mem, t)
    OBVIOUS
  <2>1. t \in AllStacks /\ Edited(mem, mem', t) /\ HasBase(mem, t) /\ mem'[t] # <<>>
    BY <1>1, <1>4, <1>6 DEF AllStacks
  <2>. QED  BY <1>1, <2>1, EditedBase
<1>8. Based(mem', inUse')
  BY <1>1, <1>4, <1>7 DEF Based
<1>9. NoBase(mem') /\ Stubs(mem')
  <2>1. Edited(mem, mem', Main)
    BY DEF AllStacks
  <2>2. NoBase(mem) /\ Stubs(mem)
    BY DEF IsChained, Chained
  <2>. QED  BY <2>1, <2>2, EditedNoBase, EditedStubs
<1>10. Owned(inUse', conts')
  BY DEF IsChained, Chained, Owned
<1>11. Complete(inUse', D2)
  <2>1. SUFFICES ASSUME "abort_across" \notin Allow, NEW t \in inUse' PROVE t \in D2
    BY DEF Complete
  <2>2. t \in D /\ t \in AllStacks
    BY <1>1, <1>4, <2>1 DEF IsChained, Chained, Complete
  <2>3. CASE r2 = cur
    BY <1>1, <2>2, <2>3 DEF CutPlaces
  <2>4. CASE r2 # cur
    <3>1. t # cur
      BY <2>4
    <3>2. H[t] = {} => d[t] # d[cur]
      BY <1>1, <2>2, <3>1
    <3>. QED  BY <1>1, <1>2, <2>1, <2>2, <3>2 DEF CutPlaces
  <2>. QED  BY <2>3, <2>4
<1>12. Scanned(mem', cur', gc_sp')
  <2>1. SUFFICES ASSUME r2 # Main PROVE gc_sp = Len(mem'[Main])
    BY DEF Scanned
  <2>2. cur # Main
    <3>1. H[Main] = {} /\ d[Main] = 0 /\ Main \in D
      BY DEF IsChained, Chained, Placed
    <3>. QED  BY <1>1, <1>2, <2>1, <3>1
  <2>3. mem'[Main] = mem[Main]
    BY <2>1, <2>2 DEF AllStacks
  <2>. QED  BY <2>2, <2>3 DEF IsChained, Chained, Scanned
<1>13. Unmoved(mem, mem', D2, {r2})
  BY <1>1, <1>3 DEF Unmoved
<1>14. SameOwners(mem, mem', D2)
  BY <1>4, <1>7 DEF SameOwners
<1>15. InOrder(mem, cur, inUse, exchanger, conts, D, H, d)
  BY DEF IsChained, Chained, InOrder
<1>16. WithinUse(D2, inUse')
  BY <1>4 DEF WithinUse
<1>17. D2 = CutPlaces(D, H, d, r2) /\ H2 = Restrict(H, D2) /\ d2 = Restrict(d, D2)
  OBVIOUS
<1> HIDE DEF D2, H2, d2
<1>18. InOrder(mem', r2, inUse', exchanger, conts, D2, H2, d2)
  BY <1>13, <1>14, <1>15, <1>16, <1>17, CutChain
<1>19. Chained(mem', cur', inUse', exchanger', conts', gc_sp', D2, H2, d2)
  BY <1>8, <1>9, <1>10, <1>11, <1>12, <1>18 DEF Chained, InOrder
<1>. QED  BY <1>17, <1>19 DEF Cuts, NextChained

LEMMA CallStep ==
  ASSUME TypeOK, NEW D, NEW H, NEW d, IsChained(D, H, d),
         (\E c \in CallSites : Call(c)) \/ HANDLE_ABORT
  PROVE  Cuts(D, H, d, cur)
<1>1. mem \in Memory /\ cur \in AllStacks /\ cur \in D /\ H[cur] = {} /\ d[cur] \in Nat
  BY Facts
<1>2. PICK f \in Frame : /\ f.kind = "call" \/ f = AbortFrame(cur)
                         /\ mem' = PushOn(mem, cur, f)
  <2>1. ASSUME NEW c \in CallSites, Call(c)
        PROVE  /\ CallFrame(c) \in Frame /\ CallFrame(c).kind = "call"
               /\ mem' = PushOn(mem, cur, CallFrame(c))
    BY <2>1, FrameTypes DEF Call, Pushed, CallFrame, PushOn
  <2>2. CASE HANDLE_ABORT
    BY <2>2, <1>1, FrameTypes DEF HANDLE_ABORT, PushOn
  <2>. QED  BY <2>1, <2>2
<1>3. UNCHANGED <<cur, inUse, exchanger, conts, gc_sp>>
  BY DEF Call, HANDLE_ABORT
<1>4. /\ mem' \in Memory
      /\ \A t \in AllStacks : t # cur => mem'[t] = mem[t]
      /\ mem'[cur] # <<>>
      /\ \A t \in AllStacks : Edited(mem, mem', t)
  BY <1>1, <1>2, PushFrame
<1>. QED  BY <1>1, <1>3, <1>4, CutStep

LEMMA ReturnStep ==
  ASSUME TypeOK, NEW D, NEW H, NEW d, IsChained(D, H, d), Return
  PROVE  Cuts(D, H, d, cur)
<1>1. mem \in Memory /\ cur \in AllStacks /\ cur \in D /\ H[cur] = {} /\ d[cur] \in Nat
      /\ (cur # Main => HasBase(mem, cur))
  BY Facts
<1>2. UNCHANGED <<cur, inUse, exchanger, conts, gc_sp>>
  BY DEF Return
<1> DEFINE p == [stk |-> cur, h |-> Len(mem[cur]) - 1]
<1>3. mem[cur] \in Seq(Frame) /\ mem[cur] # <<>> /\ Last(mem[cur]).kind # "enter"
  BY <1>1 DEF Return, Memory
<1>4. p \in SP /\ p.h < Len(mem[p.stk]) /\ p.stk = cur /\ p.h = Len(mem[cur]) - 1
  BY <1>1, <1>3 DEF SP
<1>5. mem' = CutTo(mem, p)
  BY <1>3, <1>4 DEF Return, CutTo, Front
<1> HIDE DEF p
<1>6. /\ mem' \in Memory
      /\ \A t \in AllStacks : t # cur => mem'[t] = mem[t]
      /\ Len(mem'[cur]) = Len(mem[cur]) - 1
      /\ \A t \in AllStacks : Edited(mem, mem', t)
  BY <1>1, <1>4, <1>5, CutFrames
<1>7. cur # Main => mem'[cur] # <<>>
  <2>1. SUFFICES ASSUME cur # Main PROVE mem'[cur] # <<>>
    OBVIOUS
  <2>2. Len(mem[cur]) # 1
    BY <1>1, <1>3, <2>1 DEF HasBase, Last
  <2>3. Len(mem[cur]) > 0
    BY <1>3
  <2>4. Len(mem'[cur]) # 0
    BY <1>3, <1>6, <2>2, <2>3
  <2>. QED  BY <2>4
<1>. QED  BY <1>1, <1>2, <1>6, <1>7, CutStep

\* At the end of a body only the base frame is left.
LEMMA LastIsBase ==
  ASSUME TypeOK, HasBase(mem, cur), Last(mem[cur]).kind = "enter"
  PROVE  Last(mem[cur]).at = Own(mem, cur)
<1>1. mem[cur] \in Seq(Frame) /\ mem[cur] # <<>> /\ mem[cur][Len(mem[cur])].kind = "enter"
  BY DEF TypeOK, HasBase, Last
<1>2. Len(mem[cur]) \in DOMAIN mem[cur] /\ Len(mem[cur]) \in Nat /\ Len(mem[cur]) > 0
  BY <1>1
<1>3. ~(Len(mem[cur]) > 1)
  BY <1>1, <1>2 DEF HasBase
<1>4. \A n \in Nat : n > 0 /\ ~(n > 1) => n = 1
  OBVIOUS
<1>. QED  BY <1>2, <1>3, <1>4 DEF Last, Own

\* The end of a handler's body; its stack is freed.
LEMMA ReturnToParent ==
  ASSUME TypeOK, TypeOK', Contract, NEW D, NEW H, NEW d, IsChained(D, H, d), ENTER_return
  PROVE  Cuts(D, H, d, exchanger[Own(mem, cur)].stk)
<1> DEFINE p == exchanger[Last(mem[cur]).at]
           m1 == [mem EXCEPT ![cur] = <<>>]
<1>1. /\ mem \in Memory /\ cur \in AllStacks /\ cur \in D /\ H[cur] = {} /\ cur # Main /\ cur \in inUse
      /\ \A u \in D : d[u] \in Nat /\ (u # Main => u \in inUse)
      /\ (H[cur] = {} /\ d[cur] = 0 => cur = Main)
      /\ HasBase(mem, cur) /\ \A t \in inUse : HasBase(mem, t)
  BY Facts DEF ENTER_return
<1>2. Last(mem[cur]).at = Own(mem, cur)
  BY <1>1, LastIsBase DEF ENTER_return
<1>3. p = exchanger[Own(mem, cur)]
  BY <1>2
<1>4. d[cur] > 0
  BY <1>1
<1>5. p.stk \in D /\ H[p.stk] = {} /\ d[p.stk] = d[cur] - 1 /\ Wait(mem, p)
  BY <1>1, <1>3, <1>4 DEF IsChained, Chained, Linked
<1>6. p.stk # cur
  BY <1>1, <1>5
<1>7. p \in SP
  <2>1. Last(mem[cur]) \in Frame /\ Last(mem[cur]).kind = "enter"
    BY PopType DEF ENTER_return, TypeOK
  <2>. QED  BY <2>1, FrameTypes DEF TypeOK
<1>8. m1 \in Memory /\ m1[cur] = <<>> /\ \A t \in AllStacks : t # cur => m1[t] = mem[t]
  BY <1>1 DEF Memory
<1>9. Wait(m1, p)
  BY <1>5, <1>6, <1>7, <1>8 DEF Wait, SP
<1>10. mem' = RetTo(m1, p) /\ cur' = p.stk /\ inUse' = inUse \ {cur}
       /\ exchanger' = exchanger /\ conts' = conts /\ gc_sp' = gc_sp
  BY DEF ENTER_return, Freed
<1>11. /\ \A t \in inUse \ {cur} : Own(mem, t) # cur
       /\ \A k \in Alive(conts) : Ex(conts, k) # cur
  <2>1. Discardable(cur) /\ "escape" \notin Allow
    BY DEF ENTER_return, Contract
  <2>. QED  BY <2>1 DEF Discardable, Own, Owner, LiveConts, Live, Alive, exc, Ex
<1> HIDE DEF p, m1
<1>12. /\ mem' \in Memory
       /\ \A t \in AllStacks : t # p.stk => mem'[t] = m1[t]
       /\ \A t \in AllStacks : Edited(m1, mem', t)
       /\ HasBase(m1, p.stk) => mem'[p.stk] # <<>>
  BY <1>7, <1>8, <1>9, <1>10, RetFrame
<1>13. \A t \in AllStacks : Edited(mem, mem', t)
  <2>1. Edited(mem, mem', cur)
    BY <1>1, <1>6, <1>8, <1>12 DEF Edited
  <2>2. ASSUME NEW t \in AllStacks, t # cur PROVE Edited(mem, mem', t)
    BY <1>8, <1>12, <2>2 DEF Edited
  <2>. QED  BY <2>1, <2>2
<1>14. p.stk # Main => mem'[p.stk] # <<>>
  <2>1. p.stk \in AllStacks /\ m1[p.stk] = mem[p.stk]
    BY <1>6, <1>7, <1>8 DEF SP
  <2>2. p.stk # Main => HasBase(m1, p.stk)
    BY <1>1, <1>5, <2>1 DEF HasBase
  <2>. QED  BY <1>12, <2>2
<1>15. \A t \in AllStacks : t # p.stk /\ t # cur => mem'[t] = mem[t]
  BY <1>8, <1>12
<1>16. d[p.stk] >= d[cur] - 1
  BY <1>1, <1>5
<1>. QED  BY <1>3, <1>5, <1>6, <1>10, <1>11, <1>12, <1>13, <1>14, <1>15, <1>16, CutStep

\* What an abort jumps to is in a frame of the running chain.
LEMMA AbortPlace ==
  ASSUME TypeOK, Contract, NEW D, NEW H, NEW d, IsChained(D, H, d), NEW p \in AbortTargets
  PROVE  /\ p \in SP /\ p.stk \in D /\ H[p.stk] = {}
         /\ p.h > 0 /\ p.h <= Len(mem[p.stk])
         /\ NearAbort(p) /\ "abort_across" \notin Allow => d[p.stk] >= d[cur] - 1
<1>1. p \in SP
  BY AbortTargetType
<1>2. /\ cur \in D /\ H[cur] = {} /\ \A u \in D : d[u] \in Nat
      /\ \A u \in D : d[u] > 0 => u # Main
      /\ (H[cur] = {} /\ d[cur] = 0 => cur = Main)
  BY Facts
<1>3. /\ Context = {u \in D : H[u] = {}}
      /\ InScope = {Own(mem, u) : u \in {v \in D : H[v] = {} /\ d[v] > 0}}
  BY Scope
<1>4. p.stk \in D /\ H[p.stk] = {} /\ p.h > 0 /\ p.h <= Len(mem[p.stk])
  <2>1. CASE \E e \in InScope : p = exchanger[e]
    <3>1. PICK u \in D : H[u] = {} /\ d[u] > 0 /\ p = exchanger[Own(mem, u)]
      BY <1>3, <2>1
    <3>2. p.stk \in D /\ H[p.stk] = {} /\ Wait(mem, p)
      BY <3>1 DEF IsChained, Chained, Linked
    <3>3. Len(mem[p.stk]) \in Nat
      BY <1>1 DEF SP, TypeOK
    <3>. QED  BY <3>2, <3>3 DEF Wait
  <2>2. ASSUME NEW t \in Context, NEW i \in AbortFrames(t), p = StubExchanger(mem[t][i], i)
        PROVE  p.stk \in D /\ H[p.stk] = {} /\ p.h > 0 /\ p.h <= Len(mem[p.stk])
    <3>1. t \in AllStacks /\ i \in DOMAIN mem[t] /\ mem[t][i].kind = "abort" /\ mem[t] \in Seq(Frame)
      BY DEF Context, From, AbortFrames, TypeOK
    <3>2. mem[t][i].at = t
      BY <3>1 DEF IsChained, Chained, Stubs
    <3>3. p.stk = t /\ p.h = i
      BY <2>2, <3>2 DEF StubExchanger
    <3>. QED  BY <1>3, <3>1, <3>3
  <2>. QED  BY <2>1, <2>2 DEF AbortTargets
<1>5. ASSUME NearAbort(p), "abort_across" \notin Allow PROVE d[p.stk] >= d[cur] - 1
  <2>1. CASE p.stk = cur
    BY <1>2, <2>1
  <2>2. CASE p.stk = Below(cur) /\ cur # Main
    <3>1. d[cur] > 0
      BY <1>2, <2>2
    <3>2. d[exchanger[Own(mem, cur)].stk] = d[cur] - 1
      BY <1>2, <3>1 DEF IsChained, Chained, Linked
    <3>3. Below(cur) = exchanger[Own(mem, cur)].stk
      BY <2>2 DEF Below, Own, Owner
    <3>. QED  BY <1>2, <2>2, <3>2, <3>3
  <2>3. p.stk = cur \/ (p.stk = Below(cur) /\ cur # Main)
    BY <1>5 DEF NearAbort, Below
  <2>. QED  BY <2>1, <2>2, <2>3
<1>. QED  BY <1>1, <1>4, <1>5

LEMMA AbortStep ==
  ASSUME TypeOK, TypeOK', Contract, NEW D, NEW H, NEW d, IsChained(D, H, d),
         NEW p \in AbortTargets, RAISE_ABORT(p)
  PROVE  Cuts(D, H, d, p.stk)
<1>1. /\ mem \in Memory /\ cur \in AllStacks /\ cur \in D /\ H[cur] = {}
      /\ \A u \in D : d[u] \in Nat
      /\ H[Main] = {} /\ Main \in D /\ d[Main] = 0
      /\ \A u \in D : H[u] = {} => d[u] <= d[cur]
      /\ \A u, v \in D : H[u] = H[v] /\ d[u] = d[v] => u = v
  BY Facts DEF IsChained, Chained, Placed
<1>2. /\ p \in SP /\ p.stk \in D /\ H[p.stk] = {}
      /\ p.h > 0 /\ p.h <= Len(mem[p.stk])
      /\ "abort_across" \notin Allow => d[p.stk] >= d[cur] - 1
  BY AbortPlace DEF RAISE_ABORT
<1>3. p.stk \in AllStacks /\ p.h \in Nat
  BY <1>2 DEF SP
<1>4. cur' = p.stk /\ exchanger' = exchanger /\ conts' = conts /\ gc_sp' = gc_sp
  BY DEF RAISE_ABORT
<1>5. CASE p.stk = cur
  <2>1. mem' = CutTo(mem, p) /\ inUse' = inUse
    BY <1>5 DEF RAISE_ABORT, LeavesStack
  <2>2. /\ mem' \in Memory
        /\ \A t \in AllStacks : t # p.stk => mem'[t] = mem[t]
        /\ Len(mem'[p.stk]) = p.h
        /\ \A t \in AllStacks : Edited(mem, mem', t)
    BY <1>1, <1>2, <2>1, CutFrames
  <2>3. mem'[p.stk] # <<>>
    BY <1>2, <2>2
  <2>. QED  BY <1>2, <1>4, <1>5, <2>1, <2>2, <2>3, CutStep
<1>6. CASE p.stk # cur
  <2> DEFINE m1 == [mem EXCEPT ![cur] = <<>>]
  <2>1. cur # Main
    <3>1. cur = Main => d[p.stk] = 0
      BY <1>1, <1>2
    <3>. QED  BY <1>1, <1>2, <1>6, <3>1
  <2>2. mem' = CutTo(m1, p) /\ inUse' = inUse \ {cur} /\ Discardable(cur)
    BY <1>6, <2>1 DEF RAISE_ABORT, LeavesStack, Freed
  <2>3. m1 \in Memory /\ m1[cur] = <<>> /\ \A t \in AllStacks : t # cur => m1[t] = mem[t]
    BY <1>1 DEF Memory
  <2>4. p.h <= Len(m1[p.stk])
    BY <1>2, <1>3, <1>6, <2>3
  <2> HIDE DEF m1
  <2>5. /\ mem' \in Memory
        /\ \A t \in AllStacks : t # p.stk => mem'[t] = m1[t]
        /\ Len(mem'[p.stk]) = p.h
        /\ \A t \in AllStacks : Edited(m1, mem', t)
    BY <1>2, <2>2, <2>3, <2>4, CutFrames
  <2>6. \A t \in AllStacks : Edited(mem, mem', t)
    <3>1. Edited(mem, mem', cur)
      BY <1>1, <1>6, <2>3, <2>5 DEF Edited
    <3>2. ASSUME NEW t \in AllStacks, t # cur PROVE Edited(mem, mem', t)
      BY <2>3, <2>5, <3>2 DEF Edited
    <3>. QED  BY <3>1, <3>2
  <2>7. mem'[p.stk] # <<>>
    BY <1>2, <2>5
  <2>8. \A t \in AllStacks : t # p.stk /\ t # cur => mem'[t] = mem[t]
    BY <2>3, <2>5
  <2>9. /\ \A t \in inUse \ {cur} : Own(mem, t) # cur
        /\ \A k \in Alive(conts) : Ex(conts, k) # cur
    <3>1. Discardable(cur) /\ "escape" \notin Allow
      BY <2>2 DEF Contract
    <3>. QED  BY <3>1 DEF Discardable, Own, Owner, LiveConts, Live, Alive, exc, Ex
  <2>. QED  BY <1>2, <1>4, <1>6, <2>2, <2>5, <2>6, <2>7, <2>8, <2>9, CutStep
<1>. QED  BY <1>5, <1>6

-----------------------------------------------------------------------------
\* Frames after a switch to, or of, a stack that was not in use, if any.
LEMMA SwitchedFrames ==
  ASSUME TypeOK, NEW D, NEW H, NEW d, IsChained(D, H, d),
         NEW m2 \in Memory, NEW U2, inUse \subseteq U2,
         \A t \in U2 : t \in inUse \/ (HasBase(m2, t) /\ Own(m2, t) \in U2),
         \A t \in AllStacks : \/ Edited(mem, m2, t)
                              \/ /\ t \notin inUse /\ t # Main
                                 /\ \A i \in DOMAIN m2[t] : m2[t][i].kind # "abort",
         \A t \in inUse : m2[t] # <<>>
  PROVE  /\ Based(m2, U2) /\ NoBase(m2) /\ Stubs(m2)
         /\ SameOwners(mem, m2, D) /\ OwnersIn(mem, D, inUse)
<1>1. /\ mem \in Memory /\ inUse \subseteq Stacks
      /\ \A u \in D : u # Main => u \in inUse
      /\ \A t \in inUse : HasBase(mem, t) /\ Own(mem, t) \in inUse
      /\ NoBase(mem) /\ Stubs(mem)
  BY Facts DEF IsChained, Chained
<1>2. \A t \in inUse : HasBase(m2, t) /\ Own(m2, t) = Own(mem, t)
  <2>. SUFFICES ASSUME NEW t \in inUse PROVE HasBase(m2, t) /\ Own(m2, t) = Own(mem, t)
    OBVIOUS
  <2>1. t \in AllStacks /\ Edited(mem, m2, t) /\ HasBase(mem, t) /\ m2[t] # <<>>
    BY <1>1 DEF AllStacks
  <2>. QED  BY <1>1, <2>1, EditedBase
<1>3. Based(m2, U2)
  BY <1>1, <1>2 DEF Based
<1>4. Main \in AllStacks
  BY DEF AllStacks
<1>5. NoBase(m2)
  <2>1. Edited(mem, m2, Main)
    BY <1>4
  <2>. QED  BY <1>1, <2>1, EditedNoBase
<1>6. Stubs(m2)
  <2>1. \A t \in AllStacks : Edited(mem, m2, t) \/ \A i \in DOMAIN m2[t] : m2[t][i].kind # "abort"
    OBVIOUS
  <2>. QED  BY <1>1, <2>1, EditedStubs
<1>7. SameOwners(mem, m2, D) /\ OwnersIn(mem, D, inUse)
  BY <1>1, <1>2 DEF SameOwners, OwnersIn
<1>. QED  BY <1>3, <1>5, <1>6, <1>7

\* The stack that ran waits at the return address it pushed.
LEMMA PushedWaits ==
  ASSUME TypeOK, NEW c \in CallSites
  PROVE  /\ Pushed(c) \in Memory /\ rsp.stk = cur /\ Wait(Pushed(c), rsp)
         /\ \A t \in AllStacks : t # cur => Pushed(c)[t] = mem[t]
         /\ \A t \in AllStacks : Edited(mem, Pushed(c), t)
         /\ Len(Pushed(c)[cur]) = Len(mem[cur]) + 1
         /\ rsp.h = Len(mem[cur]) + 1 /\ rsp \in SP
<1>1. mem \in Memory /\ cur \in AllStacks
  BY DEF TypeOK, Memory
<1>2. CallFrame(c) \in Frame /\ CallFrame(c).kind = "call"
  BY FrameTypes DEF CallFrame
<1>3. Pushed(c) = PushOn(mem, cur, CallFrame(c))
  BY DEF Pushed, PushOn
<1>4. /\ Pushed(c) \in Memory
      /\ \A t \in AllStacks : t # cur => Pushed(c)[t] = mem[t]
      /\ Len(Pushed(c)[cur]) = Len(mem[cur]) + 1
      /\ Pushed(c)[cur][Len(Pushed(c)[cur])] = CallFrame(c)
      /\ \A t \in AllStacks : Edited(mem, Pushed(c), t)
  BY <1>1, <1>2, <1>3, PushFrame
<1>5. rsp.stk = cur /\ rsp.h = Len(mem[cur]) + 1 /\ rsp \in SP /\ Len(mem[cur]) \in Nat
  BY <1>1 DEF rsp, SP, Memory
<1>6. Wait(Pushed(c), rsp)
  BY <1>2, <1>4, <1>5 DEF Wait
<1>. QED  BY <1>4, <1>5, <1>6

\* The collector knows where the system stack was left.
LEMMA ScanStep ==
  ASSUME TypeOK, Scanned(mem, cur, gc_sp), GC_set_main_stack_sp, NEW m2,
         cur = Main => Len(m2[Main]) = Len(mem[Main]) + 1,
         cur # Main => m2[Main] = mem[Main]
  PROVE  gc_sp' = Len(m2[Main])
BY DEF Scanned, GC_set_main_stack_sp, rsp

LEMMA HandleStep ==
  ASSUME TypeOK, TypeOK', NEW D, NEW H, NEW d, IsChained(D, H, d),
         NEW s \in Stacks, NEW c \in CallSites, HANDLE(s, c)
  PROVE  Grows(D, H, d, s)
<1> DEFINE m1 == Pushed(c)
           D2 == D \cup {s}
           H2 == GrowHolder(D, H, s)
           d2 == GrowDepth(D, d, s, d[cur] + 1)
<1>1. /\ mem \in Memory /\ cur \in AllStacks /\ inUse \subseteq Stacks /\ Main \notin Stacks
      /\ D \subseteq AllStacks
      /\ \A u \in D : u # Main => u \in inUse
      /\ \A t \in inUse : HasBase(mem, t) /\ Own(mem, t) \in inUse
      /\ cur # Main => cur \in inUse
  BY Facts
<1>2. s \notin inUse /\ s # Main /\ s # cur /\ s \in AllStacks
  BY <1>1 DEF HANDLE, AllStacks
<1>3. /\ m1 \in Memory /\ rsp.stk = cur /\ Wait(m1, rsp)
      /\ \A t \in AllStacks : t # cur => m1[t] = mem[t]
      /\ \A t \in AllStacks : Edited(mem, m1, t)
      /\ Len(m1[cur]) = Len(mem[cur]) + 1
  BY PushedWaits
<1>4. /\ mem' = [m1 EXCEPT ![s] = <<EnterFrame(s)>>] /\ cur' = s /\ inUse' = inUse \cup {s}
      /\ exchanger' = [exchanger EXCEPT ![s] = rsp] /\ conts' = conts /\ GC_set_main_stack_sp
  BY DEF HANDLE
<1> HIDE DEF m1
<1>5. mem'[s] = <<EnterFrame(s)>> /\ \A t \in AllStacks : t # s => mem'[t] = m1[t]
  BY <1>2, <1>3, <1>4 DEF Memory
<1>6. mem' \in Memory
  BY DEF TypeOK, Memory
<1>7. HasBase(mem', s) /\ Own(mem', s) = s /\ \A i \in DOMAIN mem'[s] : mem'[s][i].kind # "abort"
  BY <1>5 DEF HasBase, Own, EnterFrame
<1>8. \A t \in AllStacks : t # s => Edited(mem, mem', t)
  BY <1>3, <1>5 DEF Edited
<1>9. \A t \in inUse : t \in AllStacks /\ t # s /\ mem'[t] # <<>>
  <2>1. m1[cur] # <<>>
    BY <1>1, <1>3 DEF Memory
  <2>2. \A t \in inUse : t # cur => m1[t] # <<>>
    BY <1>1, <1>3 DEF HasBase, AllStacks
  <2>. QED  BY <1>1, <1>2, <1>5, <2>1, <2>2 DEF AllStacks
<1>10. /\ Based(mem', inUse') /\ NoBase(mem') /\ Stubs(mem')
       /\ SameOwners(mem, mem', D) /\ OwnersIn(mem, D, inUse)
  <2>1. \A t \in inUse' : t \in inUse \/ (HasBase(mem', t) /\ Own(mem', t) \in inUse')
    BY <1>4, <1>7
  <2>2. \A t \in AllStacks : \/ Edited(mem, mem', t)
                             \/ /\ t \notin inUse /\ t # Main
                                /\ \A i \in DOMAIN mem'[t] : mem'[t][i].kind # "abort"
    BY <1>2, <1>7, <1>8
  <2>3. inUse \subseteq inUse' /\ \A t \in inUse : mem'[t] # <<>>
    BY <1>4, <1>9
  <2>. QED  BY <1>6, <2>1, <2>2, <2>3, SwitchedFrames
<1>11. Wait(mem', rsp)
  BY <1>1, <1>2, <1>3, <1>5 DEF Wait
<1>12. Unmoved(mem, mem', D, {cur})
  BY <1>1, <1>2, <1>3, <1>5 DEF Unmoved
<1>13. Owned(inUse, conts) /\ Complete(inUse, D) /\ Scanned(mem, cur, gc_sp)
  BY DEF IsChained, Chained
<1>14. Idle(mem, D, d, s) /\ NoSingle(conts, s)
  BY <1>2, <1>10, <1>13, Facts DEF Idle, NoSingle, Owned, OwnersIn
<1>15. Exchanged(exchanger, exchanger', inUse, s, rsp)
  BY <1>2, <1>4 DEF TypeOK, Exchanged
<1>16. InOrder(mem, cur, inUse, exchanger, conts, D, H, d)
  BY DEF IsChained, Chained, InOrder
<1>17. D2 = D \cup {s} /\ H2 = GrowHolder(D, H, s) /\ d2 = GrowDepth(D, d, s, d[cur] + 1)
  OBVIOUS
<1> HIDE DEF D2, H2, d2
<1>18. Switched(mem, cur, inUse, exchanger, D, mem', exchanger', s, rsp, {cur})
  BY <1>3, <1>10, <1>11, <1>12, <1>15 DEF Switched
<1>19. InOrder(mem', s, inUse \cup {s}, exchanger', conts, D2, H2, d2)
  BY <1>2, <1>7, <1>18, <1>13, <1>14, <1>16, <1>17, GrowChain
<1>20. gc_sp' = Len(mem'[Main])
  <2>1. cur = Main => Len(mem'[Main]) = Len(mem[Main]) + 1
    BY <1>1, <1>2, <1>3, <1>5
  <2>2. cur # Main => mem'[Main] = mem[Main]
    BY <1>2, <1>3, <1>5 DEF AllStacks
  <2>. QED  BY <1>4, <1>13, <2>1, <2>2, ScanStep
<1>21. Owned(inUse', conts') /\ Complete(inUse', D2) /\ Scanned(mem', cur', gc_sp')
  BY <1>4, <1>13, <1>17, <1>20 DEF Owned, Complete, Scanned
<1>22. Chained(mem', cur', inUse', exchanger', conts', gc_sp', D2, H2, d2)
  BY <1>4, <1>10, <1>19, <1>21 DEF Chained, InOrder
<1>. QED  BY <1>17, <1>22 DEF Grows, NextChained

\* RAISE and RAISE_M: `new' is what the resumption k becomes.
LEMMA RaiseStep ==
  ASSUME TypeOK, TypeOK', NEW D, NEW H, NEW d, IsChained(D, H, d),
         NEW k \in Conts, NEW e \in Stacks, NEW c \in CallSites, ~Live(k), e \in InScope, Swap(e, c),
         NEW new, new # NoCont, new.exchanger_ptr = e,
         "rsp_sp" \in DOMAIN new => new.rsp_sp = rsp,
         \A j \in LiveConts : exc(j) = e => IsMulti(j) /\ "rsp_sp" \in DOMAIN new,
         conts' = [conts EXCEPT ![k] = new], inUse' = inUse, gc_sp' = gc_sp
  PROVE  \E w \in D : H[w] = {} /\ d[w] > 0 /\ e = Own(mem, w) /\ Raises(D, H, d, k, w)
<1> DEFINE m1 == Pushed(c)
           p == exchanger[e]
<1>1. /\ mem \in Memory /\ cur \in AllStacks /\ inUse \subseteq Stacks /\ Main \notin Stacks
      /\ D \subseteq AllStacks
      /\ \A u \in D : d[u] \in Nat /\ (u # Main => u \in inUse) /\ (d[u] > 0 => u # Main)
      /\ \A u \in D : H[u] = {} => d[u] <= d[cur]
      /\ \A t \in inUse : HasBase(mem, t) /\ Own(mem, t) \in inUse
  BY Facts
<1>2. PICK w \in D : H[w] = {} /\ d[w] > 0 /\ e = Own(mem, w)
  BY Scope
<1>3. e \in inUse
  BY <1>1, <1>2
<1>4. p.stk \in D /\ H[p.stk] = {} /\ d[p.stk] = d[w] - 1 /\ Wait(mem, p)
  BY <1>2 DEF IsChained, Chained, Linked
<1>5. p.stk # cur /\ p \in SP /\ p.stk \in AllStacks
  <2>1. p \in SP
    BY DEF TypeOK
  <2>2. d[p.stk] # d[cur]
    BY <1>1, <1>2, <1>4
  <2>. QED  BY <2>1, <2>2 DEF SP
<1>6. /\ m1 \in Memory /\ rsp.stk = cur /\ Wait(m1, rsp)
      /\ \A t \in AllStacks : t # cur => m1[t] = mem[t]
      /\ \A t \in AllStacks : Edited(mem, m1, t)
      /\ Len(m1[cur]) = Len(mem[cur]) + 1
  BY PushedWaits
<1>7. mem' = CutTo(m1, p) /\ cur' = p.stk /\ exchanger' = [exchanger EXCEPT ![e] = rsp]
  BY DEF Swap
<1> HIDE DEF m1, p
<1>8. p.h = Len(m1[p.stk]) /\ p.h \in Nat
  BY <1>4, <1>5, <1>6 DEF Wait, SP
<1>9. /\ mem' \in Memory
      /\ \A t \in AllStacks : t # p.stk => mem'[t] = m1[t]
      /\ Len(mem'[p.stk]) = p.h
      /\ \A i \in 1 .. p.h : mem'[p.stk][i] = m1[p.stk][i]
  <2>1. p.h <= Len(m1[p.stk])
    BY <1>8
  <2>. QED  BY <1>5, <1>6, <1>7, <2>1, CutFrames
<1>10. mem'[p.stk] = m1[p.stk]
  <2>1. mem'[p.stk] \in Seq(Frame) /\ m1[p.stk] \in Seq(Frame)
    BY <1>5, <1>6, <1>9 DEF Memory
  <2>2. Len(mem'[p.stk]) = Len(m1[p.stk]) /\ \A i \in 1 .. Len(m1[p.stk]) : mem'[p.stk][i] = m1[p.stk][i]
    BY <1>8, <1>9
  <2>. QED  BY <2>1, <2>2, SeqEqual
<1>11. \A t \in AllStacks : mem'[t] = m1[t]
  BY <1>9, <1>10
<1>12. /\ Based(mem', inUse') /\ NoBase(mem') /\ Stubs(mem')
       /\ SameOwners(mem, mem', D) /\ OwnersIn(mem, D, inUse)
  <2>1. \A t \in AllStacks : Edited(mem, mem', t)
    BY <1>6, <1>11 DEF Edited
  <2>2. \A t \in inUse : mem'[t] # <<>>
    <3>1. m1[cur] # <<>>
      BY <1>1, <1>6 DEF Memory
    <3>2. \A t \in inUse : t # cur => m1[t] # <<>>
      BY <1>1, <1>6 DEF HasBase, AllStacks
    <3>. QED  BY <1>1, <1>11, <3>1, <3>2 DEF AllStacks
  <2>3. inUse \subseteq inUse' /\ inUse' \subseteq inUse
    OBVIOUS
  <2>. QED  BY <1>9, <2>1, <2>2, <2>3, SwitchedFrames
<1>13. Wait(mem', rsp) /\ Unmoved(mem, mem', D, {cur})
  BY <1>1, <1>6, <1>11 DEF Wait, Unmoved
<1>14. Exchanged(exchanger, exchanger', inUse, e, rsp)
  BY <1>7 DEF TypeOK, Exchanged
<1>15. /\ InOrder(mem, cur, inUse, exchanger, conts, D, H, d)
       /\ Owned(inUse, conts) /\ Complete(inUse, D) /\ Scanned(mem, cur, gc_sp)
  BY DEF IsChained, Chained, InOrder
<1>16. conts'[k] = new /\ Replaced(conts, conts', k) /\ conts[k] = NoCont
  BY DEF TypeOK, Replaced, Live
<1>17. /\ conts'[k] # NoCont /\ Ex(conts', k) = e
       /\ (Multi(conts', k) <=> "rsp_sp" \in DOMAIN new) /\ Sp(exchanger', conts', k) = rsp
  BY <1>14, <1>16 DEF Ex, Multi, Sp, Exchanged
<1>18. \A j \in Alive(conts) : Ex(conts, j) = e => Multi(conts, j) /\ Multi(conts', k)
  BY <1>17, Scope DEF LiveConts, Live, Alive
<1> DEFINE H2 == RaiseHolder(D, H, d, k, w)
           d2 == RaiseDepth(D, H, d, w)
<1>19. H2 = RaiseHolder(D, H, d, k, w) /\ d2 = RaiseDepth(D, H, d, w) /\ p.stk = exchanger[e].stk
  BY DEF p
<1> HIDE DEF H2, d2
<1>20. Switched(mem, cur, inUse, exchanger, D, mem', exchanger', e, rsp, {cur})
  BY <1>6, <1>12, <1>13, <1>14 DEF Switched
<1>21. NewCont(conts, conts', exchanger', k, e, rsp)
  BY <1>16, <1>17, <1>18 DEF NewCont
<1>22. InOrder(mem', p.stk, inUse, exchanger', conts', D, H2, d2)
  BY <1>2, <1>20, <1>21, <1>15, <1>19, RaiseChain
<1>23. Owned(inUse', conts') /\ Complete(inUse', D)
  BY <1>3, <1>15, <1>16, <1>17 DEF Owned, Complete, Replaced, Alive, Ex
<1>24. Scanned(mem', cur', gc_sp')
  <2>1. SUFFICES ASSUME p.stk # Main PROVE gc_sp = Len(mem'[Main])
    BY <1>7 DEF Scanned
  <2>2. cur # Main
    <3>1. d[cur] > 0
      BY <1>1, <1>2, Facts
    <3>. QED  BY <1>1, <3>1, Facts
  <2>3. mem'[Main] = mem[Main]
    BY <1>6, <1>11, <2>2 DEF AllStacks
  <2>. QED  BY <1>15, <2>2, <2>3 DEF Scanned
<1>25. Chained(mem', cur', inUse', exchanger', conts', gc_sp', D, H2, d2)
  BY <1>7, <1>12, <1>22, <1>23, <1>24 DEF Chained, InOrder
<1>. QED  BY <1>2, <1>19, <1>25 DEF Raises, NextChained

LEMMA IdleInChains ==
  ASSUME TypeOK, NEW D, NEW H, NEW d, IsChained(D, H, d), NEW e, ExchangerIdle(e)
  PROVE  Idle(mem, D, d, e)
<1>. SUFFICES ASSUME NEW u \in D, d[u] > 0, Own(mem, u) = e PROVE FALSE
  BY DEF Idle
<1>1. CASE H[u] = {}
  <2>1. e \in InScope
    BY <1>1, Scope
  <2>. QED  BY <2>1 DEF ExchangerIdle
<1>2. CASE \E k \in Alive(conts) : H[u] = {k}
  <2>1. PICK k \in Alive(conts) : H[u] = {k}
    BY <1>2
  <2>2. u \in Captured(k) /\ k \in LiveConts /\ k \in Conts
    BY <2>1, Scope DEF Alive
  <2>3. exc(k) = e
    BY <2>2 DEF ExchangerIdle, Own, Owner
  <2>4. Ex(conts, k) = e
    BY <2>2, <2>3 DEF exc, Ex
  <2>5. d[u] = 0
    BY <2>1, <2>4 DEF IsChained, Chained, Held
  <2>6. d[u] \in Nat
    BY Facts
  <2>. QED  BY <2>5
<1>. QED  BY <1>1, <1>2 DEF IsChained, Chained, Held

\* A copy of the one stack of resumption k is resumed.
LEMMA CopyStep ==
  ASSUME TypeOK, TypeOK', Contract, NEW D, NEW H, NEW d, IsChained(D, H, d),
         NEW k \in Conts, NEW s \in Stacks, NEW c \in CallSites, THROW(k, s, c)
  PROVE  Grows(D, H, d, s)
<1> DEFINE p == rsp_sp(k)
           e == exc(k)
           q == CopyOf(p, s)
           m0 == Pushed(c)
           m1 == Duplicate(m0, p.stk, s)
           D2 == D \cup {s}
           H2 == GrowHolder(D, H, s)
           d2 == GrowDepth(D, d, s, d[cur] + 1)
<1>1. /\ mem \in Memory /\ cur \in AllStacks /\ inUse \subseteq Stacks /\ Main \notin Stacks
      /\ D \subseteq AllStacks /\ H[cur] = {}
      /\ \A u \in D : (u # Main => u \in inUse) /\ (H[u] # {} => u # Main)
      /\ \A t \in inUse : HasBase(mem, t) /\ Own(mem, t) \in inUse
      /\ cur # Main => cur \in inUse
  BY Facts
<1>2. s \notin inUse /\ s # Main /\ s # cur /\ s \in AllStacks
  BY <1>1 DEF THROW, AllStacks
<1>3. /\ k \in Alive(conts) /\ IsMulti(k) /\ ExchangerIdle(e) /\ Copyable(k)
      /\ inUse' = inUse \cup {s} /\ GC_set_main_stack_sp /\ conts' = conts
      /\ RESUME(m1, [exchanger EXCEPT ![s] = exchanger[p.stk]], q, e)
  BY DEF THROW, Live, Alive
<1>4. /\ m0 \in Memory /\ rsp.stk = cur /\ Wait(m0, rsp)
      /\ \A t \in AllStacks : t # cur => m0[t] = mem[t]
      /\ \A t \in AllStacks : Edited(mem, m0, t)
      /\ Len(m0[cur]) = Len(mem[cur]) + 1
  BY PushedWaits
<1>5. p = Sp(exchanger, conts, k) /\ e = Ex(conts, k) /\ Multi(conts, k)
  BY <1>3, Scope
<1>6. p.stk \in D /\ H[p.stk] = {k} /\ Wait(mem, p)
  BY <1>3, <1>5 DEF IsChained, Chained, Held
<1>7. p.stk # cur /\ p.stk # Main /\ p.stk \in inUse /\ p.stk \in AllStacks /\ p.stk # s
  BY <1>1, <1>2, <1>6
<1>8. e \in inUse /\ e # s
  BY <1>2, <1>3, <1>5 DEF IsChained, Chained, Owned
<1>9. Own(mem, p.stk) = e /\ \A i \in DOMAIN mem[p.stk] : mem[p.stk][i].kind # "abort"
  BY <1>3 DEF Copyable, Contract, Own, Owner
<1>10. m1 = [m0 EXCEPT ![s] = m0[p.stk]]
  BY DEF Duplicate
<1>11. p \in SP
  BY <1>3, ResumptionType DEF Alive, Live
<1>12. q.stk = s /\ q.h = p.h /\ q \in SP
  BY <1>2, <1>11 DEF CopyOf, SP
<1>13. /\ mem' = RetTo(m1, q) /\ cur' = s
       /\ exchanger' = [[exchanger EXCEPT ![s] = exchanger[p.stk]] EXCEPT ![e] = rsp]
  BY <1>3, <1>12 DEF RESUME
<1> HIDE DEF m0, m1, p, e, q
<1>14. m1 \in Memory /\ m1[s] = mem[p.stk] /\ \A t \in AllStacks : t # s => m1[t] = m0[t]
  BY <1>2, <1>4, <1>7, <1>10 DEF Memory
<1>15. Wait(m1, q)
  BY <1>6, <1>12, <1>14 DEF Wait
<1>16. /\ mem' \in Memory
       /\ \A t \in AllStacks : t # s => mem'[t] = m1[t]
       /\ Len(mem'[s]) = Len(m1[s]) - 1
       /\ \A i \in 1 .. Len(m1[s]) - 1 : mem'[s][i] = m1[s][i]
       /\ Edited(m1, mem', s)
       /\ HasBase(m1, s) => mem'[s] # <<>>
  BY <1>2, <1>12, <1>13, <1>14, <1>15, RetFrame
<1>17. \A t \in AllStacks : t # s => mem'[t] = m0[t]
  BY <1>14, <1>16
<1>18. HasBase(mem', s) /\ Own(mem', s) = e
  <2>1. HasBase(m1, s) /\ Own(m1, s) = e
    BY <1>1, <1>7, <1>9, <1>14 DEF HasBase, Own
  <2>2. HasBase(mem', s) /\ Own(mem', s) = Own(m1, s)
    BY <1>2, <1>14, <1>16, <2>1, EditedBase
  <2>. QED  BY <2>1, <2>2
<1>19. \A i \in DOMAIN mem'[s] : mem'[s][i].kind # "abort"
  <2>1. m1[s] \in Seq(Frame) /\ mem'[s] \in Seq(Frame)
    BY <1>2, <1>14, <1>16 DEF Memory
  <2>2. \A i \in DOMAIN mem'[s] : i \in DOMAIN m1[s] /\ mem'[s][i] = m1[s][i]
    BY <1>16, <2>1
  <2>. QED  BY <1>9, <1>14, <2>2
<1>20. \A t \in AllStacks : t # s => Edited(mem, mem', t)
  BY <1>4, <1>17 DEF Edited
<1>21. \A t \in inUse : t \in AllStacks /\ t # s /\ mem'[t] # <<>>
  <2>1. m0[cur] # <<>>
    BY <1>1, <1>4 DEF Memory
  <2>2. \A t \in inUse : t # cur => m0[t] # <<>>
    BY <1>1, <1>4 DEF HasBase, AllStacks
  <2>. QED  BY <1>1, <1>2, <1>17, <2>1, <2>2 DEF AllStacks
<1>22. /\ Based(mem', inUse') /\ NoBase(mem') /\ Stubs(mem')
       /\ SameOwners(mem, mem', D) /\ OwnersIn(mem, D, inUse)
  <2>1. \A t \in inUse' : t \in inUse \/ (HasBase(mem', t) /\ Own(mem', t) \in inUse')
    BY <1>3, <1>8, <1>18
  <2>2. \A t \in AllStacks : \/ Edited(mem, mem', t)
                             \/ /\ t \notin inUse /\ t # Main
                                /\ \A i \in DOMAIN mem'[t] : mem'[t][i].kind # "abort"
    BY <1>2, <1>19, <1>20
  <2>3. inUse \subseteq inUse' /\ \A t \in inUse : mem'[t] # <<>>
    BY <1>3, <1>21
  <2>. QED  BY <1>16, <2>1, <2>2, <2>3, SwitchedFrames
<1>23. Wait(mem', rsp)
  BY <1>1, <1>2, <1>4, <1>17 DEF Wait
<1>24. Unmoved(mem, mem', D, {cur})
  BY <1>1, <1>2, <1>4, <1>17 DEF Unmoved
<1>25. Owned(inUse, conts) /\ Complete(inUse, D) /\ Scanned(mem, cur, gc_sp)
       /\ InOrder(mem, cur, inUse, exchanger, conts, D, H, d)
  BY DEF IsChained, Chained, InOrder
<1>26. Idle(mem, D, d, e)
  BY <1>3, IdleInChains
<1>27. NoSingle(conts, e)
  BY <1>3, <1>5, <1>25 DEF InOrder, Singles, NoSingle
<1>28. Exchanged(exchanger, exchanger', inUse, e, rsp)
  BY <1>1, <1>2, <1>8, <1>13 DEF TypeOK, Exchanged
<1>29. D2 = D \cup {s} /\ H2 = GrowHolder(D, H, s) /\ d2 = GrowDepth(D, d, s, d[cur] + 1)
  OBVIOUS
<1> HIDE DEF D2, H2, d2
<1>30. Switched(mem, cur, inUse, exchanger, D, mem', exchanger', e, rsp, {cur})
  BY <1>4, <1>22, <1>23, <1>24, <1>28 DEF Switched
<1>31. InOrder(mem', s, inUse \cup {s}, exchanger', conts, D2, H2, d2)
  BY <1>2, <1>18, <1>25, <1>26, <1>27, <1>29, <1>30, GrowChain
<1>32. gc_sp' = Len(mem'[Main])
  <2>1. cur = Main => Len(mem'[Main]) = Len(mem[Main]) + 1
    BY <1>1, <1>2, <1>4, <1>17
  <2>2. cur # Main => mem'[Main] = mem[Main]
    BY <1>2, <1>4, <1>17 DEF AllStacks
  <2>. QED  BY <1>3, <1>25, <2>1, <2>2, ScanStep
<1>33. Owned(inUse', conts') /\ Complete(inUse', D2) /\ Scanned(mem', cur', gc_sp')
  BY <1>3, <1>25, <1>29, <1>32 DEF Owned, Complete, Scanned
<1>34. Chained(mem', cur', inUse', exchanger', conts', gc_sp', D2, H2, d2)
  BY <1>3, <1>13, <1>22, <1>31, <1>33 DEF Chained, InOrder
<1>. QED  BY <1>29, <1>34 DEF Grows, NextChained

\* Resumption k itself is resumed.
LEMMA ResumeStep ==
  ASSUME TypeOK, TypeOK', NEW D, NEW H, NEW d, IsChained(D, H, d),
         NEW k \in Conts, NEW c \in CallSites, FINAL_THROW(k, c)
  PROVE  Resumes(D, H, d, k)
<1> DEFINE p == rsp_sp(k)
           e == exc(k)
           m0 == Pushed(c)
           H2 == ResumeHolder(D, H, k)
           d2 == ResumeDepth(D, H, d, k, cur)
<1>1. /\ mem \in Memory /\ cur \in AllStacks /\ inUse \subseteq Stacks /\ Main \notin Stacks
      /\ D \subseteq AllStacks /\ H[cur] = {}
      /\ \A u \in D : (u # Main => u \in inUse) /\ (H[u] # {} => u # Main)
      /\ \A t \in inUse : HasBase(mem, t) /\ Own(mem, t) \in inUse
  BY Facts
<1>2. /\ k \in Alive(conts) /\ ExchangerIdle(e)
      /\ inUse' = inUse /\ GC_set_main_stack_sp /\ conts' = [conts EXCEPT ![k] = NoCont]
      /\ RESUME(m0, exchanger, p, e)
  BY DEF FINAL_THROW, Live, Alive
<1>3. /\ m0 \in Memory /\ rsp.stk = cur /\ Wait(m0, rsp)
      /\ \A t \in AllStacks : t # cur => m0[t] = mem[t]
      /\ \A t \in AllStacks : Edited(mem, m0, t)
      /\ Len(m0[cur]) = Len(mem[cur]) + 1
  BY PushedWaits
<1>4. p = Sp(exchanger, conts, k) /\ e = Ex(conts, k)
  BY <1>2, Scope
<1>5. p.stk \in D /\ H[p.stk] = {k} /\ Wait(mem, p)
  BY <1>2, <1>4 DEF IsChained, Chained, Held
<1>6. p.stk # cur /\ p.stk # Main /\ p.stk \in inUse /\ p.stk \in AllStacks
  BY <1>1, <1>5
<1>7. p \in SP
  BY <1>2, ResumptionType DEF Alive, Live
<1>8. mem' = RetTo(m0, p) /\ cur' = p.stk /\ exchanger' = [exchanger EXCEPT ![e] = rsp]
  BY <1>2 DEF RESUME
<1> HIDE DEF m0, p, e
<1>9. Wait(m0, p) /\ m0[p.stk] = mem[p.stk]
  BY <1>3, <1>5, <1>6 DEF Wait
<1>10. /\ mem' \in Memory
       /\ \A t \in AllStacks : t # p.stk => mem'[t] = m0[t]
       /\ \A t \in AllStacks : Edited(m0, mem', t)
       /\ HasBase(m0, p.stk) => mem'[p.stk] # <<>>
  BY <1>3, <1>7, <1>8, <1>9, RetFrame
<1>11. \A t \in AllStacks : Edited(mem, mem', t)
  <2>1. \A t \in AllStacks : t # p.stk => Edited(mem, mem', t)
    BY <1>3, <1>10 DEF Edited
  <2>2. Edited(mem, mem', p.stk)
    BY <1>6, <1>9, <1>10 DEF Edited
  <2>. QED  BY <2>1, <2>2
<1>12. \A t \in inUse : t \in AllStacks /\ mem'[t] # <<>>
  <2>1. m0[cur] # <<>>
    BY <1>1, <1>3 DEF Memory
  <2>2. \A t \in inUse : t # cur => m0[t] # <<>>
    BY <1>1, <1>3 DEF HasBase, AllStacks
  <2>3. mem'[p.stk] # <<>>
    BY <1>1, <1>6, <1>9, <1>10 DEF HasBase
  <2>. QED  BY <1>1, <1>10, <2>1, <2>2, <2>3 DEF AllStacks
<1>13. /\ Based(mem', inUse') /\ NoBase(mem') /\ Stubs(mem')
       /\ SameOwners(mem, mem', D) /\ OwnersIn(mem, D, inUse)
  <2>1. inUse \subseteq inUse' /\ inUse' \subseteq inUse
    BY <1>2
  <2>. QED  BY <1>10, <1>11, <1>12, <2>1, SwitchedFrames
<1>14. Wait(mem', rsp)
  BY <1>1, <1>3, <1>6, <1>10 DEF Wait
<1>15. Unmoved(mem, mem', D, {cur, p.stk})
  BY <1>1, <1>3, <1>10 DEF Unmoved
<1>16. Owned(inUse, conts) /\ Complete(inUse, D) /\ Scanned(mem, cur, gc_sp)
       /\ InOrder(mem, cur, inUse, exchanger, conts, D, H, d)
  BY DEF IsChained, Chained, InOrder
<1>17. Idle(mem, D, d, e)
  BY <1>2, IdleInChains
<1>18. Exchanged(exchanger, exchanger', inUse, e, rsp)
  <2>1. e \in inUse
    BY <1>2, <1>4, <1>16 DEF Owned
  <2>. QED  BY <1>1, <1>8, <2>1 DEF TypeOK, Exchanged
<1>19. Switched(mem, cur, inUse, exchanger, D, mem', exchanger', e, rsp, {cur, p.stk})
  BY <1>3, <1>13, <1>14, <1>15, <1>18 DEF Switched
<1>20. Replaced(conts, conts', k) /\ conts'[k] = NoCont
  BY <1>2 DEF TypeOK, Replaced
<1>21. H2 = ResumeHolder(D, H, k) /\ d2 = ResumeDepth(D, H, d, k, cur) /\ p.stk = Sp(exchanger, conts, k).stk
  BY <1>4
<1> HIDE DEF H2, d2
<1>22. InOrder(mem', p.stk, inUse, exchanger', conts', D, H2, d2)
  BY <1>2, <1>4, <1>16, <1>17, <1>19, <1>20, <1>21, ResumeChain
<1>23. gc_sp' = Len(mem'[Main])
  <2>1. cur = Main => Len(mem'[Main]) = Len(mem[Main]) + 1
    BY <1>1, <1>3, <1>6, <1>10
  <2>2. cur # Main => mem'[Main] = mem[Main]
    BY <1>3, <1>6, <1>10 DEF AllStacks
  <2>. QED  BY <1>2, <1>16, <2>1, <2>2, ScanStep
<1>24. Owned(inUse', conts') /\ Complete(inUse', D) /\ Scanned(mem', cur', gc_sp')
  BY <1>2, <1>16, <1>20, <1>23 DEF Owned, Complete, Scanned, Replaced, Alive, Ex
<1>25. Chained(mem', cur', inUse', exchanger', conts', gc_sp', D, H2, d2)
  BY <1>2, <1>8, <1>13, <1>22, <1>24 DEF Chained, InOrder
<1>. QED  BY <1>21, <1>25 DEF Resumes, NextChained

-----------------------------------------------------------------------------
LEMMA InitChains == Init => Chains
<1>. SUFFICES ASSUME Init PROVE Chains
  OBVIOUS
<1> DEFINE H == [u \in {Main} |-> {}]
           d == [u \in {Main} |-> 0]
<1>1. Alive(conts) = {} /\ inUse = {} /\ cur = Main /\ \A t \in AllStacks : mem[t] = <<>>
  BY DEF Init, Alive
<1>2. H[Main] = {} /\ d[Main] = 0 /\ H \in [{Main} -> SUBSET Conts] /\ d \in [{Main} -> Nat]
  OBVIOUS
<1> HIDE DEF H, d
<1>3. Placed(cur, inUse, {Main}, H, d) /\ Linked(mem, exchanger, {Main}, H, d)
  BY <1>1, <1>2 DEF Placed, Linked
<1>4. Held(mem, exchanger, conts, {Main}, H, d) /\ OneUser(mem, {Main}, d) /\ Singles(mem, conts, {Main}, d)
  BY <1>1, <1>2 DEF Held, OneUser, Singles
<1>5. Based(mem, inUse) /\ NoBase(mem) /\ Stubs(mem)
  BY <1>1 DEF Based, NoBase, Stubs, AllStacks
<1>6. Owned(inUse, conts) /\ Complete(inUse, {Main}) /\ Scanned(mem, cur, gc_sp)
  BY <1>1 DEF Owned, Complete, Scanned
<1>7. Chained(mem, cur, inUse, exchanger, conts, gc_sp, {Main}, H, d)
  BY <1>3, <1>4, <1>5, <1>6 DEF Chained
<1>. QED  BY <1>7 DEF Chains

\* The two kinds of resumption.
LEMMA RaiseSteps ==
  ASSUME TypeOK, TypeOK', NEW D, NEW H, NEW d, IsChained(D, H, d),
         NEW k \in Conts, NEW e \in Stacks, NEW c \in CallSites, RAISE(k, e, c) \/ RAISE_M(k, e, c)
  PROVE  \E w \in D : H[w] = {} /\ d[w] > 0 /\ e = Own(mem, w) /\ Raises(D, H, d, k, w)
<1>1. CASE RAISE(k, e, c)
  <2> DEFINE new == [exchanger_ptr |-> e]
  <2>1. new \in SingleShot /\ new.exchanger_ptr = e /\ "rsp_sp" \notin DOMAIN new
    BY DEF SingleShot
  <2>2. new # NoCont
    BY <2>1, TrekAssumption DEF SingleShot
  <2>3. /\ ~Live(k) /\ e \in InScope /\ Swap(e, c) /\ conts' = [conts EXCEPT ![k] = new]
        /\ inUse' = inUse /\ gc_sp' = gc_sp
        /\ \A j \in LiveConts : exc(j) # e
    BY <1>1 DEF RAISE, SameMode
  <2> HIDE DEF new
  <2>. QED  BY <2>1, <2>2, <2>3, RaiseStep
<1>2. CASE RAISE_M(k, e, c)
  <2> DEFINE new == NewResumption(e)
  <2>1. rsp \in SP
    BY PushedWaits
  <2>2. new \in MultiShot /\ new.exchanger_ptr = e /\ "rsp_sp" \in DOMAIN new /\ new.rsp_sp = rsp
    BY <2>1 DEF MultiShot, NewResumption
  <2>3. new # NoCont
    BY <2>2, TrekAssumption DEF MultiShot, SP, AllStacks
  <2>4. /\ ~Live(k) /\ e \in InScope /\ Swap(e, c) /\ conts' = [conts EXCEPT ![k] = new]
        /\ inUse' = inUse /\ gc_sp' = gc_sp
        /\ \A j \in LiveConts : exc(j) = e => IsMulti(j)
    BY <1>2 DEF RAISE_M, SameMode
  <2> HIDE DEF new
  <2>. QED  BY <2>2, <2>3, <2>4, RaiseStep
<1>. QED  BY <1>1, <1>2

LEMMA NextChainsExist ==
  ASSUME NEW D, NEW H, NEW d, NextChained(D, H, d)
  PROVE  Chains'
BY DEF NextChained, Chains

LEMMA NextChains == Contract /\ TypeOK /\ TypeOK' /\ Chains /\ [Next]_vars => Chains'
<1>. SUFFICES ASSUME Contract, TypeOK, TypeOK', Chains, [Next]_vars PROVE Chains'
  OBVIOUS
<1>1. PICK D, H, d : IsChained(D, H, d)
  BY DEF Chains, IsChained
<1>2. CASE (\E c \in CallSites : Call(c)) \/ HANDLE_ABORT
  BY <1>1, <1>2, CallStep, NextChainsExist DEF Cuts
<1>3. CASE Return
  BY <1>1, <1>3, ReturnStep, NextChainsExist DEF Cuts
<1>4. CASE \E s \in Stacks, c \in CallSites : HANDLE(s, c)
  BY <1>1, <1>4, HandleStep, NextChainsExist DEF Grows
<1>5. CASE ENTER_return
  BY <1>1, <1>5, ReturnToParent, NextChainsExist DEF Cuts
<1>6. CASE \E k \in Conts, e \in Stacks, c \in CallSites : RAISE(k, e, c) \/ RAISE_M(k, e, c)
  BY <1>1, <1>6, RaiseSteps, NextChainsExist DEF Raises
<1>7. CASE \E p \in AbortTargets : RAISE_ABORT(p)
  BY <1>1, <1>7, AbortStep, NextChainsExist DEF Cuts
<1>8. CASE \E k \in Conts, s \in Stacks, c \in CallSites : THROW(k, s, c)
  BY <1>1, <1>8, CopyStep, NextChainsExist DEF Grows
<1>9. CASE \E k \in Conts, c \in CallSites : FINAL_THROW(k, c)
  BY <1>1, <1>9, ResumeStep, NextChainsExist DEF Resumes
<1>10. CASE UNCHANGED vars
  <2>1. /\ mem' = mem /\ cur' = cur /\ inUse' = inUse /\ exchanger' = exchanger
        /\ conts' = conts /\ gc_sp' = gc_sp
    BY <1>10 DEF vars
  <2>2. Chained(mem', cur', inUse', exchanger', conts', gc_sp', D, H, d)
    BY <1>1, <2>1 DEF IsChained
  <2>. QED  BY <2>2 DEF Chains
<1>. QED
  BY <1>2, <1>3, <1>4, <1>5, <1>6, <1>7, <1>8, <1>9, <1>10 DEF Next
-----------------------------------------------------------------------------
(***************************************************************************)
(* What the chains are for.                                                *)
(***************************************************************************)
\* In every reachable state the stacks can be placed in chains: under the
\* client contract, whatever is called, raised, resumed, copied and aborted.
THEOREM ChainsHold == Contract => (Spec => []Chains)
<1>. SUFFICES ASSUME Contract PROVE Spec => []Chains
  OBVIOUS
<1>1. Init => TypeOK /\ Chains
  BY InitType, InitChains
<1>2. TypeOK /\ Chains /\ [Next]_vars => (TypeOK /\ Chains)'
  BY NextType, NextChains
<1>. QED  BY <1>1, <1>2, PTL DEF Spec

\* The stack at the bottom of a resumption's chain.
LEMMA BottomOf ==
  ASSUME TypeOK, NEW D, NEW H, NEW d, IsChained(D, H, d), NEW k \in Alive(conts)
  PROVE  \E u \in D : H[u] = {k} /\ d[u] = 0
<1> DEFINE T == {d[u] : u \in {v \in D : H[v] = {k}}}
<1>0. \A u \in D : d[u] \in Nat
  BY Facts
<1>1. Linked(mem, exchanger, D, H, d) /\ Held(mem, exchanger, conts, D, H, d)
  BY DEF IsChained, Chained
<1>2. PICK t \in D : H[t] = {k}
  BY <1>1 DEF Held
<1>3. T \in SUBSET Nat /\ d[t] \in T
  BY <1>0, <1>2
<1>4. PICK n \in T : \A m \in T : n <= m
  BY <1>3, LeastNatural
<1>5. PICK u \in D : H[u] = {k} /\ d[u] = n
  BY <1>4
<1>6. CASE d[u] > 0
  <2>1. PICK v \in D : H[v] = {k} /\ d[v] = d[u] - 1
    BY <1>1, <1>5, <1>6 DEF Linked
  <2>2. d[v] \in T /\ d[v] < n
    BY <1>0, <1>5, <2>1
  <2>. QED  BY <1>0, <1>4, <1>5, <2>1, <2>2
<1>. QED  BY <1>0, <1>5, <1>6

LEMMA ChainsWait == TypeOK /\ Chains => EveryoneWaits
<1>. SUFFICES ASSUME TypeOK, NEW D, NEW H, NEW d, IsChained(D, H, d) PROVE EveryoneWaits
  BY DEF Chains, IsChained
<1>1. /\ Placed(cur, inUse, D, H, d) /\ Linked(mem, exchanger, D, H, d)
      /\ Held(mem, exchanger, conts, D, H, d)
  BY DEF IsChained, Chained
<1>2. /\ Context = {u \in D : H[u] = {}} /\ LiveConts = Alive(conts)
      /\ \A k \in Alive(conts) : Captured(k) = {u \in D : H[u] = {k}}
      /\ \A k \in Alive(conts) : exc(k) = Ex(conts, k) /\ rsp_sp(k) = Sp(exchanger, conts, k)
  BY Scope DEF Alive
<1>3. \A u \in D : d[u] \in Nat /\ (H[u] = {} /\ d[u] = 0 => u = Main)
  BY Facts
<1>4. \A u \in D : d[u] > 0 => Waiting(exchanger[Owner(u)])
  BY <1>1 DEF Linked, Wait, Waiting, Own, Owner
<1>5. Main \in Context
  BY <1>1, <1>2 DEF Placed
<1>6. \A t \in Context \ {Main} : Waiting(exchanger[Owner(t)])
  BY <1>2, <1>3, <1>4
<1>7. ASSUME NEW k \in LiveConts
      PROVE  /\ Waiting(rsp_sp(k))
             /\ \E t \in Captured(k) : Owner(t) = exc(k)
             /\ \A t \in Captured(k) : Owner(t) # exc(k) => Waiting(exchanger[Owner(t)])
  <2>1. k \in Alive(conts) /\ \A u \in D : H[u] = {k} => (d[u] = 0 <=> Owner(u) = exc(k))
    BY <1>1, <1>2 DEF Held, Own, Owner
  <2>2. Waiting(rsp_sp(k))
    BY <1>1, <1>2, <2>1 DEF Held, Wait, Waiting
  <2>3. \E u \in D : H[u] = {k} /\ d[u] = 0
    BY <2>1, BottomOf
  <2>4. \A t \in Captured(k) : Owner(t) # exc(k) => d[t] > 0
    BY <1>2, <1>3, <2>1
  <2>. QED  BY <1>2, <1>4, <2>1, <2>2, <2>3, <2>4
<1>. QED  BY <1>5, <1>6, <1>7 DEF EveryoneWaits

LEMMA ChainsShareNothing == TypeOK /\ Chains => NoSharedStack
<1>. SUFFICES ASSUME TypeOK, NEW D, NEW H, NEW d, IsChained(D, H, d) PROVE NoSharedStack
  BY DEF Chains, IsChained
<1>1. /\ Context = {u \in D : H[u] = {}} /\ LiveConts = Alive(conts)
      /\ \A k \in Alive(conts) : Captured(k) = {u \in D : H[u] = {k}}
  BY Scope
<1>2. ASSUME NEW k \in LiveConts PROVE Captured(k) \cap Context = {}
  BY <1>1
<1>3. ASSUME NEW k \in LiveConts, NEW j \in LiveConts \ {k} PROVE Captured(j) \cap Captured(k) = {}
  <2>1. {j} # {k}
    OBVIOUS
  <2>. QED  BY <1>1, <2>1
<1>. QED  BY <1>2, <1>3 DEF NoSharedStack

LEMMA ChainsKeepExchangers == TypeOK /\ Chains => SharedExchangerAlive
<1>. SUFFICES ASSUME TypeOK, NEW D, NEW H, NEW d, IsChained(D, H, d) PROVE SharedExchangerAlive
  BY DEF Chains, IsChained
<1>1. LiveConts = Alive(conts) /\ \A k \in Alive(conts) : exc(k) = Ex(conts, k)
  BY Scope DEF Alive
<1>2. Based(mem, inUse) /\ Owned(inUse, conts)
  BY DEF IsChained, Chained
<1>3. \A t \in inUse : mem[t] # <<>> /\ Owner(t) \in inUse
  BY <1>2 DEF Based, HasBase, Own, Owner
<1>. QED  BY <1>1, <1>2, <1>3 DEF SharedExchangerAlive, Owned

LEMMA ChainsUseNothingFreed == TypeOK /\ Chains => NoUseAfterFree
<1>. SUFFICES ASSUME TypeOK, NEW D, NEW H, NEW d, IsChained(D, H, d) PROVE NoUseAfterFree
  BY DEF Chains, IsChained
<1>1. /\ Context = {u \in D : H[u] = {}} /\ LiveConts = Alive(conts)
      /\ \A k \in Alive(conts) : Captured(k) = {u \in D : H[u] = {k}}
  BY Scope
<1>2. D \subseteq inUse \cup {Main}
  BY DEF IsChained, Chained, Placed
<1>. QED  BY <1>1, <1>2 DEF NoUseAfterFree

LEMMA ChainsLeakNothing == "abort_across" \notin Allow /\ TypeOK /\ Chains => NoLeakedStack
<1>. SUFFICES ASSUME "abort_across" \notin Allow, TypeOK, NEW D, NEW H, NEW d, IsChained(D, H, d)
              PROVE  NoLeakedStack
  BY DEF Chains, IsChained
<1>1. /\ Context = {u \in D : H[u] = {}} /\ LiveConts = Alive(conts)
      /\ \A k \in Alive(conts) : Captured(k) = {u \in D : H[u] = {k}}
  BY Scope
<1>2. inUse \subseteq D /\ \A u \in D : H[u] = {} \/ \E k \in Alive(conts) : H[u] = {k}
  BY DEF IsChained, Chained, Complete, Held
<1>. QED  BY <1>1, <1>2 DEF NoLeakedStack

\* Going back through the exchangers leads to main and everything on the way is
\* suspended at a return address, for every number of stacks and resumptions
\* (the exchanges of RAISE, RESUME and ENTER's epilogue).
THEOREM WaitingHolds == Contract => (Spec => []EveryoneWaits)
BY Typing, ChainsHold, ChainsWait, PTL

\* A resumption's stacks are its own: never the running code's, never another
\* resumption's.
THEOREM SharingHolds == Contract => (Spec => []NoSharedStack)
BY Typing, ChainsHold, ChainsShareNothing, PTL

\* The exchangers that base frames and resumptions point to are in stacks that
\* are not freed (the absolute addresses of ENTER and of dup_stack's copies).
THEOREM ExchangersAliveHolds == Contract => (Spec => []SharedExchangerAlive)
BY Typing, ChainsHold, ChainsKeepExchangers, PTL

\* Nothing that runs, or that a live resumption will run, is on a freed stack, also
\* when aborts cross handlers (free_stack in ENTER, free_stack_on_abort).
THEOREM FreedIsUnused == Contract => (Spec => []NoUseAfterFree)
BY Typing, ChainsHold, ChainsUseNothingFreed, PTL

\* The two places that free a stack, and the stack they free.
FreesItsOwn == cur \in inUse /\ inUse' = inUse \ {cur}
FreesOnce ==
  /\ ENTER_return => FreesItsOwn
  /\ \A p \in AbortTargets : RAISE_ABORT(p) /\ LeavesStack(p) => FreesItsOwn
  /\ inUse \ inUse' # {} =>
       ENTER_return \/ \E p \in AbortTargets : RAISE_ABORT(p) /\ LeavesStack(p)

\* What the pool may assume of its caller (Free of StackAllocator): only the
\* epilogue of ENTER and free_stack_on_abort free, and what they free is the stack
\* they leave, which is in use; so none is freed twice.
THEOREM NoDoubleFree == Contract => (Spec => [][FreesOnce]_vars)
<1>. SUFFICES ASSUME Contract PROVE Spec => [][FreesOnce]_vars
  OBVIOUS
<1>1. TypeOK /\ Chains /\ [Next]_vars => [FreesOnce]_vars
  <2>. SUFFICES ASSUME TypeOK, NEW D, NEW H, NEW d, IsChained(D, H, d), Next PROVE FreesOnce
    BY DEF Chains, IsChained
  <2>1. cur # Main => cur \in inUse
    BY Facts
  <2>2. ENTER_return => FreesItsOwn
    BY <2>1 DEF ENTER_return, Freed, FreesItsOwn
  <2>3. \A p \in AbortTargets : RAISE_ABORT(p) /\ LeavesStack(p) => FreesItsOwn
    BY <2>1 DEF RAISE_ABORT, LeavesStack, Freed, FreesItsOwn
  <2>4. ASSUME inUse \ inUse' # {}
        PROVE  ENTER_return \/ \E p \in AbortTargets : RAISE_ABORT(p) /\ LeavesStack(p)
    <3>1. \A c \in CallSites : ~Call(c)
      BY <2>4 DEF Call
    <3>2. ~HANDLE_ABORT /\ ~Return
      BY <2>4 DEF HANDLE_ABORT, Return
    <3>3. \A s \in Stacks, c \in CallSites : ~HANDLE(s, c)
      BY <2>4 DEF HANDLE
    <3>4. \A k \in Conts, e \in Stacks, c \in CallSites : ~RAISE(k, e, c) /\ ~RAISE_M(k, e, c)
      BY <2>4 DEF RAISE, RAISE_M
    <3>5. \A k \in Conts, s \in Stacks, c \in CallSites : ~THROW(k, s, c)
      BY <2>4 DEF THROW
    <3>6. \A k \in Conts, c \in CallSites : ~FINAL_THROW(k, c)
      BY <2>4 DEF FINAL_THROW
    <3>7. \A p \in AbortTargets : RAISE_ABORT(p) => LeavesStack(p)
      BY <2>4 DEF RAISE_ABORT
    <3>. QED  BY <3>1, <3>2, <3>3, <3>4, <3>5, <3>6, <3>7 DEF Next
  <2>. QED  BY <2>2, <2>3, <2>4 DEF FreesOnce
<1>. QED  BY <1>1, Typing, ChainsHold, PTL DEF Spec

\* Unless an abort leaves more than one stack behind, no stack of the pool is
\* lost (ENTER's epilogue and free_stack_on_abort free all that is not held).
THEOREM NoLeakHolds == Allow = {} => (Spec => []NoLeakedStack)
<1>. SUFFICES ASSUME Allow = {} PROVE Spec => []NoLeakedStack
  OBVIOUS
<1>1. Contract /\ "abort_across" \notin Allow
  BY DEF Contract
<1>2. TypeOK /\ Chains => NoLeakedStack
  BY <1>1, ChainsLeakNothing
<1>. QED  BY <1>1, <1>2, Typing, ChainsHold, PTL

\* The collector's record of the system stack is right whenever another stack
\* runs (GC_set_main_stack_sp).
THEOREM ScanHolds == Contract => (Spec => []GCScansMainStack)
<1>1. TypeOK /\ Chains => GCScansMainStack
  BY DEF Chains, Chained, Scanned, GCScansMainStack
<1>. QED  BY <1>1, Typing, ChainsHold, PTL
-----------------------------------------------------------------------------
(***************************************************************************)
(* What a resumption holds does not change while it is held.               *)
(***************************************************************************)
OthersKept(xs, xs2, U, e) == \A f \in U : f # e => xs2[f] = xs[f]
Untouched(m, m2, D, H, d, k, e) ==
  \A t \in D : H[t] = {k} => m2[t] = m[t] /\ (d[t] > 0 => Own(m, t) # e)

\* A step that writes exchanger e only, and no frame of k's stacks, keeps what
\* k holds if nothing in k's chain goes through e.
LEMMA CaptureKept ==
  ASSUME TypeOK, NEW D, NEW H, NEW d, IsChained(D, H, d),
         NEW k \in Alive(conts), conts'[k] = conts[k],
         NEW e, OthersKept(exchanger, exchanger', inUse, e),
         ~Multi(conts, k) => Ex(conts, k) # e,
         Untouched(mem, mem', D, H, d, k, e)
  PROVE  CapturedFrames(k)' = CapturedFrames(k)
<1>1. /\ LiveConts = Alive(conts) /\ Captured(k) = {u \in D : H[u] = {k}}
      /\ rsp_sp(k) = Sp(exchanger, conts, k) /\ exc(k) = Ex(conts, k)
  BY Scope DEF Alive
<1>2. PICK t, x : t = rsp_sp(k).stk /\ x = exc(k)
  OBVIOUS
<1>3. exc(k)' = x
  BY <1>2 DEF exc
<1>4. x \in inUse /\ \A u \in D : u # Main => Own(mem, u) \in inUse
  BY <1>1, <1>2, Facts DEF IsChained, Chained, Owned
<1>5. rsp_sp(k)'.stk = t
  <2>1. Multi(conts, k) => rsp_sp(k)' = rsp_sp(k)
    BY <1>1 DEF rsp_sp, IsMulti, Multi
  <2>2. ~Multi(conts, k) => rsp_sp(k)' = exchanger'[x] /\ rsp_sp(k) = exchanger[x] /\ x # e
    BY <1>1, <1>2 DEF rsp_sp, IsMulti, Multi, exc, Ex, Sp
  <2>. QED  BY <1>2, <1>4, <2>1, <2>2 DEF OthersKept
<1>6. Captured(k) = From(t, x) /\ Captured(k)' = From(t, x)'
  BY <1>2, <1>3, <1>5 DEF Captured
<1> DEFINE S0 == {u \in D : H[u] = {k}}
<1>7. /\ t \in S0 /\ S0 \in SUBSET AllStacks
      /\ \A u \in S0 : u # Main /\ mem'[u] = mem[u] /\ mem[u] # <<>>
                       /\ (Owner(u) = x <=> d[u] = 0) /\ d[u] \in Nat
                       /\ (Owner(u) # x => Own(mem, u) # e /\ Own(mem, u) \in inUse)
  <2>1. t \in S0 /\ \A u \in S0 : d[u] = 0 <=> Owner(u) = x
    BY <1>1, <1>2 DEF IsChained, Chained, Held, Own, Owner
  <2>2. \A u \in S0 : u # Main /\ u \in inUse /\ mem[u] # <<>> /\ d[u] \in Nat
    BY Facts DEF HasBase
  <2>3. \A u \in S0 : mem'[u] = mem[u] /\ (d[u] > 0 => Own(mem, u) # e)
    BY DEF Untouched
  <2>4. \A n \in Nat : n # 0 => n > 0
    OBVIOUS
  <2>5. S0 \in SUBSET AllStacks
    BY Facts
  <2>. QED  BY <1>4, <2>1, <2>2, <2>3, <2>4, <2>5
<1>8. \A u \in S0 : Owner(u)' = Owner(u) /\ (Owner(u) # x => Below(u)' = Below(u))
  BY <1>7 DEF Below, Owner, Own, OthersKept
<1>9. S0 = From(t, x)
  BY <1>1, <1>6
<1>10. \A u \in S0 : Owner(u) # x => Below(u) \in S0
  <2>1. \A u \in S0 : Owner(u) # x => d[u] > 0 /\ u # Main
    BY <1>7
  <2>. QED  BY <2>1 DEF IsChained, Chained, Linked, Below, Owner, Own
<1>11. Closed(S0, x)'
  BY <1>7, <1>8, <1>10 DEF Closed
<1>12. From(t, x)' \subseteq S0
  BY <1>7, <1>11 DEF From
<1>13. S0 \subseteq From(t, x)'
  <2>1. ASSUME NEW S \in SUBSET AllStacks, t \in S, Closed(S, x)' PROVE S0 \subseteq S
    <3>1. Closed(S \cap S0, x)
      <4>. SUFFICES ASSUME NEW u \in S \cap S0, Owner(u) # x PROVE Below(u) \in S \cap S0
        BY DEF Closed
      <4>1. u # Main /\ mem'[u] # <<>> /\ Owner(u)' # x /\ Below(u)' = Below(u) /\ Below(u) \in S0
        BY <1>7, <1>8, <1>10
      <4>2. Below(u)' \in S
        BY <2>1, <4>1 DEF Closed
      <4>. QED  BY <4>1, <4>2
    <3>2. t \in S \cap S0 /\ S \cap S0 \in SUBSET AllStacks
      BY <1>7, <2>1
    <3>3. From(t, x) \subseteq S \cap S0
      BY <3>1, <3>2 DEF From
    <3>. QED  BY <1>9, <3>3
  <2>2. S0 \in SUBSET AllStacks
    BY <1>7
  <2>. QED  BY <2>1, <2>2 DEF From
<1>14. Captured(k)' = S0 /\ Captured(k) = S0
  BY <1>6, <1>9, <1>12, <1>13
<1> HIDE DEF S0
<1>. QED  BY <1>7, <1>14 DEF CapturedFrames

LEMMA CutElsewhere ==
  ASSUME NEW m \in Memory, NEW p, NEW t \in AllStacks, t # p.stk
  PROVE  CutTo(m, p)[t] = m[t] /\ RetTo(m, p)[t] = m[t]
BY DEF Memory, CutTo, RetTo

\* Between a raise and the resumption the frames held stay as they are.
LEMMA IntactStep ==
  ASSUME Contract, TypeOK, NEW D, NEW H, NEW d, IsChained(D, H, d), [Next]_vars,
         NEW k \in Alive(conts), conts'[k] = conts[k]
  PROVE  CapturedFrames(k)' = CapturedFrames(k)
<1>1. /\ mem \in Memory /\ cur \in AllStacks /\ H[cur] = {} /\ Main \notin inUse
      /\ inUse \subseteq Stacks /\ D \subseteq AllStacks /\ k \in Conts /\ conts[k] # NoCont
      /\ \A u \in D : u # Main => u \in inUse /\ Own(mem, u) \in inUse
      /\ \A u \in D : H[u] # {} => u # Main
      /\ Ex(conts, k) \in inUse
  BY Facts DEF Alive, IsChained, Chained, Owned
<1>2. \A t \in D : H[t] = {k} => t # cur /\ t # Main /\ t \in AllStacks /\ t \in inUse
  BY <1>1
\* No exchanger is written.
<1>3. ASSUME exchanger' = exchanger, \A t \in D : H[t] = {k} => mem'[t] = mem[t]
      PROVE  CapturedFrames(k)' = CapturedFrames(k)
  <2>1. OthersKept(exchanger, exchanger', inUse, Main) /\ Ex(conts, k) # Main
    BY <1>1, <1>3 DEF OthersKept
  <2>2. Untouched(mem, mem', D, H, d, k, Main)
    BY <1>1, <1>2, <1>3 DEF Untouched
  <2>. QED  BY <2>1, <2>2, CaptureKept
<1>4. CASE (\E c \in CallSites : Call(c)) \/ HANDLE_ABORT \/ Return
  <2>1. exchanger' = exchanger /\ \A t \in AllStacks : t # cur => mem'[t] = mem[t]
    BY <1>1, <1>4 DEF Call, HANDLE_ABORT, Return, Pushed, Memory
  <2>. QED  BY <1>2, <1>3, <2>1
<1>5. ASSUME NEW s \in Stacks, NEW c \in CallSites, HANDLE(s, c)
      PROVE  CapturedFrames(k)' = CapturedFrames(k)
  <2>1. s \notin inUse
    BY <1>5 DEF HANDLE
  <2>2. OthersKept(exchanger, exchanger', inUse, s) /\ Ex(conts, k) # s
    BY <1>1, <1>5, <2>1 DEF HANDLE, OthersKept, TypeOK
  <2>3. \A t \in AllStacks : t # cur /\ t # s => mem'[t] = mem[t]
    BY <1>1, <1>5 DEF HANDLE, Pushed, Memory
  <2>4. Untouched(mem, mem', D, H, d, k, s)
    BY <1>1, <1>2, <2>1, <2>3 DEF Untouched
  <2>. QED  BY <2>2, <2>4, CaptureKept
<1>6. CASE ENTER_return
  <2> DEFINE p == exchanger[Last(mem[cur]).at]
             m1 == [mem EXCEPT ![cur] = <<>>]
  <2>1. cur # Main /\ cur \in D /\ cur \in inUse /\ d[cur] > 0
    <3>1. cur # Main /\ cur \in D /\ d[cur] \in Nat /\ d[cur] # 0 /\ cur \in inUse
      BY <1>1, <1>6, Facts DEF ENTER_return
    <3>2. \A n \in Nat : n # 0 => n > 0
      OBVIOUS
    <3>. QED  BY <3>1, <3>2
  <2>2. Last(mem[cur]).at = Own(mem, cur)
    BY <1>6, <2>1, Facts, LastIsBase DEF ENTER_return
  <2>3. H[p.stk] = {}
    BY <1>1, <2>1, <2>2 DEF IsChained, Chained, Linked
  <2>4. m1 \in Memory /\ \A t \in AllStacks : t # cur => m1[t] = mem[t]
    BY <1>1 DEF Memory
  <2>5. mem' = RetTo(m1, p) /\ exchanger' = exchanger
    BY <1>6 DEF ENTER_return
  <2> HIDE DEF p, m1
  <2>6. \A t \in AllStacks : t # cur /\ t # p.stk => mem'[t] = mem[t]
    BY <2>4, <2>5, CutElsewhere
  <2>7. \A t \in D : H[t] = {k} => t # p.stk
    BY <2>3
  <2>. QED  BY <1>2, <1>3, <2>5, <2>6, <2>7
<1>7. ASSUME NEW j \in Conts, NEW e \in Stacks, NEW c \in CallSites, RAISE(j, e, c) \/ RAISE_M(j, e, c)
      PROVE  CapturedFrames(k)' = CapturedFrames(k)
  <2>1. e \in InScope /\ Swap(e, c) /\ (\A i \in LiveConts : exc(i) = e => IsMulti(i))
    BY <1>7 DEF RAISE, RAISE_M, SameMode
  <2>2. PICK w \in D : H[w] = {} /\ d[w] > 0 /\ e = Own(mem, w)
    BY <2>1, Scope
  <2>3. H[exchanger[e].stk] = {}
    BY <2>2 DEF IsChained, Chained, Linked
  <2>4. ~Multi(conts, k) => Ex(conts, k) # e
    <3>1. k \in LiveConts /\ k \in Conts
      BY <1>1, Scope
    <3>2. exc(k) = Ex(conts, k) /\ (IsMulti(k) <=> Multi(conts, k))
      BY <3>1, Scope
    <3>. QED  BY <2>1, <3>1, <3>2
  <2>5. \A t \in D : H[t] = {k} /\ d[t] > 0 => Own(mem, t) # e
    BY <2>2 DEF IsChained, Chained, OneUser
  <2>6. Pushed(c) \in Memory /\ \A t \in AllStacks : t # cur => Pushed(c)[t] = mem[t]
    BY PushedWaits
  <2>7. mem' = CutTo(Pushed(c), exchanger[e]) /\ OthersKept(exchanger, exchanger', inUse, e)
    BY <1>1, <2>1 DEF Swap, OthersKept, TypeOK
  <2>8. \A t \in AllStacks : t # cur /\ t # exchanger[e].stk => mem'[t] = mem[t]
    BY <2>6, <2>7, CutElsewhere
  <2>9. Untouched(mem, mem', D, H, d, k, e)
    BY <1>2, <2>3, <2>5, <2>8 DEF Untouched
  <2>. QED  BY <2>4, <2>7, <2>9, CaptureKept
<1>8. ASSUME NEW p \in AbortTargets, RAISE_ABORT(p)
      PROVE  CapturedFrames(k)' = CapturedFrames(k)
  <2> DEFINE m1 == [mem EXCEPT ![cur] = <<>>]
  <2>1. H[p.stk] = {}
    BY AbortPlace
  <2>2. m1 \in Memory /\ \A t \in AllStacks : t # cur => m1[t] = mem[t]
    BY <1>1 DEF Memory
  <2>3. (mem' = CutTo(m1, p) \/ mem' = CutTo(mem, p)) /\ exchanger' = exchanger
    BY <1>8 DEF RAISE_ABORT
  <2> HIDE DEF m1
  <2>4. \A t \in AllStacks : t # cur /\ t # p.stk => mem'[t] = mem[t]
    BY <1>1, <2>2, <2>3, CutElsewhere
  <2>5. \A t \in D : H[t] = {k} => t # p.stk
    BY <2>1
  <2>. QED  BY <1>2, <1>3, <2>3, <2>4, <2>5
\* Nothing goes through the exchanger of a resumption that may be resumed.
<1>9. ASSUME NEW j \in Alive(conts), j # k \/ Multi(conts, j), ExchangerIdle(exc(j)),
             \A f \in inUse : f # exc(j) => exchanger'[f] = exchanger[f],
             \A t \in D : H[t] = {k} => mem'[t] = mem[t]
      PROVE  CapturedFrames(k)' = CapturedFrames(k)
  <2>1. exc(j) = Ex(conts, j)
    BY Scope DEF Alive
  <2>2. Idle(mem, D, d, exc(j))
    BY <1>9, IdleInChains
  <2>3. ~Multi(conts, k) => Ex(conts, k) # exc(j)
    BY <1>9, <2>1 DEF IsChained, Chained, Singles
  <2>4. Untouched(mem, mem', D, H, d, k, exc(j))
    BY <1>9, <2>2 DEF Untouched, Idle
  <2>5. OthersKept(exchanger, exchanger', inUse, exc(j))
    BY <1>9 DEF OthersKept
  <2>. QED  BY <2>3, <2>4, <2>5, CaptureKept
<1>10. ASSUME NEW j \in Conts, NEW s \in Stacks, NEW c \in CallSites, THROW(j, s, c)
       PROVE  CapturedFrames(k)' = CapturedFrames(k)
  <2> DEFINE p == rsp_sp(j)
             m1 == Duplicate(Pushed(c), p.stk, s)
  <2>1. j \in Alive(conts) /\ Multi(conts, j) /\ ExchangerIdle(exc(j)) /\ s \notin inUse
    BY <1>10, Scope DEF THROW, Live, Alive
  <2>2. /\ mem' = RetTo(m1, CopyOf(p, s))
        /\ exchanger' = [[exchanger EXCEPT ![s] = exchanger[p.stk]] EXCEPT ![exc(j)] = rsp]
    BY <1>10 DEF THROW, RESUME
  <2>3. \A f \in inUse : f # exc(j) => exchanger'[f] = exchanger[f]
    BY <1>1, <2>1, <2>2 DEF TypeOK
  <2>4. Pushed(c) \in Memory /\ \A t \in AllStacks : t # cur => Pushed(c)[t] = mem[t]
    BY PushedWaits
  <2>5. p.stk \in AllStacks
    BY <1>10 DEF THROW, Copyable, AllStacks
  <2>6. m1 \in Memory /\ \A t \in AllStacks : t # s => m1[t] = Pushed(c)[t]
    BY <2>4, <2>5 DEF Duplicate, Memory
  <2>7. CopyOf(p, s).stk = s
    BY DEF CopyOf
  <2> HIDE DEF p, m1
  <2>8. \A t \in AllStacks : t # cur /\ t # s => mem'[t] = mem[t]
    BY <2>2, <2>4, <2>6, <2>7, CutElsewhere
  <2>9. \A t \in D : H[t] = {k} => mem'[t] = mem[t]
    BY <1>2, <2>1, <2>8
  <2>. QED  BY <1>9, <2>1, <2>3, <2>9
<1>11. ASSUME NEW j \in Conts, NEW c \in CallSites, FINAL_THROW(j, c)
       PROVE  CapturedFrames(k)' = CapturedFrames(k)
  <2> DEFINE p == rsp_sp(j)
  <2>1. j \in Alive(conts) /\ ExchangerIdle(exc(j)) /\ conts' = [conts EXCEPT ![j] = NoCont]
    BY <1>11 DEF FINAL_THROW, Live, Alive
  <2>2. j # k
    BY <1>1, <2>1 DEF TypeOK
  <2>3. mem' = RetTo(Pushed(c), p) /\ exchanger' = [exchanger EXCEPT ![exc(j)] = rsp]
    BY <1>11 DEF FINAL_THROW, RESUME
  <2>4. \A f \in inUse : f # exc(j) => exchanger'[f] = exchanger[f]
    BY <1>1, <2>3 DEF TypeOK
  <2>5. H[p.stk] = {j}
    BY SMTT(20), <2>1, Scope DEF IsChained, Chained, Held, Alive
  <2>6. Pushed(c) \in Memory /\ \A t \in AllStacks : t # cur => Pushed(c)[t] = mem[t]
    BY PushedWaits
  <2> HIDE DEF p
  <2>7. \A t \in AllStacks : t # cur /\ t # p.stk => mem'[t] = mem[t]
    BY <2>3, <2>6, CutElsewhere
  <2>8. {j} # {k}
    BY <2>2
  <2>9. \A t \in D : H[t] = {k} => mem'[t] = mem[t]
    BY <1>2, <2>5, <2>7, <2>8
  <2>. QED  BY <1>9, <2>1, <2>2, <2>4, <2>9
<1>12. CASE UNCHANGED vars
  BY <1>3, <1>12 DEF vars
<1>. QED
  BY <1>4, <1>5, <1>6, <1>7, <1>8, <1>10, <1>11, <1>12 DEF Next

\* The frames a live resumption will return to do not change, whatever is run
\* in between, copies of the same resumption included (RAISE, dup_stack and
\* RESUME write only their own stacks and an exchanger nobody goes through).
THEOREM IntactHolds == Contract => (Spec => ResumptionsIntact)
<1>. SUFFICES ASSUME Contract PROVE Spec => ResumptionsIntact
  OBVIOUS
<1>1. TypeOK /\ Chains /\ [Next]_vars =>
        [\A k \in LiveConts : conts'[k] = conts[k] => CapturedFrames(k)' = CapturedFrames(k)]_vars
  <2>. SUFFICES ASSUME TypeOK, NEW D, NEW H, NEW d, IsChained(D, H, d), [Next]_vars,
                       NEW k \in LiveConts, conts'[k] = conts[k]
                PROVE  CapturedFrames(k)' = CapturedFrames(k)
    BY DEF Chains, IsChained
  <2>1. k \in Alive(conts)
    BY Scope
  <2>. QED  BY <2>1, IntactStep
<1>. QED  BY <1>1, Typing, ChainsHold, PTL DEF Spec, ResumptionsIntact
=============================================================================
