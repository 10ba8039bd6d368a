------------------------------ MODULE StackTrek ------------------------------
(***************************************************************************)
(* The runtime's stack switching (stacktrek.h): one general handler, one   *)
(* stack; the exchanger in the handler's header holds the stack pointer of *)
(* whoever is waiting -- the parent while the body runs, the body while    *)
(* the handler runs.  RAISE, RESUME and the epilogue of ENTER move the     *)
(* stack pointer through the exchanger; THROW does so with a copy.         *)
(*                                                                         *)
(* A stack's memory is its sequence of return addresses, outermost first:  *)
(*   call   a call that will be returned to;                               *)
(*   abort  the body of an abort handler, whose stub is in the frame;      *)
(*   enter  the base of a handler's stack: ENTER's epilogue, with the      *)
(*          address of the exchanger that ENTER pushed.                    *)
(* An address is its stack (`stk') and the number of frames below (`h').   *)
(* Addresses stored in memory are absolute, so a copied frame still points *)
(* where the original did.  Memory above a stack pointer is forgotten.     *)
(*                                                                         *)
(* The actions are the operations compiled code calls, in any order the    *)
(* compiler's output allows.  What the runtime asks of that code and does  *)
(* not check itself is the section "Client contract"; `Allow' opens parts  *)
(* of it.  Abort and tail handlers need no switch: an abort handler is an  *)
(* `abort' frame, a tail handler and its operations are ordinary calls.    *)
(***************************************************************************)
EXTENDS Naturals, Sequences, FiniteSets, SequencesExt

CONSTANTS
  Stacks,      \* the stacks the pool can hand out; also names the headers
  Main,        \* the system stack
  Conts,       \* names for resumptions, reused once consumed
  CallSites,   \* return addresses
  NoCont,
  MaxFrames,   \* bound: frames on one stack
  Allow        \* the parts of the client contract that are not assumed

ASSUME TrekAssumption ==
  /\ IsFiniteSet(Stacks)
  /\ Main \notin Stacks
  /\ MaxFrames \in Nat
  /\ NoCont \notin [exchanger_ptr : Stacks]
  /\ NoCont \notin [rsp_sp : [stk : Stacks \cup {Main}, h : Nat], exchanger_ptr : Stacks]
  /\ Allow \subseteq {"multi_stack", "escape", "abort_across"}

AllStacks == Stacks \cup {Main}

VARIABLES
  mem,         \* the frames of each stack
  cur,         \* the stack rsp is in; rsp is its top
  inUse,       \* the stacks the pool has handed out
  exchanger,   \* the exchanger field of the header of each stack
  conts,       \* resumptions: a header (single-shot) or a resumption_t
  gc_sp        \* GC_recorded_main_stack_sp

vars == <<mem, cur, inUse, exchanger, conts, gc_sp>>

CallFrame(c)  == [kind |-> "call", at |-> c]
AbortFrame(t) == [kind |-> "abort", at |-> t]   \* t: the stack the stub is on
EnterFrame(e) == [kind |-> "enter", at |-> e]   \* e: the stack whose exchanger it is

Frame == {CallFrame(c) : c \in CallSites} \cup {AbortFrame(t) : t \in AllStacks}
           \cup {EnterFrame(e) : e \in Stacks}

SP == [stk : AllStacks, h : Nat]

\* The resumption of a single-shot raise is the lower half of the header; the
\* one of a multi-shot raise is a resumption_t with a stack pointer of its own.
SingleShot == [exchanger_ptr : Stacks]
MultiShot  == [rsp_sp : SP, exchanger_ptr : Stacks]

Live(k) == conts[k] # NoCont
IsMulti(k) == "rsp_sp" \in DOMAIN conts[k]
rsp_sp(k) == IF IsMulti(k) THEN conts[k].rsp_sp ELSE exchanger[conts[k].exchanger_ptr]
exc(k) == conts[k].exchanger_ptr

-----------------------------------------------------------------------------
(***************************************************************************)
(* Following the exchangers                                                *)
(***************************************************************************)
\* The stack whose exchanger the epilogue at the base of stack t will read,
\* and the stack it will go back to.
Owner(t) == mem[t][1].at
Below(t) == IF t = Main THEN Main ELSE exchanger[Owner(t)].stk

\* The stacks from t down to the first one owned by e: the least set with t
\* in it and closed under Below.
Closed(S, e) ==
  \A u \in S \ {Main} : mem[u] # <<>> => Owner(u) = e \/ Below(u) \in S
From(t, e) == {u \in AllStacks : \A S \in SUBSET AllStacks : t \in S /\ Closed(S, e) => u \in S}

\* Where the stackwalker goes on from the base of stack t (stackwalk.c): it
\* finds the header by its offset from the frame, so reads t's own exchanger.
WalkedTo(t) == exchanger[t]

Context == From(cur, Main)
Captured(k) == From(rsp_sp(k).stk, exc(k))

\* The handlers whose labels the running code may raise to.
InScope == {e \in Stacks : \E t \in Context \ {Main} : Owner(t) = e}

LiveConts == {k \in Conts : Live(k)}

-----------------------------------------------------------------------------
(***************************************************************************)
(* Client contract: what the actions assume and the code does not check.   *)
(* Besides what follows, a label is raised to only in its scope and a      *)
(* resumption is used by FINAL_THROW at most once, and by nothing after.   *)
(***************************************************************************)
\* A resumption is resumed only while nothing goes through its exchanger: its
\* handler is neither running a body nor waiting inside another resumption.
ExchangerIdle(e) ==
  /\ e \notin InScope
  /\ \A k \in LiveConts : \A t \in Captured(k) : Owner(t) = e => exc(k) = e

\* The operations of a handler are all single-shot, with one resumption at a
\* time, or all multi-shot.
SameMode(e, multi) ==
  \A k \in LiveConts : exc(k) = e => multi /\ IsMulti(k)

\* Only a resumption of one stack, without abort handlers on it, is resumed
\* more than once.
Copyable(k) ==
  LET t == rsp_sp(k).stk IN
  /\ t \in Stacks
  /\ Owner(t) = exc(k) \/ "multi_stack" \in Allow
  /\ \A i \in DOMAIN mem[t] : mem[t][i].kind # "abort"

\* A handler's own stack ends only after its copies and its resumptions.
Discardable(s) ==
  \/ "escape" \in Allow
  \/ /\ \A t \in inUse \ {s} : Owner(t) # s
     /\ \A k \in LiveConts : exc(k) # s

\* An abort leaves at most one stack behind.
NearAbort(p) == p.stk \in {cur, Below(cur)} \/ "abort_across" \in Allow

-----------------------------------------------------------------------------
(***************************************************************************)
(* Moving the stack pointer                                                *)
(***************************************************************************)
\* The address rsp has once a call has pushed its return address.
rsp == [stk |-> cur, h |-> Len(mem[cur]) + 1]

Room == Len(mem[cur]) < MaxFrames

\* Memory with the return address of call site c pushed on the current stack.
Pushed(c) == [mem EXCEPT ![cur] = Append(@, CallFrame(c))]

\* Memory m with stack p.stk cut back to address p.
CutTo(m, p) == [m EXCEPT ![p.stk] = SubSeq(@, 1, IF p.h < Len(@) THEN p.h ELSE Len(@))]

\* The same, then a ret: the return address at p is popped.
RetTo(m, p) == CutTo(m, [stk |-> p.stk, h |-> IF p.h = 0 THEN 0 ELSE p.h - 1])

\* Mutant of GC_set_main_stack_sp: the first general handler's pointer is kept.
GC_set_once == gc_sp' = IF cur = Main /\ gc_sp = 0 THEN rsp.h ELSE gc_sp

\* GC_set_main_stack_sp, which stores rsp if it is in the system stack.
GC_set_main_stack_sp == gc_sp' = IF cur = Main THEN rsp.h ELSE gc_sp

-----------------------------------------------------------------------------
Init ==
  /\ mem = [t \in AllStacks |-> <<>>]
  /\ cur = Main
  /\ inUse = {}
  /\ exchanger = [s \in Stacks |-> [stk |-> Main, h |-> 0]]
  /\ conts = [k \in Conts |-> NoCont]
  /\ gc_sp = 0

\* Ordinary calls, and their returns.
Call(c) ==
  /\ Room
  /\ mem' = Pushed(c)
  /\ UNCHANGED <<cur, inUse, exchanger, conts, gc_sp>>

\* HANDLE, mode ABORT: the stub stays in the caller's frame, its exchanger is
\* the address the body's return address is about to have.
HANDLE_ABORT ==
  /\ Room
  /\ mem' = [mem EXCEPT ![cur] = Append(@, AbortFrame(cur))]
  /\ UNCHANGED <<cur, inUse, exchanger, conts, gc_sp>>

Return ==
  /\ mem[cur] # <<>>
  /\ Last(mem[cur]).kind # "enter"
  /\ mem' = [mem EXCEPT ![cur] = Front(@)]
  /\ UNCHANGED <<cur, inUse, exchanger, conts, gc_sp>>

\* HANDLE, a general handler: a stack from the pool with the header and the
\* base frame on it, then ENTER.
HANDLE(s, c) ==
  /\ s \in Stacks \ inUse
  /\ Room
  /\ inUse' = inUse \cup {s}
  /\ GC_set_main_stack_sp
  /\ exchanger' = [exchanger EXCEPT ![s] = rsp]
  /\ mem' = [Pushed(c) EXCEPT ![s] = <<EnterFrame(s)>>]
  /\ cur' = s
  /\ UNCHANGED conts

\* Mutants of Freed: the stack that has returned is not freed; the stack with
\* the exchanger is freed.
FreedNothing == inUse
FreedOwner   == inUse \ {Owner(cur)}

\* What the pool has handed out once the current stack is freed.
Freed == inUse \ {cur}

\* The epilogue of ENTER: the body has returned, the stack is freed and the
\* exchanger the base frame names says where to return to.
ENTER_return ==
  LET p == exchanger[Last(mem[cur]).at] IN
  /\ cur # Main
  /\ mem[cur] # <<>> /\ Last(mem[cur]).kind = "enter"
  /\ Discardable(cur)
  /\ inUse' = Freed
  /\ mem' = RetTo([mem EXCEPT ![cur] = <<>>], p)
  /\ cur' = p.stk
  /\ UNCHANGED <<exchanger, conts, gc_sp>>

\* Mutant of Swap: the stack pointer is not saved in the exchanger.
SwapNoSave(e, c) ==
  /\ mem' = CutTo(Pushed(c), exchanger[e])
  /\ cur' = exchanger[e].stk
  /\ UNCHANGED exchanger

\* The body of a raise to a general handler: the stack pointer and the
\* exchanger change places, and the handler runs where the parent waits.
Swap(e, c) ==
  /\ mem' = CutTo(Pushed(c), exchanger[e])
  /\ cur' = exchanger[e].stk
  /\ exchanger' = [exchanger EXCEPT ![e] = rsp]

\* RAISE: k is the header itself.
RAISE(k, e, c) ==
  /\ ~Live(k) /\ e \in InScope /\ Room
  /\ SameMode(e, FALSE)
  /\ Swap(e, c)
  /\ conts' = [conts EXCEPT ![k] = [exchanger_ptr |-> e]]
  /\ UNCHANGED <<inUse, gc_sp>>

\* Mutant of NewResumption: exchanger_ptr is not set.
NewResumptionNoExchanger(e) == [rsp_sp |-> rsp]

NewResumption(e) == [rsp_sp |-> rsp, exchanger_ptr |-> e]

\* RAISE_M: k is a new resumption_t.
RAISE_M(k, e, c) ==
  /\ ~Live(k) /\ e \in InScope /\ Room
  /\ SameMode(e, TRUE)
  /\ Swap(e, c)
  /\ conts' = [conts EXCEPT ![k] = NewResumption(e)]
  /\ UNCHANGED <<inUse, gc_sp>>

\* Mutant of StubExchanger: the address of the body's caller, not of the slot of
\* its return address (the `-8' of HANDLE).
StubExchangerNoSlot(f, i) == [stk |-> f.at, h |-> i - 1]

\* The exchanger in the stub of abort frame f, which is at height i.
StubExchanger(f, i) == [stk |-> f.at, h |-> i]

AbortFrames(t) == {i \in DOMAIN mem[t] : mem[t][i].kind = "abort"}

\* What the exchangers of the handlers in scope hold: general handlers, and
\* abort handlers whose body is being run.
AbortTargets ==
  {exchanger[e] : e \in InScope}
    \cup UNION {{StubExchanger(mem[t][i], i) : i \in AbortFrames(t)} : t \in Context}

\* Mutant of LeavesStack: the handler's stack is not looked at.
LeavesStackAlways(p) == cur # Main

\* The test of free_stack_on_abort.
LeavesStack(p) == cur # Main /\ p.stk # cur

\* RAISE_ABORT: the current stack is freed unless the handler is on it; stacks
\* between it and the handler's are not.
RAISE_ABORT(p) ==
  /\ p \in AbortTargets
  /\ NearAbort(p)
  /\ IF LeavesStack(p)
     THEN /\ Discardable(cur)
          /\ inUse' = Freed
          /\ mem' = CutTo([mem EXCEPT ![cur] = <<>>], p)
     ELSE mem' = CutTo(mem, p) /\ UNCHANGED inUse
  /\ cur' = p.stk
  /\ UNCHANGED <<exchanger, conts, gc_sp>>

\* Mutant of RESUME: the stack pointer is not saved in the exchanger.
RESUMENoSave(m, xs, p, e) ==
  /\ exchanger' = xs
  /\ mem' = RetTo(m, p)
  /\ cur' = p.stk

\* RESUME from memory m and exchangers xs: the stack pointer is saved in the
\* exchanger of e and the code suspended at p is returned to.
RESUME(m, xs, p, e) ==
  /\ exchanger' = [xs EXCEPT ![e] = rsp]
  /\ mem' = RetTo(m, p)
  /\ cur' = p.stk

\* Mutant of Duplicate: the copy's base frame names the copy's own exchanger.
DuplicateRelative(m, t, s) == [m EXCEPT ![s] = <<EnterFrame(s)>> \o Tail(m[t])]

\* dup_stack: the stack in memory m, return addresses verbatim, on stack s.
Duplicate(m, t, s) == [m EXCEPT ![s] = m[t]]

\* Mutant of CopyOf: the original is resumed.
CopyOfIsOriginal(p, s) == p

\* Address p in the copy on stack s.
CopyOf(p, s) == [stk |-> s, h |-> p.h]

\* THROW: resume a copy of the top stack of k.  The header is copied too, and
\* k stays as it is.
THROW(k, s, c) ==
  LET p == rsp_sp(k) IN
  /\ Live(k) /\ IsMulti(k)
  /\ s \in Stacks \ inUse
  /\ Room
  /\ ExchangerIdle(exc(k)) /\ Copyable(k)
  /\ inUse' = inUse \cup {s}
  /\ GC_set_main_stack_sp
  /\ RESUME(Duplicate(Pushed(c), p.stk, s),
            [exchanger EXCEPT ![s] = exchanger[p.stk]],
            CopyOf(p, s), exc(k))
  /\ UNCHANGED conts

\* FINAL_THROW: resume k itself, which is then used up.
FINAL_THROW(k, c) ==
  /\ Live(k) /\ Room
  /\ ExchangerIdle(exc(k))
  /\ GC_set_main_stack_sp
  /\ RESUME(Pushed(c), exchanger, rsp_sp(k), exc(k))
  /\ conts' = [conts EXCEPT ![k] = NoCont]
  /\ UNCHANGED inUse

Next ==
  \/ \E c \in CallSites : Call(c)
  \/ HANDLE_ABORT
  \/ Return
  \/ \E s \in Stacks, c \in CallSites : HANDLE(s, c)
  \/ ENTER_return
  \/ \E k \in Conts, e \in Stacks, c \in CallSites : RAISE(k, e, c) \/ RAISE_M(k, e, c)
  \/ \E p \in AbortTargets : RAISE_ABORT(p)
  \/ \E k \in Conts, s \in Stacks, c \in CallSites : THROW(k, s, c)
  \/ \E k \in Conts, c \in CallSites : FINAL_THROW(k, c)

Spec == Init /\ [][Next]_vars

-----------------------------------------------------------------------------
(***************************************************************************)
(* Properties                                                              *)
(***************************************************************************)
TypeOK ==
  /\ mem \in [AllStacks -> Seq(Frame)]
  /\ cur \in AllStacks
  /\ inUse \subseteq Stacks
  /\ exchanger \in [Stacks -> SP]
  /\ conts \in [Conts -> SingleShot \cup MultiShot \cup {NoCont}]
  /\ gc_sp \in Nat

\* An address at which something is suspended: a return address on top of its
\* stack, for a ret to pop.
Waiting(p) == p.h = Len(mem[p.stk]) /\ p.h > 0 /\ mem[p.stk][p.h].kind = "call"

\* Whatever is switched, copied and freed: going back through the exchangers
\* leads from the running code to main, and every stack on the way, like every
\* stack of a live resumption, is suspended at a return address (RAISE's and
\* RESUME's exchange, ENTER's epilogue).
EveryoneWaits ==
  /\ Main \in Context
  /\ \A t \in Context \ {Main} : Waiting(exchanger[Owner(t)])
  /\ \A k \in LiveConts :
       /\ Waiting(rsp_sp(k))
       /\ \E t \in Captured(k) : Owner(t) = exc(k)
       /\ \A t \in Captured(k) : Owner(t) # exc(k) => Waiting(exchanger[Owner(t)])

\* No stack is both running and captured, or captured by two resumptions: a
\* resumption's stacks are its own.
NoSharedStack ==
  \A k \in LiveConts :
    /\ Captured(k) \cap Context = {}
    /\ \A j \in LiveConts \ {k} : Captured(j) \cap Captured(k) = {}

\* The exchanger a base frame or a resumption points to is in a stack that has
\* not been freed ("all copies of stacks share the same exchanger",
\* stacktrek.h:194).
SharedExchangerAlive ==
  /\ \A t \in inUse : mem[t] # <<>> /\ Owner(t) \in inUse
  /\ \A k \in LiveConts : exc(k) \in inUse

\* What runs, and what a live resumption will run, is on stacks that have not been
\* freed, in whatever order raises, resumptions, returns and aborts came (the
\* free_stack of ENTER, free_stack_on_abort).
NoUseAfterFree ==
  Context \cup UNION {Captured(k) : k \in LiveConts} \subseteq inUse \cup {Main}

\* Every stack the pool handed out is running or held by a live resumption:
\* returning, aborting and resuming give back all that is not.
NoLeakedStack == inUse \subseteq Context \cup UNION {Captured(k) : k \in LiveConts}

\* While another stack runs, the collector scans the system stack from where
\* it was left, however handlers nest and whoever resumed (GC_set_main_stack_sp
\* in HANDLE, THROW and FINAL_THROW, and in no raise or return).
GCScansMainStack == cur # Main => gc_sp = Len(mem[Main])

\* The stackwalker, looking for a handler, goes from stack to stack the way
\* returns will go ("all copies of stacks share the same exchanger",
\* stacktrek.h:194).
WalkerFollowsReturns ==
  \A t \in Context \ {Main} : WalkedTo(t) = exchanger[Owner(t)]

\* The frames a live resumption will return to do not change, whatever is run
\* in between, copies of the same resumption included.
CapturedFrames(k) == [t \in Captured(k) |-> mem[t]]
ResumptionsIntact ==
  [][\A k \in LiveConts : conts'[k] = conts[k] => CapturedFrames(k)' = CapturedFrames(k)]_vars

-----------------------------------------------------------------------------
(***************************************************************************)
(* Refinement: the segments are read off the stacks by following the       *)
(* exchangers.                                                             *)
(***************************************************************************)
AbstractFrame(f) == IF f.kind = "abort" THEN [kind |-> "abort"] ELSE f

\* A stack is a segment: its frames without the one ENTER built.
Base(t) == IF t = Main THEN 0 ELSE 1
SegmentOf(t) ==
  [prompt |-> IF t = Main THEN Main ELSE Owner(t),
   frames |-> [i \in 1 .. Len(mem[t]) - Base(t) |-> AbstractFrame(mem[t][i + Base(t)])]]

\* The stacks from t down to the first one owned by e, outermost first; at
\* most n more stacks.
SegmentsWithin(e) ==
  LET down[n \in 0 .. Cardinality(Stacks)] ==
        [t \in AllStacks |->
           IF n = 0 \/ t = Main \/ Owner(t) = e
           THEN <<SegmentOf(t)>>
           ELSE Append(down[n - 1][Below(t)], SegmentOf(t))]
  IN down

Segments(t, e) == SegmentsWithin(e)[Cardinality(Stacks)][t]

Abstract == INSTANCE DelimitedControl WITH
  Prompts <- Stacks,
  ctx     <- Segments(cur, Main),
  conts   <- [k \in Conts |-> IF Live(k) THEN Segments(rsp_sp(k).stk, exc(k)) ELSE <<>>]
ImplementsDelimitedControl == Abstract!Spec
=============================================================================
