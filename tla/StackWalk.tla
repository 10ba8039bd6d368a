----------------------------- MODULE StackWalk -----------------------------
(***************************************************************************)
(* Zero-cost effects.  Labels of an effect declared `exceptional' are not  *)
(* passed at run time; a raise looks for its handler by walking the stack  *)
(* (stackwalk.c), with a clue that says what the code at hand calls the    *)
(* label, and a table that says, for every call, what the caller calls     *)
(* what the callee knows by a clue (hopper.ml, embedded in the binary by   *)
(* analyze_binary.py).                                                     *)
(*                                                                         *)
(* A function knows a handler as a label parameter (type 0), as part of a  *)
(* capability parameter (type 1) or as captured (type 2); an environment   *)
(* here says which handler each of these is.  The running code never reads *)
(* it: it is what lexical scoping means, the reference for the walker.     *)
(*                                                                         *)
(* A frame is a return address with what the clue table holds for it.  A   *)
(* general handler, on a stack of its own, has two: ENTER's and, below it, *)
(* the one of HANDLE or of the throw that resumed it last.  Copies of      *)
(* stacks (THROW) are left out: there the walker reads the exchanger of    *)
(* the header its copy shares, which StackTrek shows to be another one's   *)
(* (WalkerFollowsReturns).  A handler in its installer's stack is walked   *)
(* over alike in the modes TAIL and ABORT, and called "ABORT" here; its    *)
(* operations are of either kind.                                          *)
(***************************************************************************)
EXTENDS Integers, Sequences, FiniteSets

CONSTANTS
  EFFECT_NUM,  \* zero-cost effects
  Ids,         \* names of handlers
  NoHandler,
  MaxFrames, MaxCaps, MaxLabels, MaxNames,  \* bounds: frames; what a call passes; what it names
  Allow        \* parts of the client contract that are not assumed

Effects == 0 .. EFFECT_NUM - 1
Stock   == EFFECT_NUM      \* stands for the effects whose labels are passed

ASSUME WalkAssumption ==
  /\ EFFECT_NUM \in Nat \ {0}
  /\ MaxCaps \in Nat /\ MaxLabels \in Nat
  /\ Ids \subseteq Nat
  /\ NoHandler \notin [sig : Nat, id : Ids]
  /\ Allow \subseteq {"tail_insts", "tail_handler", "stock_tail"}

VARIABLES
  frames,      \* the return addresses on the stack, outermost first
  env,         \* what the running function can name
  in_tail,     \* it is the operation of a tail-resumptive handler
  cont,        \* a resumption that the program holds
  walk         \* the locals of stackwalk

vars == <<frames, env, in_tail, cont, walk>>

Handlers == [sig : Effects \cup {Stock}, id : Ids]

\* Names within a function: the two hexadecimal digits of a hopper cell.
LabelIndex(i) == <<0, i>>
CapIndex(i)   == <<1, i>>
Infty         == <<2, 0>>
NA            == <<15, 15>>
Names == {0, 1, 2} \X Nat

Clue(sig, name) == [sig |-> sig, type |-> name[1], index |-> name[2]]
Clues == [sig : Effects, type : 0 .. 15, index : Nat]

\* At most one handler of each effect.
Capability == [Effects -> Handlers \cup {NoHandler}]
NoCapability == [s \in Effects |-> NoHandler]
Env == [labels : Seq(Handlers), caps : Seq(Capability), captured : Capability]

\* The handler that effect sig's name denotes in environment e.
Den(sig, name, e) ==
  CASE name[1] = 0 /\ name[2] + 1 \in DOMAIN e.labels -> e.labels[name[2] + 1]
    [] name[1] = 1 /\ name[2] + 1 \in DOMAIN e.caps -> e.caps[name[2] + 1][sig]
    [] name = Infty -> e.captured[sig]
    [] OTHER -> NoHandler
Denotes(c, e) == Den(c.sig, <<c.type, c.index>>, e)

-----------------------------------------------------------------------------
(***************************************************************************)
(* Instantiations: how a call names what it passes                         *)
(***************************************************************************)
\* The label names of effect sig in e; all the clues code in e can raise.
LabelNames(sig, e) ==
  {LabelIndex(i - 1) : i \in {j \in DOMAIN e.labels : e.labels[j].sig = sig}}
    \cup IF e.captured[sig] # NoHandler THEN {Infty} ELSE {}
Labels(e) == UNION {{Clue(sig, n) : n \in LabelNames(sig, e)} : sig \in Effects}

CapNames(e) ==
  {NA} \cup {CapIndex(i - 1) : i \in DOMAIN e.caps}
    \cup IF e.captured # NoCapability THEN {Infty} ELSE {}

\* A capability is written as a variable, if any, and labels: at most one of an
\* effect, and not of an effect of which the variable has another.  What is
\* captured is a variable or labels, never both.
Written(e) ==
  {k \in [var : CapNames(e), label : [Effects -> UNION {LabelNames(s, e) : s \in Effects} \cup {NA}]] :
     \A s \in Effects :
       k.label[s] # NA =>
         /\ k.label[s] \in LabelNames(s, e)
         /\ k.var = Infty => k.label[s] # Infty
         /\ k.var # NA => Den(s, k.var, e) \in {NoHandler, Den(s, k.label[s], e)}}
\* check_capture_set_as_unamb: the captured set of a handler is one or the other.
Capturable(e) == {k \in Written(e) : k.var = NA \/ \A s \in Effects : k.label[s] = NA}
NothingWritten == [var |-> NA, label |-> [s \in Effects |-> NA]]

\* What capability k of effect sig is to the caller, and which handler that is.
Cell(k, sig) == IF k.label[sig] # NA THEN k.label[sig] ELSE k.var
Value(k, e) == [s \in Effects |-> Den(s, Cell(k, s), e)]

\* A call's metadata: captured set, capability and label instantiations.
Callee(md, e) ==
  [labels   |-> [i \in DOMAIN md.label_insts |-> Denotes(md.label_insts[i], e)],
   caps     |-> [i \in DOMAIN md.cap_insts |-> Value(md.cap_insts[i], e)],
   captured |-> Value(md.captured_set, e)]
OnlyCaptured(k) == [captured_set |-> k, cap_insts |-> <<>>, label_insts |-> <<>>]

-----------------------------------------------------------------------------
(***************************************************************************)
(* The clue table                                                          *)
(***************************************************************************)
\* Mutant of Cells: labels are counted from zero twice.
CellsOffByOne(md, sig) ==
  <<Cell(md.captured_set, sig)>>
    \o [i \in DOMAIN md.cap_insts |-> Cell(md.cap_insts[i], sig)]
    \o [i \in DOMAIN md.label_insts |-> <<md.label_insts[i].type, md.label_insts[i].index - 1>>]

\* The cells of effect sig: the captured set, the capabilities, the labels.
Cells(md, sig) ==
  <<Cell(md.captured_set, sig)>>
    \o [i \in DOMAIN md.cap_insts |-> Cell(md.cap_insts[i], sig)]
    \o [i \in DOMAIN md.label_insts |-> <<md.label_insts[i].type, md.label_insts[i].index>>]

cap_num(md)   == Len(md.cap_insts)
label_num(md) == Len(md.label_insts)

\* The cells a constant table has: every name stays what it is.
Unmoved(md) ==
  <<Infty>> \o [i \in DOMAIN md.cap_insts |-> CapIndex(i - 1)]
            \o [i \in DOMAIN md.label_insts |-> LabelIndex(i - 1)]
hopper_is_const(md) ==
  \A sig \in Effects : \A i \in DOMAIN Unmoved(md) :
    Cells(md, sig)[i] \in {Unmoved(md)[i], NA}

\* A call that passes nothing gets no entry.
Empty(md) ==
  /\ md.captured_set = NothingWritten
  /\ \A i \in DOMAIN md.cap_insts : md.cap_insts[i] = NothingWritten
  /\ md.label_insts = <<>>

\* The table of a call, flat: the rows of all effects one after the other.
hopper(md) ==
  LET width == 1 + cap_num(md) + label_num(md) IN
  [is_const |-> hopper_is_const(md), cap_num |-> cap_num(md), label_num |-> label_num(md),
   cells |-> [j \in 0 .. EFFECT_NUM * width - 1 |-> Cells(md, j \div width)[(j % width) + 1]]]

\* The metadata "1_0_0_0" of the runtime's own calls.
Const == [is_const |-> TRUE, cap_num |-> 0, label_num |-> 0, cells |-> [j \in {} |-> NA]]

\* Mutant of UPDATE_CLUE: the row of the first effect is read for every effect.
UPDATE_CLUEOneRow(c, row) ==
  LET at == CASE c.type = 0 -> 1 + row.cap_num + c.index
              [] c.type = 1 -> 1 + c.index
              [] OTHER -> 0
  IN IF row.is_const THEN c
     ELSE Clue(c.sig, IF at \in DOMAIN row.cells THEN row.cells[at] ELSE LabelIndex(0))

\* The caller's clue for callee's clue c.  A row is filled up with zeros.
UPDATE_CLUE(c, row) ==
  LET at == c.sig * (1 + row.cap_num + row.label_num)
              + CASE c.type = 0 -> 1 + row.cap_num + c.index
                  [] c.type = 1 -> 1 + c.index
                  [] OTHER -> 0
  IN IF row.is_const THEN c
     ELSE Clue(c.sig, IF at \in DOMAIN row.cells THEN row.cells[at] ELSE LabelIndex(0))

-----------------------------------------------------------------------------
(***************************************************************************)
(* Frames                                                                  *)
(***************************************************************************)
NoClue == Clue(0, NA)
Modes  == {"ABORT", "MULTISHOT"}
NoMode == "none"

\* A call of the running function, with row in the table if entry.
Site(row, entry) ==
  [env |-> env, in_tail |-> in_tail, row |-> row, entry |-> entry,
   pushed |-> NoClue, h |-> NoHandler, mode |-> NoMode, ops |-> NoCapability]
CallSite(md) == Site(hopper(md), ~Empty(md))

\* RAISEZ's call of a tail operation, with the clue it pushes (48 bytes).
RaiseSite(c) == [Site(Const, TRUE) EXCEPT !.pushed = c]

\* Mutant of HandlerEntry: a row without a name is dropped whatever the call is.
HandlerEntryDropped(md) == ~Empty(md)

\* clean_clue_table keeps a handler's row.
HandlerEntry(md) == TRUE

\* The call of the body of a handler in its installer's stack, with the stub; its
\* operations know the captured set only.
HandlerSite(h, md) ==
  [Site(hopper(md), HandlerEntry(md)) EXCEPT
     !.h = h, !.mode = "ABORT", !.ops = Value(md.captured_set, env)]

OpEnv(ops) == [labels |-> <<>>, caps |-> <<>>, captured |-> ops]

\* ENTER's call of the body of a general handler.
EnterSite(h, ops) ==
  [env |-> OpEnv(ops), in_tail |-> FALSE, row |-> Const, entry |-> TRUE,
   pushed |-> NoClue, h |-> h, mode |-> "MULTISHOT", ops |-> ops]

IsRow(row) ==
  /\ row.is_const \in BOOLEAN
  /\ row.cap_num \in Nat /\ row.label_num \in Nat
  /\ \A j \in DOMAIN row.cells : row.cells[j] \in Names \cup {NA}
IsFrame(f) ==
  /\ f.env \in Env /\ f.in_tail \in BOOLEAN
  /\ IsRow(f.row) /\ f.entry \in BOOLEAN
  /\ f.pushed \in Clues
  /\ f.h \in Handlers \cup {NoHandler} /\ f.mode \in Modes \cup {NoMode} /\ f.ops \in Capability

IsHandler(f) == f.h # NoHandler
IsRaise(f)   == f.pushed # NoClue

NoCont == [frames |-> <<>>]
NoWalk == [on |-> FALSE]
Walks == [on : {TRUE}, raised : Clues, clue : Clues, clue_stack : Seq(Clues),
          stack_iter : Nat, to_jump : BOOLEAN, found : BOOLEAN]

Running == ~walk.on
Top == Len(frames)
At == frames[walk.stack_iter]

Push(fs, e, tl) == frames' = frames \o fs /\ env' = e /\ in_tail' = tl

\* The ids of handlers that are installed, or that the resumption is or knows.
IdsOf(fs) == {fs[i].h.id : i \in {j \in DOMAIN fs : IsHandler(fs[j])}}
KnownIds(cap) == {cap[s].id : s \in {r \in Effects : cap[r] # NoHandler}}
UsedIds ==
  IdsOf(frames) \cup IdsOf(cont.frames)
    \cup IF cont = NoCont THEN {} ELSE KnownIds(cont.frames[1].ops)

\* Names are taken in order.
Fresh(h) == h.id \notin UsedIds /\ \A id \in Ids \ UsedIds : h.id <= id

-----------------------------------------------------------------------------
Init ==
  /\ frames = <<>>
  /\ env = OpEnv(NoCapability)
  /\ in_tail = FALSE
  /\ cont = NoCont
  /\ walk = NoWalk

\* The calls of the running function, bounded in what they pass and name.
Named(k) == Cardinality({s \in Effects : k.label[s] # NA}) + IF k.var # NA THEN 1 ELSE 0
Naming(n) == {k \in Written(env) : Named(k) <= n}
Spare(passed) == IF passed < MaxNames THEN MaxNames - passed ELSE 0
Calls ==
  UNION {[captured_set : Naming(Spare(caps + labels)),
          cap_insts    : [1 .. caps -> Naming(Spare(labels))],
          label_insts  : [1 .. labels -> Labels(env)]] :
           caps \in 0 .. MaxCaps, labels \in 0 .. MaxLabels}

(***************************************************************************)
(* Client contract: what the walker silently assumes of the operations of  *)
(* tail-resumptive handlers.                                               *)
(***************************************************************************)
\* They pass no label and no capability to the functions they call.
PlainInTail(md) ==
  in_tail => \/ "tail_insts" \in Allow
             \/ md.cap_insts = <<>> /\ md.label_insts = <<>>

\* A handler they install in their own stack captures nothing.
ClosedInTail(k) == in_tail => k = NothingWritten \/ "tail_handler" \in Allow

\* Those of an effect that is not zero-cost raise nothing that is.
ClosedStock(ops) == ops = NoCapability \/ "stock_tail" \in Allow

-----------------------------------------------------------------------------
\* A call of a function.
CallFn(md) ==
  /\ Running /\ Top + 1 < MaxFrames
  /\ PlainInTail(md)
  /\ Push(<<CallSite(md)>>, Callee(md, env), FALSE)
  /\ UNCHANGED <<cont, walk>>

BodyEnv(h, ops) ==
  [labels |-> IF h.sig \in Effects THEN <<h>> ELSE <<>>, caps |-> <<>>, captured |-> ops]

\* HANDLE and HANDLEZ, all operations tail-resumptive or aborting: the stub is in
\* the installer's frame.
HANDLE_in_stack(h, k) ==
  /\ Running /\ Top + 1 < MaxFrames
  /\ Fresh(h)
  /\ ClosedInTail(k)
  /\ Push(<<HandlerSite(h, OnlyCaptured(k))>>, BodyEnv(h, Value(k, env)), FALSE)
  /\ UNCHANGED <<cont, walk>>

\* HANDLE and HANDLEZ, a general handler.
HANDLE_general(h, k) ==
  /\ Running /\ Top + 2 < MaxFrames
  /\ Fresh(h)
  /\ Push(<<CallSite(OnlyCaptured(k)), EnterSite(h, Value(k, env))>>,
          BodyEnv(h, Value(k, env)), FALSE)
  /\ UNCHANGED <<cont, walk>>

\* The running function returns; from a body on a stack of its own, through ENTER.
Return ==
  /\ Running /\ frames # <<>>
  /\ LET entered == frames[Top].mode = "MULTISHOT"
         rest == IF entered THEN Top - 1 ELSE Top
     IN /\ frames' = SubSeq(frames, 1, rest - 1)
        /\ env' = frames[rest].env
        /\ in_tail' = frames[rest].in_tail
  /\ UNCHANGED <<cont, walk>>

-----------------------------------------------------------------------------
(***************************************************************************)
(* Running an operation of the handler at frame i; the raiser's frames are *)
(* fs.                                                                     *)
(***************************************************************************)
\* A tail operation is called; the raise pushes site f.
TailOp(i, fs, f) ==
  /\ frames' = Append(fs, f)
  /\ env' = OpEnv(frames[i].ops)
  /\ in_tail' = TRUE
  /\ UNCHANGED cont

\* An aborting operation runs in place of the body of a handler in the stack, and
\* in place of ENTER if the handler is general.
AbortOp(i) ==
  /\ frames[i].mode \in {"ABORT", "MULTISHOT"}
  /\ frames' = SubSeq(frames, 1, IF frames[i].mode = "ABORT" THEN i ELSE i - 1)
  /\ env' = OpEnv(frames[i].ops)
  /\ in_tail' = FALSE
  /\ UNCHANGED cont

\* Another operation gets a resumption: the stack from ENTER on.  The program
\* keeps one at a time here.
GeneralOp(i, fs) ==
  /\ frames[i].mode = "MULTISHOT"
  /\ cont = NoCont
  /\ cont' = [frames |-> SubSeq(fs, i, Len(fs)), env |-> env, in_tail |-> in_tail]
  /\ frames' = SubSeq(frames, 1, i - 1)
  /\ env' = OpEnv(frames[i].ops)
  /\ in_tail' = FALSE

\* RAISE, the label passed at run time: no walk, no clue.  A tail operation is
\* an ordinary call.
RAISE(i) ==
  /\ Running /\ frames[i].h # NoHandler /\ frames[i].h.sig = Stock
  /\ \/ /\ Top + 1 < MaxFrames
        /\ ClosedStock(frames[i].ops)
        /\ TailOp(i, frames, Site(Const, TRUE))
     \/ AbortOp(i)
     \/ GeneralOp(i, frames)
  /\ UNCHANGED walk

\* FINAL_THROW: what the resumption captured is passed on, under another name
\* perhaps.
FINAL_THROW(k) ==
  /\ Running /\ cont # NoCont /\ Top + 1 + Len(cont.frames) < MaxFrames
  /\ Value(k, env) = cont.frames[1].ops
  /\ Push(<<CallSite(OnlyCaptured(k))>> \o cont.frames, cont.env, cont.in_tail)
  /\ cont' = NoCont
  /\ UNCHANGED walk

-----------------------------------------------------------------------------
(***************************************************************************)
(* RAISEZ                                                                  *)
(***************************************************************************)
\* The call of stackwalk, and its locals before the loop.
StartWalk(c) ==
  /\ Running /\ Top < MaxFrames
  /\ c \in Labels(env)
  /\ frames' = Append(frames, Site(Const, TRUE))
  /\ walk' = [on |-> TRUE, raised |-> c, clue |-> c, clue_stack |-> <<>>,
              stack_iter |-> Top + 1, to_jump |-> FALSE, found |-> FALSE]
  /\ UNCHANGED <<env, in_tail, cont>>

\* The site at stack_iter is in the table, and the address where it is expected:
\* the clue below it is jumped over if there is one.
OnSite == walk.stack_iter > 0 /\ At.entry /\ walk.to_jump = IsRaise(At)

Walking == walk.on /\ ~walk.found /\ OnSite
OwnLabel == walk.clue.type = 0 /\ walk.clue.index = 0

WalkFound ==
  /\ Walking
  /\ IsHandler(At) /\ OwnLabel /\ walk.clue_stack = <<>>
  /\ walk' = [walk EXCEPT !.found = TRUE]
  /\ UNCHANGED <<frames, env, in_tail, cont>>

\* Mutant of Outer: the exchanger of a general handler is not followed.
OuterStays(i) == IF frames[i].mode = "MULTISHOT" THEN i ELSE i - 1

\* The next return address outwards: by the frame's size; from ENTER, by the
\* exchanger in the header, where HANDLE or the last throw saved its stack.
Outer(i) == i - 1

\* Over a handler.  Where the handler's own operation is running the raiser's
\* clue has led here, and the walk goes on with the operation's.
WalkOverHandler ==
  LET popping == OwnLabel
      c == IF popping THEN Head(walk.clue_stack) ELSE walk.clue
  IN /\ Walking
     /\ IsHandler(At)
     /\ popping => walk.clue_stack # <<>>
     /\ walk' = [walk EXCEPT
                   !.clue = UPDATE_CLUE(c, At.row),
                   !.clue_stack = IF popping THEN Tail(@) ELSE @,
                   !.stack_iter = Outer(@),
                   !.to_jump = FALSE]
     /\ UNCHANGED <<frames, env, in_tail, cont>>

\* Out of a tail operation: the clue is put aside, and the raiser's is taken
\* from the frame of the raise.
WalkOutOfOperation ==
  /\ Walking
  /\ ~IsHandler(At) /\ At.in_tail
  /\ walk.stack_iter > 1
  /\ LET raise == frames[Outer(walk.stack_iter)] IN
     /\ IsRaise(raise)
     /\ walk' = [walk EXCEPT
                   !.clue = raise.pushed,
                   !.clue_stack = <<walk.clue>> \o @,
                   !.stack_iter = Outer(@),
                   !.to_jump = TRUE]
  /\ UNCHANGED <<frames, env, in_tail, cont>>

WalkOverCall ==
  /\ Walking
  /\ ~IsHandler(At) /\ ~At.in_tail
  /\ walk' = [walk EXCEPT
                !.clue = UPDATE_CLUE(@, At.row),
                !.stack_iter = Outer(@),
                !.to_jump = FALSE]
  /\ UNCHANGED <<frames, env, in_tail, cont>>

WalkStep == WalkFound \/ WalkOverHandler \/ WalkOutOfOperation \/ WalkOverCall

\* RAISEZ once stackwalk has returned.
RAISEZ ==
  /\ walk.on /\ walk.found
  /\ LET i == walk.stack_iter
         fs == SubSeq(frames, 1, Top - 1)
     IN \/ TailOp(i, fs, RaiseSite(walk.raised))
        \/ AbortOp(i)
        \/ GeneralOp(i, fs)
  /\ walk' = NoWalk

Next ==
  \/ \E md \in Calls : CallFn(md)
  \/ \E h \in Handlers, k \in Capturable(env) :
       HANDLE_general(h, k) \/ HANDLE_in_stack(h, k)
  \/ Return
  \/ \E i \in DOMAIN frames : RAISE(i)
  \/ \E k \in Capturable(env) : FINAL_THROW(k)
  \/ \E c \in Labels(env) : StartWalk(c)
  \/ WalkStep
  \/ RAISEZ

\* The walk is a loop of sequential code: it goes on.
Spec == Init /\ [][Next]_vars /\ WF_vars(WalkStep)

-----------------------------------------------------------------------------
(***************************************************************************)
(* Properties                                                              *)
(***************************************************************************)
TypeOK ==
  /\ \A i \in DOMAIN frames : IsFrame(frames[i])
  /\ env \in Env
  /\ in_tail \in BOOLEAN
  /\ cont # NoCont => /\ \A i \in DOMAIN cont.frames : IsFrame(cont.frames[i])
                      /\ cont.env \in Env /\ cont.in_tail \in BOOLEAN
  /\ walk = NoWalk \/ walk \in Walks

\* The handler found is the one the raise means by lexical scoping ("lexically
\* scoped effect handlers", README.md:5), and the walk never passes it, through any
\* nesting of calls, handlers, operations and resumed stacks.
WalkFindsLexicalHandler ==
  walk.on =>
    LET meant == Denotes(walk.raised, env) IN
    /\ \E i \in 1 .. walk.stack_iter : frames[i].h = meant
    /\ walk.found => At.h = meant

\* As long as it walks, the walker is at a return address it knows, has jumped
\* over the clues that were pushed, and finds one where it looks for one.
WalkerKnowsEverySite ==
  walk.on /\ ~walk.found =>
    /\ OnSite
    /\ ~IsHandler(At) /\ At.in_tail =>
         walk.stack_iter > 1 /\ IsRaise(frames[walk.stack_iter - 1])

\* Every walk ends.
WalkEnds == walk.on ~> ~walk.on \/ walk.found
=============================================================================
