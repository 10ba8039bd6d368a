-------------------------- MODULE DelimitedControl --------------------------
(***************************************************************************)
(* What lexical effect handlers promise a program, with no stacks,         *)
(* pointers or exchangers in it: the context is a sequence of segments,    *)
(* one per general handler, each under the handler's prompt; raising cuts  *)
(* the context at a prompt and hands the piece to the handler; resuming    *)
(* puts the piece back, and the piece is a value, so that resuming a copy  *)
(* of it leaves it as it was.                                              *)
(***************************************************************************)
EXTENDS Naturals, Sequences, SequencesExt

CONSTANTS
  Prompts,     \* names of the general handlers' instances
  Main,        \* the prompt of the outermost segment
  Conts,       \* names of resumptions
  CallSites    \* what a frame remembers: where to return to

VARIABLES
  ctx,         \* the running segments, outermost first
  conts        \* the captured segments of each live resumption, else <<>>

vars == <<ctx, conts>>

\* A frame is a call, or the body of an abort handler (which has no prompt of
\* its own: it is a place in a segment to cut back to).
Frames == {[kind |-> "call", at |-> c] : c \in CallSites} \cup {[kind |-> "abort"]}
Call(c) == [kind |-> "call", at |-> c]

Segment(p, frames) == [prompt |-> p, frames |-> frames]

Push(q, f) == Front(q) \o <<[Last(q) EXCEPT !.frames = Append(@, f)]>>
Pop(q)     == Front(q) \o <<[Last(q) EXCEPT !.frames = Front(@)]>>

Init ==
  /\ ctx = <<Segment(Main, <<>>)>>
  /\ conts = [k \in Conts |-> <<>>]

Enter(f) == ctx' = Push(ctx, f) /\ UNCHANGED conts

Return ==
  /\ Last(ctx).frames # <<>>
  /\ ctx' = Pop(ctx)
  /\ UNCHANGED conts

\* A prompt names one instance of a handler for as long as anything holds it.
Fresh(p) ==
  /\ \A i \in DOMAIN ctx : ctx[i].prompt # p
  /\ \A k \in Conts : \A i \in DOMAIN conts[k] : conts[k][i].prompt # p

Handle(p, c) ==
  /\ Fresh(p)
  /\ ctx' = Append(Push(ctx, Call(c)), Segment(p, <<>>))
  /\ UNCHANGED conts

\* The body of a handler returns to whoever installed or resumed it.
Leave ==
  /\ Len(ctx) > 1
  /\ Last(ctx).frames = <<>>
  /\ ctx' = Pop(Front(ctx))
  /\ UNCHANGED conts

\* Segment i is the innermost one under its prompt.
Innermost(i) == \A j \in DOMAIN ctx : j > i => ctx[j].prompt # ctx[i].prompt

Raise(k, i, c) ==
  /\ conts[k] = <<>>
  /\ i \in 2 .. Len(ctx)
  /\ Innermost(i)
  /\ conts' = [conts EXCEPT ![k] = SubSeq(Push(ctx, Call(c)), i, Len(ctx))]
  /\ ctx' = SubSeq(ctx, 1, i - 1)

\* Aborting to a general handler; to an abort handler at frame j of segment i.
Abort(i) ==
  /\ i \in 2 .. Len(ctx)
  /\ Innermost(i)
  /\ ctx' = SubSeq(ctx, 1, i - 1)
  /\ UNCHANGED conts

AbortInline(i, j) ==
  /\ ctx[i].frames[j].kind = "abort"
  /\ ctx' = Append(SubSeq(ctx, 1, i - 1),
                   [ctx[i] EXCEPT !.frames = SubSeq(@, 1, j)])
  /\ UNCHANGED conts

\* Resuming a resumption for good, and resuming a copy of it.
Reinstate(k, c) == ctx' = Push(ctx, Call(c)) \o Pop(conts[k])

Resume(k, c) ==
  /\ conts[k] # <<>>
  /\ Reinstate(k, c)
  /\ conts' = [conts EXCEPT ![k] = <<>>]

ResumeCopy(k, c) ==
  /\ conts[k] # <<>>
  /\ Reinstate(k, c)
  /\ UNCHANGED conts

Next ==
  \/ \E f \in Frames : Enter(f)
  \/ Return
  \/ Leave
  \/ \E p \in Prompts, c \in CallSites : Handle(p, c)
  \/ \E k \in Conts, i \in DOMAIN ctx, c \in CallSites : Raise(k, i, c)
  \/ \E i \in DOMAIN ctx : Abort(i) \/ \E j \in DOMAIN ctx[i].frames : AbortInline(i, j)
  \/ \E k \in Conts, c \in CallSites : Resume(k, c) \/ ResumeCopy(k, c)

Spec == Init /\ [][Next]_vars
=============================================================================
