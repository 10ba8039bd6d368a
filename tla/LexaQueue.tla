----------------------------- MODULE LexaQueue -----------------------------
(***************************************************************************)
(* The queue of the standard library, written in Lexa (queue.lx): cells    *)
(* linked through mutable references, a first cell, a last one, a length.  *)
(***************************************************************************)
EXTENDS Naturals, Sequences

CONSTANTS
  Vals,      \* values of the program
  MaxCells   \* bound: cells made

VARIABLES
  cells,     \* every QueueCons made so far
  fs, ls,    \* the first and the last cell
  len,
  out        \* what the last operation returned

vars == <<cells, fs, ls, len, out>>

QueueNil == 0
QueueCons(v, next) == [v |-> v, next |-> next]

Init == cells = <<>> /\ fs = QueueNil /\ ls = QueueNil /\ len = 0 /\ out = <<>>

\* Also queue_make: the cells made before are never met again.
queue_clear ==
  /\ fs' = QueueNil /\ ls' = QueueNil /\ len' = 0
  /\ out' = <<>>
  /\ UNCHANGED cells

queue_enqueue(x) ==
  LET new_cell == Len(cells) + 1
      made == Append(cells, QueueCons(x, QueueNil))
  IN /\ Len(cells) < MaxCells
     /\ \/ /\ ls = QueueNil
           /\ cells' = made /\ len' = 1 /\ fs' = new_cell
        \/ /\ ls # QueueNil
           /\ cells' = [made EXCEPT ![ls].next = new_cell]
           /\ len' = len + 1
           /\ UNCHANGED fs
     /\ ls' = new_cell
     /\ out' = <<x>>

\* Mutant of LastOut: the last cell is left behind when the queue runs empty.
LastOutKeepsLast == fs' = QueueNil /\ len' = 0 /\ UNCHANGED ls

\* queue_clear, when the last cell leaves.
LastOut == fs' = QueueNil /\ ls' = QueueNil /\ len' = 0

\* An empty queue raises `error', which ends the program.
queue_dequeue ==
  /\ fs # QueueNil
  /\ \/ cells[fs].next = QueueNil /\ LastOut
     \/ /\ cells[fs].next # QueueNil
        /\ len' = len - 1 /\ fs' = cells[fs].next
        /\ UNCHANGED ls
  /\ out' = <<cells[fs].v>>
  /\ UNCHANGED cells

queue_peek ==
  /\ fs # QueueNil
  /\ out' = <<cells[fs].v>>
  /\ UNCHANGED <<cells, fs, ls, len>>

queue_size == out' = <<len>> /\ UNCHANGED <<cells, fs, ls, len>>

queue_is_empty == out' = <<IF len = 0 THEN 1 ELSE 0>> /\ UNCHANGED <<cells, fs, ls, len>>

Next ==
  \/ queue_clear
  \/ \E x \in Vals : queue_enqueue(x)
  \/ queue_dequeue \/ queue_peek \/ queue_size \/ queue_is_empty

Spec == Init /\ [][Next]_vars

-----------------------------------------------------------------------------
(***************************************************************************)
(* Properties                                                              *)
(***************************************************************************)
\* The values from the first cell on.
Items ==
  LET from[n \in 0 .. Len(cells)] ==
        IF n = 0 THEN fs ELSE IF from[n - 1] = QueueNil THEN QueueNil ELSE cells[from[n - 1]].next
      count == CHOOSE n \in 0 .. Len(cells) :
                 from[n] = QueueNil /\ \A m \in 0 .. n - 1 : from[m] # QueueNil
  IN [i \in 1 .. count |-> cells[from[i - 1]].v]

Fifo == INSTANCE Fifo WITH items <- Items

\* The length kept apart agrees with the cells, and the values leave in the order
\* they came, also after the queue ran empty or was cleared.
StdQueueIsFifo == Fifo!Spec
=============================================================================
