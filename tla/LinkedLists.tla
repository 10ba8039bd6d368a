---------------------------- MODULE LinkedLists ----------------------------
(***************************************************************************)
(* The runtime's lists and its queue (datastructure.h): nodes in a shared  *)
(* heap, which the program points into with any number of aliases.         *)
(***************************************************************************)
EXTENDS Integers, Sequences, FiniteSets

CONSTANTS
  Vals,      \* values of the program, machine integers
  Vars,      \* variables of the program that hold lists
  MaxNodes,  \* bound: nodes allocated
  Allow      \* parts of the client contract that are not assumed

ASSUME ListsAssumption ==
  /\ Vals \subseteq Int
  /\ MaxNodes \in Nat
  /\ Allow \subseteq {"cycle"}

VARIABLES
  heap,        \* the nodes allocated so far; an address is a place in it
  lists,       \* the program's lists
  queue,       \* the queue_t
  queue_out    \* what the last queue operation returned

vars == <<heap, lists, queue, queue_out>>

NULL == 0
node_t(value, next) == [value |-> value, next |-> next]
queue_t(front, rear) == [front |-> front, rear |-> rear]

\* Where the loop `while (xs != NULL) xs = xs->next' is after n rounds.
Following(h, xs) ==
  LET at[n \in 0 .. Len(h)] ==
        IF n = 0 THEN xs ELSE IF at[n - 1] = NULL THEN NULL ELSE h[at[n - 1]].next
  IN at
Nodes(h, xs) == LET at == Following(h, xs) IN {at[n] : n \in DOMAIN at} \ {NULL}
Rounds(at) == Cardinality({n \in DOMAIN at : at[n] # NULL})
listLen(h, xs) == Rounds(Following(h, xs))
Values(h, xs) ==
  LET at == Following(h, xs) IN [i \in 1 .. Rounds(at) |-> h[at[i - 1]].value]

Init ==
  /\ heap = <<>>
  /\ lists = [x \in Vars |-> NULL]
  /\ queue = queue_t(NULL, NULL)
  /\ queue_out = <<>>

Room(n) == Len(heap) + n <= MaxNodes

\* Mutant of Build: the last node's next is left as a fresh node's.
BuildOpen(r, vs, xs) ==
  /\ Room(Len(vs))
  /\ heap' = heap \o [i \in 1 .. Len(vs) |-> node_t(vs[i], Len(heap) + i + 1)]
  /\ lists' = [lists EXCEPT ![r] = IF vs = <<>> THEN xs ELSE Len(heap) + 1]

\* Fresh nodes with the values of vs, ended by xs; r gets the first.
Build(r, vs, xs) ==
  /\ Room(Len(vs))
  /\ heap' = heap \o [i \in 1 .. Len(vs) |->
                        node_t(vs[i], IF i = Len(vs) THEN xs ELSE Len(heap) + i + 1)]
  /\ lists' = [lists EXCEPT ![r] = IF vs = <<>> THEN xs ELSE Len(heap) + 1]

-----------------------------------------------------------------------------
listNode(r, value, x) ==
  /\ Build(r, <<value>>, lists[x])
  /\ UNCHANGED <<queue, queue_out>>

listRange(r, start, end) ==
  /\ Build(r, [i \in 1 .. end - start + 1 |-> start + i - 1], NULL)
  /\ UNCHANGED <<queue, queue_out>>

listEnd(r) ==
  /\ lists' = [lists EXCEPT ![r] = NULL]
  /\ UNCHANGED <<heap, queue, queue_out>>

listTail(r, x) ==
  /\ lists[x] # NULL
  /\ lists' = [lists EXCEPT ![r] = heap[lists[x]].next]
  /\ UNCHANGED <<heap, queue, queue_out>>

listSetHead(x, value) ==
  /\ lists[x] # NULL
  /\ heap' = [heap EXCEPT ![lists[x]].value = value]
  /\ UNCHANGED <<lists, queue, queue_out>>

\* Client contract: every list has an end; the recursions and loops over lists
\* rely on it.
StaysOpen(x, y) == lists[x] \notin Nodes(heap, lists[y]) \/ "cycle" \in Allow

listSetTail(x, y) ==
  /\ lists[x] # NULL
  /\ StaysOpen(x, y)
  /\ heap' = [heap EXCEPT ![lists[x]].next = lists[y]]
  /\ UNCHANGED <<lists, queue, queue_out>>

\* Mutant of listAppend: the second list is hung at the end of the first.
listAppendInPlace(r, x, y) ==
  /\ lists[x] # NULL
  /\ LET last == CHOOSE p \in Nodes(heap, lists[x]) : heap[p].next = NULL
     IN heap' = [heap EXCEPT ![last].next = lists[y]]
  /\ lists' = [lists EXCEPT ![r] = lists[x]]
  /\ UNCHANGED <<queue, queue_out>>

\* The nodes of the first list are copied, those of the second shared.
listAppend(r, x, y) ==
  /\ Build(r, Values(heap, lists[x]), lists[y])
  /\ UNCHANGED <<queue, queue_out>>

-----------------------------------------------------------------------------
queueMake ==
  /\ queue' = queue_t(NULL, NULL)
  /\ queue_out' = <<>>
  /\ UNCHANGED <<heap, lists>>

\* Mutant of queueEnq: whether the queue is empty is read off its rear, which
\* queueDeq leaves behind.
queueEnqByRear(value) ==
  LET new_node == Len(heap) + 1
      h == Append(heap, node_t(value, NULL))
  IN /\ Room(1)
     /\ \/ /\ queue.rear = NULL
           /\ heap' = h
           /\ queue' = queue_t(new_node, new_node)
        \/ /\ queue.rear # NULL
           /\ heap' = [h EXCEPT ![queue.rear].next = new_node]
           /\ queue' = [queue EXCEPT !.rear = new_node]
     /\ queue_out' = <<value>>
     /\ UNCHANGED lists

queueEnq(value) ==
  LET new_node == Len(heap) + 1
      h == Append(heap, node_t(value, NULL))
  IN /\ Room(1)
     /\ \/ /\ queue.front = NULL
           /\ heap' = h
           /\ queue' = queue_t(new_node, new_node)
        \/ /\ queue.front # NULL
           /\ heap' = [h EXCEPT ![queue.rear].next = new_node]
           /\ queue' = [queue EXCEPT !.rear = new_node]
     /\ queue_out' = <<value>>
     /\ UNCHANGED lists

\* rear is left as it is, also when the last node leaves.
queueDeq ==
  /\ queue.front # NULL
  /\ queue' = [queue EXCEPT !.front = heap[queue.front].next]
  /\ queue_out' = <<heap[queue.front].value>>
  /\ UNCHANGED <<heap, lists>>

queueLen ==
  /\ queue_out' = <<listLen(heap, queue.front)>>
  /\ UNCHANGED <<heap, lists, queue>>

queueIsEmpty ==
  /\ queue_out' = <<IF queue.front = NULL THEN 1 ELSE 0>>
  /\ UNCHANGED <<heap, lists, queue>>

ListNext ==
  \E r \in Vars :
    \/ \E start, end \in Vals : listRange(r, start, end)
    \/ listEnd(r)
    \/ \E v \in Vals : listSetHead(r, v)
    \/ \E x \in Vars : \/ \E v \in Vals : listNode(r, v, x)
                       \/ listTail(r, x)
                       \/ listSetTail(r, x)
                       \/ \E y \in Vars : listAppend(r, x, y)

QueueNext ==
  \/ queueMake
  \/ \E v \in Vals : queueEnq(v)
  \/ queueDeq
  \/ queueLen
  \/ queueIsEmpty

Next == ListNext \/ QueueNext

Spec == Init /\ [][Next]_vars

-----------------------------------------------------------------------------
(***************************************************************************)
(* Properties                                                              *)
(***************************************************************************)
\* Addresses are of nodes, or NULL.
TypeOK ==
  LET Address == 0 .. Len(heap) IN
  /\ heap \in Seq([value : Int, next : Address])
  /\ lists \in [Vars -> Address]
  /\ queue \in [front : Address, rear : Address]

Fifo == INSTANCE Fifo WITH items <- Values(heap, queue.front), out <- queue_out

\* The queue gives its values back in the order they came (asserted at
\* src/src/stacktrek/test.c:15-25), whatever it was before and whatever happens
\* to lists in the same heap.
QueueIsFifo == Fifo!Spec

\* Every list and the queue come to an end.
ListsEnd ==
  \A xs \in {lists[x] : x \in Vars} \cup {queue.front} :
    Following(heap, xs)[Len(heap)] = NULL

\* A step that is no listSetHead or listSetTail leaves the nodes of every list as
\* they are: append copies, and the queue's nodes are no list's.
OnlySettersChangeLists ==
  [][\A x \in Vars :
       \/ \A p \in Nodes(heap, lists[x]) : heap'[p] = heap[p]
       \/ \E y \in Vars : \/ \E v \in Vals : listSetHead(y, v)
                          \/ \E z \in Vars : listSetTail(y, z)]_vars
=============================================================================
