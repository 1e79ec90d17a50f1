------------------------------- MODULE Queues -------------------------------
(***************************************************************************)
(* Every sequence of operations on the library's lists and queues          *)
(* (Containers).  s is the structure, model what it should hold.           *)
(***************************************************************************)
EXTENDS Containers, LibraryState

CONSTANTS
    Cells,          \* list entries, numbers from 3 on
    Capacity,       \* of the queue, the stack and the heap
    Elements,       \* of the queue and the stack
    Keys,           \* of the heap, numbers
    Priorities,     \* of the priority queue
    MaxQueued       \* bound: values put into the priority queue and the heap

ASSUME CellsAssumption == Cells \subseteq Nat \ (0 .. 2)
ASSUME KeysAssumption == Keys \subseteq Nat
ASSUME PrioritiesAssumption == UINTS \in Nat /\ Priorities \subseteq 0 .. UINTS - 1
ASSUME SizesAssumption == Capacity \in Nat \ {0} /\ MaxQueued \in Nat

QueueKinds == {"list", "queue", "stack", "pq", "heap"}
Heads == {1, 2}
-----------------------------------------------------------------------------
EmptyLists ==
    LET nowhere == [c \in Heads \cup Cells |-> IF c \in Heads THEN c ELSE NULL]
    IN  [next |-> nowhere, prev |-> nowhere]

\* model: the two lists, the queue or stack, or the values queued so far and those still in.
QueuesInit ==
    /\ kind \in QueueKinds
    /\ s = CASE kind = "list"  -> EmptyLists
             [] kind = "queue" -> EmptyQueue(Capacity)
             [] kind = "stack" -> EmptyStack(Capacity)
             [] kind = "pq"    -> <<>>
             [] OTHER          -> EmptyHeap(Capacity)
    /\ model = CASE kind = "list" -> [h \in Heads |-> <<>>]
                 [] kind \in {"queue", "stack"} -> <<>>
                 [] OTHER -> [queued |-> 0, in |-> {}]

OnList(h) == {model[h][i] : i \in DOMAIN model[h]}
Without(h, i) == [model EXCEPT ![h] = RemoveAt(@, i)]
InFront(m, h, c) == [m EXCEPT ![h] = <<c>> \o @]
AtEnd(m, h, c) == [m EXCEPT ![h] = Append(@, c)]

AddToList(h, c) ==
    /\ kind = "list" /\ \A g \in Heads : c \notin OnList(g)
    /\ \/ Becomes("list", ListAdd(s, c, h), InFront(model, h, c))
       \/ Becomes("list", ListAddTail(s, c, h), AtEnd(model, h, c))

\* The calls below are made for the i-th entry of the list at h.
RemoveFromList(h, i) ==
    \/ Becomes("list", ListDel(s, model[h][i]), Without(h, i))
    \/ Becomes("list", ListDelInit(s, model[h][i]), Without(h, i))

MoveOnLists(h, i, g) ==
    \/ Becomes("list", ListMove(s, model[h][i], g), InFront(Without(h, i), g, model[h][i]))
    \/ Becomes("list", ListMoveTail(s, model[h][i], g), AtEnd(Without(h, i), g, model[h][i]))

MoveForward(h, i) ==
    \/ Becomes("list", ListMoveToFront(s, model[h][i], h), InFront(Without(h, i), h, model[h][i]))
    \/ Becomes("list", ListMoveAhead(s, model[h][i], h),
            IF i = 1 THEN model ELSE [model EXCEPT ![h] = InsertAt(RemoveAt(@, i), i - 1, @[i])])

JoinLists(h, g) ==
    /\ h # g
    /\ Becomes("list", ListSpliceInit(s, h, g), [model EXCEPT ![g] = model[h] \o @, ![h] = <<>>])

UseQueue ==
    \/ \E e \in Elements : Becomes("queue", Enqueue(s, e), IF Len(model) = Capacity THEN model ELSE Append(model, e))
    \/ Becomes("queue", Dequeue(s), IF model = <<>> THEN model ELSE Tail(model))

UseStack ==
    \/ \E e \in Elements : Becomes("stack", Push(s, e), IF Len(model) = Capacity THEN model ELSE <<e>> \o model)
    \/ Becomes("stack", Pop(s), IF model = <<>> THEN model ELSE Tail(model))

Added(key) == [queued |-> model.queued + 1, in |-> model.in \cup {KV(key, model.queued + 1)}]
Least(kv) == \A x \in model.in : kv.key <= x.key

\* The top may be any of the least keys; the model follows the structure's choice.
PQEntry(n) == KV(AsUint(n.priority), n.value)

UsePQ ==
    \/ kind = "pq" /\ \E p \in Priorities :
          model.queued < MaxQueued /\ Becomes("pq", PQueue(s, model.queued + 1, p), Added(p))
    \/ kind = "pq" /\ s # <<>> /\ Becomes("pq", PDequeue(s), [model EXCEPT !.in = @ \ {PQEntry(s[1])}])

\* Nothing is said of what a heap does after it has written behind its array.
UseHeap ==
    /\ kind = "heap" /\ ~s.overrun
    /\ \/ \E k \in Keys : model.queued < MaxQueued /\ Becomes("heap", HeapInsert(s, k, model.queued + 1), Added(k))
       \/ Becomes("heap", HeapDeleteMin(s), [model EXCEPT !.in = IF s.size = 0 THEN @ ELSE @ \ {s.kvs[1]}])
       \/ \E kv \in model.in, k \in Keys :
             Becomes("heap", HeapDecreaseKey(s, kv.value, k),
                  [model EXCEPT !.in = IF k < kv.key THEN (@ \ {kv}) \cup {KV(k, kv.value)} ELSE @])
       \/ Becomes("heap", HeapClear(s), [model EXCEPT !.in = {}])

QueuesNext ==
    \/ \E h \in Heads, c \in Cells : AddToList(h, c)
    \/ kind = "list" /\ \E h \in Heads : \E i \in DOMAIN model[h] :
          RemoveFromList(h, i) \/ MoveForward(h, i) \/ \E g \in Heads : MoveOnLists(h, i, g)
    \/ \E h, g \in Heads : JoinLists(h, g)
    \/ UseQueue \/ UseStack \/ UsePQ \/ UseHeap

QueuesSpec == QueuesInit /\ [][QueuesNext]_part
-----------------------------------------------------------------------------
\* Both ways around, each list is the sequence its operations make of it.
ListsAgree == kind = "list" => \A h \in Heads : Visits(s, h, model[h])

\* The ring holds its elements in order through every wrap, full or empty.
RingAgrees ==
    kind = "queue" =>
        /\ s.size = Len(model)
        /\ \A i \in 1 .. s.size : s.elements[(s.front + i - 1) % Capacity] = model[i]
        /\ model # <<>> => FrontElement(s) = Head(model)

StackAgrees == kind = "stack" => s.size = Len(model) /\ \A i \in 1 .. s.size : At(s, i - 1) = model[i]

\* A priority of half the range or more goes in front of all below it.
Sooner(u, v) == IF (2 * u < UINTS) = (2 * v < UINTS) THEN u < v ELSE 2 * u >= UINTS

\* The priority queue yields, of the priorities it was given, first those that an int has as
\* negative numbers, the lowest first in either half of the range, and among equals the
\* latest.
PQAgrees ==
    kind = "pq" =>
        /\ {PQEntry(s[i]) : i \in DOMAIN s} = model.in
        /\ \A i, j \in DOMAIN s : i < j =>
              LET u == PQEntry(s[i])  v == PQEntry(s[j])
              IN  Sooner(u.key, v.key) \/ (u.key = v.key /\ u.value > v.value)

\* The heap holds exactly what was put in and not taken out, its least key on top, until it
\* is given one entry more than Capacity: that one it writes behind its array, and only
\* that one (heap.h:82-87).
HeapAgrees ==
    kind = "heap" =>
        /\ s.overrun <=> Cardinality(model.in) > Capacity
        /\ ~s.overrun =>
              /\ s.size = Cardinality(model.in)
              /\ {s.kvs[i] : i \in 1 .. s.size} = model.in
              /\ \A i \in 2 .. s.size : s.kvs[i \div 2].key <= s.kvs[i].key
              /\ s.size > 0 => Least(s.kvs[1])

\* Lists, queues and heaps deliver what went into them in the order they promise
\* (double_linked_list.h, queue.h, stack.h, priority_queue.h, heap.h).
QueuesAgree == ListsAgree /\ RingAgrees /\ StackAgrees /\ PQAgrees /\ HeapAgrees
=============================================================================
