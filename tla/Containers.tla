----------------------------- MODULE Containers -----------------------------
(***************************************************************************)
(* The operations of the library's lists and queues: the linked list that  *)
(* carries the runtime's timers and hash slots                             *)
(* (include/lib/double_linked_list.h, sol.h), the ring queue (queue.h),    *)
(* the stack (stack.h), the priority queue (priority_queue.h) and the      *)
(* binary heap (heap.h).                                                   *)
(***************************************************************************)
EXTENDS Integers, Sequences, FiniteSets, SequencesExt

CONSTANTS
    Junk,           \* an array cell not written
    UINTS           \* how many numbers a uint32_t has
-----------------------------------------------------------------------------
(* Linked list: every head and every entry has next and prev *)

NULL == 0

InitListHead(l, h) == [l EXCEPT !.next[h] = h, !.prev[h] = h]

LinkBetween(l, n, prev, next) ==
    [l EXCEPT !.prev[next] = n, !.next[n] = next, !.prev[n] = prev, !.next[prev] = n]
Unlink(l, prev, next) == [l EXCEPT !.prev[next] = prev, !.next[prev] = next]

ListAdd(l, n, h)     == LinkBetween(l, n, h, l.next[h])
ListAddTail(l, n, h) == LinkBetween(l, n, l.prev[h], h)

ListDel(l, e) == [Unlink(l, l.prev[e], l.next[e]) EXCEPT !.next[e] = NULL, !.prev[e] = NULL]

ListDelInit(l, e) == InitListHead(Unlink(l, l.prev[e], l.next[e]), e)

ListMove(l, e, h)     == ListAdd(Unlink(l, l.prev[e], l.next[e]), e, h)
ListMoveTail(l, e, h) == ListAddTail(Unlink(l, l.prev[e], l.next[e]), e, h)

ListEmpty(l, h) == l.next[h] = h

\* MUTANT: the list that was joined keeps a way back to its old head
SpliceOneWay(l, from, h) ==
    LET first == l.next[from]  last == l.prev[from]  at == l.next[h]
    IN  [l EXCEPT !.prev[first] = h, !.next[h] = first, !.next[last] = at]

Splice(l, from, h) ==
    LET first == l.next[from]  last == l.prev[from]  at == l.next[h]
    IN  [l EXCEPT !.prev[first] = h, !.next[h] = first, !.next[last] = at, !.prev[at] = last]

ListSpliceInit(l, from, h) ==
    IF ListEmpty(l, from) THEN l ELSE InitListHead(Splice(l, from, h), from)

ListMoveToFront(l, e, h) ==
    IF l.prev[e] = h THEN l
    ELSE LET u == Unlink(l, l.prev[e], l.next[e]) IN LinkBetween(u, e, h, u.next[h])

ListMoveAhead(l, e, h) ==
    IF l.prev[e] = h THEN l
    ELSE LET prev == l.prev[e]
             u == Unlink(l, prev, l.next[e])
         IN  LinkBetween(u, e, u.prev[prev], prev)

\* h, the members of list, and h again: the cells that a walk around the list comes to.
Ring(h, list) == [i \in 0 .. Len(list) + 1 |-> IF i \in DOMAIN list THEN list[i] ELSE h]

\* list_for_each from h visits list, and list_for_each_prev visits it backwards.
Visits(l, h, list) ==
    \A i \in 0 .. Len(list) : /\ l.next[Ring(h, list)[i]] = Ring(h, list)[i + 1]
                              /\ l.prev[Ring(h, list)[i + 1]] = Ring(h, list)[i]
-----------------------------------------------------------------------------
(* Ring queue and stack: arrays of fixed capacity *)

\* rear starts at (uint32_t) -1 and comes to 0 by wrapping around.
EmptyQueue(max) == [size |-> 0, front |-> 0, rear |-> -1, elements |-> [i \in 0 .. max - 1 |-> Junk]]

Wrapped(q, i) == IF i = Cardinality(DOMAIN q.elements) THEN 0 ELSE i

Enqueue(q, e) ==
    LET rear == Wrapped(q, q.rear + 1)
    IN  IF q.size = Cardinality(DOMAIN q.elements) THEN q
        ELSE [q EXCEPT !.size = @ + 1, !.rear = rear, !.elements[rear] = e]

Dequeue(q) ==
    IF q.size = 0 THEN q ELSE [q EXCEPT !.size = @ - 1, !.front = Wrapped(q, @ + 1)]

FrontElement(q) == q.elements[q.front]

EmptyStack(max) == [size |-> 0, elements |-> [i \in 0 .. max - 1 |-> Junk]]

Push(st, e) ==
    IF st.size = Cardinality(DOMAIN st.elements) THEN st
    ELSE [st EXCEPT !.size = @ + 1, !.elements[st.size] = e]

Pop(st) == IF st.size = 0 THEN st ELSE [st EXCEPT !.size = @ - 1]

\* Counted from the top; an index from size on is not refused below the capacity.
At(st, idx) == st.elements[st.size - 1 - idx]
-----------------------------------------------------------------------------
(* Priority queue: a list, the lowest number first *)

\* A uint32_t stored in an int, and back.
AsInt(u)  == IF 2 * u < UINTS THEN u ELSE u - UINTS
AsUint(k) == IF k < 0 THEN k + UINTS ELSE k

\* In front of the first entry that is not more urgent, or at the end.  The priority is a
\* uint32_t and is compared and kept as an int.
PQueue(q, value, priority) ==
    LET n == [priority |-> AsInt(priority), value |-> value]
        i == SelectInSeq(q, LAMBDA m : n.priority <= m.priority)
    IN  IF i = 0 THEN Append(q, n) ELSE InsertAt(q, i, n)

PDequeue(q) == IF q = <<>> THEN q ELSE Tail(q)
-----------------------------------------------------------------------------
(* Binary heap: cells 1 .. size, cell 0 holds a number below all keys as a sentinel *)

INT_MIN == -1000
KV(key, value) == [key |-> key, value |-> value]
EmptyHeap(max) == [size |-> 0, overrun |-> FALSE,
                   kvs |-> [i \in 0 .. max |-> KV(IF i = 0 THEN INT_MIN ELSE Junk, Junk)]]

\* A turn of the loop that moves the hole at t.at up, for the entry kv: the parent comes
\* down into the hole.
RiseOnce(t, kv) ==
    LET parent == t.kvs[t.at \div 2]
    IN  IF parent.key > kv.key THEN [kvs |-> [t.kvs EXCEPT ![t.at] = parent], at |-> t.at \div 2] ELSE t

SiftUp(kvs, now, kv) ==
    LET turn[n \in 0 .. now] == IF n = 0 THEN [kvs |-> kvs, at |-> now] ELSE RiseOnce(turn[n - 1], kv)
    IN  [turn[now].kvs EXCEPT ![turn[now].at] = kv]

\* m_max is one more than the cells for keys, so that the heap counts as full only after
\* a write behind the array: nothing is said of the heap from then on.
HeapInsert(h, key, value) ==
    IF h.size + 1 \notin DOMAIN h.kvs THEN [h EXCEPT !.overrun = TRUE]
    ELSE [h EXCEPT !.size = @ + 1, !.kvs = SiftUp(@, h.size + 1, KV(key, value))]

\* A turn of the loop that moves the hole at t.at down, for the entry last: the lesser
\* child comes up into the hole.
FallOnce(t, size, last) ==
    LET left == 2 * t.at
        child == IF left # size /\ t.kvs[left + 1].key < t.kvs[left].key THEN left + 1 ELSE left
    IN  IF left <= size /\ last.key > t.kvs[child].key
        THEN [kvs |-> [t.kvs EXCEPT ![t.at] = t.kvs[child]], at |-> child] ELSE t

\* The last of size + 1 entries falls from the top.
SiftDown(kvs, size, last) ==
    LET turn[n \in 0 .. size] == IF n = 0 THEN [kvs |-> kvs, at |-> 1] ELSE FallOnce(turn[n - 1], size, last)
    IN  [turn[size].kvs EXCEPT ![turn[size].at] = last]

HeapDeleteMin(h) ==
    IF h.size = 0 THEN h
    ELSE [h EXCEPT !.size = @ - 1, !.kvs = SiftDown(@, h.size - 1, h.kvs[h.size])]

HeapDecreaseKey(h, value, newkey) ==
    LET found == {i \in 1 .. h.size : h.kvs[i].value = value}
        index == CHOOSE i \in found : \A j \in found : i <= j
    IN  IF found = {} \/ newkey >= h.kvs[index].key THEN h
        ELSE [h EXCEPT !.kvs = SiftUp(@, index, KV(newkey, value))]

HeapClear(h) == [h EXCEPT !.size = 0]
=============================================================================
