--------------------------------- MODULE MQ ---------------------------------
(***************************************************************************)
(* The fields of one MQ object (include/mq.h, class MQ) as a record, and   *)
(* what each member function does to them while it holds the queue's       *)
(* spin lock.  A function that may also call GlobalMQ::push says so in     *)
(* "scheduled"; which slot that call uses is Dispatcher.tla's business.    *)
(***************************************************************************)
EXTENDS Integers, Sequences

CONSTANTS
    DEFAULT_QUEUE_SIZE,     \* the cells of a new queue (64 in the code)
    Junk                    \* what an array cell holds before it is written

ASSUME QueueSizeAssumption == DEFAULT_QUEUE_SIZE \in Nat \ {0}

MQ_IDLE        == 0         \* "mq is not in global mq"
MQ_IN_GLOBAL   == 1
MQ_DISPATCHING == 2
MQ_LOCKED      == 3

\* The constructor: ready to be pushed to the global queue by its creator.
NewMQ ==
    [queue        |-> [i \in 0 .. DEFAULT_QUEUE_SIZE - 1 |-> Junk],
     cap          |-> DEFAULT_QUEUE_SIZE,
     head         |-> 0,
     tail         |-> 0,
     in_global    |-> MQ_IN_GLOBAL,
     lock_session |-> 0,
     m_release    |-> 0]
-----------------------------------------------------------------------------
(* The ring buffer *)

HasMessage(q) == q.head # q.tail

Count(q) == (q.tail - q.head + q.cap) % q.cap

\* The messages in the order pop() will return them.
Contents(q) == [i \in 1 .. Count(q) |-> q.queue[(q.head + i - 1) % q.cap]]

AfterNoWrap(q, i) == IF i + 1 > q.cap THEN 0 ELSE i + 1         \* MUTANT

After(q, i) == IF i + 1 >= q.cap THEN 0 ELSE i + 1

\* MUTANT: cells are copied where they are, not from head on
ExpandInPlace(q) ==
    [q EXCEPT !.queue = [i \in 0 .. 2 * q.cap - 1 |->
                            IF i < q.cap THEN q.queue[i] ELSE Junk],
              !.head = 0, !.tail = q.cap, !.cap = 2 * q.cap]

\* expand(): twice the cells, the old ones copied from head on.
Expand(q) ==
    [q EXCEPT !.queue = [i \in 0 .. 2 * q.cap - 1 |->
                            IF i < q.cap THEN q.queue[(q.head + i) % q.cap]
                                         ELSE Junk],
              !.head = 0, !.tail = q.cap, !.cap = 2 * q.cap]

Enqueue(q, m) ==
    LET stored == [q EXCEPT !.queue[q.tail] = m, !.tail = After(q, q.tail)]
    IN  IF HasMessage(stored) THEN stored ELSE Expand(stored)

\* pop(), when there is a message.  in_global is cleared on this path, and
\* not on the path that finds the queue empty.
Dequeue(q) == [q EXCEPT !.head = After(q, q.head), !.in_global = MQ_IDLE]
-----------------------------------------------------------------------------
(* Scheduling: the member functions that may push to the global queue *)

Outcome(q, scheduled) == [mq |-> q, scheduled |-> scheduled]

\* pushhead().  `int head = head - 1` initialises the local from itself, so h
\* is any int: a negative one, a cell, or a value past the last cell, whose
\* write lands outside the array and loses the message.  `head = head` leaves
\* the member as it was.  Only a queue that was put aside as LOCKED is pushed.
PushHead(q, m, h) ==
    LET at     == IF h < 0 THEN q.cap - 1 ELSE h
        full   == at = q.tail
        roomy  == IF full THEN [Expand(q) EXCEPT !.tail = @ - 1] ELSE q
        cell   == IF full THEN roomy.cap - 1 ELSE at
        stored == IF cell < roomy.cap THEN [roomy EXCEPT !.queue[cell] = m]
                                      ELSE roomy
        locked == q.in_global = MQ_LOCKED
    IN  Outcome([stored EXCEPT !.lock_session = 0,
                               !.in_global = IF locked THEN MQ_IN_GLOBAL ELSE @],
                locked)

\* push(): the locker's own message goes through pushhead(); any other is
\* queued, and schedules the queue unless that is locked or already marked.
IsUnlock(q, m) == q.lock_session # 0 /\ m.session = q.lock_session

PushOutcomes(q, m) ==
    IF IsUnlock(q, m)
    THEN {PushHead(q, m, h) : h \in -1 .. q.cap}
    ELSE LET e    == Enqueue(q, m)
             wake == q.lock_session = 0 /\ q.in_global = MQ_IDLE
         IN  {Outcome(IF wake THEN [e EXCEPT !.in_global = MQ_IN_GLOBAL] ELSE e, wake)}

\* MUTANT: a queue that was locked just now keeps the mark of a dispatch
PushGlobalForgets(q) ==
    IF q.lock_session = 0
    THEN Outcome([q EXCEPT !.in_global = MQ_IN_GLOBAL], TRUE)
    ELSE Outcome(q, FALSE)

\* MUTANT: the queue is pushed and its mark is not set
PushGlobalUnmarked(q) ==
    IF q.lock_session = 0
    THEN Outcome(q, TRUE)
    ELSE Outcome([q EXCEPT !.in_global = IF @ = MQ_DISPATCHING THEN MQ_LOCKED ELSE @],
                 FALSE)

\* pushglobal(), called when a dispatch is over.
PushGlobal(q) ==
    IF q.lock_session = 0
    THEN Outcome([q EXCEPT !.in_global = MQ_IN_GLOBAL], TRUE)
    ELSE Outcome([q EXCEPT !.in_global = IF @ = MQ_DISPATCHING THEN MQ_LOCKED ELSE @],
                 FALSE)

\* lock(session), called from inside the callback.
LockBy(q, session) ==
    [q EXCEPT !.in_global = MQ_DISPATCHING, !.lock_session = session]
=============================================================================
