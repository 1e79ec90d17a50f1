------------------------------ MODULE MQProofs ------------------------------
(***************************************************************************)
(* Lemmas about the operators of MQ.tla, for every capacity and every set  *)
(* S of messages: the ring buffer keeps its shape, pop takes the first     *)
(* message, push appends one, expand moves none out of order, and the      *)
(* scheduling calls leave the messages alone.  MessageQueueProofs and      *)
(* DispatcherProofs cite them.                                             *)
(***************************************************************************)
EXTENDS MQ, SequenceTheorems, TLAPS

\* Arrays of any length over S.
Arrays(S) == UNION {[0 .. n - 1 -> S] : n \in Nat}

Marks == {MQ_IDLE, MQ_IN_GLOBAL, MQ_DISPATCHING, MQ_LOCKED}
Flags == {0, 1}         \* of m_release

MQRecord(S) ==
    [queue : Arrays(S), cap : Nat \ {0}, head : Nat, tail : Nat,
     in_global : Marks,
     lock_session : Nat, m_release : Flags]

\* The MQ objects whose indices are inside their array.
MQOver(S) ==
    {q \in MQRecord(S) : q.head < q.cap /\ q.tail < q.cap /\ q.queue \in [0 .. q.cap - 1 -> S]}

\* Where the cell i places after head is.
Cell(q, i) == IF q.head + i < q.cap THEN q.head + i ELSE q.head + i - q.cap

\* An array of n cells over S is one of the arrays.
LEMMA ArrayOf ==
    ASSUME NEW S, NEW n \in Nat, NEW a \in [0 .. n - 1 -> S]
    PROVE  a \in Arrays(S)
BY DEF Arrays

\* What % does below twice its divisor: the ring wraps at most once.
LEMMA Modulo ==
    ASSUME NEW n \in Nat \ {0}, NEW a \in Nat
    PROVE  /\ a < n => a % n = a
           /\ n <= a /\ a < 2 * n => a % n = a - n
BY Z3

\* The number of messages is below the capacity, and zero when head meets tail.
LEMMA CountFacts ==
    ASSUME NEW S, NEW q \in MQOver(S)
    PROVE  /\ Count(q) = IF q.tail >= q.head THEN q.tail - q.head ELSE q.tail - q.head + q.cap
           /\ Count(q) \in 0 .. q.cap - 1
           /\ Count(q) = 0 <=> ~HasMessage(q)
<1>1. q.cap \in Nat \ {0} /\ q.head \in 0 .. q.cap - 1 /\ q.tail \in 0 .. q.cap - 1
  BY DEF MQOver, MQRecord
<1>2. Count(q) = IF q.tail >= q.head THEN q.tail - q.head ELSE q.tail - q.head + q.cap
  <2>1. q.tail - q.head + q.cap \in Nat /\ q.tail - q.head + q.cap < 2 * q.cap
    BY <1>1
  <2>2. CASE q.tail >= q.head
    <3>1. (q.tail - q.head + q.cap) % q.cap = q.tail - q.head + q.cap - q.cap
      BY <1>1, <2>1, <2>2, Modulo
    <3>2. QED
      BY <1>1, <2>2, <3>1 DEF Count
  <2>3. CASE ~(q.tail >= q.head)
    <3>1. (q.tail - q.head + q.cap) % q.cap = q.tail - q.head + q.cap
      BY <1>1, <2>1, <2>3, Modulo
    <3>2. QED
      BY <1>1, <2>3, <3>1 DEF Count
  <2>4. QED
    BY <2>2, <2>3
<1>3. QED
  BY <1>1, <1>2 DEF HasMessage

\* The contents are a sequence over S, cell after cell from head on.
LEMMA ContentsFacts ==
    ASSUME NEW S, NEW q \in MQOver(S)
    PROVE  /\ Contents(q) \in Seq(S)
           /\ Len(Contents(q)) = Count(q)
           /\ \A i \in 1 .. Count(q) : Contents(q)[i] = q.queue[Cell(q, i - 1)] /\ Cell(q, i - 1) \in 0 .. q.cap - 1
           /\ Contents(q) = [i \in 1 .. Count(q) |-> q.queue[Cell(q, i - 1)]]
<1>1. q.cap \in Nat \ {0} /\ q.head \in 0 .. q.cap - 1 /\ q.queue \in [0 .. q.cap - 1 -> S]
  BY DEF MQOver, MQRecord
<1>2. Count(q) \in 0 .. q.cap - 1 /\ Count(q) \in Nat
  BY <1>1, CountFacts
<1>3. ASSUME NEW i \in 1 .. Count(q)
      PROVE  (q.head + i - 1) % q.cap = Cell(q, i - 1) /\ Cell(q, i - 1) \in 0 .. q.cap - 1
  <2>1. q.head + i - 1 \in Nat /\ q.head + i - 1 < 2 * q.cap
    BY <1>1, <1>2, <1>3
  <2>2. CASE q.head + i - 1 < q.cap
    <3>1. (q.head + i - 1) % q.cap = q.head + i - 1
      BY <1>1, <2>1, <2>2, Modulo
    <3>2. QED
      BY <1>1, <1>2, <2>1, <2>2, <3>1 DEF Cell
  <2>3. CASE ~(q.head + i - 1 < q.cap)
    <3>1. (q.head + i - 1) % q.cap = q.head + i - 1 - q.cap
      BY <1>1, <2>1, <2>3, Modulo, SMTT(30)
    <3>2. QED
      BY <1>1, <1>2, <2>1, <2>3, <3>1 DEF Cell
  <2>4. QED
    BY <2>2, <2>3
<1>4. Contents(q) = [i \in 1 .. Count(q) |-> q.queue[Cell(q, i - 1)]]
  BY <1>3 DEF Contents
<1>5. \A i \in 1 .. Count(q) : Contents(q)[i] = q.queue[Cell(q, i - 1)] /\ q.queue[Cell(q, i - 1)] \in S
  BY <1>1, <1>3, <1>4
<1>6. Contents(q) \in [1 .. Count(q) -> S]
  BY <1>4, <1>5
<1>7. Contents(q) \in Seq(S) /\ Len(Contents(q)) = Count(q)
  BY <1>2, <1>4, <1>6
<1>8. QED
  BY <1>3, <1>4, <1>5, <1>7
-----------------------------------------------------------------------------
\* A new queue is an empty ring, marked as in the global queue.
LEMMA NewFacts ==
    ASSUME NEW S, Junk \in S
    PROVE  /\ NewMQ \in MQOver(S) /\ Contents(NewMQ) = <<>>
           /\ NewMQ.lock_session = 0 /\ NewMQ.m_release = 0 /\ NewMQ.in_global = MQ_IN_GLOBAL
<1> DEFINE n == NewMQ
           a == [i \in 0 .. DEFAULT_QUEUE_SIZE - 1 |-> Junk]
<1>1. a \in [0 .. DEFAULT_QUEUE_SIZE - 1 -> S] /\ DEFAULT_QUEUE_SIZE \in Nat \ {0}
  BY QueueSizeAssumption
<1>2. a \in Arrays(S)
  BY <1>1, ArrayOf
<1>3. n = [queue |-> a, cap |-> DEFAULT_QUEUE_SIZE, head |-> 0, tail |-> 0, in_global |-> MQ_IN_GLOBAL,
           lock_session |-> 0, m_release |-> 0]
  BY DEF NewMQ
<1> HIDE DEF a, n
<1>4. n \in MQRecord(S)
  BY <1>1, <1>2, <1>3 DEF MQRecord, Marks, Flags
<1>5. /\ n.queue = a /\ n.cap = DEFAULT_QUEUE_SIZE /\ n.head = 0 /\ n.tail = 0 /\ n.lock_session = 0 /\ n.m_release = 0
      /\ n.in_global = MQ_IN_GLOBAL
  BY <1>3
<1>6. n \in MQOver(S)
  BY <1>1, <1>4, <1>5 DEF MQOver
<1>7. Contents(n) \in Seq(S) /\ Len(Contents(n)) = Count(n)
  BY <1>6, ContentsFacts
<1>8. Count(n) = 0
  BY <1>5, <1>6, CountFacts DEF HasMessage
<1>9. Contents(n) = <<>>
  BY <1>7, <1>8
<1>10. QED
  BY <1>5, <1>6, <1>9 DEF n

\* pop() takes the first message, clears in_global and leaves the other fields.
LEMMA DequeueFacts ==
    ASSUME NEW S, NEW q \in MQOver(S), HasMessage(q)
    PROVE  /\ Dequeue(q) \in MQOver(S)
           /\ Contents(q) # <<>>
           /\ Contents(q)[1] \in S
           /\ Contents(Dequeue(q)) = Tail(Contents(q))
           /\ Dequeue(q).in_global = MQ_IDLE
           /\ Dequeue(q).lock_session = q.lock_session
           /\ Dequeue(q).m_release = q.m_release
<1> DEFINE d == Dequeue(q)
<1>1. q.cap \in Nat \ {0} /\ q.head \in 0 .. q.cap - 1 /\ q.tail \in 0 .. q.cap - 1
  BY DEF MQOver, MQRecord
<1>2. After(q, q.head) \in 0 .. q.cap - 1 /\ After(q, q.head) = Cell(q, 1)
  BY <1>1 DEF After, Cell
<1>3. /\ d \in MQOver(S)
      /\ d.queue = q.queue /\ d.cap = q.cap /\ d.tail = q.tail /\ d.head = Cell(q, 1)
  <2>1. q \in MQRecord(S) /\ q.queue \in [0 .. q.cap - 1 -> S]
    BY DEF MQOver
  <2>2. d = [q EXCEPT !.head = Cell(q, 1), !.in_global = MQ_IDLE] /\ Cell(q, 1) \in Nat
    BY <1>1, <1>2 DEF Dequeue
  <2> HIDE DEF d
  <2>3. d \in MQRecord(S)
    BY <2>1, <2>2 DEF MQRecord, Marks
  <2>4. d.queue = q.queue /\ d.cap = q.cap /\ d.tail = q.tail /\ d.head = Cell(q, 1)
    BY <2>1, <2>2 DEF MQRecord
  <2>5. QED
    BY <1>1, <1>2, <2>1, <2>3, <2>4 DEF MQOver
<1>4. Count(q) \in Nat \ {0} /\ Count(d) = Count(q) - 1
  <2>1. Count(q) = IF q.tail >= q.head THEN q.tail - q.head ELSE q.tail - q.head + q.cap
    BY CountFacts
  <2>2. Count(d) = IF d.tail >= d.head THEN d.tail - d.head ELSE d.tail - d.head + d.cap
    BY <1>3, CountFacts
  <2>3. QED
    BY <1>1, <1>3, <2>1, <2>2 DEF HasMessage, Cell
<1> HIDE DEF d
<1>5. ASSUME NEW i \in 1 .. Count(d) PROVE Cell(d, i - 1) = Cell(q, i)
  <2>1. Count(q) <= q.cap - 1
    BY <1>1, CountFacts
  <2>2. QED
    BY <1>1, <1>3, <1>4, <2>1, <1>5 DEF Cell
<1>6. Contents(d) = [i \in 1 .. Count(q) - 1 |-> q.queue[Cell(q, i)]]
  <2>1. Contents(d) = [i \in 1 .. Count(d) |-> d.queue[Cell(d, i - 1)]]
    BY <1>3, ContentsFacts
  <2>2. QED
    BY <1>3, <1>4, <1>5, <2>1
<1>7. Contents(q) \in Seq(S) /\ Len(Contents(q)) = Count(q)
      /\ \A i \in 1 .. Count(q) : Contents(q)[i] = q.queue[Cell(q, i - 1)]
  BY ContentsFacts
<1>8. Contents(q) # <<>> /\ Contents(q)[1] \in S
  BY <1>4, <1>7
<1>9. Tail(Contents(q)) = Contents(d)
  <2>1. Tail(Contents(q)) \in Seq(S) /\ Len(Tail(Contents(q))) = Count(q) - 1
        /\ \A i \in 1 .. Len(Tail(Contents(q))) : Tail(Contents(q))[i] = Contents(q)[i + 1]
    BY <1>7, <1>8, HeadTailProperties
  <2>2. Contents(d) \in Seq(S) /\ Len(Contents(d)) = Count(q) - 1
    BY <1>3, <1>4, ContentsFacts
  <2>3. ASSUME NEW i \in 1 .. Count(q) - 1 PROVE Tail(Contents(q))[i] = Contents(d)[i]
    <3>1. i + 1 \in 1 .. Count(q) /\ i + 1 - 1 = i
      BY <1>4
    <3>2. Contents(q)[i + 1] = q.queue[Cell(q, i)]
      BY <1>7, <3>1
    <3>3. QED
      BY <1>6, <2>1, <3>2
  <2>4. QED
    BY <2>1, <2>2, <2>3, SeqEqual
<1>10. d.in_global = MQ_IDLE /\ d.lock_session = q.lock_session /\ d.m_release = q.m_release
  <2>1. q \in MQRecord(S)
    BY DEF MQOver
  <2>2. d = [q EXCEPT !.head = After(q, q.head), !.in_global = MQ_IDLE]
    BY DEF d, Dequeue
  <2>3. QED
    BY <2>1, <2>2 DEF MQRecord
<1>11. QED
  BY <1>3, <1>8, <1>9, <1>10 DEF d

\* expand() doubles the ring and copies the cells from head on to its front.
LEMMA ExpandFacts ==
    ASSUME NEW S, NEW q \in MQOver(S), Junk \in S
    PROVE  /\ Expand(q) \in MQOver(S)
           /\ Expand(q).head = 0 /\ Expand(q).tail = q.cap /\ Expand(q).cap = 2 * q.cap
           /\ Expand(q).lock_session = q.lock_session /\ Expand(q).in_global = q.in_global
           /\ Expand(q).m_release = q.m_release
           /\ \A i \in 0 .. q.cap - 1 : Expand(q).queue[i] = q.queue[Cell(q, i)]
<1>1. q.cap \in Nat \ {0} /\ q.head \in 0 .. q.cap - 1 /\ q.queue \in [0 .. q.cap - 1 -> S]
  BY DEF MQOver, MQRecord
<1>2. ASSUME NEW i \in 0 .. q.cap - 1 PROVE (q.head + i) % q.cap = Cell(q, i) /\ Cell(q, i) \in 0 .. q.cap - 1
  <2>1. q.head + i \in Nat /\ q.head + i < 2 * q.cap
    BY <1>1
  <2>2. (q.head + i < q.cap => (q.head + i) % q.cap = q.head + i)
        /\ (q.cap <= q.head + i => (q.head + i) % q.cap = q.head + i - q.cap)
    BY <1>1, <2>1, Modulo, SMTT(30)
  <2>3. QED
    BY <1>1, <2>1, <2>2 DEF Cell
<1> DEFINE a == [i \in 0 .. 2 * q.cap - 1 |-> IF i < q.cap THEN q.queue[(q.head + i) % q.cap] ELSE Junk]
<1>3. a \in [0 .. 2 * q.cap - 1 -> S]
  <2>1. ASSUME NEW i \in 0 .. 2 * q.cap - 1 PROVE (IF i < q.cap THEN q.queue[(q.head + i) % q.cap] ELSE Junk) \in S
    <3>1. CASE i < q.cap
      <4>1. i \in 0 .. q.cap - 1
        BY <1>1, <3>1
      <4>2. q.queue[(q.head + i) % q.cap] \in S
        BY <1>1, <1>2, <4>1
      <4>3. QED
        BY <3>1, <4>2
    <3>2. CASE ~(i < q.cap)
      BY <3>2
    <3>3. QED
      BY <3>1, <3>2
  <2>2. QED
    BY <2>1
<1>4. ASSUME NEW i \in 0 .. q.cap - 1 PROVE a[i] = q.queue[Cell(q, i)]
  <2>1. i \in 0 .. 2 * q.cap - 1 /\ i < q.cap
    BY <1>1, <1>4
  <2>2. a[i] = q.queue[(q.head + i) % q.cap]
    BY <2>1
  <2>3. QED
    BY <1>2, <2>2
<1>5. 2 * q.cap \in Nat \ {0} /\ q.cap < 2 * q.cap
  BY <1>1
<1>6. Expand(q) = [q EXCEPT !.queue = a, !.head = 0, !.tail = q.cap, !.cap = 2 * q.cap]
  BY DEF Expand
<1> HIDE DEF a
<1>7. q \in MQRecord(S)
  BY DEF MQOver
<1>8. a \in Arrays(S)
  BY <1>3, <1>5, ArrayOf
<1> DEFINE e == Expand(q)
<1>12. e = [q EXCEPT !.queue = a, !.head = 0, !.tail = q.cap, !.cap = 2 * q.cap]
  BY <1>6
<1> HIDE DEF e
<1>13. e \in MQRecord(S)
  BY <1>1, <1>5, <1>12, <1>7, <1>8 DEF MQRecord
<1>14. e.queue = a /\ e.head = 0 /\ e.tail = q.cap /\ e.cap = 2 * q.cap
  BY <1>12, <1>7 DEF MQRecord
<1>9. e.lock_session = q.lock_session /\ e.in_global = q.in_global /\ e.m_release = q.m_release
  BY <1>12, <1>7 DEF MQRecord
<1>10. e \in MQOver(S)
  BY <1>3, <1>5, <1>13, <1>14, <1>1 DEF MQOver
<1>11. QED
  BY <1>4, <1>9, <1>10, <1>14 DEF e

\* Storing at the tail appends to the contents, also when the ring must expand:
\* no message is lost, moved or overwritten.
LEMMA EnqueueFacts ==
    ASSUME NEW S, NEW q \in MQOver(S), NEW m \in S, Junk \in S
    PROVE  /\ Enqueue(q, m) \in MQOver(S)
           /\ Contents(Enqueue(q, m)) = Append(Contents(q), m)
           /\ Enqueue(q, m).lock_session = q.lock_session /\ Enqueue(q, m).in_global = q.in_global
           /\ Enqueue(q, m).m_release = q.m_release
<1> DEFINE st == [q EXCEPT !.queue[q.tail] = m, !.tail = After(q, q.tail)]
           e == Enqueue(q, m)
<1>1. q.cap \in Nat \ {0} /\ q.head \in 0 .. q.cap - 1 /\ q.tail \in 0 .. q.cap - 1
      /\ q.queue \in [0 .. q.cap - 1 -> S]
  BY DEF MQOver, MQRecord
<1>2. After(q, q.tail) = (IF q.tail + 1 = q.cap THEN 0 ELSE q.tail + 1) /\ After(q, q.tail) \in 0 .. q.cap - 1
  BY <1>1 DEF After
<1>3. /\ st \in MQOver(S)
      /\ st.queue = [q.queue EXCEPT ![q.tail] = m] /\ st.tail = After(q, q.tail)
      /\ st.head = q.head /\ st.cap = q.cap
      /\ st.lock_session = q.lock_session /\ st.in_global = q.in_global /\ st.m_release = q.m_release
  <2>1. q \in MQRecord(S)
    BY DEF MQOver
  <2>2. [q.queue EXCEPT ![q.tail] = m] \in [0 .. q.cap - 1 -> S]
    BY <1>1
  <2>3. [q.queue EXCEPT ![q.tail] = m] \in Arrays(S)
    BY <1>1, <2>2, ArrayOf
  <2>4. st = [q EXCEPT !.queue = [q.queue EXCEPT ![q.tail] = m], !.tail = After(q, q.tail)]
    BY <2>1 DEF MQRecord
  <2> DEFINE a == [q.queue EXCEPT ![q.tail] = m]
  <2> HIDE DEF st, a
  <2>7. st = [q EXCEPT !.queue = a, !.tail = After(q, q.tail)] /\ a \in Arrays(S) /\ After(q, q.tail) \in Nat
    BY <1>1, <1>2, <2>3, <2>4 DEF a
  <2>8. st \in MQRecord(S)
    BY <2>1, <2>7 DEF MQRecord
  <2>9. /\ st.queue = a /\ st.tail = After(q, q.tail) /\ st.head = q.head /\ st.cap = q.cap
    BY <2>1, <2>7 DEF MQRecord
  <2>10. st.lock_session = q.lock_session /\ st.in_global = q.in_global /\ st.m_release = q.m_release
    BY <2>1, <2>7 DEF MQRecord
  <2>5. /\ st \in MQRecord(S)
        /\ st.queue = [q.queue EXCEPT ![q.tail] = m] /\ st.tail = After(q, q.tail)
        /\ st.head = q.head /\ st.cap = q.cap
        /\ st.lock_session = q.lock_session /\ st.in_global = q.in_global /\ st.m_release = q.m_release
    BY <2>8, <2>9, <2>10 DEF a
  <2>6. QED
    BY <1>1, <1>2, <2>2, <2>5 DEF MQOver
<1>4. e = IF HasMessage(st) THEN st ELSE Expand(st)
  BY DEF Enqueue
<1> HIDE DEF st, e
<1>5. Count(q) = (IF q.tail >= q.head THEN q.tail - q.head ELSE q.tail - q.head + q.cap) /\ Count(q) \in 0 .. q.cap - 1
  BY CountFacts
<1>6. \A i \in 0 .. q.cap - 1 : Cell(st, i) = Cell(q, i) /\ Cell(q, i) \in 0 .. q.cap - 1
  BY <1>1, <1>3 DEF Cell
<1>7. \A i \in 0 .. Count(q) - 1 : st.queue[Cell(q, i)] = q.queue[Cell(q, i)]
  BY <1>1, <1>3, <1>5 DEF Cell
<1>8. Cell(q, Count(q)) = q.tail /\ st.queue[q.tail] = m
  BY <1>1, <1>3, <1>5 DEF Cell
<1>9. /\ e \in MQOver(S) /\ Count(e) = Count(q) + 1
      /\ \A i \in 0 .. Count(q) : e.queue[Cell(e, i)] = st.queue[Cell(q, i)]
      /\ e.lock_session = q.lock_session /\ e.in_global = q.in_global /\ e.m_release = q.m_release
  <2>1. CASE HasMessage(st)
    <3>1. e = st
      BY <1>4, <2>1
    <3>2. Count(st) = IF st.tail >= st.head THEN st.tail - st.head ELSE st.tail - st.head + st.cap
      BY <1>3, CountFacts
    <3>3. Count(st) = Count(q) + 1
      BY <1>1, <1>2, <1>3, <1>5, <2>1, <3>2 DEF HasMessage
    <3>4. ASSUME NEW i \in 0 .. Count(q) PROVE st.queue[Cell(st, i)] = st.queue[Cell(q, i)]
      <4>1. i \in 0 .. q.cap - 1
        BY <1>1, <1>5
      <4>2. QED
        BY <4>1, <1>6
    <3>5. QED
      BY <1>3, <3>1, <3>3, <3>4
  <2>2. CASE ~HasMessage(st)
    <3>1. e = Expand(st)
      BY <1>4, <2>2
    <3>2. /\ e \in MQOver(S)
          /\ e.head = 0 /\ e.tail = st.cap /\ e.cap = 2 * st.cap
          /\ e.lock_session = st.lock_session /\ e.in_global = st.in_global /\ e.m_release = st.m_release
          /\ \A i \in 0 .. st.cap - 1 : e.queue[i] = st.queue[Cell(st, i)]
      <4>1. st \in MQOver(S) /\ e = Expand(st)
        BY <1>3, <3>1
      <4> HIDE DEF st, e
      <4>2. QED
        BY <4>1, ExpandFacts
    <3>3. Count(q) = q.cap - 1
      BY <1>1, <1>2, <1>3, <1>5, <2>2 DEF HasMessage
    <3>4. Count(e) = IF e.tail >= e.head THEN e.tail - e.head ELSE e.tail - e.head + e.cap
      BY <3>2, CountFacts
    <3>5. Count(e) = Count(q) + 1
      BY <1>1, <1>3, <3>2, <3>3, <3>4
    <3>6. \A i \in 0 .. Count(q) : Cell(e, i) = i
      BY <1>1, <1>3, <3>2, <3>3 DEF Cell
    <3>7. \A i \in 0 .. Count(q) : e.queue[Cell(e, i)] = st.queue[Cell(q, i)]
      BY <1>1, <1>3, <1>6, <3>2, <3>3, <3>6
    <3>8. QED
      BY <1>3, <3>2, <3>5, <3>7
  <2>3. QED
    BY <2>1, <2>2
<1>10. Contents(q) \in Seq(S) /\ Len(Contents(q)) = Count(q)
       /\ \A i \in 1 .. Count(q) : Contents(q)[i] = q.queue[Cell(q, i - 1)]
  BY ContentsFacts
<1>11. Contents(e) \in Seq(S) /\ Len(Contents(e)) = Count(q) + 1
       /\ \A i \in 1 .. Count(q) + 1 : Contents(e)[i] = e.queue[Cell(e, i - 1)]
  <2>1. Contents(e) \in Seq(S) /\ Len(Contents(e)) = Count(e)
        /\ \A i \in 1 .. Count(e) : Contents(e)[i] = e.queue[Cell(e, i - 1)]
    BY <1>9, ContentsFacts
  <2>2. QED
    BY <1>9, <2>1
<1>12. ASSUME NEW i \in 1 .. Count(q) + 1 PROVE Contents(e)[i] = Append(Contents(q), m)[i]
  <2>1. Contents(e)[i] = st.queue[Cell(q, i - 1)]
    BY <1>5, <1>9, <1>11
  <2>2. CASE i = Count(q) + 1
    BY <1>5, <1>8, <1>10, <2>1, <2>2
  <2>3. CASE i # Count(q) + 1
    BY <1>5, <1>7, <1>10, <2>1, <2>3
  <2>4. QED
    BY <2>2, <2>3
<1>13. Append(Contents(q), m) \in Seq(S) /\ Len(Append(Contents(q), m)) = Count(q) + 1
  BY <1>10
<1>14. Contents(e) = Append(Contents(q), m)
  BY <1>11, <1>12, <1>13
<1>15. QED
  BY <1>9, <1>14 DEF e
-----------------------------------------------------------------------------
Marked(q, g) == [q EXCEPT !.in_global = g]

\* The scheduling functions leave the ring alone.
LEMMA SameRing ==
    ASSUME NEW S, NEW q \in MQOver(S), NEW p \in MQRecord(S),
           p.queue = q.queue, p.cap = q.cap, p.head = q.head, p.tail = q.tail
    PROVE  p \in MQOver(S) /\ Contents(p) = Contents(q)
<1>1. q.head < q.cap /\ q.tail < q.cap /\ q.queue \in [0 .. q.cap - 1 -> S]
  BY DEF MQOver
<1>2. p \in MQOver(S)
  BY <1>1 DEF MQOver
<1>3. Count(p) = Count(q)
  BY DEF Count
<1>4. Contents(p) = Contents(q)
  BY <1>3 DEF Contents
<1>5. QED
  BY <1>2, <1>4

\* A change of in_global leaves the ring as it is.
LEMMA MarkedFacts ==
    ASSUME NEW S, NEW q \in MQOver(S), NEW g \in Marks
    PROVE  /\ Marked(q, g) \in MQOver(S) /\ Contents(Marked(q, g)) = Contents(q)
           /\ Marked(q, g).in_global = g
           /\ Marked(q, g).lock_session = q.lock_session /\ Marked(q, g).m_release = q.m_release
<1> DEFINE p == Marked(q, g)
<1>1. q \in MQRecord(S)
  BY DEF MQOver
<1>2. p \in MQRecord(S)
  BY <1>1 DEF MQRecord, Marked
<1>3. p.queue = q.queue /\ p.cap = q.cap /\ p.head = q.head /\ p.tail = q.tail
  BY <1>1 DEF MQRecord, Marked
<1>4. p.in_global = g /\ p.lock_session = q.lock_session /\ p.m_release = q.m_release
  BY <1>1 DEF MQRecord, Marked
<1> HIDE DEF p
<1>5. p \in MQOver(S) /\ Contents(p) = Contents(q)
  BY <1>2, <1>3, SameRing
<1>6. QED
  BY <1>4, <1>5 DEF p

\* pushglobal() leaves the messages alone; it schedules exactly an unlocked queue.
LEMMA PushGlobalFacts ==
    ASSUME NEW S, NEW q \in MQOver(S)
    PROVE  /\ PushGlobal(q).mq \in MQOver(S)
           /\ Contents(PushGlobal(q).mq) = Contents(q)
           /\ PushGlobal(q).mq.lock_session = q.lock_session
           /\ PushGlobal(q).mq.m_release = q.m_release
           /\ q.lock_session = 0 => PushGlobal(q).scheduled = TRUE /\ PushGlobal(q).mq.in_global = MQ_IN_GLOBAL
           /\ q.lock_session # 0 =>
                 /\ PushGlobal(q).scheduled = FALSE
                 /\ PushGlobal(q).mq.in_global = IF q.in_global = MQ_DISPATCHING THEN MQ_LOCKED ELSE q.in_global
<1> DEFINE o == PushGlobal(q)
           g == IF q.lock_session = 0 THEN MQ_IN_GLOBAL
                ELSE IF q.in_global = MQ_DISPATCHING THEN MQ_LOCKED ELSE q.in_global
<1>1. q \in MQRecord(S)
  BY DEF MQOver
<1>2. g \in Marks
  BY <1>1 DEF MQRecord, Marks
<1>3. o.scheduled = (q.lock_session = 0) /\ o.mq = Marked(q, g)
  BY <1>1 DEF PushGlobal, Outcome, MQRecord, Marked
<1> HIDE DEF o, g
<1>4. /\ o.mq \in MQOver(S) /\ Contents(o.mq) = Contents(q) /\ o.mq.in_global = g
      /\ o.mq.lock_session = q.lock_session /\ o.mq.m_release = q.m_release
  BY <1>2, <1>3, MarkedFacts
<1>5. QED
  BY <1>3, <1>4 DEF o, g

\* Setting m_release leaves the ring as it is.
LEMMA ReleasedFacts ==
    ASSUME NEW S, NEW q \in MQOver(S), NEW p, p = [q EXCEPT !.m_release = 1]
    PROVE  /\ p \in MQOver(S) /\ Contents(p) = Contents(q) /\ p.m_release = 1
           /\ p.lock_session = q.lock_session /\ p.in_global = q.in_global
<1>1. q \in MQRecord(S)
  BY DEF MQOver
<1>2. p \in MQRecord(S)
  BY <1>1 DEF MQRecord, Flags
<1>3. p.queue = q.queue /\ p.cap = q.cap /\ p.head = q.head /\ p.tail = q.tail
  BY <1>1 DEF MQRecord
<1>4. p.m_release = 1 /\ p.lock_session = q.lock_session /\ p.in_global = q.in_global
  BY <1>1 DEF MQRecord
<1>5. QED
  BY <1>2, <1>3, <1>4, SameRing

\* lock(session) leaves the ring as it is.
LEMMA LockByFacts ==
    ASSUME NEW S, NEW q \in MQOver(S), NEW session \in Nat
    PROVE  /\ LockBy(q, session) \in MQOver(S)
           /\ Contents(LockBy(q, session)) = Contents(q)
           /\ LockBy(q, session).lock_session = session
           /\ LockBy(q, session).m_release = q.m_release
           /\ LockBy(q, session).in_global = MQ_DISPATCHING
<1> DEFINE l == LockBy(q, session)
<1>1. q \in MQRecord(S)
  BY DEF MQOver
<1>2. l \in MQRecord(S)
  BY <1>1 DEF MQRecord, LockBy, Marks
<1>3. l.queue = q.queue /\ l.cap = q.cap /\ l.head = q.head /\ l.tail = q.tail
  BY <1>1 DEF MQRecord, LockBy
<1>4. l.lock_session = session /\ l.m_release = q.m_release /\ l.in_global = MQ_DISPATCHING
  BY <1>1 DEF MQRecord, LockBy
<1> HIDE DEF l
<1>5. l \in MQOver(S) /\ Contents(l) = Contents(q)
  BY <1>2, <1>3, SameRing
<1>6. QED
  BY <1>4, <1>5 DEF l

\* push() of a message that unlocks nothing appends it, and schedules exactly a
\* queue that was idle and not locked.
LEMMA PushFacts ==
    ASSUME NEW S, NEW q \in MQOver(S), NEW m \in S, Junk \in S, ~IsUnlock(q, m),
           NEW o \in PushOutcomes(q, m)
    PROVE  /\ o.mq \in MQOver(S) /\ Contents(o.mq) = Append(Contents(q), m)
           /\ o.mq.lock_session = q.lock_session /\ o.mq.m_release = q.m_release
           /\ o.scheduled = (q.lock_session = 0 /\ q.in_global = MQ_IDLE)
           /\ o.mq.in_global = IF o.scheduled THEN MQ_IN_GLOBAL ELSE q.in_global
<1> DEFINE e    == Enqueue(q, m)
           wake == q.lock_session = 0 /\ q.in_global = MQ_IDLE
<1>1. e \in MQOver(S) /\ Contents(e) = Append(Contents(q), m) /\ e.lock_session = q.lock_session
      /\ e.in_global = q.in_global /\ e.m_release = q.m_release
  BY EnqueueFacts
<1>2. o.scheduled = wake /\ o.mq = IF wake THEN Marked(e, MQ_IN_GLOBAL) ELSE e
  BY DEF PushOutcomes, Outcome, Marked
<1>3. MQ_IN_GLOBAL \in Marks
  BY DEF Marks
<1> HIDE DEF e
<1>4. CASE wake
  <2>1. o.mq \in MQOver(S) /\ Contents(o.mq) = Contents(e) /\ o.mq.in_global = MQ_IN_GLOBAL
        /\ o.mq.lock_session = e.lock_session /\ o.mq.m_release = e.m_release
    BY <1>1, <1>2, <1>3, <1>4, MarkedFacts
  <2>2. QED
    BY <1>1, <1>2, <1>4, <2>1
<1>5. CASE ~wake
  BY <1>1, <1>2, <1>5
<1>6. QED
  BY <1>4, <1>5

\* pushhead() keeps the indices inside the array, whatever its uninitialised local
\* is; what it does to the messages is not claimed.
LEMMA PushHeadFacts ==
    ASSUME NEW S, NEW q \in MQOver(S), NEW m \in S, Junk \in S, NEW h \in -1 .. q.cap
    PROVE  /\ PushHead(q, m, h).mq \in MQOver(S)
           /\ PushHead(q, m, h).mq.lock_session = 0
           /\ PushHead(q, m, h).mq.m_release = q.m_release
           /\ PushHead(q, m, h).mq.in_global = IF q.in_global = MQ_LOCKED THEN MQ_IN_GLOBAL ELSE q.in_global
           /\ PushHead(q, m, h).scheduled = (q.in_global = MQ_LOCKED)
<1> DEFINE at     == IF h < 0 THEN q.cap - 1 ELSE h
           full   == at = q.tail
           roomy  == IF full THEN [Expand(q) EXCEPT !.tail = @ - 1] ELSE q
           cell   == IF full THEN roomy.cap - 1 ELSE at
           stored == IF cell < roomy.cap THEN [roomy EXCEPT !.queue[cell] = m] ELSE roomy
           locked == q.in_global = MQ_LOCKED
           o      == PushHead(q, m, h)
<1>1. /\ o.scheduled = locked
      /\ o.mq = [stored EXCEPT !.lock_session = 0, !.in_global = IF locked THEN MQ_IN_GLOBAL ELSE @]
  BY DEF PushHead, Outcome
<1>2. q.cap \in Nat \ {0} /\ q.tail \in 0 .. q.cap - 1 /\ q \in MQRecord(S)
  BY DEF MQOver, MQRecord
<1>3. roomy \in MQOver(S) /\ roomy.m_release = q.m_release /\ roomy.in_global = q.in_global
  <2>1. CASE full
    <3> DEFINE e == Expand(q)
    <3>1. e \in MQOver(S) /\ e.tail = q.cap /\ e.m_release = q.m_release /\ e.in_global = q.in_global
      BY ExpandFacts
    <3>2. e.queue \in [0 .. e.cap - 1 -> S] /\ e \in MQRecord(S) /\ e.head < e.cap
          /\ e.tail < e.cap /\ e.tail \in Nat /\ e.cap \in Nat
      BY <3>1 DEF MQOver, MQRecord
    <3>3. roomy = [e EXCEPT !.tail = e.tail - 1] /\ e.tail - 1 \in Nat /\ e.tail - 1 < e.cap
      BY <1>2, <2>1, <3>1, <3>2
    <3> HIDE DEF e, roomy
    <3>4. roomy \in MQRecord(S)
      BY <3>2, <3>3 DEF MQRecord
    <3>5. roomy.queue = e.queue /\ roomy.cap = e.cap /\ roomy.head = e.head /\ roomy.tail = e.tail - 1
          /\ roomy.m_release = e.m_release /\ roomy.in_global = e.in_global
      BY <3>2, <3>3 DEF MQRecord
    <3>6. QED
      BY <3>1, <3>2, <3>3, <3>4, <3>5 DEF MQOver
  <2>2. CASE ~full
    BY <2>2
  <2>3. QED
    BY <2>1, <2>2
<1>4. cell \in Nat
  <2>1. roomy.cap \in Nat \ {0}
    BY <1>3 DEF MQOver, MQRecord
  <2> HIDE DEF roomy
  <2>2. at \in Nat
    BY <1>2
  <2>3. QED
    BY <2>1, <2>2
<1> HIDE DEF roomy, cell
<1>5. stored \in MQOver(S) /\ stored.m_release = roomy.m_release /\ stored.in_global = roomy.in_global
  <2>1. CASE cell < roomy.cap
    <3> DEFINE a == [roomy.queue EXCEPT ![cell] = m]
    <3>1. roomy \in MQRecord(S) /\ roomy.cap \in Nat \ {0} /\ roomy.queue \in [0 .. roomy.cap - 1 -> S]
          /\ roomy.head < roomy.cap /\ roomy.tail < roomy.cap
      BY <1>3 DEF MQOver, MQRecord
    <3>2. a \in [0 .. roomy.cap - 1 -> S]
      BY <3>1
    <3>3. a \in Arrays(S)
      BY <3>1, <3>2, ArrayOf
    <3>4. stored = [roomy EXCEPT !.queue = a]
      BY <2>1, <3>1 DEF MQRecord
    <3> HIDE DEF a, stored
    <3>5. stored \in MQRecord(S)
      BY <3>1, <3>3, <3>4 DEF MQRecord
    <3>6. stored.queue = a /\ stored.cap = roomy.cap /\ stored.head = roomy.head /\ stored.tail = roomy.tail
          /\ stored.m_release = roomy.m_release /\ stored.in_global = roomy.in_global
      BY <3>1, <3>4 DEF MQRecord
    <3>7. QED
      BY <3>1, <3>2, <3>5, <3>6 DEF MQOver
  <2>2. CASE ~(cell < roomy.cap)
    BY <1>3, <2>2
  <2>3. QED
    BY <2>1, <2>2
<1> HIDE DEF stored, o
<1>6. stored \in MQRecord(S)
  BY <1>5 DEF MQOver
<1> DEFINE g == IF locked THEN MQ_IN_GLOBAL ELSE stored.in_global
<1>11. g \in Marks
  BY <1>6 DEF MQRecord, Marks
<1>12. o.mq = [stored EXCEPT !.lock_session = 0, !.in_global = g]
  BY <1>1, <1>6 DEF MQRecord
<1> HIDE DEF g
<1>7. o.mq \in MQRecord(S)
  <2> DEFINE p == [stored EXCEPT !.lock_session = 0, !.in_global = g]
  <2>1. p \in MQRecord(S)
    BY <1>6, <1>11 DEF MQRecord
  <2>2. QED
    BY <1>12, <2>1
<1>8. o.mq.in_global = g /\ o.mq.queue = stored.queue /\ o.mq.cap = stored.cap /\ o.mq.head = stored.head /\ o.mq.tail = stored.tail
      /\ o.mq.lock_session = 0 /\ o.mq.m_release = stored.m_release
  BY <1>6, <1>12 DEF MQRecord
<1>9. o.mq \in MQOver(S)
  BY <1>5, <1>7, <1>8, SameRing
<1>10. QED
  BY <1>1, <1>3, <1>5, <1>8, <1>9 DEF o, g
=============================================================================
