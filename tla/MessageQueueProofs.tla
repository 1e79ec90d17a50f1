------------------------- MODULE MessageQueueProofs -------------------------
(***************************************************************************)
(* MessageQueue proved for every queue size, every number of workers and   *)
(* every set of messages and sessions: its types, that a queue which is    *)
(* not scheduled has somebody who will schedule it, and that the ring      *)
(* buffer implements the Mailbox.                                          *)
(***************************************************************************)
EXTENDS MessageQueue, MQProofs

Cells == Message \cup {Junk}

\* The object's indices are inside its array, and it was never released.
Typed ==
    /\ q \in MQOver(Cells)
    /\ q.lock_session \in Sessions \cup {0}
    /\ q.m_release = 0
    /\ held \in 0 .. MaxHeld
    /\ busy \in 0 .. Workers
    /\ strayed \in BOOLEAN
    /\ unlocked \in BOOLEAN

IInv == Typed /\ SomeoneBringsItBack

\* What is counted is 0 or 1 for a push, and 1 or 0 once.
LEMMA TrackedFacts == Tracked(0) = 0 /\ Tracked(1) \in {0, 1}
BY DEF Tracked

\* A queue that is handed out leaves a slot.
LEMMA HandedStep ==
    ASSUME held \in 0 .. MaxHeld, busy \in 0 .. Workers, Handed
    PROVE  held' \in 0 .. MaxHeld /\ busy + 1 \in 0 .. Workers
<1>1. MaxHeld \in Nat /\ Tracked(1) \in {0, 1} /\ Workers \in Nat
  BY QueueBoundsAssumption, TrackedFacts
<1>2. QED
  BY <1>1 DEF Handed

\* A new queue satisfies the invariant.
LEMMA InitInv == QueueInit => IInv
<1> SUFFICES ASSUME QueueInit PROVE IInv
  OBVIOUS
<1>1. q = NewMQ /\ held = Tracked(1) /\ busy = 0 /\ strayed = FALSE /\ unlocked = FALSE
  BY DEF QueueInit
<1>2. /\ q \in MQOver(Cells) /\ q.lock_session \in Sessions \cup {0} /\ q.m_release = 0
      /\ q.in_global = MQ_IN_GLOBAL
  BY <1>1, NewFacts DEF Cells
<1>3. busy \in 0 .. Workers /\ held \in 0 .. MaxHeld
  BY <1>1, QueueBoundsAssumption, TrackedFacts
<1>4. SomeoneBringsItBack
  BY <1>2 DEF SomeoneBringsItBack, MQ_IDLE, MQ_IN_GLOBAL, MQ_DISPATCHING, MQ_LOCKED
<1>5. QED
  BY <1>1, <1>2, <1>3, <1>4 DEF IInv, Typed

\* push: an unlocking message clears the lock, any other is appended.
LEMMA PushStep ==
    ASSUME IInv, NEW m \in Message, Push(m)
    PROVE  /\ IInv'
           /\ ~IsUnlock(q, m) => Contents(q') = Append(Contents(q), m) /\ unlocked' = unlocked
           /\ IsUnlock(q, m) => unlocked' = TRUE
<1>1. m \in Cells /\ Junk \in Cells /\ q \in MQOver(Cells) /\ held \in 0 .. MaxHeld
  BY DEF Cells, IInv, Typed
<1>2. PICK o \in PushOutcomes(q, m) : Becomes(o)
  BY DEF Push
<1>3. unlocked' = (unlocked \/ IsUnlock(q, m)) /\ busy' = busy /\ strayed' = strayed
  BY DEF Push
<1> USE DEF MQ_IDLE, MQ_IN_GLOBAL, MQ_DISPATCHING, MQ_LOCKED
<1>4. CASE ~IsUnlock(q, m)
  <2>1. /\ o.mq \in MQOver(Cells) /\ Contents(o.mq) = Append(Contents(q), m)
        /\ o.mq.lock_session = q.lock_session /\ o.mq.m_release = q.m_release
        /\ o.scheduled = (q.lock_session = 0 /\ q.in_global = MQ_IDLE)
        /\ o.mq.in_global = IF o.scheduled THEN MQ_IN_GLOBAL ELSE q.in_global
    BY <1>1, <1>4, PushFacts
  <2>2. unlocked' = unlocked
    BY <1>3, <1>4 DEF IInv, Typed
  <2>3. q' = o.mq /\ held' \in 0 .. MaxHeld
    BY <1>1, <1>2, <2>1, TrackedFacts, QueueBoundsAssumption DEF Becomes
  <2>4. Typed'
    BY <1>3, <2>1, <2>2, <2>3 DEF IInv, Typed
  <2>5. SomeoneBringsItBack'
    BY <1>3, <2>1, <2>3 DEF IInv, SomeoneBringsItBack
  <2>6. QED
    BY <1>4, <2>1, <2>2, <2>3, <2>4, <2>5 DEF IInv
<1>5. CASE IsUnlock(q, m)
  <2>1. PICK h \in -1 .. q.cap : o = PushHead(q, m, h)
    BY <1>5 DEF PushOutcomes
  <2>2. /\ o.mq \in MQOver(Cells) /\ o.mq.lock_session = 0 /\ o.mq.m_release = q.m_release
        /\ o.mq.in_global = IF q.in_global = MQ_LOCKED THEN MQ_IN_GLOBAL ELSE q.in_global
        /\ o.scheduled = (q.in_global = MQ_LOCKED)
    BY <1>1, <2>1, PushHeadFacts
  <2>3. q' = o.mq /\ held' \in 0 .. MaxHeld
    BY <1>1, <1>2, <2>2, TrackedFacts, QueueBoundsAssumption DEF Becomes
  <2>4. unlocked' = TRUE
    BY <1>3, <1>5
  <2>5. Typed'
    BY <1>3, <2>2, <2>3, <2>4 DEF IInv, Typed
  <2>6. SomeoneBringsItBack'
    BY <1>3, <2>2, <2>3 DEF IInv, SomeoneBringsItBack
  <2>7. QED
    BY <1>5, <2>4, <2>5, <2>6 DEF IInv
<1>6. QED
  BY <1>4, <1>5

\* pop takes the first message and clears the mark; who took it pushes it back.
LEMMA PopStep ==
    ASSUME IInv, Pop
    PROVE  /\ IInv'
           /\ Contents(q) # <<>> /\ Contents(q') = Tail(Contents(q)) /\ unlocked' = unlocked
<1>1. q \in MQOver(Cells) /\ HasMessage(q) /\ q' = Dequeue(q)
  BY DEF Pop, IInv, Typed
<1>2. /\ q' \in MQOver(Cells) /\ Contents(q) # <<>> /\ Contents(q') = Tail(Contents(q))
      /\ q'.in_global = MQ_IDLE /\ q'.lock_session = q.lock_session /\ q'.m_release = q.m_release
  BY <1>1, DequeueFacts
<1>3. held' \in 0 .. MaxHeld /\ busy' = busy + 1 /\ busy' \in 0 .. Workers /\ busy \in Nat
  BY HandedStep DEF Pop, IInv, Typed
<1>4. strayed' = (strayed \/ q.lock_session # 0) /\ unlocked' = unlocked
  BY DEF Pop
<1>5. Typed'
  BY <1>2, <1>3, <1>4 DEF IInv, Typed
<1>6. ~strayed' => q.lock_session = 0
  BY <1>4
<1>7. SomeoneBringsItBack'
  BY <1>2, <1>3, <1>6
  DEF SomeoneBringsItBack, MQ_IDLE, MQ_IN_GLOBAL, MQ_DISPATCHING, MQ_LOCKED
<1>8. QED
  BY <1>2, <1>4, <1>5, <1>7 DEF IInv

\* pop of an empty queue leaves everything but the slot.
LEMMA PopEmptyStep ==
    ASSUME IInv, PopEmpty
    PROVE  IInv' /\ q' = q /\ unlocked' = unlocked
<1>1. held' \in 0 .. MaxHeld
  BY HandedStep DEF PopEmpty, IInv, Typed
<1>2. QED
  BY <1>1 DEF PopEmpty, IInv, Typed, SomeoneBringsItBack

\* lock is called inside a callback, and leaves the messages alone.
LEMMA LockStep ==
    ASSUME IInv, NEW s \in Sessions, Lock(s)
    PROVE  IInv' /\ Contents(q') = Contents(q) /\ unlocked' = unlocked
<1>1. q \in MQOver(Cells) /\ q' = LockBy(q, s) /\ s \in Nat
  BY SessionsAssumption DEF Lock, IInv, Typed
<1>2. /\ q' \in MQOver(Cells) /\ Contents(q') = Contents(q) /\ q'.lock_session = s
      /\ q'.m_release = q.m_release /\ q'.in_global = MQ_DISPATCHING
  BY <1>1, LockByFacts
<1>3. busy > 0 /\ UNCHANGED <<held, busy, strayed, unlocked>>
  BY DEF Lock
<1>4. SomeoneBringsItBack'
  BY <1>2, <1>3 DEF SomeoneBringsItBack, MQ_IDLE, MQ_DISPATCHING, MQ_LOCKED
<1>5. QED
  BY <1>2, <1>3, <1>4 DEF IInv, Typed

\* pushglobal at the end of a dispatch pushes the queue, or marks it as locked.
LEMMA FinishStep ==
    ASSUME IInv, FinishDispatch
    PROVE  IInv' /\ Contents(q') = Contents(q) /\ unlocked' = unlocked
<1> DEFINE o == PushGlobal(q)
<1>1. q \in MQOver(Cells) /\ held \in 0 .. MaxHeld /\ Becomes(o)
  BY DEF FinishDispatch, IInv, Typed
<1>2. /\ o.mq \in MQOver(Cells) /\ Contents(o.mq) = Contents(q)
      /\ o.mq.lock_session = q.lock_session /\ o.mq.m_release = q.m_release
      /\ q.lock_session = 0 => o.scheduled = TRUE /\ o.mq.in_global = MQ_IN_GLOBAL
      /\ q.lock_session # 0 =>
            /\ o.scheduled = FALSE
            /\ o.mq.in_global = IF q.in_global = MQ_DISPATCHING THEN MQ_LOCKED ELSE q.in_global
  BY <1>1, PushGlobalFacts
<1> HIDE DEF o
<1>3. q' = o.mq /\ held' \in 0 .. MaxHeld
  BY <1>1, <1>2, TrackedFacts, QueueBoundsAssumption DEF Becomes
<1>4. busy' \in 0 .. Workers /\ strayed' = strayed /\ unlocked' = unlocked
  BY QueueBoundsAssumption DEF FinishDispatch, IInv, Typed
<1>5. Typed'
  BY <1>2, <1>3, <1>4 DEF IInv, Typed
<1>6. SomeoneBringsItBack'
  BY <1>2, <1>3, <1>4
  DEF IInv, SomeoneBringsItBack, MQ_IDLE, MQ_IN_GLOBAL, MQ_DISPATCHING, MQ_LOCKED
<1>7. QED
  BY <1>2, <1>3, <1>4, <1>5, <1>6 DEF IInv
-----------------------------------------------------------------------------
\* The inductive invariant: the ring stays a ring, and the marks have somebody
\* behind them.
THEOREM QueueInvariant == QueueSpec => []IInv
<1>1. IInv /\ UNCHANGED queueVars => IInv'
  BY DEF IInv, Typed, SomeoneBringsItBack, queueVars
<1>2. IInv /\ [QueueNext]_queueVars => IInv'
  BY <1>1, PushStep, PopStep, PopEmptyStep, LockStep, FinishStep DEF QueueNext
<1>3. QED
  BY InitInv, <1>2, PTL DEF QueueSpec

\* head and tail never leave the array, whatever pushes, pops, expansions and
\* pushes to the head come in whatever order.
THEOREM TypeCorrect == QueueSpec => []QueueTypeOK
<1>1. IInv => QueueTypeOK
  BY DEF IInv, Typed, QueueTypeOK, MQOver, MQRecord, Marks, Cells
<1>2. QED
  BY QueueInvariant, <1>1, PTL

\* A queue with mark 0, 2 or 3, which no push of an ordinary message schedules or
\* whose dispatch may end without scheduling it, has a dispatch under way or an
\* answer outstanding that does.
THEOREM BroughtBack == QueueSpec => []SomeoneBringsItBack
<1>1. IInv => SomeoneBringsItBack
  BY DEF IInv
<1>2. QED
  BY QueueInvariant, <1>1, PTL

\* The ring buffer is a first-in first-out mailbox through every wrap-around and
\* expansion, until an unlock message comes.
THEOREM MailboxImplemented == QueueSpec => ImplementsMailbox
<1>1. QueueInit => Box!Init
  BY NewFacts DEF QueueInit, Box!Init
<1>2. ASSUME IInv, QueueNext PROVE [Box!Next]_(Box!mailboxVars)
  <2> USE DEF Box!Next, Box!Put, Box!Take, Box!Unlock, Box!mailboxVars
  <2>1. ASSUME NEW m \in Message, Push(m) PROVE Box!Next
    <3>1. CASE IsUnlock(q, m)
      BY <1>2, <2>1, <3>1, PushStep
    <3>2. CASE ~IsUnlock(q, m)
      BY <1>2, <2>1, <3>2, PushStep DEF IInv, Typed
    <3>3. QED
      BY <3>1, <3>2
  <2>2. ASSUME Pop PROVE Box!Next
    BY <1>2, <2>2, PopStep DEF IInv, Typed
  <2>3. ASSUME PopEmpty PROVE UNCHANGED Box!mailboxVars
    BY <1>2, <2>3, PopEmptyStep
  <2>4. ASSUME NEW s \in Sessions, Lock(s) PROVE UNCHANGED Box!mailboxVars
    BY <1>2, <2>4, LockStep
  <2>5. ASSUME FinishDispatch PROVE UNCHANGED Box!mailboxVars
    BY <1>2, <2>5, FinishStep
  <2>6. QED
    BY <1>2, <2>1, <2>2, <2>3, <2>4, <2>5 DEF QueueNext
<1>3. UNCHANGED queueVars => UNCHANGED Box!mailboxVars
  BY DEF queueVars, Box!mailboxVars, Contents, Count
<1>4. QED
  BY QueueInvariant, <1>1, <1>2, <1>3, PTL DEF QueueSpec, Box!Spec, ImplementsMailbox
=============================================================================
