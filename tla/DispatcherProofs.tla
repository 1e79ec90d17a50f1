-------------------------- MODULE DispatcherProofs --------------------------
(***************************************************************************)
(* Dispatcher proved for any number of workers, senders, retirers,         *)
(* contexts, slots and messages: the types, the reference counts, that a   *)
(* deletion comes after the last reference, that messages are popped in    *)
(* order and given to a callback once, and that a cleared mark means a     *)
(* worker is dispatching and will push the queue back.  One lemma per part *)
(* of the invariant, with one step per action.                             *)
(***************************************************************************)
EXTENDS Dispatcher, MQProofs, FiniteSetTheorems, SequenceTheorems

Messages == [data : Nat, session : {0}]
Cells    == Messages \cup {Junk}

Holders(c) == {t \in Threads : Holds(t, c)}

\* The queues are rings, never locked by a session; the histories are sequences.
QueuesOK ==
    /\ mq \in [Handles -> MQOver(Cells)]
    /\ \A c \in Handles : mq[c].lock_session = 0
    /\ sent \in [Handles -> Seq(Cells)]
    /\ taken \in [Handles -> Seq(Cells)]
    /\ leaked \in [Handles -> Seq(Cells)]

\* A flagged slot, and one a thread is about to read or to flag, has a pointer.
SlotInv ==
    /\ \A s \in Slots : flag[s] => queue[s] \in Handles
    /\ \A t \in Threads : pc[t] \in {"read_slot", "raise_flag", "raise_flag_released"} => queue[slot[t]] \in Handles
    /\ \A t \in Threads : pc[t] \notin {"idle", "read_slot"} => cur[t] \in Handles

RefInv == \A c \in Handles : ref[c] = Cardinality({c} \cap registered) + Cardinality(Holders(c))

\* The last reference is put before the queue is marked, the mark comes before
\* the context or the queue is deleted, and one thread sets it.
ReleaseInv ==
    /\ \A c \in Handles : mq[c].m_release = 1 => ref[c] = 0
    /\ \A c \in deleted \cup freed : mq[c].m_release = 1
    /\ \A t \in Threads :
          /\ pc[t] = "delete" => ref[cur[t]] = 0 /\ mq[cur[t]].m_release = 0
          /\ pc[t] \in {"delete_context", "drop_pop", "delete_mq"} => mq[cur[t]].m_release = 1
    /\ \A t, u \in Threads : t # u /\ pc[t] = "delete" /\ pc[u] = "delete" => cur[t] # cur[u]

\* drop_queue pops only what a released queue still holds.
LeakInv == \A c \in Handles : leaked[c] # <<>> => mq[c].m_release = 1

\* A queue's messages carry their positions: no two pushed to it are equal.
Numbered ==
    /\ hand \in [Workers -> Cells]
    /\ started \in [Handles -> SUBSET Cells]
    /\ \A c \in Handles : \A i \in 1 .. Len(sent[c]) : sent[c][i].data = i

IInv ==
    /\ TypeOK /\ QueuesOK /\ SlotInv /\ RefInv /\ ReleaseInv /\ LeakInv
    /\ PoppedInOrder /\ Numbered /\ DispatchedOnce /\ ZeroIsDispatching
-----------------------------------------------------------------------------
\* There are finitely many threads, so a context has finitely many holders.
LEMMA Finite == IsFiniteSet(Threads) /\ \A c : IsFiniteSet(Holders(c)) /\ IsFiniteSet({c} \cap registered)
<1>1. IsFiniteSet(Threads)
  BY ThreadsAssumption, FS_Union DEF Threads
<1>2. \A c : IsFiniteSet({c} \cap registered)
  BY FS_Singleton, FS_Subset
<1>3. QED
  BY <1>1, <1>2, FS_Subset DEF Holders

\* Whoever holds a context has counted a reference to it.
LEMMA Counted ==
    ASSUME IInv, NEW c \in Handles
    PROVE  /\ ref[c] \in Nat
           /\ \A t \in Threads : Holds(t, c) => ref[c] >= 1 /\ mq[c].m_release = 0
           /\ c \in registered => ref[c] >= 1 /\ mq[c].m_release = 0
<1>1. ref[c] \in Nat /\ Cardinality({c} \cap registered) \in Nat /\ Cardinality(Holders(c)) \in Nat
  BY Finite, FS_CardinalityType DEF IInv, TypeOK
<1>2. ref[c] = Cardinality({c} \cap registered) + Cardinality(Holders(c))
  BY DEF IInv, RefInv
<1>3. ASSUME NEW t \in Threads, Holds(t, c) PROVE ref[c] >= 1
  <2>1. Cardinality(Holders(c)) # 0
    BY <1>3, Finite, FS_EmptySet DEF Holders
  <2>2. QED
    BY <1>1, <1>2, <2>1
<1>4. ASSUME c \in registered PROVE ref[c] >= 1
  <2>1. Cardinality({c} \cap registered) # 0
    BY <1>4, Finite, FS_EmptySet
  <2>2. QED
    BY <1>1, <1>2, <2>1
<1>5. mq[c].m_release \in {0, 1} /\ (mq[c].m_release = 1 => ref[c] = 0)
  BY DEF IInv, QueuesOK, MQOver, MQRecord, Flags, ReleaseInv
<1>6. QED
  BY <1>1, <1>3, <1>4, <1>5
-----------------------------------------------------------------------------
\* One queue changes: what the others need to know of it.
MqStep(c, release, mark) ==
    /\ mq' \in [Handles -> MQOver(Cells)]
    /\ \A d \in Handles : mq'[d].lock_session = 0
    /\ \A d \in Handles \ {c} : mq'[d] = mq[d]
    /\ mq'[c].m_release = release /\ mq'[c].in_global = mark

\* One queue is replaced.
LEMMA ChangeOne ==
    ASSUME IInv, NEW c \in Handles, NEW p \in MQOver(Cells), p.lock_session = 0,
           mq' = [mq EXCEPT ![c] = p]
    PROVE  MqStep(c, p.m_release, p.in_global) /\ mq'[c] = p
BY DEF IInv, QueuesOK, MqStep

\* MQ::pop on behalf of dispatch, or of drop_queue, takes the first message.
LEMMA TakeStep ==
    ASSUME IInv, NEW w \in Workers, NEW c, c = cur[w], HasMessage(mq[c]),
           pc[w] \in {"mq_pop", "drop_pop"}, mq' = [mq EXCEPT ![c] = Dequeue(mq[c])]
    PROVE  /\ MqStep(c, mq[c].m_release, MQ_IDLE)
           /\ Contents(mq[c]) \in Seq(Cells) /\ Contents(mq[c]) # <<>>
           /\ Contents(mq[c])[1] \in Cells /\ Contents(mq'[c]) = Tail(Contents(mq[c]))
<1>1. c \in Handles /\ mq[c] \in MQOver(Cells) /\ mq[c].lock_session = 0
  BY DEF IInv, SlotInv, QueuesOK, Threads
<1>2. /\ Dequeue(mq[c]) \in MQOver(Cells) /\ Contents(mq[c]) # <<>> /\ Contents(mq[c])[1] \in Cells
      /\ Contents(Dequeue(mq[c])) = Tail(Contents(mq[c]))
      /\ Dequeue(mq[c]).in_global = MQ_IDLE /\ Dequeue(mq[c]).lock_session = mq[c].lock_session
      /\ Dequeue(mq[c]).m_release = mq[c].m_release
  BY <1>1, DequeueFacts
<1>3. Contents(mq[c]) \in Seq(Cells)
  BY <1>1, ContentsFacts
<1>4. QED
  BY <1>1, <1>2, <1>3, ChangeOne

\* pushglobal stores the queue in a slot: no session locks it here.
LEMMA RescheduleStep ==
    ASSUME IInv, NEW w \in Workers, Reschedule(w)
    PROVE  /\ MqStep(cur[w], mq[cur[w]].m_release, MQ_IN_GLOBAL)
           /\ Contents(mq'[cur[w]]) = Contents(mq[cur[w]])
           /\ StorePointer(w, cur[w]) /\ ~Locked(cur[w])
<1> DEFINE c == cur[w]
<1>1. c \in Handles /\ mq[c] \in MQOver(Cells) /\ mq[c].lock_session = 0
  BY DEF Reschedule, IInv, SlotInv, QueuesOK, Threads
<1>2. /\ PushGlobal(mq[c]).mq \in MQOver(Cells) /\ Contents(PushGlobal(mq[c]).mq) = Contents(mq[c])
      /\ PushGlobal(mq[c]).mq.lock_session = 0
      /\ PushGlobal(mq[c]).mq.m_release = mq[c].m_release
      /\ PushGlobal(mq[c]).scheduled = TRUE /\ PushGlobal(mq[c]).mq.in_global = MQ_IN_GLOBAL
  BY <1>1, PushGlobalFacts
<1>3. mq' = [mq EXCEPT ![c] = PushGlobal(mq[c]).mq] /\ StorePointer(w, c) /\ ~Locked(c)
  BY <1>2 DEF Reschedule
<1>4. QED
  BY <1>1, <1>2, <1>3, ChangeOne

\* Context::push appends one message, and marks a queue it finds idle.
LEMMA SendStep ==
    ASSUME IInv, NEW s \in Senders, SendPush(s)
    PROVE  \E m \in Messages :
             /\ m.data = Len(sent[cur[s]]) + 1
             /\ MqStep(cur[s], mq[cur[s]].m_release,
                       IF mq[cur[s]].in_global = MQ_IDLE THEN MQ_IN_GLOBAL ELSE mq[cur[s]].in_global)
             /\ Contents(mq[cur[s]]) \in Seq(Cells)
             /\ Contents(mq'[cur[s]]) = Append(Contents(mq[cur[s]]), m)
             /\ sent' = [sent EXCEPT ![cur[s]] = Append(sent[cur[s]], m)]
             /\ StorePointer(s, cur[s]) \/ Unscheduled(s, "put")
             /\ ~Locked(cur[s])
<1> DEFINE c == cur[s]
           m == [data |-> Len(sent[c]) + 1, session |-> 0]
<1>1. c \in Handles /\ mq[c] \in MQOver(Cells) /\ mq[c].lock_session = 0 /\ sent[c] \in Seq(Cells)
  BY DEF SendPush, IInv, SlotInv, QueuesOK, Threads
<1>2. m \in Messages /\ m.data = Len(sent[c]) + 1
  BY <1>1 DEF Messages
<1>3. m \in Cells /\ Junk \in Cells
  BY <1>2 DEF Cells
<1>4. ~IsUnlock(mq[c], m)
  BY <1>1 DEF IsUnlock
<1>5. PICK o \in PushOutcomes(mq[c], m) :
         /\ mq' = [mq EXCEPT ![c] = o.mq]
         /\ StorePointer(s, c) \/ Unscheduled(s, "put")
  BY DEF SendPush
<1>6. sent' = [sent EXCEPT ![c] = Append(sent[c], m)] /\ ~Locked(c)
  BY DEF SendPush
<1> HIDE DEF m
<1>7. /\ o.mq \in MQOver(Cells) /\ Contents(o.mq) = Append(Contents(mq[c]), m)
      /\ o.mq.lock_session = 0 /\ o.mq.m_release = mq[c].m_release
      /\ o.scheduled = (mq[c].in_global = MQ_IDLE)
      /\ o.mq.in_global = IF o.scheduled THEN MQ_IN_GLOBAL ELSE mq[c].in_global
  BY <1>1, <1>3, <1>4, PushFacts
<1>8. Contents(mq[c]) \in Seq(Cells)
  BY <1>1, ContentsFacts
<1>9. MqStep(c, o.mq.m_release, o.mq.in_global) /\ mq'[c] = o.mq
  BY <1>1, <1>5, <1>7, ChangeOne
<1>10. QED
  BY <1>2, <1>5, <1>6, <1>7, <1>8, <1>9

\* _delete_context marks the queue and leaves its messages.
LEMMA MarkStep ==
    ASSUME IInv, NEW t \in Threads, MarkRelease(t)
    PROVE  /\ MqStep(cur[t], 1, mq[cur[t]].in_global)
           /\ Contents(mq'[cur[t]]) = Contents(mq[cur[t]])
<1> DEFINE c == cur[t]
           p == [mq[c] EXCEPT !.m_release = 1]
<1>1. c \in Handles /\ mq[c] \in MQOver(Cells) /\ mq[c].lock_session = 0
  BY DEF MarkRelease, IInv, SlotInv, QueuesOK
<1>2. mq' = [mq EXCEPT ![c] = p]
  BY DEF MarkRelease
<1>3. /\ p \in MQOver(Cells) /\ Contents(p) = Contents(mq[c]) /\ p.m_release = 1
      /\ p.lock_session = 0 /\ p.in_global = mq[c].in_global
  BY <1>1, ReleasedFacts
<1> HIDE DEF p
<1>4. QED
  BY <1>1, <1>2, <1>3, ChangeOne
-----------------------------------------------------------------------------
\* The contexts launched, with their queues in the global queue, satisfy the invariant.
LEMMA InitInv == Init => IInv
<1> SUFFICES ASSUME Init PROVE IInv
  OBVIOUS
<1>1. Junk \in Cells /\ <<>> \in Seq(Cells)
  BY DEF Cells
<1>2. /\ NewMQ \in MQOver(Cells) /\ Contents(NewMQ) = <<>> /\ NewMQ.lock_session = 0
      /\ NewMQ.m_release = 0 /\ NewMQ.in_global = MQ_IN_GLOBAL
  BY <1>1, NewFacts
<1>3. \A c \in Handles : mq[c] = NewMQ
  BY DEF Init
<1>4. QueuesOK
  BY <1>1, <1>2, <1>3 DEF Init, QueuesOK
<1>5. TypeOK
  <2>1. \A c \in Handles : mq[c].head < mq[c].cap /\ mq[c].tail < mq[c].cap
    BY <1>2, <1>3 DEF MQOver
  <2>2. 0 \in Slots
    BY GlobalQueueAssumption DEF Slots
  <2>3. QED
    BY <2>1, <2>2 DEF Init, TypeOK, Locked, Labels
<1>6. SlotInv
  BY DEF Init, SlotInv
<1>7. RefInv
  <2>1. ASSUME NEW c \in Handles PROVE ref[c] = Cardinality({c} \cap registered) + Cardinality(Holders(c))
    <3>1. Holders(c) = {} /\ {c} \cap registered = {c} /\ ref[c] = 1
      BY DEF Init, Holders, Holds
    <3>2. Cardinality(Holders(c)) = 0 /\ Cardinality({c} \cap registered) = 1
      BY <3>1, FS_EmptySet, FS_Singleton
    <3>3. QED
      BY <3>1, <3>2
  <2>2. QED
    BY <2>1 DEF RefInv
<1>8. ReleaseInv
  BY <1>2, <1>3 DEF Init, ReleaseInv
<1>9. LeakInv
  BY DEF Init, LeakInv
<1>10. PoppedInOrder
  <2>1. <<>> \o <<>> \o <<>> = <<>>
    OBVIOUS
  <2>2. QED
    BY <1>2, <1>3, <2>1 DEF Init, PoppedInOrder
<1>11. ZeroIsDispatching
  BY <1>2, <1>3 DEF Init, ZeroIsDispatching, Dispatching, MQ_IDLE, MQ_IN_GLOBAL
<1>12. Numbered
  BY <1>1 DEF Init, Numbered
<1>13. DispatchedOnce
  BY DEF Init, DispatchedOnce, InHand, Threads
<1>14. QED
  BY <1>4, <1>5, <1>6, <1>7, <1>8, <1>9, <1>10, <1>11, <1>12, <1>13 DEF IInv
-----------------------------------------------------------------------------
\* The actions that touch the queues; every other one leaves them, and the histories, alone.
LEMMA QueueActions ==
    ASSUME Next
    PROVE  \/ \E w \in Workers : TakeMessage(w) \/ Reschedule(w) \/ DropPop(w)
           \/ \E s \in Senders : SendPush(s)
           \/ \E t \in Threads : MarkRelease(t)
           \/ UNCHANGED <<mq, sent, taken, leaked>>
BY DEF Next, Dispatch, Common, messageVars, TestFlag, ReadSlot, ClearFlag, Grab, StartCallback,
       FinishCallback, ReleaseMQ, RaiseFlagReleased, DeleteMQ, TouchFreed, SendGrab, Retire, RaiseFlag, Put, DeleteContext

\* Every step leaves the queues rings, and the histories sequences.
LEMMA QueuesStep == ASSUME IInv, Next PROVE QueuesOK'
<1>0. QueuesOK
  BY DEF IInv
<1>1. ASSUME NEW w \in Workers, TakeMessage(w) PROVE QueuesOK'
  <2>1. CASE HasMessage(mq[cur[w]])
    <3>1. /\ MqStep(cur[w], mq[cur[w]].m_release, MQ_IDLE) /\ Contents(mq[cur[w]])[1] \in Cells
      BY <1>1, <2>1, TakeStep DEF TakeMessage
    <3>2. \A a \in Seq(Cells), e \in Cells : Append(a, e) \in Seq(Cells)
      OBVIOUS
    <3>3. taken' = [taken EXCEPT ![cur[w]] = Append(taken[cur[w]], Contents(mq[cur[w]])[1])] /\ UNCHANGED <<sent, leaked>>
      BY <1>1, <2>1 DEF TakeMessage
    <3>4. QED
      BY <1>0, <3>1, <3>2, <3>3 DEF QueuesOK, MqStep
  <2>2. CASE ~HasMessage(mq[cur[w]])
    BY <1>0, <1>1, <2>2 DEF TakeMessage, QueuesOK
  <2>3. QED
    BY <2>1, <2>2
<1>2. ASSUME NEW w \in Workers, Reschedule(w) PROVE QueuesOK'
  <2>1. MqStep(cur[w], mq[cur[w]].m_release, MQ_IN_GLOBAL)
    BY <1>2, RescheduleStep
  <2>2. QED
    BY <1>0, <1>2, <2>1 DEF Reschedule, QueuesOK, MqStep, messageVars
<1>3. ASSUME NEW w \in Workers, DropPop(w) PROVE QueuesOK'
  <2>1. CASE HasMessage(mq[cur[w]])
    <3>1. /\ MqStep(cur[w], mq[cur[w]].m_release, MQ_IDLE) /\ Contents(mq[cur[w]])[1] \in Cells
      BY <1>3, <2>1, TakeStep DEF DropPop
    <3>2. \A a \in Seq(Cells), e \in Cells : Append(a, e) \in Seq(Cells)
      OBVIOUS
    <3>3. leaked' = [leaked EXCEPT ![cur[w]] = Append(leaked[cur[w]], Contents(mq[cur[w]])[1])] /\ UNCHANGED <<sent, taken>>
      BY <1>3, <2>1 DEF DropPop
    <3>4. QED
      BY <1>0, <3>1, <3>2, <3>3 DEF QueuesOK, MqStep
  <2>2. CASE ~HasMessage(mq[cur[w]])
    BY <1>0, <1>3, <2>2 DEF DropPop, QueuesOK
  <2>3. QED
    BY <2>1, <2>2
<1>4. ASSUME NEW s \in Senders, SendPush(s) PROVE QueuesOK'
  <2>1. PICK m \in Messages :
           (\E release, mark : MqStep(cur[s], release, mark)) /\ sent' = [sent EXCEPT ![cur[s]] = Append(sent[cur[s]], m)]
    BY <1>4, SendStep
  <2>2. \A a \in Seq(Cells) : Append(a, m) \in Seq(Cells)
    BY DEF Cells
  <2>3. QED
    BY <1>0, <1>4, <2>1, <2>2 DEF SendPush, QueuesOK, MqStep
<1>5. ASSUME NEW t \in Threads, MarkRelease(t) PROVE QueuesOK'
  <2>1. MqStep(cur[t], 1, mq[cur[t]].in_global)
    BY <1>5, MarkStep
  <2>2. QED
    BY <1>0, <1>5, <2>1 DEF MarkRelease, QueuesOK, MqStep, messageVars
<1>6. CASE UNCHANGED <<mq, sent, taken, leaked>>
  BY <1>0, <1>6 DEF QueuesOK
<1>7. QED
  BY <1>1, <1>2, <1>3, <1>4, <1>5, <1>6, QueueActions

\* Every step keeps the types; whoever is inside a queue's lock leaves it himself.
LEMMA TypeStep == ASSUME IInv, Next PROVE TypeOK'
<1>0. /\ TypeOK /\ SlotInv /\ 0 \in Slots /\ \A c \in Handles : mq'[c].head < mq'[c].cap /\ mq'[c].tail < mq'[c].cap
      /\ \A c \in Handles : ref[c] \in Nat /\ (c \in registered => mq[c].m_release = 0)
  BY QueuesStep, Counted, GlobalQueueAssumption DEF IInv, QueuesOK, MQOver, Slots
<1>1. ASSUME NEW w \in Workers, TestFlag(w) PROVE TypeOK'
  BY <1>0, <1>1 DEF TestFlag, TypeOK, Goto, Locked, Threads, Labels, messageVars
<1>2. ASSUME NEW w \in Workers, ReadSlot(w) PROVE TypeOK'
  BY <1>0, <1>2 DEF ReadSlot, SlotInv, TypeOK, Goto, Locked, Threads, Labels, messageVars
<1>3. ASSUME NEW w \in Workers, ClearFlag(w) PROVE TypeOK'
  BY <1>0, <1>3 DEF ClearFlag, TypeOK, Goto, Locked, Threads, Labels, messageVars
<1>4. ASSUME NEW w \in Workers, Grab(w) PROVE TypeOK'
  BY <1>0, <1>4 DEF Grab, TypeOK, Goto, Locked, Threads, Labels, globalVars, messageVars
<1>5. ASSUME NEW w \in Workers, TakeMessage(w) PROVE TypeOK'
  <2>1. UNCHANGED <<queue, flag, owner, registered, ref, deleted, freed, cur, slot>>
    BY <1>5 DEF TakeMessage, globalVars
  <2>2. pc[w] = "mq_pop" /\ w \in Threads /\ \E label \in {"popped", "put"} : Goto(w, label)
    BY <1>5 DEF TakeMessage, Threads
  <2>3. QED
    BY <1>0, <2>1, <2>2 DEF TypeOK, Goto, Locked, Labels
<1>6. ASSUME NEW w \in Workers, FinishCallback(w) PROVE TypeOK'
  BY <1>0, <1>6 DEF FinishCallback, TypeOK, Goto, Locked, Threads, Labels, globalVars, messageVars
<1>7. ASSUME NEW w \in Workers, Reschedule(w) PROVE TypeOK'
  <2>1. StorePointer(w, cur[w]) /\ ~Locked(cur[w]) /\ cur[w] \in Handles
    BY <1>0, <1>7, RescheduleStep DEF Reschedule, SlotInv, Threads
  <2>2. QED
    BY <1>0, <1>7, <2>1 DEF Reschedule, TypeOK, Goto, StorePointer, Unscheduled, Locked, Threads, Labels,
       messageVars
<1>8. ASSUME NEW w \in Workers, ReleaseMQ(w) PROVE TypeOK'
  BY <1>0, <1>8 DEF ReleaseMQ, SlotInv, TypeOK, Goto, Unscheduled, PushBack, Locked, Threads, Labels,
     messageVars
<1>9. ASSUME NEW w \in Workers, RaiseFlagReleased(w) PROVE TypeOK'
  BY <1>0, <1>9 DEF RaiseFlagReleased, SlotInv, TypeOK, Goto, Forget, Locked, Threads, Labels, messageVars
<1>10. ASSUME NEW w \in Workers, DropPop(w) PROVE TypeOK'
  <2>1. UNCHANGED <<queue, flag, owner, registered, ref, deleted, freed, cur, slot>>
    BY <1>10 DEF DropPop, globalVars
  <2>2. pc[w] = "drop_pop" /\ w \in Threads /\ (Goto(w, "delete_mq") \/ UNCHANGED pc)
    BY <1>10 DEF DropPop, Threads
  <2>3. QED
    BY <1>0, <2>1, <2>2 DEF TypeOK, Goto, Locked, Labels
<1>11. ASSUME NEW w \in Workers, DeleteMQ(w) PROVE TypeOK'
  BY <1>0, <1>11 DEF DeleteMQ, SlotInv, TypeOK, Goto, Forget, Locked, Threads, Labels, globalVars, messageVars
<1>12. ASSUME NEW w \in Workers, TouchFreed(w) PROVE TypeOK'
  BY <1>0, <1>12 DEF TouchFreed, TypeOK, Goto, Locked, Threads, Labels, globalVars, messageVars
<1>13. ASSUME NEW s \in Senders, SendPush(s) PROVE TypeOK'
  <2>1. (StorePointer(s, cur[s]) \/ Unscheduled(s, "put")) /\ ~Locked(cur[s]) /\ cur[s] \in Handles
    BY <1>0, <1>13, SendStep DEF SendPush, SlotInv, Threads
  <2>2. pc[s] = "mq_push" /\ s \in Threads /\ UNCHANGED <<registered, ref, deleted, freed, cur>>
    BY <1>13 DEF SendPush, Threads
  <2>3. CASE StorePointer(s, cur[s])
    BY <1>0, <2>1, <2>2, <2>3 DEF StorePointer, Goto, TypeOK, Locked, Labels
  <2>4. CASE Unscheduled(s, "put")
    BY <1>0, <2>1, <2>2, <2>4 DEF Unscheduled, Goto, TypeOK, Locked, Labels
  <2>5. QED
    BY <2>1, <2>3, <2>4
<1>14. ASSUME NEW s \in Senders, NEW c \in Handles, SendGrab(s, c) PROVE TypeOK'
  BY <1>0, <1>14 DEF SendGrab, TypeOK, Goto, Locked, Threads, Labels, globalVars, messageVars
<1>15. ASSUME NEW k \in Retirers, NEW c \in Handles, Retire(k, c) PROVE TypeOK'
  BY <1>0, <1>15 DEF Retire, TypeOK, Goto, Locked, Threads, Labels, globalVars, messageVars
<1>16. ASSUME NEW t \in Threads, RaiseFlag(t) PROVE TypeOK'
  BY <1>0, <1>16 DEF RaiseFlag, SlotInv, TypeOK, Goto, Locked, Labels, messageVars
<1>17. ASSUME NEW t \in Threads, Put(t) PROVE TypeOK'
  <2>1. cur[t] \in Handles /\ ref[cur[t]] \in Nat \ {0}
    BY <1>0, <1>17, Counted DEF Put, Holds, SlotInv
  <2>2. QED
    BY <1>0, <1>17, <2>1 DEF Put, TypeOK, Goto, Forget, Locked, Labels, globalVars, messageVars
<1>18. ASSUME NEW t \in Threads, MarkRelease(t) PROVE TypeOK'
  BY <1>0, <1>18 DEF MarkRelease, TypeOK, Goto, Locked, Labels, globalVars, messageVars
<1>19. ASSUME NEW t \in Threads, DeleteContext(t) PROVE TypeOK'
  <2>1. cur[t] \in Handles \ registered
    BY <1>0, <1>19 DEF DeleteContext, SlotInv, IInv, ReleaseInv
  <2>2. QED
    BY <1>0, <1>19, <2>1 DEF DeleteContext, TypeOK, Goto, Forget, Locked, Labels, globalVars, messageVars
<1>20. ASSUME NEW w \in Workers, StartCallback(w) PROVE TypeOK'
  BY <1>0, <1>20 DEF StartCallback, TypeOK, Goto, Locked, Threads, Labels, globalVars, messageVars
<1>21. QED
  BY <1>1, <1>2, <1>3, <1>4, <1>5, <1>6, <1>7, <1>8, <1>9, <1>10, <1>11, <1>12, <1>13, <1>14, <1>15, <1>16,
     <1>17, <1>18, <1>19, <1>20 DEF Next, Dispatch, Common

\* A pointer that is stored stays one until another is stored over it.
LEMMA StoreSlot ==
    ASSUME IInv, NEW t \in Threads, cur[t] \in Handles, UNCHANGED cur,
           StorePointer(t, cur[t])
    PROVE  SlotInv'
BY DEF IInv, SlotInv, TypeOK, StorePointer, Goto

\* No step flags or reads a slot without a pointer, and a thread forgets its queue only when it is done.
LEMMA SlotStep == ASSUME IInv, Next PROVE SlotInv'
<1>0. TypeOK /\ SlotInv /\ 0 \in Slots
  BY GlobalQueueAssumption DEF IInv, Slots
<1>1. ASSUME NEW w \in Workers, TestFlag(w) PROVE SlotInv'
  BY <1>0, <1>1 DEF TestFlag, SlotInv, TypeOK, Goto, Threads, messageVars
<1>2. ASSUME NEW w \in Workers, ReadSlot(w) PROVE SlotInv'
  BY <1>0, <1>2 DEF ReadSlot, SlotInv, TypeOK, Goto, Threads, messageVars
<1>3. ASSUME NEW w \in Workers, ClearFlag(w) PROVE SlotInv'
  BY <1>0, <1>3 DEF ClearFlag, SlotInv, TypeOK, Goto, Threads, messageVars
<1>4. ASSUME NEW w \in Workers, Grab(w) PROVE SlotInv'
  BY <1>0, <1>4 DEF Grab, SlotInv, TypeOK, Goto, Threads, globalVars, messageVars
<1>5. ASSUME NEW w \in Workers, TakeMessage(w) PROVE SlotInv'
  <2>1. UNCHANGED <<queue, flag, cur, slot>>
    BY <1>5 DEF TakeMessage, globalVars
  <2>2. pc[w] = "mq_pop" /\ w \in Threads /\ \E label \in {"popped", "put"} : Goto(w, label)
    BY <1>5 DEF TakeMessage, Threads
  <2>3. QED
    BY <1>0, <2>1, <2>2 DEF TypeOK, SlotInv, Goto
<1>6. ASSUME NEW w \in Workers, FinishCallback(w) PROVE SlotInv'
  BY <1>0, <1>6 DEF FinishCallback, SlotInv, TypeOK, Goto, Threads, globalVars, messageVars
<1>7. ASSUME NEW w \in Workers, Reschedule(w) PROVE SlotInv'
  <2>1. StorePointer(w, cur[w]) /\ cur[w] \in Handles /\ w \in Threads
    BY <1>0, <1>7, RescheduleStep DEF Reschedule, SlotInv, Threads
  <2>2. UNCHANGED cur
    BY <1>7 DEF Reschedule
  <2>3. QED
    BY <1>0, <2>1, <2>2, StoreSlot DEF Reschedule
<1>8. ASSUME NEW w \in Workers, ReleaseMQ(w) PROVE SlotInv'
  BY <1>0, <1>8 DEF ReleaseMQ, SlotInv, TypeOK, Goto, Unscheduled, PushBack, Threads, messageVars
<1>9. ASSUME NEW w \in Workers, RaiseFlagReleased(w) PROVE SlotInv'
  BY <1>0, <1>9 DEF RaiseFlagReleased, SlotInv, TypeOK, Goto, Forget, Threads, messageVars
<1>10. ASSUME NEW w \in Workers, DropPop(w) PROVE SlotInv'
  BY <1>0, <1>10 DEF DropPop, SlotInv, TypeOK, Goto, Threads, globalVars
<1>11. ASSUME NEW w \in Workers, DeleteMQ(w) PROVE SlotInv'
  BY <1>0, <1>11 DEF DeleteMQ, SlotInv, TypeOK, Goto, Forget, Threads, globalVars, messageVars
<1>12. ASSUME NEW w \in Workers, TouchFreed(w) PROVE SlotInv'
  BY <1>0, <1>12 DEF TouchFreed, SlotInv, TypeOK, Goto, Threads, globalVars, messageVars
<1>13. ASSUME NEW s \in Senders, SendPush(s) PROVE SlotInv'
  <2>1. (StorePointer(s, cur[s]) \/ Unscheduled(s, "put")) /\ cur[s] \in Handles /\ s \in Threads
    BY <1>0, <1>13, SendStep DEF SendPush, SlotInv, Threads
  <2>2. UNCHANGED cur /\ pc[s] = "mq_push"
    BY <1>13 DEF SendPush
  <2>3. CASE StorePointer(s, cur[s])
    BY <1>0, <2>1, <2>2, <2>3, StoreSlot
  <2>4. CASE Unscheduled(s, "put")
    BY <1>0, <2>1, <2>2, <2>4 DEF Unscheduled, Goto, SlotInv, TypeOK
  <2>5. QED
    BY <2>1, <2>3, <2>4
<1>14. ASSUME NEW s \in Senders, NEW c \in Handles, SendGrab(s, c) PROVE SlotInv'
  BY <1>0, <1>14 DEF SendGrab, SlotInv, TypeOK, Goto, Threads, globalVars, messageVars
<1>15. ASSUME NEW k \in Retirers, NEW c \in Handles, Retire(k, c) PROVE SlotInv'
  BY <1>0, <1>15 DEF Retire, SlotInv, TypeOK, Goto, Threads, globalVars, messageVars
<1>16. ASSUME NEW t \in Threads, RaiseFlag(t) PROVE SlotInv'
  BY <1>0, <1>16 DEF RaiseFlag, SlotInv, TypeOK, Goto, messageVars
<1>17. ASSUME NEW t \in Threads, Put(t) PROVE SlotInv'
  BY <1>0, <1>17 DEF Put, SlotInv, TypeOK, Goto, Forget, globalVars, messageVars
<1>18. ASSUME NEW t \in Threads, MarkRelease(t) PROVE SlotInv'
  BY <1>0, <1>18 DEF MarkRelease, SlotInv, TypeOK, Goto, globalVars, messageVars
<1>19. ASSUME NEW t \in Threads, DeleteContext(t) PROVE SlotInv'
  BY <1>0, <1>19 DEF DeleteContext, SlotInv, TypeOK, Goto, Forget, globalVars, messageVars
<1>20. ASSUME NEW w \in Workers, StartCallback(w) PROVE SlotInv'
  BY <1>0, <1>20 DEF StartCallback, SlotInv, TypeOK, Goto, Threads, globalVars, messageVars
<1>21. QED
  BY <1>1, <1>2, <1>3, <1>4, <1>5, <1>6, <1>7, <1>8, <1>9, <1>10, <1>11, <1>12, <1>13, <1>14, <1>15, <1>16,
     <1>17, <1>18, <1>19, <1>20 DEF Next, Dispatch, Common

-----------------------------------------------------------------------------
One(b) == IF b THEN 1 ELSE 0

\* A step of t that takes or puts references.
LEMMA RefFrame ==
    ASSUME IInv, TypeOK', NEW t \in Threads, NEW c \in Handles,
           \A u \in Threads \ {t} : pc'[u] = pc[u] /\ cur'[u] = cur[u],
           ref'[c] + One(c \in registered) + One(Holds(t, c)) = ref[c] + One(c \in registered') + One(Holds(t, c)')
    PROVE  ref'[c] = Cardinality({c} \cap registered') + Cardinality(Holders(c)')
<1>1. ref[c] \in Nat /\ ref'[c] \in Nat
  BY DEF IInv, TypeOK
<1>2. ref[c] = Cardinality({c} \cap registered) + Cardinality(Holders(c))
  BY DEF IInv, RefInv
<1>3. Cardinality(Holders(c)) \in Nat
  BY Finite, FS_CardinalityType
<1>4. \A R : Cardinality({c} \cap R) = One(c \in R)
  <2>1. ASSUME NEW R, c \in R PROVE Cardinality({c} \cap R) = One(c \in R)
    <3>1. {c} \cap R = {c}
      BY <2>1
    <3>2. QED
      BY <2>1, <3>1, FS_Singleton DEF One
  <2>2. ASSUME NEW R, c \notin R PROVE Cardinality({c} \cap R) = One(c \in R)
    <3>1. {c} \cap R = {}
      BY <2>2
    <3>2. QED
      BY <2>2, <3>1, FS_EmptySet DEF One
  <2>3. QED
    BY <2>1, <2>2
<1>5. Cardinality(Holders(c)') + One(Holds(t, c)) = Cardinality(Holders(c)) + One(Holds(t, c)')
  <2>0. \A u \in Threads \ {t} : Holds(u, c)' <=> Holds(u, c)
    BY DEF Holds
  <2>1. CASE Holds(t, c)' <=> Holds(t, c)
    <3>1. Holders(c)' = Holders(c)
      BY <2>0, <2>1 DEF Holders
    <3>2. QED
      BY <2>1, <3>1, <1>3 DEF One
  <2>2. CASE Holds(t, c) /\ ~Holds(t, c)'
    <3>1. Holders(c)' = Holders(c) \ {t} /\ t \in Holders(c)
      BY <2>0, <2>2 DEF Holders
    <3>2. Cardinality(Holders(c)') = Cardinality(Holders(c)) - 1
      BY <3>1, Finite, FS_RemoveElement
    <3>3. QED
      BY <2>2, <3>2, <1>3 DEF One
  <2>3. CASE ~Holds(t, c) /\ Holds(t, c)'
    <3>1. Holders(c)' = Holders(c) \cup {t} /\ t \notin Holders(c)
      BY <2>0, <2>3 DEF Holders
    <3>2. Cardinality(Holders(c)') = Cardinality(Holders(c)) + 1
      BY <3>1, Finite, FS_AddElement
    <3>3. QED
      BY <2>3, <3>2, <1>3 DEF One
  <2>4. QED
    BY <2>1, <2>2, <2>3
<1>6. Cardinality(Holders(c)') \in Nat
  <2>1. Holders(c)' \subseteq Threads
    BY DEF Holders
  <2>2. QED
    BY <2>1, Finite, FS_Subset, FS_CardinalityType
<1>7. /\ One(c \in registered) \in Nat /\ One(c \in registered') \in Nat
      /\ One(Holds(t, c)) \in Nat /\ One(Holds(t, c)') \in Nat
  BY DEF One
<1>8. Cardinality({c} \cap registered) = One(c \in registered) /\ Cardinality({c} \cap registered') = One(c \in registered')
  BY <1>4
<1> DEFINE a == One(c \in registered)
           b == One(c \in registered')
           d == One(Holds(t, c))
           e == One(Holds(t, c)')
           m == Cardinality(Holders(c))
           n == Cardinality(Holders(c)')
           r == ref[c]
           s == ref'[c]
<1>9. s + a + d = r + b + e /\ r = a + m /\ n + d = m + e
  BY <1>2, <1>5, <1>8
<1>10. a \in Nat /\ b \in Nat /\ d \in Nat /\ e \in Nat /\ m \in Nat /\ n \in Nat /\ r \in Nat /\ s \in Nat
  BY <1>1, <1>3, <1>6, <1>7
<1> HIDE DEF a, b, d, e, m, n, r, s
<1>11. s = b + n
  BY <1>9, <1>10
<1>12. QED
  BY <1>8, <1>11 DEF b, n, s

\* A step that takes and puts none.
LEMMA RefSame ==
    ASSUME IInv, UNCHANGED <<ref, registered>>,
           \A u \in Threads, c \in Handles : Holds(u, c)' <=> Holds(u, c)
    PROVE  RefInv'
<1>1. \A c \in Handles : Holders(c)' = Holders(c)
  BY DEF Holders
<1>2. QED
  BY <1>1 DEF IInv, RefInv

\* Every step counts the references it takes and puts.
LEMMA RefStep == ASSUME IInv, Next PROVE RefInv'
<1>0. TypeOK /\ TypeOK' /\ SlotInv
  BY TypeStep DEF IInv
<1>1. ASSUME NEW w \in Workers, TestFlag(w) PROVE RefInv'
  <2>1. UNCHANGED <<ref, registered>> /\ \A u \in Threads, d \in Handles : Holds(u, d)' <=> Holds(u, d)
    BY <1>0, <1>1 DEF TestFlag, Holds, TypeOK, Goto, Threads
  <2>2. QED
    BY <2>1, RefSame
<1>2. ASSUME NEW w \in Workers, ReadSlot(w) PROVE RefInv'
  <2>1. UNCHANGED <<ref, registered>> /\ \A u \in Threads, d \in Handles : Holds(u, d)' <=> Holds(u, d)
    BY <1>0, <1>2 DEF ReadSlot, Holds, TypeOK, Goto, Threads
  <2>2. QED
    BY <2>1, RefSame
<1>3. ASSUME NEW w \in Workers, ClearFlag(w) PROVE RefInv'
  <2>1. UNCHANGED <<ref, registered>> /\ \A u \in Threads, d \in Handles : Holds(u, d)' <=> Holds(u, d)
    BY <1>0, <1>3 DEF ClearFlag, Holds, TypeOK, Goto, Threads
  <2>2. QED
    BY <2>1, RefSame
<1>4. ASSUME NEW w \in Workers, Grab(w) PROVE RefInv'
  <2>1. CASE cur[w] \in registered
    <3>1. /\ w \in Threads /\ pc[w] = "grab" /\ ref' = [ref EXCEPT ![cur[w]] = ref[cur[w]] + 1] /\ UNCHANGED <<registered, cur>>
          /\ pc' = [pc EXCEPT ![w] = "mq_pop"]
      BY <1>4, <2>1 DEF Grab, Goto, Threads
    <3>2. ASSUME NEW d \in Handles
          PROVE  ref'[d] + One(d \in registered) + One(Holds(w, d)) = ref[d] + One(d \in registered') + One(Holds(w, d)')
      <4>1. ref[d] \in Nat /\ One(d \in registered) \in Nat /\ registered' = registered
        BY <1>0, <3>1 DEF TypeOK, One
      <4>2. CASE d = cur[w]
        <5>1. ref'[d] = ref[d] + 1 /\ One(Holds(w, d)) = 0 /\ One(Holds(w, d)') = 1
          BY <1>0, <3>1, <4>2 DEF TypeOK, Holds, One
        <5>2. QED
          BY <4>1, <5>1
      <4>3. CASE d # cur[w]
        <5>1. ref'[d] = ref[d] /\ One(Holds(w, d)) = 0 /\ One(Holds(w, d)') = 0
          BY <1>0, <3>1, <4>3 DEF TypeOK, Holds, One
        <5>2. QED
          BY <4>1, <5>1
      <4>4. QED
        BY <4>2, <4>3
    <3>3. \A u \in Threads \ {w} : pc'[u] = pc[u] /\ cur'[u] = cur[u]
      BY <1>0, <3>1 DEF TypeOK
    <3>4. QED
      BY <1>0, <3>1, <3>2, <3>3, RefFrame DEF RefInv
  <2>2. CASE cur[w] \notin registered
    <3>1. UNCHANGED <<ref, registered>> /\ \A u \in Threads, d \in Handles : Holds(u, d)' <=> Holds(u, d)
      BY <1>0, <1>4, <2>2 DEF Grab, Holds, TypeOK, Goto, Threads
    <3>2. QED
      BY <3>1, RefSame
  <2>3. QED
    BY <2>1, <2>2
<1>5. ASSUME NEW w \in Workers, TakeMessage(w) PROVE RefInv'
  <2>1. /\ w \in Threads /\ pc[w] = "mq_pop" /\ UNCHANGED <<ref, registered, cur>>
        /\ \E label \in {"popped", "put"} : Goto(w, label)
    BY <1>5 DEF TakeMessage, Threads
  <2>2. \A u \in Threads, d \in Handles : Holds(u, d)' <=> Holds(u, d)
    BY <1>0, <2>1 DEF Holds, TypeOK, Goto
  <2>3. QED
    BY <2>1, <2>2, RefSame
<1>6. ASSUME NEW w \in Workers, FinishCallback(w) PROVE RefInv'
  <2>1. UNCHANGED <<ref, registered>> /\ \A u \in Threads, d \in Handles : Holds(u, d)' <=> Holds(u, d)
    BY <1>0, <1>6 DEF FinishCallback, Holds, TypeOK, Goto, Threads
  <2>2. QED
    BY <2>1, RefSame
<1>7. ASSUME NEW w \in Workers, Reschedule(w) PROVE RefInv'
  <2>1. StorePointer(w, cur[w]) /\ w \in Threads /\ pc[w] = "push_global" /\ UNCHANGED <<ref, registered, cur>>
    BY <1>7, RescheduleStep DEF Reschedule, Threads
  <2>2. \A u \in Threads, d \in Handles : Holds(u, d)' <=> Holds(u, d)
    BY <1>0, <2>1 DEF Holds, TypeOK, StorePointer, Goto
  <2>3. QED
    BY <2>1, <2>2, RefSame
<1>8. ASSUME NEW w \in Workers, ReleaseMQ(w) PROVE RefInv'
  <2>1. UNCHANGED <<ref, registered>> /\ \A u \in Threads, d \in Handles : Holds(u, d)' <=> Holds(u, d)
    BY <1>0, <1>8 DEF ReleaseMQ, Holds, TypeOK, Goto, Unscheduled, PushBack, Threads
  <2>2. QED
    BY <2>1, RefSame
<1>9. ASSUME NEW w \in Workers, RaiseFlagReleased(w) PROVE RefInv'
  <2>1. UNCHANGED <<ref, registered>> /\ \A u \in Threads, d \in Handles : Holds(u, d)' <=> Holds(u, d)
    BY <1>0, <1>9 DEF RaiseFlagReleased, Holds, TypeOK, Goto, Forget, Threads
  <2>2. QED
    BY <2>1, RefSame
<1>10. ASSUME NEW w \in Workers, DropPop(w) PROVE RefInv'
  <2>1. UNCHANGED <<ref, registered>> /\ \A u \in Threads, d \in Handles : Holds(u, d)' <=> Holds(u, d)
    BY <1>0, <1>10 DEF DropPop, Holds, TypeOK, Goto, Threads
  <2>2. QED
    BY <2>1, RefSame
<1>11. ASSUME NEW w \in Workers, DeleteMQ(w) PROVE RefInv'
  <2>1. UNCHANGED <<ref, registered>> /\ \A u \in Threads, d \in Handles : Holds(u, d)' <=> Holds(u, d)
    BY <1>0, <1>11 DEF DeleteMQ, Holds, TypeOK, Goto, Forget, Threads
  <2>2. QED
    BY <2>1, RefSame
<1>12. ASSUME NEW w \in Workers, TouchFreed(w) PROVE RefInv'
  <2>1. UNCHANGED <<ref, registered>> /\ \A u \in Threads, d \in Handles : Holds(u, d)' <=> Holds(u, d)
    BY <1>0, <1>12 DEF TouchFreed, Holds, TypeOK, Goto, Threads
  <2>2. QED
    BY <2>1, RefSame
<1>13. ASSUME NEW s \in Senders, SendPush(s) PROVE RefInv'
  <2>1. /\ StorePointer(s, cur[s]) \/ Unscheduled(s, "put")
        /\ s \in Threads /\ pc[s] = "mq_push" /\ UNCHANGED <<ref, registered, cur>>
    BY <1>13, SendStep DEF SendPush, Threads
  <2>2. \A u \in Threads, d \in Handles : Holds(u, d)' <=> Holds(u, d)
    BY <1>0, <2>1 DEF Holds, TypeOK, StorePointer, Unscheduled, Goto
  <2>3. QED
    BY <2>1, <2>2, RefSame
<1>14. ASSUME NEW s \in Senders, NEW c \in Handles, SendGrab(s, c) PROVE RefInv'
  <2>1. /\ s \in Threads /\ pc[s] = "idle" /\ ref' = [ref EXCEPT ![c] = ref[c] + 1] /\ UNCHANGED registered
        /\ cur' = [cur EXCEPT ![s] = c] /\ pc' = [pc EXCEPT ![s] = "mq_push"]
    BY <1>14 DEF SendGrab, Goto, Threads
  <2>2. ASSUME NEW d \in Handles
        PROVE  ref'[d] + One(d \in registered) + One(Holds(s, d)) = ref[d] + One(d \in registered') + One(Holds(s, d)')
    <3>1. ref[d] \in Nat /\ One(d \in registered) \in Nat /\ registered' = registered
      BY <1>0, <2>1 DEF TypeOK, One
    <3>2. CASE d = c
      <4>1. ref'[d] = ref[d] + 1 /\ One(Holds(s, d)) = 0 /\ One(Holds(s, d)') = 1
        BY <1>0, <2>1, <3>2 DEF TypeOK, Holds, One
      <4>2. QED
        BY <3>1, <4>1
    <3>3. CASE d # c
      <4>1. ref'[d] = ref[d] /\ One(Holds(s, d)) = 0 /\ One(Holds(s, d)') = 0
        BY <1>0, <2>1, <3>3 DEF TypeOK, Holds, One
      <4>2. QED
        BY <3>1, <4>1
    <3>4. QED
      BY <3>2, <3>3
  <2>3. \A u \in Threads \ {s} : pc'[u] = pc[u] /\ cur'[u] = cur[u]
    BY <1>0, <2>1 DEF TypeOK
  <2>4. QED
    BY <1>0, <2>1, <2>2, <2>3, RefFrame DEF RefInv
<1>15. ASSUME NEW k \in Retirers, NEW c \in Handles, Retire(k, c) PROVE RefInv'
  <2>1. /\ k \in Threads /\ pc[k] = "idle" /\ UNCHANGED ref /\ registered' = registered \ {c} /\ c \in registered
        /\ cur' = [cur EXCEPT ![k] = c] /\ pc' = [pc EXCEPT ![k] = "put"]
    BY <1>15 DEF Retire, Goto, Threads
  <2>2. ASSUME NEW d \in Handles
        PROVE  ref'[d] + One(d \in registered) + One(Holds(k, d)) = ref[d] + One(d \in registered') + One(Holds(k, d)')
    <3>1. ref[d] \in Nat /\ ref'[d] = ref[d]
      BY <1>0, <2>1 DEF TypeOK
    <3>2. CASE d = c
      <4>1. One(d \in registered) = 1 /\ One(d \in registered') = 0 /\ One(Holds(k, d)) = 0 /\ One(Holds(k, d)') = 1
        BY <1>0, <2>1, <3>2 DEF TypeOK, Holds, One
      <4>2. QED
        BY <3>1, <4>1
    <3>3. CASE d # c
      <4>1. One(d \in registered') = One(d \in registered) /\ One(d \in registered) \in Nat /\ One(Holds(k, d)) = 0 /\ One(Holds(k, d)') = 0
        BY <1>0, <2>1, <3>3 DEF TypeOK, Holds, One
      <4>2. QED
        BY <3>1, <4>1
    <3>4. QED
      BY <3>2, <3>3
  <2>3. \A u \in Threads \ {k} : pc'[u] = pc[u] /\ cur'[u] = cur[u]
    BY <1>0, <2>1 DEF TypeOK
  <2>4. QED
    BY <1>0, <2>1, <2>2, <2>3, RefFrame DEF RefInv
<1>16. ASSUME NEW t \in Threads, RaiseFlag(t) PROVE RefInv'
  <2>1. UNCHANGED <<ref, registered>> /\ \A u \in Threads, d \in Handles : Holds(u, d)' <=> Holds(u, d)
    BY <1>0, <1>16 DEF RaiseFlag, Holds, TypeOK, Goto
  <2>2. QED
    BY <2>1, RefSame
<1>17. ASSUME NEW t \in Threads, Put(t) PROVE RefInv'
  <2>1. /\ pc[t] = "put" /\ ref' = [ref EXCEPT ![cur[t]] = ref[cur[t]] - 1] /\ UNCHANGED registered
        /\ \A u \in Threads \ {t} : pc'[u] = pc[u] /\ cur'[u] = cur[u]
        /\ pc'[t] \in {"delete", "idle"}
    BY <1>0, <1>17 DEF Put, Goto, Forget, TypeOK
  <2>2. ASSUME NEW d \in Handles
        PROVE  ref'[d] + One(d \in registered) + One(Holds(t, d)) = ref[d] + One(d \in registered') + One(Holds(t, d)')
    <3>1. ref[d] \in Nat /\ One(d \in registered) \in Nat /\ registered' = registered
      BY <1>0, <2>1 DEF TypeOK, One
    <3>2. CASE d = cur[t]
      <4>1. ref'[d] = ref[d] - 1 /\ One(Holds(t, d)) = 1 /\ One(Holds(t, d)') = 0
        BY <1>0, <2>1, <3>2 DEF TypeOK, Holds, One
      <4>2. QED
        BY <3>1, <4>1
    <3>3. CASE d # cur[t]
      <4>1. ref'[d] = ref[d] /\ One(Holds(t, d)) = 0 /\ One(Holds(t, d)') = 0
        BY <1>0, <2>1, <3>3 DEF TypeOK, Holds, One
      <4>2. QED
        BY <3>1, <4>1
    <3>4. QED
      BY <3>2, <3>3
  <2>3. QED
    BY <1>0, <2>1, <2>2, RefFrame DEF RefInv
<1>18. ASSUME NEW t \in Threads, MarkRelease(t) PROVE RefInv'
  <2>1. UNCHANGED <<ref, registered>> /\ \A u \in Threads, d \in Handles : Holds(u, d)' <=> Holds(u, d)
    BY <1>0, <1>18 DEF MarkRelease, Holds, TypeOK, Goto
  <2>2. QED
    BY <2>1, RefSame
<1>19. ASSUME NEW t \in Threads, DeleteContext(t) PROVE RefInv'
  <2>1. UNCHANGED <<ref, registered>> /\ \A u \in Threads, d \in Handles : Holds(u, d)' <=> Holds(u, d)
    BY <1>0, <1>19 DEF DeleteContext, Holds, TypeOK, Goto, Forget
  <2>2. QED
    BY <2>1, RefSame
<1>20. ASSUME NEW w \in Workers, StartCallback(w) PROVE RefInv'
  <2>1. UNCHANGED <<ref, registered>> /\ \A u \in Threads, d \in Handles : Holds(u, d)' <=> Holds(u, d)
    BY <1>0, <1>20 DEF StartCallback, Holds, TypeOK, Goto, Threads
  <2>2. QED
    BY <2>1, RefSame
<1>21. QED
  BY <1>1, <1>2, <1>3, <1>4, <1>5, <1>6, <1>7, <1>8, <1>9, <1>10, <1>11, <1>12, <1>13, <1>14, <1>15, <1>16,
     <1>17, <1>18, <1>19, <1>20 DEF Next, Dispatch, Common

-----------------------------------------------------------------------------
\* A step of t that neither counts a reference nor marks a queue.
LEMMA ReleaseFrame ==
    ASSUME IInv, NEW t \in Threads, UNCHANGED ref,
           \A u \in Threads \ {t} : pc'[u] = pc[u] /\ cur'[u] = cur[u],
           \A d \in Handles : mq'[d].m_release = mq[d].m_release,
           \A d \in (deleted \cup freed)' : d \in deleted \cup freed \/ mq[d].m_release = 1,
           (deleted \cup freed)' \subseteq Handles, pc'[t] # "delete",
           pc'[t] \in {"delete_context", "drop_pop", "delete_mq"} =>
               cur'[t] \in Handles /\ mq[cur'[t]].m_release = 1
    PROVE  ReleaseInv'
<1>1. ReleaseInv /\ SlotInv
  BY DEF IInv
<1>2. \A u \in Threads \ {t} : pc[u] \in {"delete", "delete_context", "drop_pop", "delete_mq"} => cur[u] \in Handles
  BY <1>1 DEF SlotInv
<1>3. QED
  BY <1>1, <1>2 DEF ReleaseInv

\* Every step deletes in this order: the last reference, the mark, the context and the queue.
LEMMA ReleaseStep == ASSUME IInv, Next PROVE ReleaseInv'
<1>0. /\ TypeOK /\ SlotInv /\ ReleaseInv
      /\ \A c \in Handles : /\ ref[c] \in Nat /\ (c \in registered => ref[c] >= 1 /\ mq[c].m_release = 0)
                            /\ \A t \in Threads : Holds(t, c) => ref[c] >= 1 /\ mq[c].m_release = 0
  BY Counted DEF IInv
<1>1. ASSUME NEW w \in Workers, TestFlag(w) PROVE ReleaseInv'
  <2>1. /\ w \in Threads /\ UNCHANGED <<ref, mq>>
        /\ \A u \in Threads \ {w} : pc'[u] = pc[u] /\ cur'[u] = cur[u]
        /\ (deleted \cup freed)' \subseteq Handles /\ \A d \in (deleted \cup freed)' : d \in deleted \cup freed \/ mq[d].m_release = 1
        /\ pc'[w] # "delete"
        /\ pc'[w] \in {"delete_context", "drop_pop", "delete_mq"} => cur'[w] \in Handles /\ mq[cur'[w]].m_release = 1
    BY <1>0, <1>1 DEF TestFlag, SlotInv, ReleaseInv, TypeOK, Goto, Threads, messageVars
  <2>2. QED
    BY <2>1, ReleaseFrame
<1>2. ASSUME NEW w \in Workers, ReadSlot(w) PROVE ReleaseInv'
  <2>1. /\ w \in Threads /\ UNCHANGED <<ref, mq>>
        /\ \A u \in Threads \ {w} : pc'[u] = pc[u] /\ cur'[u] = cur[u]
        /\ (deleted \cup freed)' \subseteq Handles /\ \A d \in (deleted \cup freed)' : d \in deleted \cup freed \/ mq[d].m_release = 1
        /\ pc'[w] # "delete"
        /\ pc'[w] \in {"delete_context", "drop_pop", "delete_mq"} => cur'[w] \in Handles /\ mq[cur'[w]].m_release = 1
    BY <1>0, <1>2 DEF ReadSlot, SlotInv, ReleaseInv, TypeOK, Goto, Threads, messageVars
  <2>2. QED
    BY <2>1, ReleaseFrame
<1>3. ASSUME NEW w \in Workers, ClearFlag(w) PROVE ReleaseInv'
  <2>1. /\ w \in Threads /\ UNCHANGED <<ref, mq>>
        /\ \A u \in Threads \ {w} : pc'[u] = pc[u] /\ cur'[u] = cur[u]
        /\ (deleted \cup freed)' \subseteq Handles /\ \A d \in (deleted \cup freed)' : d \in deleted \cup freed \/ mq[d].m_release = 1
        /\ pc'[w] # "delete"
        /\ pc'[w] \in {"delete_context", "drop_pop", "delete_mq"} => cur'[w] \in Handles /\ mq[cur'[w]].m_release = 1
    BY <1>0, <1>3 DEF ClearFlag, SlotInv, ReleaseInv, TypeOK, Goto, Threads, messageVars
  <2>2. QED
    BY <2>1, ReleaseFrame
<1>4. ASSUME NEW w \in Workers, Grab(w) PROVE ReleaseInv'
  <2>1. CASE cur[w] \in registered
    <3>1. /\ w \in Threads /\ pc[w] = "grab" /\ ref' = [ref EXCEPT ![cur[w]] = ref[cur[w]] + 1] /\ UNCHANGED <<mq, cur, deleted, freed>>
          /\ pc' = [pc EXCEPT ![w] = "mq_pop"]
      BY <1>4, <2>1 DEF Grab, Goto, Threads
    <3>2. cur[w] \in Handles /\ ref[cur[w]] >= 1 /\ mq[cur[w]].m_release = 0
      BY <1>0, <2>1, <3>1 DEF SlotInv
    <3>3. QED
      BY <1>0, <3>1, <3>2 DEF ReleaseInv, TypeOK, SlotInv
  <2>2. CASE cur[w] \notin registered
    <3>1. /\ w \in Threads /\ UNCHANGED <<ref, mq>>
          /\ \A u \in Threads \ {w} : pc'[u] = pc[u] /\ cur'[u] = cur[u]
          /\ (deleted \cup freed)' \subseteq Handles /\ \A d \in (deleted \cup freed)' : d \in deleted \cup freed \/ mq[d].m_release = 1
          /\ pc'[w] # "delete"
          /\ pc'[w] \in {"delete_context", "drop_pop", "delete_mq"} => cur'[w] \in Handles /\ mq[cur'[w]].m_release = 1
      BY <1>0, <1>4, <2>2 DEF Grab, SlotInv, ReleaseInv, TypeOK, Goto, Threads, globalVars, messageVars
    <3>2. QED
      BY <3>1, ReleaseFrame
  <2>3. QED
    BY <2>1, <2>2
<1>5. ASSUME NEW w \in Workers, TakeMessage(w) PROVE ReleaseInv'
  <2>1. /\ (\E mark : MqStep(cur[w], mq[cur[w]].m_release, mark)) \/ UNCHANGED mq
        /\ w \in Threads /\ UNCHANGED <<ref, cur, deleted, freed>> /\ cur[w] \in Handles
    BY <1>0, <1>5, TakeStep DEF TakeMessage, SlotInv, Threads
  <2>2. pc[w] = "mq_pop" /\ \E label \in {"popped", "put"} : Goto(w, label)
    BY <1>5 DEF TakeMessage
  <2>3. \A d \in Handles : mq'[d].m_release = mq[d].m_release
    BY <1>0, <2>1 DEF MqStep
  <2>4. \A u \in Threads \ {w} : pc'[u] = pc[u] /\ cur'[u] = cur[u]
    BY <1>0, <2>1, <2>2 DEF TypeOK, Goto
  <2>5. /\ pc'[w] # "delete"
        /\ pc'[w] \in {"delete_context", "drop_pop", "delete_mq"} => cur'[w] \in Handles /\ mq[cur'[w]].m_release = 1
    BY <1>0, <2>1, <2>2 DEF TypeOK, Goto, ReleaseInv
  <2>6. QED
    BY <1>0, <2>1, <2>3, <2>4, <2>5, ReleaseFrame DEF TypeOK
<1>6. ASSUME NEW w \in Workers, FinishCallback(w) PROVE ReleaseInv'
  <2>1. /\ w \in Threads /\ UNCHANGED <<ref, mq>>
        /\ \A u \in Threads \ {w} : pc'[u] = pc[u] /\ cur'[u] = cur[u]
        /\ (deleted \cup freed)' \subseteq Handles /\ \A d \in (deleted \cup freed)' : d \in deleted \cup freed \/ mq[d].m_release = 1
        /\ pc'[w] # "delete"
        /\ pc'[w] \in {"delete_context", "drop_pop", "delete_mq"} => cur'[w] \in Handles /\ mq[cur'[w]].m_release = 1
    BY <1>0, <1>6 DEF FinishCallback, SlotInv, ReleaseInv, TypeOK, Goto, Threads, globalVars, messageVars
  <2>2. QED
    BY <2>1, ReleaseFrame
<1>7. ASSUME NEW w \in Workers, Reschedule(w) PROVE ReleaseInv'
  <2>1. /\ MqStep(cur[w], mq[cur[w]].m_release, MQ_IN_GLOBAL) /\ StorePointer(w, cur[w])
        /\ w \in Threads /\ UNCHANGED <<ref, cur, deleted, freed>>
    BY <1>7, RescheduleStep DEF Reschedule, Threads
  <2>2. \A d \in Handles : mq'[d].m_release = mq[d].m_release
    BY <1>0, <2>1 DEF MqStep
  <2>3. \A u \in Threads \ {w} : pc'[u] = pc[u] /\ cur'[u] = cur[u]
    BY <1>0, <2>1 DEF TypeOK, Goto, StorePointer, Unscheduled
  <2>4. /\ pc'[w] # "delete"
        /\ pc'[w] \in {"delete_context", "drop_pop", "delete_mq"} => cur'[w] \in Handles /\ mq[cur'[w]].m_release = 1
    BY <1>0, <2>1 DEF TypeOK, Goto, StorePointer, Unscheduled, SlotInv, ReleaseInv
  <2>5. QED
    BY <1>0, <2>1, <2>2, <2>3, <2>4, ReleaseFrame DEF TypeOK
<1>8. ASSUME NEW w \in Workers, ReleaseMQ(w) PROVE ReleaseInv'
  <2>1. /\ w \in Threads /\ UNCHANGED <<ref, mq>>
        /\ \A u \in Threads \ {w} : pc'[u] = pc[u] /\ cur'[u] = cur[u]
        /\ (deleted \cup freed)' \subseteq Handles /\ \A d \in (deleted \cup freed)' : d \in deleted \cup freed \/ mq[d].m_release = 1
        /\ pc'[w] # "delete"
        /\ pc'[w] \in {"delete_context", "drop_pop", "delete_mq"} => cur'[w] \in Handles /\ mq[cur'[w]].m_release = 1
    BY <1>0, <1>8 DEF ReleaseMQ, SlotInv, ReleaseInv, TypeOK, Goto, Unscheduled, PushBack, Threads,
       messageVars
  <2>2. QED
    BY <2>1, ReleaseFrame
<1>9. ASSUME NEW w \in Workers, RaiseFlagReleased(w) PROVE ReleaseInv'
  <2>1. /\ w \in Threads /\ UNCHANGED <<ref, mq>>
        /\ \A u \in Threads \ {w} : pc'[u] = pc[u] /\ cur'[u] = cur[u]
        /\ (deleted \cup freed)' \subseteq Handles /\ \A d \in (deleted \cup freed)' : d \in deleted \cup freed \/ mq[d].m_release = 1
        /\ pc'[w] # "delete"
        /\ pc'[w] \in {"delete_context", "drop_pop", "delete_mq"} => cur'[w] \in Handles /\ mq[cur'[w]].m_release = 1
    BY <1>0, <1>9 DEF RaiseFlagReleased, SlotInv, ReleaseInv, TypeOK, Goto, Forget, Threads, messageVars
  <2>2. QED
    BY <2>1, ReleaseFrame
<1>10. ASSUME NEW w \in Workers, DropPop(w) PROVE ReleaseInv'
  <2>1. /\ (\E mark : MqStep(cur[w], mq[cur[w]].m_release, mark)) \/ UNCHANGED mq
        /\ w \in Threads /\ UNCHANGED <<ref, cur, deleted, freed>> /\ cur[w] \in Handles
    BY <1>0, <1>10, TakeStep DEF DropPop, SlotInv, Threads
  <2>2. pc[w] = "drop_pop" /\ (Goto(w, "delete_mq") \/ UNCHANGED pc)
    BY <1>10 DEF DropPop
  <2>3. \A d \in Handles : mq'[d].m_release = mq[d].m_release
    BY <1>0, <2>1 DEF MqStep
  <2>4. \A u \in Threads \ {w} : pc'[u] = pc[u] /\ cur'[u] = cur[u]
    BY <1>0, <2>1, <2>2 DEF TypeOK, Goto
  <2>5. /\ pc'[w] # "delete"
        /\ pc'[w] \in {"delete_context", "drop_pop", "delete_mq"} => cur'[w] \in Handles /\ mq[cur'[w]].m_release = 1
    BY <1>0, <2>1, <2>2 DEF TypeOK, Goto, ReleaseInv
  <2>6. QED
    BY <1>0, <2>1, <2>3, <2>4, <2>5, ReleaseFrame DEF TypeOK
<1>11. ASSUME NEW w \in Workers, DeleteMQ(w) PROVE ReleaseInv'
  <2>1. /\ w \in Threads /\ UNCHANGED <<ref, mq>>
        /\ \A u \in Threads \ {w} : pc'[u] = pc[u] /\ cur'[u] = cur[u]
        /\ (deleted \cup freed)' \subseteq Handles /\ \A d \in (deleted \cup freed)' : d \in deleted \cup freed \/ mq[d].m_release = 1
        /\ pc'[w] # "delete"
        /\ pc'[w] \in {"delete_context", "drop_pop", "delete_mq"} => cur'[w] \in Handles /\ mq[cur'[w]].m_release = 1
    BY <1>0, <1>11 DEF DeleteMQ, SlotInv, ReleaseInv, TypeOK, Goto, Forget, Threads, globalVars, messageVars
  <2>2. QED
    BY <2>1, ReleaseFrame
<1>12. ASSUME NEW w \in Workers, TouchFreed(w) PROVE ReleaseInv'
  <2>1. /\ w \in Threads /\ UNCHANGED <<ref, mq>>
        /\ \A u \in Threads \ {w} : pc'[u] = pc[u] /\ cur'[u] = cur[u]
        /\ (deleted \cup freed)' \subseteq Handles /\ \A d \in (deleted \cup freed)' : d \in deleted \cup freed \/ mq[d].m_release = 1
        /\ pc'[w] # "delete"
        /\ pc'[w] \in {"delete_context", "drop_pop", "delete_mq"} => cur'[w] \in Handles /\ mq[cur'[w]].m_release = 1
    BY <1>0, <1>12 DEF TouchFreed, SlotInv, ReleaseInv, TypeOK, Goto, Threads, globalVars, messageVars
  <2>2. QED
    BY <2>1, ReleaseFrame
<1>13. ASSUME NEW s \in Senders, SendPush(s) PROVE ReleaseInv'
  <2>1. /\ \E mark : MqStep(cur[s], mq[cur[s]].m_release, mark)
        /\ StorePointer(s, cur[s]) \/ Unscheduled(s, "put")
        /\ s \in Threads /\ UNCHANGED <<ref, cur, deleted, freed>>
    BY <1>13, SendStep DEF SendPush, Threads
  <2>2. \A d \in Handles : mq'[d].m_release = mq[d].m_release
    BY <1>0, <2>1 DEF MqStep
  <2>3. \A u \in Threads \ {s} : pc'[u] = pc[u] /\ cur'[u] = cur[u]
    BY <1>0, <2>1 DEF TypeOK, Goto, StorePointer, Unscheduled
  <2>4. /\ pc'[s] # "delete"
        /\ pc'[s] \in {"delete_context", "drop_pop", "delete_mq"} => cur'[s] \in Handles /\ mq[cur'[s]].m_release = 1
    BY <1>0, <2>1 DEF TypeOK, Goto, StorePointer, Unscheduled, SlotInv, ReleaseInv
  <2>5. QED
    BY <1>0, <2>1, <2>2, <2>3, <2>4, ReleaseFrame DEF TypeOK
<1>14. ASSUME NEW s \in Senders, NEW c \in Handles, SendGrab(s, c) PROVE ReleaseInv'
  <2>1. /\ s \in Threads /\ pc[s] = "idle" /\ ref' = [ref EXCEPT ![c] = ref[c] + 1] /\ UNCHANGED <<mq, deleted, freed>>
        /\ cur' = [cur EXCEPT ![s] = c] /\ pc' = [pc EXCEPT ![s] = "mq_push"]
        /\ c \in registered
    BY <1>14 DEF SendGrab, Goto, Threads
  <2>2. ref[c] >= 1 /\ mq[c].m_release = 0
    BY <1>0, <2>1
  <2>3. QED
    BY <1>0, <2>1, <2>2 DEF ReleaseInv, TypeOK, SlotInv
<1>15. ASSUME NEW k \in Retirers, NEW c \in Handles, Retire(k, c) PROVE ReleaseInv'
  <2>1. /\ k \in Threads /\ UNCHANGED <<ref, mq>>
        /\ \A u \in Threads \ {k} : pc'[u] = pc[u] /\ cur'[u] = cur[u]
        /\ (deleted \cup freed)' \subseteq Handles /\ \A d \in (deleted \cup freed)' : d \in deleted \cup freed \/ mq[d].m_release = 1
        /\ pc'[k] # "delete"
        /\ pc'[k] \in {"delete_context", "drop_pop", "delete_mq"} => cur'[k] \in Handles /\ mq[cur'[k]].m_release = 1
    BY <1>0, <1>15 DEF Retire, SlotInv, ReleaseInv, TypeOK, Goto, Threads, globalVars, messageVars
  <2>2. QED
    BY <2>1, ReleaseFrame
<1>16. ASSUME NEW t \in Threads, RaiseFlag(t) PROVE ReleaseInv'
  <2>1. /\ t \in Threads /\ UNCHANGED <<ref, mq>>
        /\ \A u \in Threads \ {t} : pc'[u] = pc[u] /\ cur'[u] = cur[u]
        /\ (deleted \cup freed)' \subseteq Handles /\ \A d \in (deleted \cup freed)' : d \in deleted \cup freed \/ mq[d].m_release = 1
        /\ pc'[t] # "delete"
        /\ pc'[t] \in {"delete_context", "drop_pop", "delete_mq"} => cur'[t] \in Handles /\ mq[cur'[t]].m_release = 1
    BY <1>0, <1>16 DEF RaiseFlag, SlotInv, ReleaseInv, TypeOK, Goto, messageVars
  <2>2. QED
    BY <2>1, ReleaseFrame
<1>17. ASSUME NEW t \in Threads, Put(t) PROVE ReleaseInv'
  <2>1. /\ pc[t] = "put" /\ ref' = [ref EXCEPT ![cur[t]] = ref[cur[t]] - 1] /\ UNCHANGED <<mq, deleted, freed>>
        /\ \A u \in Threads \ {t} : pc'[u] = pc[u] /\ cur'[u] = cur[u]
        /\ pc'[t] = "idle" \/ (pc'[t] = "delete" /\ cur'[t] = cur[t] /\ ref[cur[t]] = 1)
    BY <1>0, <1>17 DEF Put, Goto, Forget, TypeOK, messageVars
  <2>2. cur[t] \in Handles /\ ref[cur[t]] >= 1 /\ mq[cur[t]].m_release = 0
    BY <1>0, <2>1 DEF SlotInv, Holds
  <2>3. \A d \in Handles : ref'[d] = IF d = cur[t] THEN ref[d] - 1 ELSE ref[d]
    BY <1>0, <2>1 DEF TypeOK
  <2>4. \A d \in Handles : mq[d].m_release = 1 => ref'[d] = 0
    BY <1>0, <2>2, <2>3 DEF ReleaseInv
  <2>5. ASSUME NEW u \in Threads, pc'[u] = "delete" PROVE cur'[u] \in Handles /\ ref'[cur'[u]] = 0 /\ mq[cur'[u]].m_release = 0
    <3>1. CASE u = t
      BY <2>1, <2>2, <2>3, <2>5, <3>1
    <3>2. CASE u # t
      <4>1. pc[u] = "delete" /\ cur'[u] = cur[u] /\ ref[cur[u]] = 0 /\ mq[cur[u]].m_release = 0 /\ cur[u] \in Handles
        BY <1>0, <2>1, <2>5, <3>2 DEF ReleaseInv, SlotInv
      <4>2. QED
        BY <2>2, <2>3, <4>1
    <3>3. QED
      BY <3>1, <3>2
  <2>6. \A u, v \in Threads : u # v /\ pc'[u] = "delete" /\ pc'[v] = "delete" => cur'[u] # cur'[v]
    BY <1>0, <2>1 DEF ReleaseInv
  <2>7. \A u \in Threads : pc'[u] \in {"delete_context", "drop_pop", "delete_mq"} => mq[cur'[u]].m_release = 1
    BY <1>0, <2>1 DEF ReleaseInv
  <2>8. QED
    BY <1>0, <2>1, <2>4, <2>5, <2>6, <2>7 DEF ReleaseInv
<1>18. ASSUME NEW t \in Threads, MarkRelease(t) PROVE ReleaseInv'
  <2>1. /\ MqStep(cur[t], 1, mq[cur[t]].in_global) /\ pc[t] = "delete" /\ UNCHANGED <<ref, cur, deleted, freed>>
        /\ pc' = [pc EXCEPT ![t] = "delete_context"]
    BY <1>18, MarkStep DEF MarkRelease, Goto
  <2>2. cur[t] \in Handles /\ ref[cur[t]] = 0
    BY <1>0, <2>1 DEF SlotInv, ReleaseInv
  <2>3. \A d \in Handles : mq'[d].m_release = IF d = cur[t] THEN 1 ELSE mq[d].m_release
    BY <2>1, <2>2 DEF MqStep
  <2>4. \A u \in Threads : pc'[u] = IF u = t THEN "delete_context" ELSE pc[u]
    BY <1>0, <2>1 DEF TypeOK
  <2>5. \A d \in Handles : mq'[d].m_release = 1 => ref[d] = 0
    BY <1>0, <2>2, <2>3 DEF ReleaseInv
  <2>6. \A d \in deleted \cup freed : mq'[d].m_release = 1
    BY <1>0, <2>3 DEF ReleaseInv, TypeOK
  <2>7. ASSUME NEW u \in Threads
        PROVE  /\ pc'[u] = "delete" => ref[cur[u]] = 0 /\ mq'[cur[u]].m_release = 0
               /\ pc'[u] \in {"delete_context", "drop_pop", "delete_mq"} => mq'[cur[u]].m_release = 1
    BY <1>0, <2>1, <2>3, <2>4 DEF ReleaseInv, SlotInv
  <2>8. \A u, v \in Threads : u # v /\ pc'[u] = "delete" /\ pc'[v] = "delete" => cur[u] # cur[v]
    BY <1>0, <2>4 DEF ReleaseInv
  <2>9. QED
    BY <2>1, <2>5, <2>6, <2>7, <2>8 DEF ReleaseInv
<1>19. ASSUME NEW t \in Threads, DeleteContext(t) PROVE ReleaseInv'
  <2>1. /\ t \in Threads /\ UNCHANGED <<ref, mq>>
        /\ \A u \in Threads \ {t} : pc'[u] = pc[u] /\ cur'[u] = cur[u]
        /\ (deleted \cup freed)' \subseteq Handles /\ \A d \in (deleted \cup freed)' : d \in deleted \cup freed \/ mq[d].m_release = 1
        /\ pc'[t] # "delete"
        /\ pc'[t] \in {"delete_context", "drop_pop", "delete_mq"} => cur'[t] \in Handles /\ mq[cur'[t]].m_release = 1
    BY <1>0, <1>19 DEF DeleteContext, SlotInv, ReleaseInv, TypeOK, Goto, Forget, globalVars, messageVars
  <2>2. QED
    BY <2>1, ReleaseFrame
<1>20. ASSUME NEW w \in Workers, StartCallback(w) PROVE ReleaseInv'
  <2>1. /\ w \in Threads /\ UNCHANGED <<ref, mq>>
        /\ \A u \in Threads \ {w} : pc'[u] = pc[u] /\ cur'[u] = cur[u]
        /\ (deleted \cup freed)' \subseteq Handles /\ \A d \in (deleted \cup freed)' : d \in deleted \cup freed \/ mq[d].m_release = 1
        /\ pc'[w] # "delete"
        /\ pc'[w] \in {"delete_context", "drop_pop", "delete_mq"} => cur'[w] \in Handles /\ mq[cur'[w]].m_release = 1
    BY <1>0, <1>20 DEF StartCallback, SlotInv, ReleaseInv, TypeOK, Goto, Threads, globalVars, messageVars
  <2>2. QED
    BY <2>1, ReleaseFrame
<1>21. QED
  BY <1>1, <1>2, <1>3, <1>4, <1>5, <1>6, <1>7, <1>8, <1>9, <1>10, <1>11, <1>12, <1>13, <1>14, <1>15, <1>16,
     <1>17, <1>18, <1>19, <1>20 DEF Next, Dispatch, Common

-----------------------------------------------------------------------------
\* Only drop_queue leaks, and it runs on a released queue.
LEMMA LeakStep == ASSUME IInv, Next PROVE LeakInv'
<1>0. LeakInv /\ ReleaseInv /\ SlotInv /\ QueuesOK
  BY DEF IInv
<1>1. ASSUME NEW w \in Workers, TakeMessage(w) PROVE LeakInv'
  <2>1. (\E mark : MqStep(cur[w], mq[cur[w]].m_release, mark)) \/ UNCHANGED mq
    BY <1>1, TakeStep DEF TakeMessage
  <2>2. UNCHANGED leaked
    BY <1>1 DEF TakeMessage
  <2>3. QED
    BY <1>0, <2>1, <2>2 DEF LeakInv, MqStep
<1>2. ASSUME NEW w \in Workers, Reschedule(w) PROVE LeakInv'
  <2>1. MqStep(cur[w], mq[cur[w]].m_release, MQ_IN_GLOBAL) /\ UNCHANGED leaked
    BY <1>2, RescheduleStep DEF Reschedule, messageVars
  <2>2. QED
    BY <1>0, <2>1 DEF LeakInv, MqStep
<1>3. ASSUME NEW w \in Workers, DropPop(w) PROVE LeakInv'
  <2>1. (\E mark : MqStep(cur[w], mq[cur[w]].m_release, mark)) \/ UNCHANGED mq
    BY <1>3, TakeStep DEF DropPop
  <2>2. mq[cur[w]].m_release = 1 /\ cur[w] \in Handles
    BY <1>0, <1>3 DEF DropPop, ReleaseInv, SlotInv, Threads
  <2>3. \A d \in Handles \ {cur[w]} : leaked'[d] = leaked[d]
    BY <1>0, <1>3 DEF DropPop, QueuesOK
  <2>4. QED
    BY <1>0, <2>1, <2>2, <2>3 DEF LeakInv, MqStep
<1>4. ASSUME NEW s \in Senders, SendPush(s) PROVE LeakInv'
  <2>1. (\E mark : MqStep(cur[s], mq[cur[s]].m_release, mark)) /\ UNCHANGED leaked
    BY <1>4, SendStep DEF SendPush
  <2>2. QED
    BY <1>0, <2>1 DEF LeakInv, MqStep
<1>5. ASSUME NEW t \in Threads, MarkRelease(t) PROVE LeakInv'
  <2>1. MqStep(cur[t], 1, mq[cur[t]].in_global) /\ UNCHANGED leaked
    BY <1>5, MarkStep DEF MarkRelease, messageVars
  <2>2. QED
    BY <1>0, <2>1 DEF LeakInv, MqStep
<1>6. CASE UNCHANGED <<mq, sent, taken, leaked>>
  BY <1>0, <1>6 DEF LeakInv
<1>7. QED
  BY <1>1, <1>2, <1>3, <1>4, <1>5, <1>6, QueueActions

\* A queue is a sequence that grows at its end and shrinks at its head.
LEMMA QueueConcat ==
    ASSUME NEW S, NEW a \in Seq(S), NEW b \in Seq(S), NEW e \in S
    PROVE  /\ a \o Append(b, e) = Append(a \o b, e)
           /\ b # <<>> => Append(a, b[1]) \o Tail(b) = a \o b
           /\ a \o <<>> = a
<1>1. a \o Append(b, e) = Append(a \o b, e)
  <2>1. Append(b, e) \in Seq(S) /\ a \o b \in Seq(S) /\ a \o Append(b, e) \in Seq(S) /\ Append(a \o b, e) \in Seq(S)
    OBVIOUS
  <2>2. Len(a \o Append(b, e)) = Len(Append(a \o b, e))
    OBVIOUS
  <2>3. ASSUME NEW i \in 1 .. Len(a \o Append(b, e)) PROVE (a \o Append(b, e))[i] = Append(a \o b, e)[i]
    OBVIOUS
  <2>4. QED
    BY <2>1, <2>2, <2>3, SeqEqual
<1>2. ASSUME b # <<>> PROVE Append(a, b[1]) \o Tail(b) = a \o b
  <2>1. Len(b) \in Nat \ {0} /\ b[1] \in S
    BY <1>2
  <2>2. Append(a, b[1]) \in Seq(S) /\ Tail(b) \in Seq(S) /\ Append(a, b[1]) \o Tail(b) \in Seq(S) /\ a \o b \in Seq(S)
    BY <1>2, <2>1
  <2>3. Len(Append(a, b[1])) = Len(a) + 1 /\ Len(Tail(b)) = Len(b) - 1
    BY <1>2, <2>1
  <2>4. Len(Append(a, b[1]) \o Tail(b)) = Len(a \o b)
    BY <2>1, <2>2, <2>3
  <2>5. ASSUME NEW i \in 1 .. Len(a \o b) PROVE (Append(a, b[1]) \o Tail(b))[i] = (a \o b)[i]
    BY <1>2, <2>1, <2>2, <2>3
  <2>6. QED
    BY <2>2, <2>4, <2>5, SeqEqual
<1>3. a \o <<>> = a
  BY ConcatEmptySeq
<1>4. QED
  BY <1>1, <1>2, <1>3


\* What was taken and what was leaked, before what waits.
LEMMA HistoryConcat ==
    ASSUME NEW S, NEW a \in Seq(S), NEW b \in Seq(S), NEW d \in Seq(S)
    PROVE  /\ \A e \in S : a \o b \o Append(d, e) = Append(a \o b \o d, e)
           /\ d # <<>> /\ b = <<>> => Append(a, d[1]) \o b \o Tail(d) = a \o b \o d
<1> DEFINE f == a \o b
<1>1. f \in Seq(S)
  OBVIOUS
<1> HIDE DEF f
<1>2. \A e \in S : f \o Append(d, e) = Append(f \o d, e)
  BY <1>1, QueueConcat
<1>3. ASSUME d # <<>>, b = <<>> PROVE Append(a, d[1]) \o b \o Tail(d) = f \o d
  <2>1. d[1] \in S /\ Append(a, d[1]) \in Seq(S)
    BY <1>3
  <2>2. Append(a, d[1]) \o b = Append(a, d[1]) /\ f = a
    BY <1>3, <2>1, QueueConcat DEF f
  <2>3. Append(a, d[1]) \o Tail(d) = a \o d
    BY <1>3, QueueConcat
  <2>4. QED
    BY <2>2, <2>3
<1>4. QED
  BY <1>2, <1>3 DEF f

\* What was taken, then what was leaked, then what waits.
History(a, b, d) == a \o b \o d

\* drop_queue moves the head of what waits to what is leaked.
LEMMA LeakConcat ==
    ASSUME NEW S, NEW a \in Seq(S), NEW b \in Seq(S), NEW d \in Seq(S), d # <<>>
    PROVE  History(a, Append(b, d[1]), Tail(d)) = History(a, b, d)
<1>1. a \o b \in Seq(S) /\ d[1] \in S
  OBVIOUS
<1>2. a \o Append(b, d[1]) = Append(a \o b, d[1])
  BY <1>1, QueueConcat
<1>3. Append(a \o b, d[1]) \o Tail(d) = (a \o b) \o d
  BY <1>1, QueueConcat
<1>4. QED
  BY <1>2, <1>3 DEF History

\* Every step keeps each pushed message in its place: taken, leaked or waiting.
LEMMA OrderStep == ASSUME IInv, Next PROVE PoppedInOrder'
<1>0. QueuesOK /\ SlotInv /\ LeakInv /\ PoppedInOrder
  BY DEF IInv
<1>1. ASSUME NEW w \in Workers, TakeMessage(w) PROVE PoppedInOrder'
  <2>1. CASE HasMessage(mq[cur[w]])
    <3> DEFINE c == cur[w]
               d == Contents(mq[c])
    <3>1. /\ MqStep(c, mq[c].m_release, MQ_IDLE) /\ d \in Seq(Cells) /\ d # <<>> /\ d[1] \in Cells
          /\ Contents(mq'[c]) = Tail(d)
      BY <1>1, <2>1, TakeStep DEF TakeMessage
    <3>2. taken' = [taken EXCEPT ![c] = Append(taken[c], d[1])] /\ UNCHANGED <<sent, leaked>>
      BY <1>1, <2>1 DEF TakeMessage
    <3>3. c \in Handles /\ leaked[c] = <<>>
      BY <1>0, <1>1, Counted DEF TakeMessage, SlotInv, LeakInv, Holds, Threads
    <3>4. taken[c] \in Seq(Cells) /\ sent[c] = taken[c] \o leaked[c] \o d
      BY <1>0, <3>3 DEF QueuesOK, PoppedInOrder
    <3>5. leaked[c] \in Seq(Cells)
      BY <1>0, <3>3 DEF QueuesOK
    <3> HIDE DEF c, d
    <3>6. sent[c] = Append(taken[c], d[1]) \o leaked[c] \o Tail(d)
      BY <3>1, <3>3, <3>4, <3>5, HistoryConcat
    <3>7. taken'[c] = Append(taken[c], d[1]) /\ \A e \in Handles \ {c} : taken'[e] = taken[e]
      BY <1>0, <3>2, <3>3 DEF QueuesOK
    <3>8. ASSUME NEW e \in Handles PROVE sent'[e] = taken'[e] \o leaked'[e] \o Contents(mq'[e])
      BY <1>0, <3>1, <3>2, <3>6, <3>7 DEF PoppedInOrder, MqStep
    <3>9. QED
      BY <3>8 DEF PoppedInOrder
  <2>2. CASE ~HasMessage(mq[cur[w]])
    BY <1>0, <1>1, <2>2 DEF TakeMessage, PoppedInOrder
  <2>3. QED
    BY <2>1, <2>2
<1>2. ASSUME NEW w \in Workers, Reschedule(w) PROVE PoppedInOrder'
  <2>1. /\ \E release, mark : MqStep(cur[w], release, mark)
        /\ Contents(mq'[cur[w]]) = Contents(mq[cur[w]]) /\ UNCHANGED <<sent, taken, leaked>>
    BY <1>2, RescheduleStep DEF Reschedule, messageVars
  <2>2. \A d \in Handles : Contents(mq'[d]) = Contents(mq[d])
    BY <2>1 DEF MqStep
  <2>3. QED
    BY <1>0, <2>1, <2>2 DEF PoppedInOrder
<1>3. ASSUME NEW w \in Workers, DropPop(w) PROVE PoppedInOrder'
  <2>1. CASE HasMessage(mq[cur[w]])
    <3> DEFINE c == cur[w]
               d == Contents(mq[c])
    <3>1. /\ MqStep(c, mq[c].m_release, MQ_IDLE) /\ d \in Seq(Cells) /\ d # <<>> /\ d[1] \in Cells
          /\ Contents(mq'[c]) = Tail(d)
      BY <1>3, <2>1, TakeStep DEF DropPop
    <3>2. leaked' = [leaked EXCEPT ![c] = Append(leaked[c], d[1])] /\ UNCHANGED <<sent, taken>>
      BY <1>3, <2>1 DEF DropPop
    <3>3. c \in Handles
      BY <1>0, <1>3 DEF DropPop, SlotInv, Threads
    <3>4. taken[c] \in Seq(Cells) /\ leaked[c] \in Seq(Cells) /\ sent[c] = taken[c] \o leaked[c] \o d
      BY <1>0, <3>3 DEF QueuesOK, PoppedInOrder
    <3> DEFINE a == taken[c]
               b == leaked[c]
    <3>5. a \in Seq(Cells) /\ b \in Seq(Cells) /\ sent[c] = a \o b \o d
      BY <3>4
    <3> HIDE DEF a, b, c, d
    <3>6. sent[c] = History(a, Append(b, d[1]), Tail(d))
      <4>1. History(a, Append(b, d[1]), Tail(d)) = History(a, b, d)
        BY <3>1, <3>5, LeakConcat
      <4>2. QED
        BY <3>5, <4>1 DEF History
    <3>7. leaked'[c] = Append(leaked[c], d[1]) /\ \A e \in Handles \ {c} : leaked'[e] = leaked[e]
      BY <1>0, <3>2, <3>3 DEF QueuesOK
    <3>8. ASSUME NEW e \in Handles PROVE sent'[e] = taken'[e] \o leaked'[e] \o Contents(mq'[e])
      BY <1>0, <3>1, <3>2, <3>6, <3>7 DEF PoppedInOrder, MqStep, History, a, b
    <3>9. QED
      BY <3>8 DEF PoppedInOrder
  <2>2. CASE ~HasMessage(mq[cur[w]])
    BY <1>0, <1>3, <2>2 DEF DropPop, PoppedInOrder
  <2>3. QED
    BY <2>1, <2>2
<1>4. ASSUME NEW s \in Senders, SendPush(s) PROVE PoppedInOrder'
  <2> DEFINE c == cur[s]
             d == Contents(mq[c])
  <2>1. PICK m \in Messages :
          /\ \E mark : MqStep(c, mq[c].m_release, mark)
          /\ d \in Seq(Cells) /\ Contents(mq'[c]) = Append(d, m)
          /\ sent' = [sent EXCEPT ![c] = Append(sent[c], m)]
    BY <1>4, SendStep
  <2>2. c \in Handles /\ UNCHANGED <<taken, leaked>> /\ m \in Cells
    BY <1>0, <1>4 DEF SendPush, SlotInv, Threads, Cells
  <2>3. taken[c] \in Seq(Cells) /\ leaked[c] \in Seq(Cells) /\ sent[c] = taken[c] \o leaked[c] \o d
    BY <1>0, <2>2 DEF QueuesOK, PoppedInOrder
  <2> DEFINE a == taken[c]
             b == leaked[c]
  <2>4. a \in Seq(Cells) /\ b \in Seq(Cells) /\ sent[c] = a \o b \o d
    BY <2>3
  <2> HIDE DEF a, b, c, d
  <2>5. Append(sent[c], m) = a \o b \o Append(d, m)
    <3>1. a \o b \o Append(d, m) = Append(a \o b \o d, m)
      BY <2>1, <2>2, <2>4, HistoryConcat
    <3>2. QED
      BY <2>4, <3>1
  <2>6. sent'[c] = Append(sent[c], m) /\ \A e \in Handles \ {c} : sent'[e] = sent[e]
    BY <1>0, <2>1, <2>2 DEF QueuesOK
  <2>7. ASSUME NEW e \in Handles PROVE sent'[e] = taken'[e] \o leaked'[e] \o Contents(mq'[e])
    BY <1>0, <2>1, <2>2, <2>5, <2>6 DEF PoppedInOrder, MqStep, a, b
  <2>8. QED
    BY <2>7 DEF PoppedInOrder
<1>5. ASSUME NEW t \in Threads, MarkRelease(t) PROVE PoppedInOrder'
  <2>1. /\ \E release, mark : MqStep(cur[t], release, mark)
        /\ Contents(mq'[cur[t]]) = Contents(mq[cur[t]]) /\ UNCHANGED <<sent, taken, leaked>>
    BY <1>5, MarkStep DEF MarkRelease, messageVars
  <2>2. \A d \in Handles : Contents(mq'[d]) = Contents(mq[d])
    BY <2>1 DEF MqStep
  <2>3. QED
    BY <1>0, <2>1, <2>2 DEF PoppedInOrder
<1>6. CASE UNCHANGED <<mq, sent, taken, leaked>>
  BY <1>0, <1>6 DEF PoppedInOrder
<1>7. QED
  BY <1>1, <1>2, <1>3, <1>4, <1>5, <1>6, QueueActions

\* Every step numbers the message it pushes.
LEMMA NumberedStep == ASSUME IInv, Next PROVE Numbered'
<1>0. QueuesOK /\ SlotInv /\ Numbered
  BY DEF IInv
<1>1. ASSUME NEW w \in Workers, TakeMessage(w) PROVE Numbered'
  <2>1. UNCHANGED <<sent, started>>
    BY <1>1 DEF TakeMessage
  <2>2. CASE HasMessage(mq[cur[w]])
    <3>1. Contents(mq[cur[w]])[1] \in Cells
      BY <1>1, <2>2, TakeStep DEF TakeMessage
    <3>2. hand' = [hand EXCEPT ![w] = Contents(mq[cur[w]])[1]]
      BY <1>1, <2>2 DEF TakeMessage
    <3>3. QED
      BY <1>0, <2>1, <3>1, <3>2 DEF Numbered
  <2>3. CASE ~HasMessage(mq[cur[w]])
    BY <1>0, <1>1, <2>1, <2>3 DEF TakeMessage, Numbered
  <2>4. QED
    BY <2>2, <2>3
<1>2. ASSUME NEW w \in Workers, StartCallback(w) PROVE Numbered'
  <2>1. Junk \in Cells /\ hand[w] \in Cells
    BY <1>0 DEF Cells, Numbered
  <2>2. QED
    BY <1>0, <1>2, <2>1 DEF StartCallback, Numbered
<1>3. ASSUME NEW s \in Senders, SendPush(s) PROVE Numbered'
  <2> DEFINE c == cur[s]
  <2>1. PICK m \in Messages : m.data = Len(sent[c]) + 1 /\ sent' = [sent EXCEPT ![c] = Append(sent[c], m)]
    BY <1>3, SendStep
  <2>2. c \in Handles /\ m \in Cells /\ UNCHANGED <<hand, started>>
    BY <1>0, <1>3 DEF SendPush, SlotInv, Threads, Cells
  <2>3. sent[c] \in Seq(Cells) /\ sent'[c] = Append(sent[c], m) /\ \A e \in Handles \ {c} : sent'[e] = sent[e]
    BY <1>0, <2>1, <2>2 DEF QueuesOK
  <2> HIDE DEF c
  <2>4. ASSUME NEW i \in 1 .. Len(sent'[c]) PROVE sent'[c][i].data = i
    <3>1. CASE i = Len(sent[c]) + 1
      BY <2>1, <2>2, <2>3, <3>1
    <3>2. CASE i \in 1 .. Len(sent[c])
      BY <1>0, <2>2, <2>3, <3>2 DEF Numbered
    <3>3. QED
      BY <2>2, <2>3, <3>1, <3>2
  <2>5. QED
    BY <1>0, <2>2, <2>3, <2>4 DEF Numbered
<1>4. CASE UNCHANGED <<hand, sent, started>>
  BY <1>0, <1>4 DEF Numbered
<1>5. QED
  BY <1>1, <1>2, <1>3, <1>4, QueueActions DEF Next, Dispatch, Common, messageVars, TestFlag, ReadSlot, ClearFlag,
     Grab, FinishCallback, Reschedule, ReleaseMQ, RaiseFlagReleased, DropPop, DeleteMQ, TouchFreed, SendGrab,
     Retire, RaiseFlag, Put, MarkRelease, DeleteContext

\* A step of t that neither pops a message for dispatch nor starts a callback.
HandsOff(t) ==
    /\ UNCHANGED <<hand, taken, started>>
    /\ \A u \in Threads \ {t} : pc'[u] = pc[u] /\ cur'[u] = cur[u]
    /\ pc[t] # "popped" /\ pc'[t] # "popped"

\* All steps but two are such.
LEMMA HandsActions ==
    ASSUME IInv, Next
    PROVE  \/ \E w \in Workers : TakeMessage(w) /\ HasMessage(mq[cur[w]])
           \/ \E w \in Workers : StartCallback(w)
           \/ \E t \in Threads : HandsOff(t)
<1>0. TypeOK
  BY DEF IInv
<1>1. ASSUME NEW w \in Workers, TestFlag(w) PROVE HandsOff(w)
  BY <1>0, <1>1 DEF TestFlag, HandsOff, TypeOK, Goto, Threads, messageVars
<1>2. ASSUME NEW w \in Workers, ReadSlot(w) PROVE HandsOff(w)
  BY <1>0, <1>2 DEF ReadSlot, HandsOff, TypeOK, Goto, Threads, messageVars
<1>3. ASSUME NEW w \in Workers, ClearFlag(w) PROVE HandsOff(w)
  BY <1>0, <1>3 DEF ClearFlag, HandsOff, TypeOK, Goto, Threads, messageVars
<1>4. ASSUME NEW w \in Workers, Grab(w) PROVE HandsOff(w)
  BY <1>0, <1>4 DEF Grab, HandsOff, TypeOK, Goto, Threads, globalVars, messageVars
<1>5. ASSUME NEW w \in Workers, FinishCallback(w) PROVE HandsOff(w)
  BY <1>0, <1>5 DEF FinishCallback, HandsOff, TypeOK, Goto, Threads, globalVars, messageVars
<1>6. ASSUME NEW w \in Workers, Reschedule(w) PROVE HandsOff(w)
  BY <1>0, <1>6 DEF Reschedule, HandsOff, TypeOK, Goto, Threads, StorePointer, Unscheduled, messageVars
<1>7. ASSUME NEW w \in Workers, ReleaseMQ(w) PROVE HandsOff(w)
  BY <1>0, <1>7 DEF ReleaseMQ, HandsOff, TypeOK, Goto, Threads, PushBack, Unscheduled, messageVars
<1>8. ASSUME NEW w \in Workers, RaiseFlagReleased(w) PROVE HandsOff(w)
  BY <1>0, <1>8 DEF RaiseFlagReleased, HandsOff, TypeOK, Goto, Threads, Forget, messageVars
<1>9. ASSUME NEW w \in Workers, DropPop(w) PROVE HandsOff(w)
  BY <1>0, <1>9 DEF DropPop, HandsOff, TypeOK, Goto, Threads, globalVars
<1>10. ASSUME NEW w \in Workers, DeleteMQ(w) PROVE HandsOff(w)
  BY <1>0, <1>10 DEF DeleteMQ, HandsOff, TypeOK, Goto, Threads, Forget, globalVars, messageVars
<1>11. ASSUME NEW w \in Workers, TouchFreed(w) PROVE HandsOff(w)
  BY <1>0, <1>11 DEF TouchFreed, HandsOff, TypeOK, Goto, Threads, globalVars, messageVars
<1>12. ASSUME NEW s \in Senders, SendPush(s) PROVE HandsOff(s)
  <2>1. (StorePointer(s, cur[s]) \/ Unscheduled(s, "put")) /\ s \in Threads /\ pc[s] = "mq_push"
        /\ UNCHANGED <<cur, hand, taken, started>>
    BY <1>12, SendStep DEF SendPush, Threads
  <2>2. QED
    BY <1>0, <2>1 DEF StorePointer, Unscheduled, HandsOff, TypeOK, Goto
<1>13. ASSUME NEW s \in Senders, NEW c \in Handles, SendGrab(s, c) PROVE HandsOff(s)
  BY <1>0, <1>13 DEF SendGrab, HandsOff, TypeOK, Goto, Threads, globalVars, messageVars
<1>14. ASSUME NEW k \in Retirers, NEW c \in Handles, Retire(k, c) PROVE HandsOff(k)
  BY <1>0, <1>14 DEF Retire, HandsOff, TypeOK, Goto, Threads, globalVars, messageVars
<1>15. ASSUME NEW t \in Threads, RaiseFlag(t) PROVE HandsOff(t)
  BY <1>0, <1>15 DEF RaiseFlag, HandsOff, TypeOK, Goto, messageVars
<1>16. ASSUME NEW t \in Threads, Put(t) PROVE HandsOff(t)
  BY <1>0, <1>16 DEF Put, HandsOff, TypeOK, Goto, Forget, globalVars, messageVars
<1>17. ASSUME NEW t \in Threads, MarkRelease(t) PROVE HandsOff(t)
  BY <1>0, <1>17 DEF MarkRelease, HandsOff, TypeOK, Goto, globalVars, messageVars
<1>18. ASSUME NEW t \in Threads, DeleteContext(t) PROVE HandsOff(t)
  BY <1>0, <1>18 DEF DeleteContext, HandsOff, TypeOK, Goto, Forget, globalVars, messageVars
<1>19. ASSUME NEW w \in Workers, TakeMessage(w), ~HasMessage(mq[cur[w]]) PROVE HandsOff(w)
  BY <1>0, <1>19 DEF TakeMessage, HandsOff, TypeOK, Goto, Threads
<1>20. QED
  <2>1. Workers \subseteq Threads /\ Senders \subseteq Threads /\ Retirers \subseteq Threads
    BY DEF Threads
  <2>2. QED
    BY <1>1, <1>2, <1>3, <1>4, <1>5, <1>6, <1>7, <1>8, <1>9, <1>10, <1>11, <1>12, <1>13, <1>14, <1>15, <1>16,
       <1>17, <1>18, <1>19, <2>1 DEF Next, Dispatch, Common

\* Every step keeps each popped message in one hand, or given to the callback.
LEMMA OnceStep == ASSUME IInv, Next PROVE DispatchedOnce'
<1>0. /\ TypeOK /\ QueuesOK /\ SlotInv /\ LeakInv /\ PoppedInOrder /\ Numbered /\ DispatchedOnce
      /\ \A w \in Workers : w \in Threads
  BY DEF IInv, Threads
<1>1. ASSUME NEW w \in Workers, TakeMessage(w), HasMessage(mq[cur[w]]) PROVE DispatchedOnce'
  <2> DEFINE c == cur[w]
             d == Contents(mq[c])
             m == d[1]
             T(e) == {taken[e][i] : i \in DOMAIN taken[e]}
  <2>1. d \in Seq(Cells) /\ d # <<>> /\ m \in Cells
    BY <1>1, TakeStep DEF TakeMessage
  <2>2. /\ taken' = [taken EXCEPT ![c] = Append(taken[c], m)] /\ hand' = [hand EXCEPT ![w] = m]
        /\ pc[w] = "mq_pop" /\ pc' = [pc EXCEPT ![w] = "popped"] /\ UNCHANGED <<cur, started>>
    BY <1>1 DEF TakeMessage, Goto
  <2>3. c \in Handles /\ leaked[c] = <<>> /\ taken[c] \in Seq(Cells)
    <3>1. c \in Handles /\ Holds(w, c) /\ w \in Threads
      BY <1>0, <2>2 DEF SlotInv, Holds
    <3>2. mq[c].m_release = 0
      BY <3>1, Counted
    <3>3. QED
      BY <1>0, <3>1, <3>2 DEF LeakInv, QueuesOK
  <2>4. sent[c] = taken[c] \o d
    <3>1. sent[c] = taken[c] \o leaked[c] \o d
      BY <1>0, <2>3 DEF PoppedInOrder
    <3> HIDE DEF c, d
    <3>2. taken[c] \o <<>> = taken[c]
      BY <2>3, ConcatEmptySeq
    <3>3. QED
      BY <2>3, <3>1, <3>2
  <2>5. m \notin T(c)
    <3>1. \A i \in 1 .. Len(sent[c]) : sent[c][i].data = i
      BY <1>0, <2>3 DEF Numbered
    <3> HIDE DEF c, d
    <3>2. Len(d) >= 1 /\ Len(taken[c]) \in Nat /\ Len(sent[c]) = Len(taken[c]) + Len(d)
      BY <2>1, <2>3, <2>4
    <3>3. sent[c][Len(taken[c]) + 1] = m /\ \A i \in DOMAIN taken[c] : sent[c][i] = taken[c][i]
      BY <2>1, <2>3, <2>4, <3>2
    <3>4. m.data = Len(taken[c]) + 1 /\ \A i \in DOMAIN taken[c] : taken[c][i].data = i /\ i <= Len(taken[c])
      BY <2>1, <2>3, <3>1, <3>2, <3>3
    <3>5. QED
      BY <3>2, <3>4
  <2>6. T(c)' = T(c) \cup {m} /\ \A e \in Handles \ {c} : taken'[e] = taken[e]
    <3>1. taken'[c] = Append(taken[c], m) /\ \A e \in Handles \ {c} : taken'[e] = taken[e]
      BY <1>0, <2>2, <2>3 DEF QueuesOK
    <3> HIDE DEF c, d, m
    <3>2. {taken'[c][i] : i \in DOMAIN taken'[c]} = {taken[c][i] : i \in DOMAIN taken[c]} \cup {m}
      <4>1. DOMAIN Append(taken[c], m) = 1 .. Len(taken[c]) + 1 /\ DOMAIN taken[c] = 1 .. Len(taken[c])
            /\ Len(taken[c]) \in Nat /\ Append(taken[c], m)[Len(taken[c]) + 1] = m
            /\ \A i \in 1 .. Len(taken[c]) : Append(taken[c], m)[i] = taken[c][i]
        BY <2>1, <2>3
      <4>2. DOMAIN taken'[c] = DOMAIN taken[c] \cup {Len(taken[c]) + 1}
        BY <3>1, <4>1
      <4>3. QED
        BY <3>1, <4>1, <4>2
    <3>3. QED
      BY <2>2, <3>1, <3>2 DEF c
  <2> HIDE DEF m
  <2>7. InHand(c)' = InHand(c) \cup {m}
    BY <1>0, <2>2 DEF InHand, TypeOK, Numbered
  <2>8. \A e \in Handles \ {c} : InHand(e)' = InHand(e)
    BY <1>0, <2>2 DEF InHand, TypeOK, Numbered
  <2>9. m \notin started[c] /\ m \notin InHand(c)
    BY <1>0, <2>3, <2>5 DEF DispatchedOnce
  <2>10. ASSUME NEW u \in Workers, NEW v \in Workers, NEW e \in Handles, u # v, pc'[u] = "popped", pc'[v] = "popped",
                cur'[u] = e, cur'[v] = e
         PROVE  hand'[u] # hand'[v]
    <3>1. CASE u # w /\ v # w
      <4>1. pc[u] = "popped" /\ pc[v] = "popped" /\ cur[u] = e /\ cur[v] = e /\ hand'[u] = hand[u] /\ hand'[v] = hand[v]
        BY <1>0, <2>2, <2>10, <3>1 DEF TypeOK, Numbered
      <4>2. QED
        BY <1>0, <2>10, <4>1 DEF DispatchedOnce
    <3>2. CASE u = w
      <4>1. v # w /\ e = c /\ hand'[u] = m /\ hand'[v] = hand[v] /\ hand[v] \in InHand(c)
        BY <1>0, <2>2, <2>10, <3>2 DEF TypeOK, Numbered, InHand
      <4>2. QED
        BY <2>9, <4>1
    <3>3. CASE v = w
      <4>1. u # w /\ e = c /\ hand'[v] = m /\ hand'[u] = hand[u] /\ hand[u] \in InHand(c)
        BY <1>0, <2>2, <2>10, <3>3 DEF TypeOK, Numbered, InHand
      <4>2. QED
        BY <2>9, <4>1
    <3>4. QED
      BY <3>1, <3>2, <3>3
  <2> HIDE DEF c
  <2>11. ASSUME NEW e \in Handles
         PROVE  /\ T(e)' = started'[e] \cup InHand(e)'
                /\ started'[e] \cap InHand(e)' = {}
    <3>1. T(e) = started[e] \cup InHand(e) /\ started[e] \cap InHand(e) = {}
      BY <1>0 DEF DispatchedOnce
    <3>2. CASE e = c
      <4>1. started'[c] = started[c] /\ m \notin started[c]
        BY <2>2, <2>9
      <4>2. T(c) = started[c] \cup InHand(c) /\ started[c] \cap InHand(c) = {}
        BY <3>1, <3>2
      <4>3. T(c)' = started'[c] \cup InHand(c)' /\ started'[c] \cap InHand(c)' = {}
        <5> HIDE DEF T
        <5>1. QED
          BY <2>6, <2>7, <4>1, <4>2
      <4>4. c' = c
        BY <2>2 DEF c
      <4>5. QED
        BY <3>2, <4>3, <4>4
    <3>3. CASE e # c
      <4>1. T(e)' = T(e) /\ InHand(e)' = InHand(e) /\ started'[e] = started[e]
        BY <2>2, <2>6, <2>8, <3>3
      <4>2. QED
        BY <3>1, <4>1
    <3>4. QED
      BY <3>2, <3>3
  <2>12. QED
    BY <2>10, <2>11 DEF DispatchedOnce
<1>2. ASSUME NEW w \in Workers, StartCallback(w) PROVE DispatchedOnce'
  <2> DEFINE c == cur[w]
             m == hand[w]
  <2>1. /\ started' = [started EXCEPT ![c] = started[c] \cup {m}] /\ hand' = [hand EXCEPT ![w] = Junk]
        /\ pc[w] = "popped" /\ pc' = [pc EXCEPT ![w] = "callback"] /\ UNCHANGED <<cur, taken>>
    BY <1>2 DEF StartCallback, Goto
  <2>2. c \in Handles /\ pc'[w] = "callback"
    BY <1>0, <2>1 DEF SlotInv, TypeOK
  <2>3. /\ started'[c] = started[c] \cup {m} /\ \A e \in Handles \ {c} : started'[e] = started[e]
    BY <1>0, <2>1, <2>2 DEF Numbered
  <2>4. \A v \in Workers \ {w} : pc'[v] = pc[v] /\ cur'[v] = cur[v] /\ hand'[v] = hand[v]
    BY <1>0, <2>1 DEF TypeOK, Numbered
  <2>5. \A v \in Workers \ {w} : pc[v] = "popped" /\ cur[v] = c => hand[v] # m
    BY <1>0, <2>1, <2>2 DEF DispatchedOnce
  <2>6. m \in InHand(c)
    BY <2>1 DEF InHand
  <2>8. \A e \in Handles \ {c} : InHand(e)' = InHand(e)
    BY <2>2, <2>4 DEF InHand
  <2> HIDE DEF c, m
  <2>9. ASSUME NEW e \in Handles
        PROVE  /\ {taken'[e][i] : i \in DOMAIN taken'[e]} = started'[e] \cup InHand(e)'
               /\ started'[e] \cap InHand(e)' = {}
    <3>1. {taken[e][i] : i \in DOMAIN taken[e]} = started[e] \cup InHand(e) /\ started[e] \cap InHand(e) = {}
      BY <1>0 DEF DispatchedOnce
    <3>2. started'[e] \cup InHand(e)' = started[e] \cup InHand(e) /\ started'[e] \cap InHand(e)' = {}
      <4>1. CASE e # c
        BY <2>3, <2>8, <3>1, <4>1
      <4>2. CASE e = c
        <5>1. started'[c] = started[c] \cup {m} /\ started[c] \cap InHand(c) = {}
          BY <2>3, <3>1, <4>2
        <5>2. InHand(e)' = InHand(c) \ {m}
          <6>1. InHand(e)' = {hand'[v] : v \in {u \in Workers : cur'[u] = c /\ pc'[u] = "popped"}}
            BY <4>2 DEF InHand
          <6>2. InHand(c) = {hand[v] : v \in {u \in Workers : cur[u] = c /\ pc[u] = "popped"}}
            BY DEF InHand
          <6>3. hand[w] = m /\ pc'[w] # "popped" /\ UNCHANGED cur
            BY <2>1, <2>2 DEF m
          <6>4. QED
            BY <2>4, <2>5, <6>1, <6>2, <6>3
        <5>3. QED
          BY <2>6, <4>2, <5>1, <5>2
      <4>3. QED
        BY <4>1, <4>2
    <3>3. QED
      BY <2>1, <3>1, <3>2
  <2>10. ASSUME NEW u \in Workers, NEW v \in Workers, NEW e \in Handles, u # v, pc'[u] = "popped", pc'[v] = "popped",
                cur'[u] = e, cur'[v] = e
         PROVE  hand'[u] # hand'[v]
    BY <1>0, <2>2, <2>4, <2>10 DEF DispatchedOnce
  <2>11. QED
    BY <2>9, <2>10 DEF DispatchedOnce
<1>3. ASSUME NEW t \in Threads, HandsOff(t) PROVE DispatchedOnce'
  <2>1. \A e : \A w \in Workers : (pc'[w] = "popped" /\ cur'[w] = e) <=> (pc[w] = "popped" /\ cur[w] = e)
    BY <1>0, <1>3 DEF HandsOff
  <2>2. \A e : InHand(e)' = InHand(e)
    BY <1>3, <2>1 DEF HandsOff, InHand
  <2>3. QED
    BY <1>0, <1>3, <2>1, <2>2 DEF HandsOff, DispatchedOnce
<1>4. QED
  BY <1>1, <1>2, <1>3, HandsActions

\* A step of t that marks no queue as idle.
LEMMA IdleFrame ==
    ASSUME IInv, NEW t \in Threads,
           \A u \in Threads \ {t} : pc'[u] = pc[u] /\ cur'[u] = cur[u],
           pc[t] \in {"popped", "callback", "push_global"} => pc'[t] \in {"popped", "callback", "push_global"} /\ cur'[t] = cur[t],
           \A d \in Handles : mq'[d].in_global = MQ_IDLE /\ mq'[d].m_release = 0
                                  => mq[d].in_global = MQ_IDLE /\ mq[d].m_release = 0
    PROVE  ZeroIsDispatching'
<1>1. \A w \in Workers : w \in Threads
  BY DEF Threads
<1>2. QED
  BY <1>1 DEF IInv, ZeroIsDispatching, Dispatching

\* Every step keeps a worker with each queue marked idle, until that queue is released.
LEMMA IdleStep == ASSUME IInv, Next PROVE ZeroIsDispatching'
<1>0. TypeOK /\ SlotInv /\ ReleaseInv /\ ZeroIsDispatching
  BY DEF IInv
<1>1. ASSUME NEW w \in Workers, TestFlag(w) PROVE ZeroIsDispatching'
  <2>1. /\ w \in Threads /\ UNCHANGED mq
        /\ \A u \in Threads \ {w} : pc'[u] = pc[u] /\ cur'[u] = cur[u]
        /\ pc[w] \in {"popped", "callback", "push_global"} => pc'[w] \in {"popped", "callback", "push_global"} /\ cur'[w] = cur[w]
    BY <1>0, <1>1 DEF TestFlag, TypeOK, Goto, Threads, messageVars
  <2>2. QED
    BY <2>1, IdleFrame
<1>2. ASSUME NEW w \in Workers, ReadSlot(w) PROVE ZeroIsDispatching'
  <2>1. /\ w \in Threads /\ UNCHANGED mq
        /\ \A u \in Threads \ {w} : pc'[u] = pc[u] /\ cur'[u] = cur[u]
        /\ pc[w] \in {"popped", "callback", "push_global"} => pc'[w] \in {"popped", "callback", "push_global"} /\ cur'[w] = cur[w]
    BY <1>0, <1>2 DEF ReadSlot, TypeOK, Goto, Threads, messageVars
  <2>2. QED
    BY <2>1, IdleFrame
<1>3. ASSUME NEW w \in Workers, ClearFlag(w) PROVE ZeroIsDispatching'
  <2>1. /\ w \in Threads /\ UNCHANGED mq
        /\ \A u \in Threads \ {w} : pc'[u] = pc[u] /\ cur'[u] = cur[u]
        /\ pc[w] \in {"popped", "callback", "push_global"} => pc'[w] \in {"popped", "callback", "push_global"} /\ cur'[w] = cur[w]
    BY <1>0, <1>3 DEF ClearFlag, TypeOK, Goto, Threads, messageVars
  <2>2. QED
    BY <2>1, IdleFrame
<1>4. ASSUME NEW w \in Workers, Grab(w) PROVE ZeroIsDispatching'
  <2>1. /\ w \in Threads /\ UNCHANGED mq
        /\ \A u \in Threads \ {w} : pc'[u] = pc[u] /\ cur'[u] = cur[u]
        /\ pc[w] \in {"popped", "callback", "push_global"} => pc'[w] \in {"popped", "callback", "push_global"} /\ cur'[w] = cur[w]
    BY <1>0, <1>4 DEF Grab, TypeOK, Goto, Threads, globalVars, messageVars
  <2>2. QED
    BY <2>1, IdleFrame
<1>5. ASSUME NEW w \in Workers, TakeMessage(w) PROVE ZeroIsDispatching'
  <2>1. /\ (\E release, mark : MqStep(cur[w], release, mark) /\ Goto(w, "popped")) \/ (UNCHANGED mq /\ Goto(w, "put"))
        /\ UNCHANGED cur /\ pc[w] = "mq_pop" /\ w \in Threads
    BY <1>5, TakeStep DEF TakeMessage, Threads
  <2>2. \A u \in Threads \ {w} : pc'[u] = pc[u] /\ cur'[u] = cur[u]
    BY <1>0, <2>1 DEF TypeOK, Goto, StorePointer, Unscheduled
  <2>3. CASE UNCHANGED mq
    BY <2>1, <2>2, <2>3, IdleFrame
  <2>4. CASE \E release, mark : MqStep(cur[w], release, mark) /\ Goto(w, "popped")
    <3>1. (\A d \in Handles \ {cur[w]} : mq'[d] = mq[d]) /\ pc'[w] = "popped"
      BY <1>0, <2>1, <2>4 DEF MqStep, Goto, TypeOK
    <3>2. ASSUME NEW d \in Handles, mq'[d].in_global = MQ_IDLE, mq'[d].m_release = 0
          PROVE  \E v \in Workers : cur'[v] = d /\ pc'[v] \in {"popped", "callback", "push_global"}
      <4>1. CASE d = cur[w]
        BY <2>1, <3>1, <4>1
      <4>2. CASE d # cur[w]
        <5>1. PICK v \in Workers : cur[v] = d /\ pc[v] \in {"popped", "callback", "push_global"}
          BY <1>0, <3>1, <3>2, <4>2 DEF ZeroIsDispatching, Dispatching
        <5>2. v \in Threads \ {w}
          BY <4>2, <5>1 DEF Threads
        <5>3. QED
          BY <2>2, <5>1, <5>2
      <4>3. QED
        BY <4>1, <4>2
    <3>3. QED
      BY <3>2 DEF ZeroIsDispatching, Dispatching
  <2>5. QED
    BY <2>1, <2>3, <2>4
<1>6. ASSUME NEW w \in Workers, FinishCallback(w) PROVE ZeroIsDispatching'
  <2>1. /\ w \in Threads /\ UNCHANGED mq
        /\ \A u \in Threads \ {w} : pc'[u] = pc[u] /\ cur'[u] = cur[u]
        /\ pc[w] \in {"popped", "callback", "push_global"} => pc'[w] \in {"popped", "callback", "push_global"} /\ cur'[w] = cur[w]
    BY <1>0, <1>6 DEF FinishCallback, TypeOK, Goto, Threads, globalVars, messageVars
  <2>2. QED
    BY <2>1, IdleFrame
<1>7. ASSUME NEW w \in Workers, Reschedule(w) PROVE ZeroIsDispatching'
  <2>1. /\ MqStep(cur[w], mq[cur[w]].m_release, MQ_IN_GLOBAL) /\ StorePointer(w, cur[w])
        /\ w \in Threads /\ UNCHANGED cur /\ cur[w] \in Handles
    BY <1>0, <1>7, RescheduleStep DEF Reschedule, SlotInv, Threads
  <2>2. \A u \in Threads \ {w} : pc'[u] = pc[u] /\ cur'[u] = cur[u]
    BY <1>0, <2>1 DEF TypeOK, Goto, StorePointer, Unscheduled
  <2>3. ASSUME NEW d \in Handles, mq'[d].in_global = MQ_IDLE, mq'[d].m_release = 0
        PROVE  \E v \in Workers : cur'[v] = d /\ pc'[v] \in {"popped", "callback", "push_global"}
    <3>1. d # cur[w] /\ mq'[d] = mq[d]
      BY <2>1, <2>3 DEF MqStep, MQ_IDLE, MQ_IN_GLOBAL
    <3>2. PICK v \in Workers : cur[v] = d /\ pc[v] \in {"popped", "callback", "push_global"}
      BY <1>0, <2>3, <3>1 DEF ZeroIsDispatching, Dispatching
    <3>3. v \in Threads \ {w}
      BY <3>1, <3>2 DEF Threads
    <3>4. QED
      BY <2>2, <3>2, <3>3
  <2>4. QED
    BY <2>3 DEF ZeroIsDispatching, Dispatching
<1>8. ASSUME NEW w \in Workers, ReleaseMQ(w) PROVE ZeroIsDispatching'
  <2>1. /\ w \in Threads /\ UNCHANGED mq
        /\ \A u \in Threads \ {w} : pc'[u] = pc[u] /\ cur'[u] = cur[u]
        /\ pc[w] \in {"popped", "callback", "push_global"} => pc'[w] \in {"popped", "callback", "push_global"} /\ cur'[w] = cur[w]
    BY <1>0, <1>8 DEF ReleaseMQ, TypeOK, Goto, Unscheduled, PushBack, Threads, messageVars
  <2>2. QED
    BY <2>1, IdleFrame
<1>9. ASSUME NEW w \in Workers, RaiseFlagReleased(w) PROVE ZeroIsDispatching'
  <2>1. /\ w \in Threads /\ UNCHANGED mq
        /\ \A u \in Threads \ {w} : pc'[u] = pc[u] /\ cur'[u] = cur[u]
        /\ pc[w] \in {"popped", "callback", "push_global"} => pc'[w] \in {"popped", "callback", "push_global"} /\ cur'[w] = cur[w]
    BY <1>0, <1>9 DEF RaiseFlagReleased, TypeOK, Goto, Forget, Threads, messageVars
  <2>2. QED
    BY <2>1, IdleFrame
<1>10. ASSUME NEW w \in Workers, DropPop(w) PROVE ZeroIsDispatching'
  <2>1. /\ (\E mark : MqStep(cur[w], 1, mark)) \/ UNCHANGED mq
        /\ Goto(w, "delete_mq") \/ UNCHANGED pc
        /\ UNCHANGED cur /\ pc[w] = "drop_pop" /\ w \in Threads
    <3>1. w \in Threads /\ pc[w] = "drop_pop"
      BY <1>10 DEF DropPop, Threads
    <3>2. mq[cur[w]].m_release = 1
      BY <1>0, <3>1 DEF ReleaseInv
    <3>3. QED
      BY <1>10, <3>1, <3>2, TakeStep DEF DropPop
  <2>2. \A u \in Threads \ {w} : pc'[u] = pc[u] /\ cur'[u] = cur[u]
    BY <1>0, <2>1 DEF TypeOK, Goto, StorePointer, Unscheduled
  <2>3. \A d \in Handles : mq'[d].m_release = 0 => mq'[d] = mq[d]
    BY <2>1 DEF MqStep
  <2>4. QED
    BY <2>1, <2>2, <2>3, IdleFrame
<1>11. ASSUME NEW w \in Workers, DeleteMQ(w) PROVE ZeroIsDispatching'
  <2>1. /\ w \in Threads /\ UNCHANGED mq
        /\ \A u \in Threads \ {w} : pc'[u] = pc[u] /\ cur'[u] = cur[u]
        /\ pc[w] \in {"popped", "callback", "push_global"} => pc'[w] \in {"popped", "callback", "push_global"} /\ cur'[w] = cur[w]
    BY <1>0, <1>11 DEF DeleteMQ, TypeOK, Goto, Forget, Threads, globalVars, messageVars
  <2>2. QED
    BY <2>1, IdleFrame
<1>12. ASSUME NEW w \in Workers, TouchFreed(w) PROVE ZeroIsDispatching'
  <2>1. /\ w \in Threads /\ UNCHANGED mq
        /\ \A u \in Threads \ {w} : pc'[u] = pc[u] /\ cur'[u] = cur[u]
        /\ pc[w] \in {"popped", "callback", "push_global"} => pc'[w] \in {"popped", "callback", "push_global"} /\ cur'[w] = cur[w]
    BY <1>0, <1>12 DEF TouchFreed, TypeOK, Goto, Threads, globalVars, messageVars
  <2>2. QED
    BY <2>1, IdleFrame
<1>13. ASSUME NEW s \in Senders, SendPush(s) PROVE ZeroIsDispatching'
  <2>1. /\ MqStep(cur[s], mq[cur[s]].m_release,
                  IF mq[cur[s]].in_global = MQ_IDLE THEN MQ_IN_GLOBAL ELSE mq[cur[s]].in_global)
        /\ StorePointer(s, cur[s]) \/ Unscheduled(s, "put")
        /\ s \in Threads /\ UNCHANGED cur /\ pc[s] = "mq_push"
    BY <1>13, SendStep DEF SendPush, Threads
  <2>2. \A u \in Threads \ {s} : pc'[u] = pc[u] /\ cur'[u] = cur[u]
    BY <1>0, <2>1 DEF TypeOK, Goto, StorePointer, Unscheduled
  <2>3. \A d \in Handles : mq'[d].in_global = MQ_IDLE => mq[d].in_global = MQ_IDLE /\ mq'[d].m_release = mq[d].m_release
    BY <2>1 DEF MqStep, MQ_IDLE, MQ_IN_GLOBAL
  <2>4. QED
    BY <2>1, <2>2, <2>3, IdleFrame
<1>14. ASSUME NEW s \in Senders, NEW c \in Handles, SendGrab(s, c) PROVE ZeroIsDispatching'
  <2>1. /\ s \in Threads /\ UNCHANGED mq
        /\ \A u \in Threads \ {s} : pc'[u] = pc[u] /\ cur'[u] = cur[u]
        /\ pc[s] \in {"popped", "callback", "push_global"} => pc'[s] \in {"popped", "callback", "push_global"} /\ cur'[s] = cur[s]
    BY <1>0, <1>14 DEF SendGrab, TypeOK, Goto, Threads, globalVars, messageVars
  <2>2. QED
    BY <2>1, IdleFrame
<1>15. ASSUME NEW k \in Retirers, NEW c \in Handles, Retire(k, c) PROVE ZeroIsDispatching'
  <2>1. /\ k \in Threads /\ UNCHANGED mq
        /\ \A u \in Threads \ {k} : pc'[u] = pc[u] /\ cur'[u] = cur[u]
        /\ pc[k] \in {"popped", "callback", "push_global"} => pc'[k] \in {"popped", "callback", "push_global"} /\ cur'[k] = cur[k]
    BY <1>0, <1>15 DEF Retire, TypeOK, Goto, Threads, globalVars, messageVars
  <2>2. QED
    BY <2>1, IdleFrame
<1>16. ASSUME NEW t \in Threads, RaiseFlag(t) PROVE ZeroIsDispatching'
  <2>1. /\ t \in Threads /\ UNCHANGED mq
        /\ \A u \in Threads \ {t} : pc'[u] = pc[u] /\ cur'[u] = cur[u]
        /\ pc[t] \in {"popped", "callback", "push_global"} => pc'[t] \in {"popped", "callback", "push_global"} /\ cur'[t] = cur[t]
    BY <1>0, <1>16 DEF RaiseFlag, TypeOK, Goto, messageVars
  <2>2. QED
    BY <2>1, IdleFrame
<1>17. ASSUME NEW t \in Threads, Put(t) PROVE ZeroIsDispatching'
  <2>1. /\ t \in Threads /\ UNCHANGED mq
        /\ \A u \in Threads \ {t} : pc'[u] = pc[u] /\ cur'[u] = cur[u]
        /\ pc[t] \in {"popped", "callback", "push_global"} => pc'[t] \in {"popped", "callback", "push_global"} /\ cur'[t] = cur[t]
    BY <1>0, <1>17 DEF Put, TypeOK, Goto, Forget, globalVars, messageVars
  <2>2. QED
    BY <2>1, IdleFrame
<1>18. ASSUME NEW t \in Threads, MarkRelease(t) PROVE ZeroIsDispatching'
  <2>1. /\ MqStep(cur[t], 1, mq[cur[t]].in_global) /\ Goto(t, "delete_context")
        /\ UNCHANGED cur /\ pc[t] = "delete"
    BY <1>18, MarkStep DEF MarkRelease
  <2>2. \A u \in Threads \ {t} : pc'[u] = pc[u] /\ cur'[u] = cur[u]
    BY <1>0, <2>1 DEF TypeOK, Goto, StorePointer, Unscheduled
  <2>3. \A d \in Handles : mq'[d].m_release = 0 => mq'[d] = mq[d]
    BY <2>1 DEF MqStep
  <2>4. QED
    BY <2>1, <2>2, <2>3, IdleFrame
<1>19. ASSUME NEW t \in Threads, DeleteContext(t) PROVE ZeroIsDispatching'
  <2>1. /\ t \in Threads /\ UNCHANGED mq
        /\ \A u \in Threads \ {t} : pc'[u] = pc[u] /\ cur'[u] = cur[u]
        /\ pc[t] \in {"popped", "callback", "push_global"} => pc'[t] \in {"popped", "callback", "push_global"} /\ cur'[t] = cur[t]
    BY <1>0, <1>19 DEF DeleteContext, TypeOK, Goto, Forget, globalVars, messageVars
  <2>2. QED
    BY <2>1, IdleFrame
<1>20. ASSUME NEW w \in Workers, StartCallback(w) PROVE ZeroIsDispatching'
  <2>1. /\ w \in Threads /\ UNCHANGED mq
        /\ \A u \in Threads \ {w} : pc'[u] = pc[u] /\ cur'[u] = cur[u]
        /\ pc[w] \in {"popped", "callback", "push_global"} => pc'[w] \in {"popped", "callback", "push_global"} /\ cur'[w] = cur[w]
    BY <1>0, <1>20 DEF StartCallback, TypeOK, Goto, Threads, globalVars, messageVars
  <2>2. QED
    BY <2>1, IdleFrame
<1>21. QED
  BY <1>1, <1>2, <1>3, <1>4, <1>5, <1>6, <1>7, <1>8, <1>9, <1>10, <1>11, <1>12, <1>13, <1>14, <1>15, <1>16,
     <1>17, <1>18, <1>19, <1>20 DEF Next, Dispatch, Common

-----------------------------------------------------------------------------
\* The invariant is inductive.
LEMMA StepInv == ASSUME IInv, [Next]_vars PROVE IInv'
<1>1. CASE Next
  <2>1. TypeOK' /\ QueuesOK' /\ SlotInv' /\ RefInv' /\ ReleaseInv' /\ LeakInv' /\ PoppedInOrder'
        /\ Numbered' /\ DispatchedOnce' /\ ZeroIsDispatching'
    BY <1>1, TypeStep, QueuesStep, SlotStep, RefStep, ReleaseStep, LeakStep, OrderStep, NumberedStep, OnceStep,
       IdleStep
  <2>2. QED
    BY <2>1 DEF IInv
<1>2. CASE UNCHANGED vars
  <2>1. TypeOK' /\ QueuesOK'
    BY <1>2 DEF vars, IInv, TypeOK, QueuesOK, Locked
  <2>2. SlotInv' /\ ReleaseInv' /\ LeakInv'
    BY <1>2 DEF vars, IInv, SlotInv, ReleaseInv, LeakInv
  <2>3. RefInv'
    BY <1>2, RefSame DEF vars, Holds
  <2>4. PoppedInOrder' /\ Numbered' /\ ZeroIsDispatching'
    BY <1>2 DEF vars, IInv, PoppedInOrder, Numbered, ZeroIsDispatching, Dispatching
  <2>5. DispatchedOnce'
    <3>1. \A c : InHand(c)' = InHand(c)
      BY <1>2 DEF vars, InHand
    <3>2. QED
      BY <1>2, <3>1 DEF vars, IInv, DispatchedOnce
  <2>6. QED
    BY <2>1, <2>2, <2>3, <2>4, <2>5 DEF IInv
<1>3. QED
  BY <1>1, <1>2

\* The inductive invariant: the types, the shape of the queues and slots, the
\* reference counts, the order of a deletion, and the claims on messages.
THEOREM DispatcherInvariant == Spec => []IInv
<1>1. Init => IInv
  BY InitInv
<1>2. IInv /\ [Next]_vars => IInv'
  BY StepInv
<1>3. QED
  BY <1>1, <1>2, PTL DEF Spec

\* No index leaves its array, the counts stay natural numbers, and whoever is
\* inside a queue's lock is pushing that queue.
THEOREM TypeCorrect == Spec => []TypeOK
<1>1. IInv => TypeOK
  BY DEF IInv
<1>2. QED
  BY <1>1, DispatcherInvariant, PTL

\* Context::m_ref counts the table's entry and the threads at work on the
\* context, for any number of workers, senders and retirers.
THEOREM RefCountsCorrect == Spec => []RefCounts
<1>1. IInv => RefCounts
  BY DEF IInv, RefInv, RefCounts, Holders
<1>2. QED
  BY <1>1, DispatcherInvariant, PTL

\* Whoever holds a reference, or is about to mark the queue of the context it
\* deletes, finds neither deleted, though the global queue may hand one queue
\* to several workers.
THEOREM HeldCorrect == Spec => []HeldIsAlive
<1>1. ASSUME IInv PROVE HeldIsAlive
  <2>1. ASSUME NEW c \in Handles, mq[c].m_release = 0 PROVE c \notin deleted \cup freed
    BY <1>1, <2>1 DEF IInv, ReleaseInv
  <2>2. ASSUME NEW t \in Threads, NEW c \in Handles, Holds(t, c) PROVE c \notin deleted \cup freed
    BY <1>1, <2>1, <2>2, Counted
  <2>3. ASSUME NEW t \in Threads, NEW c \in Handles, cur[t] = c, pc[t] = "delete" PROVE c \notin deleted \cup freed
    BY <1>1, <2>1, <2>3 DEF IInv, ReleaseInv
  <2>4. QED
    BY <2>2, <2>3 DEF HeldIsAlive
<1>2. QED
  BY <1>1, DispatcherInvariant, PTL

\* A message pushed to a context is popped in its order, and then in one worker's
\* hand or given to a callback, or it still waits: also while several workers
\* have one queue and others push to it.
THEOREM EachOnceCorrect == Spec => []EachOnce
<1>1. IInv => EachOnce
  BY DEF IInv, EachOnce
<1>2. QED
  BY <1>1, DispatcherInvariant, PTL

\* A queue whose mark is 0, which senders therefore schedule, is one that a
\* worker is dispatching and will push back, until its context is deleted.
THEOREM ZeroCorrect == Spec => []ZeroIsDispatching
<1>1. IInv => ZeroIsDispatching
  BY DEF IInv
<1>2. QED
  BY <1>1, DispatcherInvariant, PTL
=============================================================================
