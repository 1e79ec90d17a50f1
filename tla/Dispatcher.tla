----------------------------- MODULE Dispatcher -----------------------------
(***************************************************************************)
(* Workers take message queues from the global queue and dispatch one      *)
(* message each (include/dispatcher.h, Dispatcher::dispatch), while other  *)
(* threads push messages to contexts (src/context.cpp, Context::push) and  *)
(* retire them (src/handle.cpp, Handle::retire).  A context and its MQ     *)
(* share an identity here, the handle.                                     *)
(*                                                                         *)
(* GlobalMQ::pop and push initialise their locals `head` and `tail` from   *)
(* themselves: the slot is whatever the stack holds.  The handle table is  *)
(* guarded by the lock of RWLock.tla, so a look-up with its grab, and a    *)
(* removal, are one step each.  The assertions are taken as compiled out   *)
(* (NDEBUG); a build that keeps them has a prefix of these behaviours.     *)
(* What a worker does after it touched freed memory is not followed: it    *)
(* is "lost".                                                              *)
(***************************************************************************)
EXTENDS MQ, FiniteSets

CONSTANTS
    Workers,        \* threads in the dispatch loop
    Senders,        \* threads that push messages, callbacks included
    Retirers,       \* threads that retire handles
    Handles,        \* the contexts, launched and not yet retired at first
    MAX_GLOBAL_MQ,  \* slots of the global queue (0x10000 in the code)
    MaxMessages,    \* bound: messages sent to one context
    NoMQ            \* an unwritten slot, or no queue

ASSUME GlobalQueueAssumption == MAX_GLOBAL_MQ \in Nat \ {0}
ASSUME MaxMessagesAssumption == MaxMessages \in Nat
ASSUME ThreadsAssumption == IsFiniteSet(Workers) /\ IsFiniteSet(Senders) /\ IsFiniteSet(Retirers)

Threads == Workers \cup Senders \cup Retirers
Slots   == 0 .. MAX_GLOBAL_MQ - 1

VARIABLES
    queue, flag,    \* GlobalMQ's arrays
    mq,             \* the MQ objects
    owner,          \* who is between LOCK() and UNLOCK() of an MQ, for longer than a step
    registered,     \* the handles in the table h2c
    ref,            \* Context::m_ref
    deleted,        \* contexts deleted
    freed,          \* MQs deleted
    pc,             \* where a thread is
    cur,            \* the handle, hence context and MQ, it works on
    slot,           \* its head_ptr in GlobalMQ::pop, its tail in GlobalMQ::push
    hand,           \* a worker's local msg, between its pop and its callback
    sent,           \* history: the messages pushed to an MQ
    taken,          \* history: those popped by a worker to be dispatched
    started,        \* history: those whose callback has started
    leaked          \* history: those popped by drop_queue, which no one frees

globalVars == <<queue, flag>>
messageVars == <<hand, sent, taken, started, leaked>>
vars == <<queue, flag, mq, owner, registered, ref, deleted, freed, pc, cur,
          slot, hand, sent, taken, started, leaked>>

\* ContextFactory::create has pushed each queue, to some slot.
Init ==
    /\ \E at \in [Handles -> Slots] :
          /\ flag = [s \in Slots |-> \E c \in Handles : at[c] = s]
          /\ queue \in [Slots -> Handles \cup {NoMQ}]
          /\ \A s \in Slots : IF flag[s] THEN queue[s] # NoMQ /\ at[queue[s]] = s
                                         ELSE queue[s] = NoMQ
    /\ mq = [c \in Handles |-> NewMQ]
    /\ owner = [c \in Handles |-> NoMQ]
    /\ registered = Handles
    /\ ref = [c \in Handles |-> 1]
    /\ deleted = {}
    /\ freed = {}
    /\ pc = [t \in Threads |-> "idle"]
    /\ cur = [t \in Threads |-> NoMQ]
    /\ slot = [t \in Threads |-> 0]
    /\ hand = [w \in Workers |-> Junk]
    /\ sent = [c \in Handles |-> <<>>]
    /\ taken = [c \in Handles |-> <<>>]
    /\ started = [c \in Handles |-> {}]
    /\ leaked = [c \in Handles |-> <<>>]
-----------------------------------------------------------------------------
Goto(t, label) == pc' = [pc EXCEPT ![t] = label]

Locked(c) == owner[c] # NoMQ

\* A thread done with its queue forgets it, and the slot.
Forget(t) ==
    /\ cur' = [cur EXCEPT ![t] = NoMQ]
    /\ slot' = [slot EXCEPT ![t] = 0]

\* GlobalMQ::push(mq), called with the queue's lock held, up to its first
\* barrier: the pointer is in a slot, the flag not yet set.
StorePointer(t, c) ==
    /\ \E s \in Slots : queue' = [queue EXCEPT ![s] = c] /\ slot' = [slot EXCEPT ![t] = s]
    /\ owner' = [owner EXCEPT ![c] = t]
    /\ Goto(t, "raise_flag")
    /\ UNCHANGED flag

\* The caller leaves the queue's lock without having pushed it.
Unscheduled(t, label) ==
    /\ Goto(t, label)
    /\ UNCHANGED <<queue, flag, owner, slot>>

\* flag[tail] = true, then UNLOCK().  A worker in MQ::release holds no
\* reference and is done; the other callers put theirs.
RaiseFlag(t) ==
    /\ pc[t] = "raise_flag"
    /\ flag' = [flag EXCEPT ![slot[t]] = TRUE]
    /\ owner' = [owner EXCEPT ![cur[t]] = NoMQ]
    /\ Goto(t, "put")
    /\ slot' = [slot EXCEPT ![t] = 0]
    /\ UNCHANGED <<queue, mq, registered, ref, deleted, freed, cur, messageVars>>

RaiseFlagReleased(t) ==
    /\ pc[t] = "raise_flag_released"
    /\ flag' = [flag EXCEPT ![slot[t]] = TRUE]
    /\ owner' = [owner EXCEPT ![cur[t]] = NoMQ]
    /\ Goto(t, "idle")
    /\ Forget(t)
    /\ UNCHANGED <<queue, mq, registered, ref, deleted, freed, messageVars>>
-----------------------------------------------------------------------------
(* Dispatcher::dispatch *)

\* GlobalMQ::pop finds a flagged slot.  Slot 0 counts as the end of the queue,
\* the member tail being 0 for ever; in that case, and without a flag, pop
\* returns NULL and nothing has changed.
TestFlag(w) ==
    /\ pc[w] = "idle"
    /\ \E s \in Slots \ {0} : flag[s] /\ slot' = [slot EXCEPT ![w] = s]
    /\ Goto(w, "read_slot")
    /\ UNCHANGED <<queue, flag, mq, owner, registered, ref, deleted, freed, cur, messageVars>>

\* The compare-and-swap that follows is on the local head: it succeeds.
ReadSlot(w) ==
    /\ pc[w] = "read_slot"
    /\ cur' = [cur EXCEPT ![w] = queue[slot[w]]]
    /\ Goto(w, "clear_flag")
    /\ UNCHANGED <<queue, flag, mq, owner, registered, ref, deleted, freed, slot, messageVars>>

ClearFlag(w) ==
    /\ pc[w] = "clear_flag"
    /\ flag' = [flag EXCEPT ![slot[w]] = FALSE]
    /\ Goto(w, "grab")
    /\ slot' = [slot EXCEPT ![w] = 0]
    /\ UNCHANGED <<queue, mq, owner, registered, ref, deleted, freed, cur, messageVars>>

\* q->handle(), then Handle::grab.
Grab(w) ==
    /\ pc[w] = "grab"
    /\ cur[w] \notin freed
    /\ IF cur[w] \in registered
       THEN ref' = [ref EXCEPT ![cur[w]] = @ + 1] /\ Goto(w, "mq_pop")
       ELSE UNCHANGED ref /\ Goto(w, "mq_release")
    /\ UNCHANGED <<globalVars, mq, owner, registered, deleted, freed, cur, slot, messageVars>>

\* MQ::pop on behalf of dispatch: the message is in the worker's hand.
TakeMessage(w) ==
    LET c == cur[w]
        m == Contents(mq[c])[1]
    IN
    /\ pc[w] = "mq_pop"
    /\ ~Locked(c)
    /\ IF HasMessage(mq[c])
       THEN /\ mq' = [mq EXCEPT ![c] = Dequeue(@)]
            /\ hand' = [hand EXCEPT ![w] = m]
            /\ taken' = [taken EXCEPT ![c] = Append(@, m)]
            /\ Goto(w, "popped")
       ELSE Goto(w, "put") /\ UNCHANGED <<mq, hand, taken>>
    /\ UNCHANGED <<globalVars, owner, registered, ref, deleted, freed, cur, slot, sent, started, leaked>>

\* _dispatch_message calls cb; without a cb the message is freed and logged.
StartCallback(w) ==
    /\ pc[w] = "popped"
    /\ started' = [started EXCEPT ![cur[w]] = @ \cup {hand[w]}]
    /\ hand' = [hand EXCEPT ![w] = Junk]
    /\ Goto(w, "callback")
    /\ UNCHANGED <<globalVars, mq, owner, registered, ref, deleted, freed, cur, slot, sent, taken, leaked>>

\* The callback has returned; the message is freed, forwarded or kept by it.
FinishCallback(w) ==
    /\ pc[w] = "callback"
    /\ Goto(w, "push_global")
    /\ UNCHANGED <<globalVars, mq, owner, registered, ref, deleted, freed, cur, slot, messageVars>>

\* MQ::pushglobal.
Reschedule(w) ==
    LET c == cur[w]
        o == PushGlobal(mq[c])
    IN
    /\ pc[w] = "push_global"
    /\ ~Locked(c)
    /\ mq' = [mq EXCEPT ![c] = o.mq]
    /\ IF o.scheduled THEN StorePointer(w, c) ELSE Unscheduled(w, "put")
    /\ UNCHANGED <<registered, ref, deleted, freed, cur, messageVars>>
-----------------------------------------------------------------------------
(* The context is gone: MQ::release and drop_queue *)

PushBack(w, c) ==
    /\ \E s \in Slots : queue' = [queue EXCEPT ![s] = c] /\ slot' = [slot EXCEPT ![w] = s]
    /\ owner' = [owner EXCEPT ![c] = w]
    /\ Goto(w, "raise_flag_released")
    /\ UNCHANGED flag

\* MUTANT: the queue is dropped as soon as its handle is retired
ReleaseUnmarked(w) ==
    /\ pc[w] = "mq_release"
    /\ cur[w] \notin freed
    /\ ~Locked(cur[w])
    /\ Unscheduled(w, "drop_pop")
    /\ UNCHANGED <<mq, registered, ref, deleted, freed, cur, messageVars>>

ReleaseMQ(w) ==
    LET c == cur[w] IN
    /\ pc[w] = "mq_release"
    /\ c \notin freed
    /\ ~Locked(c)
    /\ IF mq[c].m_release = 1 THEN Unscheduled(w, "drop_pop") ELSE PushBack(w, c)
    /\ UNCHANGED <<mq, registered, ref, deleted, freed, cur, messageVars>>

\* `while (!pop(&msg))`: a message ends the loop and is left to no one; an
\* empty queue is popped for ever, and each round frees what msg happens to hold.
DropPop(w) ==
    LET c == cur[w] IN
    /\ pc[w] = "drop_pop"
    /\ c \notin freed
    /\ ~Locked(c)
    /\ IF HasMessage(mq[c])
       THEN /\ mq' = [mq EXCEPT ![c] = Dequeue(@)]
            /\ leaked' = [leaked EXCEPT ![c] = Append(@, Contents(mq[c])[1])]
            /\ Goto(w, "delete_mq")
       ELSE UNCHANGED <<mq, leaked, pc>>
    /\ UNCHANGED <<globalVars, owner, registered, ref, deleted, freed, cur, slot, hand, sent, taken,
                   started>>

DeleteMQ(w) ==
    /\ pc[w] = "delete_mq"
    /\ cur[w] \notin freed
    /\ freed' = freed \cup {cur[w]}
    /\ Goto(w, "idle")
    /\ Forget(w)
    /\ UNCHANGED <<globalVars, mq, owner, registered, ref, deleted, messageVars>>

\* A worker that was handed the queue together with the one that deleted it.
TouchFreed(w) ==
    /\ pc[w] \in {"grab", "mq_release", "drop_pop", "delete_mq"}
    /\ cur[w] \in freed
    /\ Goto(w, "lost")
    /\ UNCHANGED <<globalVars, mq, owner, registered, ref, deleted, freed, cur, slot, messageVars>>
-----------------------------------------------------------------------------
(* Context::push, Handle::retire and Context::release *)

\* MUTANT: the queue is pushed to before the context is looked up
SendUngrabbed(s, c) ==
    /\ pc[s] = "idle"
    /\ c \in registered
    /\ Len(sent[c]) < MaxMessages
    /\ cur' = [cur EXCEPT ![s] = c]
    /\ Goto(s, "mq_push")
    /\ UNCHANGED <<globalVars, mq, owner, registered, ref, deleted, freed, slot, messageVars>>

SendGrab(s, c) ==
    /\ pc[s] = "idle"
    /\ c \in registered
    /\ Len(sent[c]) < MaxMessages
    /\ ref' = [ref EXCEPT ![c] = @ + 1]
    /\ cur' = [cur EXCEPT ![s] = c]
    /\ Goto(s, "mq_push")
    /\ UNCHANGED <<globalVars, mq, owner, registered, deleted, freed, slot, messageVars>>

SendPush(s) ==
    LET c == cur[s]
        m == [data |-> Len(sent[c]) + 1, session |-> 0]
    IN
    /\ pc[s] = "mq_push"
    /\ ~Locked(c)
    /\ \E o \in PushOutcomes(mq[c], m) :
          /\ mq' = [mq EXCEPT ![c] = o.mq]
          /\ IF o.scheduled THEN StorePointer(s, c) ELSE Unscheduled(s, "put")
    /\ sent' = [sent EXCEPT ![c] = Append(@, m)]
    /\ UNCHANGED <<registered, ref, deleted, freed, cur, hand, taken, started, leaked>>

\* MUTANT: two threads may both find the handle in the table
RetireAgain(k, c) ==
    /\ pc[k] = "idle"
    /\ registered' = registered \ {c}
    /\ cur' = [cur EXCEPT ![k] = c]
    /\ Goto(k, "put")
    /\ UNCHANGED <<globalVars, mq, owner, ref, deleted, freed, slot, messageVars>>

\* The table's reference passes to the thread, which then releases it.
Retire(k, c) ==
    /\ pc[k] = "idle"
    /\ c \in registered
    /\ registered' = registered \ {c}
    /\ cur' = [cur EXCEPT ![k] = c]
    /\ Goto(k, "put")
    /\ UNCHANGED <<globalVars, mq, owner, ref, deleted, freed, slot, messageVars>>

\* Context::release: decrement and test in one instruction.
Put(t) ==
    LET c == cur[t] IN
    /\ pc[t] = "put"
    /\ ref' = [ref EXCEPT ![c] = @ - 1]
    /\ IF ref[c] = 1 THEN Goto(t, "delete") /\ UNCHANGED <<cur, slot>>
                     ELSE Goto(t, "idle") /\ Forget(t)
    /\ UNCHANGED <<globalVars, mq, owner, registered, deleted, freed, messageVars>>

\* _delete_context: the queue is marked, without its lock, then the context goes.
MarkRelease(t) ==
    /\ pc[t] = "delete"
    /\ mq' = [mq EXCEPT ![cur[t]].m_release = 1]
    /\ Goto(t, "delete_context")
    /\ UNCHANGED <<globalVars, owner, registered, ref, deleted, freed, cur, slot, messageVars>>

DeleteContext(t) ==
    /\ pc[t] = "delete_context"
    /\ deleted' = deleted \cup {cur[t]}
    /\ Goto(t, "idle")
    /\ Forget(t)
    /\ UNCHANGED <<globalVars, mq, owner, registered, ref, freed, messageVars>>
-----------------------------------------------------------------------------
Dispatch(w) ==
    \/ TestFlag(w)
    \/ ReadSlot(w)
    \/ ClearFlag(w)
    \/ Grab(w)
    \/ TakeMessage(w)
    \/ StartCallback(w)
    \/ FinishCallback(w)
    \/ Reschedule(w)
    \/ ReleaseMQ(w)
    \/ RaiseFlagReleased(w)
    \/ DropPop(w)
    \/ DeleteMQ(w)
    \/ TouchFreed(w)

Common(t) ==
    \/ RaiseFlag(t)
    \/ Put(t)
    \/ MarkRelease(t)
    \/ DeleteContext(t)

Next ==
    \/ \E w \in Workers : Dispatch(w)
    \/ \E s \in Senders : SendPush(s) \/ \E c \in Handles : SendGrab(s, c)
    \/ \E k \in Retirers, c \in Handles : Retire(k, c)
    \/ \E t \in Threads : Common(t)

Spec == Init /\ [][Next]_vars
-----------------------------------------------------------------------------
Labels == {"idle", "read_slot", "clear_flag", "grab", "mq_pop", "popped", "callback", "push_global",
           "mq_release", "raise_flag_released", "drop_pop", "delete_mq", "lost",
           "mq_push", "raise_flag", "put", "delete", "delete_context"}

\* No index leaves its array, no reference count goes below zero, and whoever
\* is inside a queue's lock is in the middle of pushing that queue.
TypeOK ==
    /\ queue \in [Slots -> Handles \cup {NoMQ}]
    /\ flag \in [Slots -> BOOLEAN]
    /\ \A c \in Handles : mq[c].head < mq[c].cap /\ mq[c].tail < mq[c].cap
    /\ owner \in [Handles -> Threads \cup {NoMQ}]
    /\ \A c \in Handles : Locked(c) =>
          cur[owner[c]] = c /\ pc[owner[c]] \in {"raise_flag", "raise_flag_released"}
    /\ registered \subseteq Handles
    /\ ref \in [Handles -> Nat]
    /\ deleted \subseteq Handles \ registered
    /\ freed \subseteq Handles
    /\ pc \in [Threads -> Labels]
    /\ cur \in [Threads -> Handles \cup {NoMQ}]
    /\ slot \in [Threads -> Slots]

\* The thread has a reference it must still put.
Holds(t, c) ==
    cur[t] = c /\ pc[t] \in {"mq_pop", "popped", "callback", "push_global", "mq_push", "raise_flag", "put"}

\* m_ref counts the table's entry and the threads that work on the context,
\* through every mixture of dispatches, pushes and retirements.
RefCounts ==
    \A c \in Handles :
        ref[c] = Cardinality({c} \cap registered) + Cardinality({t \in Threads : Holds(t, c)})

\* A thread that holds a reference, or is about to mark the queue of the
\* context it deletes, never touches a deleted context or queue: whatever the
\* global queue hands to the workers, also the same queue twice.
HeldIsAlive ==
    \A t \in Threads, c \in Handles :
        /\ Holds(t, c) => c \notin deleted \cup freed
        /\ cur[t] = c /\ pc[t] = "delete" => c \notin deleted \cup freed

\* Messages leave a queue in the order of the pushes, also while two workers
\* dispatch it and others push.
PoppedInOrder ==
    \A c \in Handles : sent[c] = taken[c] \o leaked[c] \o Contents(mq[c])

InHand(c) == {hand[w] : w \in {v \in Workers : cur[v] = c /\ pc[v] = "popped"}}

\* Each message popped for dispatch is in one worker's hand or has been given to
\* the callback, never both and never twice.  In which order two workers enter
\* the callback with what they popped is open: dispatcher.h:33 and 45 are apart.
DispatchedOnce ==
    \A c \in Handles :
        /\ {taken[c][i] : i \in DOMAIN taken[c]} = started[c] \cup InHand(c)
        /\ started[c] \cap InHand(c) = {}
        /\ \A v, w \in Workers :
              /\ v # w /\ pc[v] = "popped" /\ pc[w] = "popped" /\ cur[v] = c /\ cur[w] = c
              => hand[v] # hand[w]

\* Every message pushed is popped in its turn and dispatched once, or still waits.
EachOnce == PoppedInOrder /\ DispatchedOnce

Dispatching(w, c) == cur[w] = c /\ pc[w] \in {"popped", "callback", "push_global"}

\* What in_global = 0 means in the code: a worker has a message of the queue in
\* its hand or its callback, and will push the queue back.  This is the reverse
\* of mq.h:15-16, where 0 is a queue "not in global mq" and 1 one "in global mq
\* , or the message is dispatching", and of the assertion that in_global is not
\* 0 after the dispatch (mq.h:153): it fails unless a push came meanwhile.
ZeroIsDispatching ==
    \A c \in Handles :
        mq[c].in_global = MQ_IDLE /\ mq[c].m_release = 0 => \E w \in Workers : Dispatching(w, c)
-----------------------------------------------------------------------------
\* CHECKCALLING_BEGIN (context.h:15) asserts that a context's callback is not
\* running when a worker is about to call it.
OneAtATime ==
    \A v, w \in Workers :
        v # w /\ pc[v] = "callback" /\ pc[w] = "callback" => cur[v] # cur[w]

\* "1 means mq is in global mq , or the message is dispatching" (mq.h:16), so a
\* push that finds 1 may leave the queue alone: the mark of a context that is not
\* retired, with messages waiting, is there because a slot, a worker, or a thread
\* that is pushing it has the queue.
MarkedIsScheduled ==
    \A c \in registered :
        mq[c].in_global = MQ_IN_GLOBAL /\ HasMessage(mq[c]) =>
            \/ \E s \in Slots : flag[s] /\ queue[s] = c
            \/ \E w \in Workers : Dispatching(w, c)
            \/ \E w \in Workers : pc[w] = "read_slot" /\ queue[slot[w]] = c
            \/ \E t \in Threads : cur[t] = c /\ pc[t] \in {"clear_flag", "grab", "mq_pop", "raise_flag"}

\* "make sure data is freed" (mq.h:334): a queue is deleted with no message
\* that neither a callback nor drop_queue has disposed of.
DropFreesData ==
    \A c \in freed : leaked[c] = <<>> /\ Contents(mq[c]) = <<>>
=============================================================================
