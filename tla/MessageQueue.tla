---------------------------- MODULE MessageQueue ----------------------------
(***************************************************************************)
(* One message queue and the calls that arrive at it from sending threads  *)
(* and from the workers that dispatch it (include/mq.h, class MQ).  Every  *)
(* function below runs between LOCK() and UNLOCK() of the queue's own spin *)
(* lock, so each is one step.                                              *)
(*                                                                         *)
(* The assertions of these functions are taken as compiled out (NDEBUG):   *)
(* a build that keeps them has a prefix of these behaviours.  A lone       *)
(* worker is handed the queue as often as it was pushed to the global      *)
(* queue.  Several may be handed it at any time, also two of them at once  *)
(* (Dispatcher.tla shows how that comes about), so for them the pushes are *)
(* not counted.                                                            *)
(***************************************************************************)
EXTENDS MQ, FiniteSets

CONSTANTS
    Workers,            \* how many workers may be dispatching the queue
    Data,               \* what messages carry
    Sessions,           \* session numbers a callback may LOCK with; not 0
    MaxCap,             \* bound: the queue is not made to grow beyond
    MaxHeld             \* bound: the slots of the global queue that hold it

ASSUME SessionsAssumption == Sessions \subseteq Nat \ {0}
ASSUME QueueBoundsAssumption == Workers \in Nat /\ MaxCap \in Nat /\ MaxHeld \in Nat \ {0}

Message == [data : Data, session : Sessions \cup {0}]

VARIABLES
    q,                  \* the MQ object
    held,               \* the slots of the global queue that hold it, for a lone worker
    busy,               \* the workers between a successful pop() and pushglobal()
    strayed,            \* history: a message was taken while the queue was locked
    unlocked            \* history: a message has taken the way of pushhead()

queueVars == <<q, held, busy, strayed, unlocked>>

Tracked(slots) == IF Workers = 1 THEN slots ELSE 0

QueueInit ==
    /\ q = NewMQ
    /\ held = Tracked(1)        \* create pushes it (context.cpp:106)
    /\ busy = 0
    /\ strayed = FALSE
    /\ unlocked = FALSE

\* What a call leaves behind, and its push to the global queue.
Becomes(o) ==
    /\ q' = o.mq
    /\ held' = held + Tracked(IF o.scheduled THEN 1 ELSE 0)
    /\ held' <= MaxHeld

Push(m) ==
    /\ \E o \in PushOutcomes(q, m) : o.mq.cap <= MaxCap /\ Becomes(o)
    /\ unlocked' = (unlocked \/ IsUnlock(q, m))
    /\ UNCHANGED <<busy, strayed>>

\* The global queue hands the queue to a worker that is not dispatching it.
Handed ==
    /\ busy < Workers
    /\ held >= Tracked(1)
    /\ held' = held - Tracked(1)

\* The worker calls pop() and gets a message.
Pop ==
    /\ Handed
    /\ HasMessage(q)
    /\ q' = Dequeue(q)
    /\ busy' = busy + 1
    /\ strayed' = (strayed \/ q.lock_session # 0)
    /\ UNCHANGED unlocked

\* It finds none and leaves the queue as it is, which no slot may hold now.
PopEmpty ==
    /\ Handed
    /\ ~HasMessage(q)
    /\ UNCHANGED <<q, busy, strayed, unlocked>>

\* The callback of a dispatched message executes the LOCK command.
Lock(session) ==
    /\ busy > 0
    /\ q' = LockBy(q, session)
    /\ UNCHANGED <<held, busy, strayed, unlocked>>

\* A worker is done with its message.
FinishDispatch ==
    /\ busy > 0
    /\ Becomes(PushGlobal(q))
    /\ busy' = busy - 1
    /\ UNCHANGED <<strayed, unlocked>>

QueueNext ==
    \/ \E m \in Message : Push(m)
    \/ Pop
    \/ PopEmpty
    \/ \E s \in Sessions : Lock(s)
    \/ FinishDispatch

QueueSpec == QueueInit /\ [][QueueNext]_queueVars
-----------------------------------------------------------------------------
\* The ring's indices stay inside its array whatever the order of calls, the
\* expansion and the `--tail` of pushhead() included.
QueueTypeOK ==
    /\ q.cap \in Nat \ {0}
    /\ q.head \in 0 .. q.cap - 1
    /\ q.tail \in 0 .. q.cap - 1
    /\ q.queue \in [0 .. q.cap - 1 -> Message \cup {Junk}]
    /\ q.in_global \in {MQ_IDLE, MQ_IN_GLOBAL, MQ_DISPATCHING, MQ_LOCKED}
    /\ q.lock_session \in Sessions \cup {0}
    /\ q.m_release = 0
    /\ held \in 0 .. MaxHeld
    /\ busy \in 0 .. Workers
    /\ strayed \in BOOLEAN
    /\ unlocked \in BOOLEAN

\* First in, first out through every wrap-around and expansion, until a
\* locked queue is unlocked.
Box == INSTANCE Mailbox WITH contents <- Contents(q), disturbed <- unlocked
ImplementsMailbox == Box!Spec

\* A queue whose mark keeps push() or pushglobal() from scheduling it has
\* somebody who will: a dispatch that has just locked it ends (mark 2), the
\* session that locked it has yet to answer (mark 3), and a queue with a clear
\* mark is with a worker that pushes it back (mq.h:153-162, 181, 214-218,
\* 311-317).  Once a message was dispatched while the queue was locked, the
\* last does not hold: the mark is clear, nobody has it, and the unlock does
\* not schedule it.
SomeoneBringsItBack ==
    /\ q.in_global = MQ_DISPATCHING => busy > 0
    /\ q.in_global = MQ_LOCKED => q.lock_session # 0
    /\ q.in_global = MQ_IDLE /\ ~strayed => q.lock_session = 0 /\ busy > 0

\* "push the msg to the head of the queue" (mq.h:293): the unlock message is
\* the next one out, and those that waited follow.
UnlockGoesFirst ==
    [][\A m \in Message :
          Push(m) /\ IsUnlock(q, m) => Contents(q') = <<m>> \o Contents(q)]_queueVars

\* "3 means mq is not in global mq, and locked session has been set" (mq.h:18):
\* a lone worker, which takes what is in the global queue, is not handed it.
LockedIsNotDispatched == [][Pop => q.in_global # MQ_LOCKED]_queueVars
=============================================================================
