----------------------------- MODULE Primitives -----------------------------
(***************************************************************************)
(* The three shared objects that the rest of the node stands on, each      *)
(* through all its interleavings: the read-write lock, the message queue   *)
(* and the timer's wheel.  A behaviour is about one of them; they share no *)
(* variable, and what each promises is in its own module.                  *)
(***************************************************************************)
EXTENDS RWLock, MessageQueue, Timer

VARIABLE primitive

allVars == <<primitive, lockVars, queueVars, vars>>

AllInit ==
    /\ primitive \in {"rwlock", "mq", "timer"}
    /\ LockInit /\ QueueInit /\ Init

AllNext ==
    /\ UNCHANGED primitive
    /\ \/ primitive = "rwlock" /\ LockNext /\ UNCHANGED <<queueVars, vars>>
       \/ primitive = "mq" /\ QueueNext /\ UNCHANGED <<lockVars, vars>>
       \/ primitive = "timer" /\ Next /\ UNCHANGED <<lockVars, queueVars>>

\* The fairness of FairLockSpec and of Timer's FairSpec, whose modules say why.
AllSpec ==
    /\ AllInit /\ [][AllNext]_allVars
    /\ \A t \in Threads : WF_lockVars(primitive = "rwlock" /\ Step(t))
    /\ WF_vars(primitive = "timer" /\ UpdateTime)
    /\ WF_vars(primitive = "timer" /\ Execute)
=============================================================================
