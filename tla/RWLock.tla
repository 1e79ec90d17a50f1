------------------------------- MODULE RWLock -------------------------------
(***************************************************************************)
(* class rwlock (include/rwlock.h), the spinning read-write lock that      *)
(* guards the handle registry.  One step per access to the two shared      *)
(* counters: the __sync builtins are the atomic steps, the tests of the    *)
(* two spin loops are steps that are enabled when the loop would exit, and *)
(* the test between a reader's increment and its way in is a step of its   *)
(* own, because a writer can arrive in between.                            *)
(***************************************************************************)
EXTENDS Integers, FiniteSets

CONSTANT Threads        \* the threads that share the lock

ASSUME ThreadsAssumption == IsFiniteSet(Threads)

VARIABLES write,        \* int write: 1 from a writer's test-and-set to its unlock
          read,         \* int read: the readers inside or on their way in or out
          pc            \* what each thread does next

lockVars == <<write, read, pc>>

Goto(t, l) == pc' = [pc EXCEPT ![t] = l]

Labels == {"idle", "r_spin", "r_add", "r_check", "r_back", "r_cs",
           "w_set", "w_drain", "w_cs"}

LockInit ==
    /\ write = 0
    /\ read = 0
    /\ pc = [t \in Threads |-> "idle"]
-----------------------------------------------------------------------------
(* rlock() and runlock() *)

CallRLock(t) ==
    /\ pc[t] = "idle"
    /\ Goto(t, "r_spin")
    /\ UNCHANGED <<write, read>>

RSpin(t) ==             \* while(write) is left
    /\ pc[t] = "r_spin"
    /\ write = 0
    /\ Goto(t, "r_add")
    /\ UNCHANGED <<write, read>>

RAddLost(t) ==          \* MUTANT: the increment is lost
    /\ pc[t] = "r_add"
    /\ Goto(t, "r_check")
    /\ UNCHANGED <<write, read>>

RAdd(t) ==              \* __sync_add_and_fetch(&read,1)
    /\ pc[t] = "r_add"
    /\ read' = read + 1
    /\ Goto(t, "r_check")
    /\ UNCHANGED write

RCheckSkipped(t) ==     \* MUTANT: the second look at write is dropped
    /\ pc[t] = "r_check"
    /\ Goto(t, "r_cs")
    /\ UNCHANGED <<write, read>>

RCheck(t) ==            \* if (write) back off, else break: the lock is held
    /\ pc[t] = "r_check"
    /\ Goto(t, IF write # 0 THEN "r_back" ELSE "r_cs")
    /\ UNCHANGED <<write, read>>

RBackNoSpin(t) ==       \* MUTANT: the reader retries without waiting for the writer
    /\ pc[t] = "r_back"
    /\ read' = read - 1
    /\ Goto(t, "r_add")
    /\ UNCHANGED write

RBackKept(t) ==         \* MUTANT: the reader retries without taking its count back
    /\ pc[t] = "r_back"
    /\ Goto(t, "r_spin")
    /\ UNCHANGED <<write, read>>

RBack(t) ==             \* __sync_sub_and_fetch(&read,1), and around again
    /\ pc[t] = "r_back"
    /\ read' = read - 1
    /\ Goto(t, "r_spin")
    /\ UNCHANGED write

RUnlock(t) ==
    /\ pc[t] = "r_cs"
    /\ read' = read - 1
    /\ Goto(t, "idle")
    /\ UNCHANGED write
-----------------------------------------------------------------------------
(* wlock() and wunlock() *)

CallWLock(t) ==
    /\ pc[t] = "idle"
    /\ Goto(t, "w_set")
    /\ UNCHANGED <<write, read>>

WSet(t) ==              \* __sync_lock_test_and_set(&write,1) returned 0
    /\ pc[t] = "w_set"
    /\ write = 0
    /\ write' = 1
    /\ Goto(t, "w_drain")
    /\ UNCHANGED read

WDrainSkipped(t) ==     \* MUTANT: the writer does not wait for the readers
    /\ pc[t] = "w_drain"
    /\ Goto(t, "w_cs")
    /\ UNCHANGED <<write, read>>

WDrain(t) ==            \* while(read) is left: the lock is held
    /\ pc[t] = "w_drain"
    /\ read = 0
    /\ Goto(t, "w_cs")
    /\ UNCHANGED <<write, read>>

WUnlock(t) ==
    /\ pc[t] = "w_cs"
    /\ write' = 0
    /\ Goto(t, "idle")
    /\ UNCHANGED read
-----------------------------------------------------------------------------
\* The steps of a thread that is inside one of the four operations, or inside
\* a section it entered.
Step(t) ==
    \/ RSpin(t) \/ RAdd(t) \/ RCheck(t) \/ RBack(t) \/ RUnlock(t)
    \/ WSet(t) \/ WDrain(t) \/ WUnlock(t)

Call(t) == CallRLock(t) \/ CallWLock(t)

LockNext == \E t \in Threads : Step(t) \/ Call(t)

LockSpec == LockInit /\ [][LockNext]_lockVars

\* A thread inside an operation is scheduled again and again, and leaves its
\* section (tree look-ups and updates, no waiting).  Nobody has to call.
FairLockSpec == LockSpec /\ \A t \in Threads : WF_lockVars(Step(t))
-----------------------------------------------------------------------------
LockTypeOK ==
    /\ write \in {0, 1}
    /\ read \in Nat
    /\ pc \in [Threads -> Labels]

Counted == {t \in Threads : pc[t] \in {"r_check", "r_back", "r_cs"}}
Writers == {t \in Threads : pc[t] \in {"w_drain", "w_cs"}}
Readers == {t \in Threads : pc[t] = "r_cs"}
WritersIn == {t \in Threads : pc[t] = "w_cs"}

\* The two counters say what the threads do: read counts the readers between
\* their increment and their decrement, write is up exactly while one thread
\* is between test-and-set and unlock, and a writer that got in saw no reader
\* that could still get in (rwlock.h:24-30 against 39-42).
LockInv ==
    /\ read = Cardinality(Counted)
    /\ write = 0 <=> Writers = {}
    /\ \A t, u \in Writers : t = u
    /\ WritersIn # {} => Readers = {}

\* A thread in a write section is alone: no other writer, no reader.
Exclusion ==
    \A t \in WritersIn : Readers = {} /\ WritersIn = {t}

\* The lock implements the abstract one: each section is entered at one step.
RW == INSTANCE ReadersWriters WITH reading <- Readers, writing <- WritersIn
ImplementsRW == RW!Spec

\* A writer that has raised write gets in, however many readers keep coming:
\* late readers see write and step back (rwlock.h:26-27).
WriterGetsIn ==
    \A t \in Threads : (pc[t] = "w_drain") ~> (pc[t] = "w_cs")
=============================================================================
