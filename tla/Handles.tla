------------------------------- MODULE Handles -------------------------------
(***************************************************************************)
(* The handle table and the life of contexts: ContextFactory::create and   *)
(* Context::release (src/context.cpp), reg, retire, grab, reg_name and     *)
(* retireall (src/handle.cpp, include/handle.h).                           *)
(*                                                                         *)
(* The table is guarded by the lock of RWLock.tla.  A write section is one *)
(* step; grab's read section is two, the look-up and the increment, and no *)
(* write section runs between them (TableProofs.tla, MutualExclusion).     *)
(* The thread that launches may be any worker, in a LAUNCH command; what   *)
(* its init callback does (EXIT, NAME, KILL ...) is what another thread    *)
(* does meanwhile.                                                         *)
(***************************************************************************)
EXTENDS Integers, FiniteSets

CONSTANTS
    Threads,
    Names,
    Harbor,                 \* this node's id, in the bits above a handle's own
    HANDLE_REMOTE_SHIFT,    \* how many bits a handle's own number has (24)
    MaxLaunch,              \* bound: contexts created
    NoCtx, NoName           \* null pointer, absent key

ASSUME HarborAssumption == Harbor \in Nat /\ HANDLE_REMOTE_SHIFT \in Nat /\ 2 ^ HANDLE_REMOTE_SHIFT \in Nat
ASSUME MaxLaunchAssumption == MaxLaunch \in Nat /\ MaxLaunch < 2 ^ HANDLE_REMOTE_SHIFT
ASSUME ThreadsAssumption == IsFiniteSet(Threads)
ASSUME NullAssumption == NoCtx \notin 1 .. MaxLaunch /\ NoName \notin Names

Contexts == 1 .. MaxLaunch          \* in the order of their creation

\* handle_index | m_harbor, the index being below 2^HANDLE_REMOTE_SHIFT.
HandleOf(i) == Harbor * 2 ^ HANDLE_REMOTE_SHIFT + i

Handle == {HandleOf(i) : i \in 1 .. MaxLaunch} \cup 0 .. MaxLaunch

VARIABLES
    handle_index,
    h2c, h2n, n2h,          \* the three maps
    handle,                 \* Context::m_handle
    ref,                    \* Context::m_ref
    created, deleted,       \* contexts allocated, contexts deleted
    queued,                 \* contexts whose queue has been created
    inited,                 \* contexts with m_init set
    scheduled,              \* contexts whose queue create has pushed to the global queue
    pc, cur,                \* where a thread is, the context it works on
    arg,                    \* the handle it is about to retire
    next,                   \* retireall's i, or 0 outside of retireall
    nonnull,                \* whether retireall's local `ctx` is not null
    found,                  \* history: the handles registered when retireall began
    failed                  \* history: contexts whose create has returned NULL

maps == <<h2c, h2n, n2h>>
life == <<handle, ref, created, deleted, queued, inited, scheduled>>
abort == <<next, nonnull, found>>
vars == <<handle_index, maps, life, pc, cur, arg, abort, failed>>

Init ==
    /\ handle_index = 1
    /\ h2c = [h \in Handle |-> NoCtx]
    /\ h2n = [h \in Handle |-> NoName]
    /\ n2h = [n \in Names |-> 0]
    /\ handle = [c \in Contexts |-> 0]
    /\ ref = [c \in Contexts |-> 0]
    /\ created = 0
    /\ deleted = {} /\ queued = {} /\ inited = {} /\ scheduled = {}
    /\ pc = [t \in Threads |-> "idle"]
    /\ cur = [t \in Threads |-> NoCtx]
    /\ arg = [t \in Threads |-> 0]
    /\ next = [t \in Threads |-> 0]
    /\ nonnull = [t \in Threads |-> FALSE]
    /\ found = [t \in Threads |-> {}]
    /\ failed = {}
-----------------------------------------------------------------------------
At(t, label)   == pc[t] = label
Goto(t, label) == pc' = [pc EXCEPT ![t] = label]

\* The thread is done with a call: back to the loop of retireall, or idle.
Return(t) ==
    /\ Goto(t, IF next[t] = 0 THEN "idle" ELSE "look")
    /\ cur' = [cur EXCEPT ![t] = NoCtx]
    /\ arg' = [arg EXCEPT ![t] = 0]

\* Nobody is between rlock() and runlock().
NoReader == \A t \in Threads : ~At(t, "grab")

\* Context::release; the last reference deletes the context.
Release(c) ==
    /\ ref' = [ref EXCEPT ![c] = @ - 1]
    /\ deleted' = IF ref[c] = 1 THEN deleted \cup {c} ELSE deleted
-----------------------------------------------------------------------------
(* ContextFactory::create *)

\* MUTANT: the table's reference is not counted
CreateUncounted(t) ==
    /\ At(t, "idle")
    /\ created < MaxLaunch
    /\ created' = created + 1
    /\ ref' = [ref EXCEPT ![created + 1] = 1]
    /\ cur' = [cur EXCEPT ![t] = created + 1]
    /\ Goto(t, "reg")
    /\ UNCHANGED <<handle_index, maps, handle, deleted, queued, inited, scheduled, arg, abort, failed>>

Create(t) ==
    /\ At(t, "idle")
    /\ created < MaxLaunch
    /\ created' = created + 1
    /\ ref' = [ref EXCEPT ![created + 1] = 2]
    /\ cur' = [cur EXCEPT ![t] = created + 1]
    /\ Goto(t, "reg")
    /\ UNCHANGED <<handle_index, maps, handle, deleted, queued, inited, scheduled, arg, abort, failed>>

\* Handle::reg.
Reg(t) ==
    LET h == HandleOf(handle_index) IN
    /\ At(t, "reg")
    /\ NoReader
    /\ handle_index' = handle_index + 1
    /\ h2c' = [h2c EXCEPT ![h] = cur[t]]
    /\ handle' = [handle EXCEPT ![cur[t]] = h]
    /\ Goto(t, "new_queue")
    /\ UNCHANGED <<h2n, n2h, ref, created, deleted, queued, inited, scheduled, cur, arg, abort, failed>>

\* Until here the context's queue pointer is not initialised.
NewQueue(t) ==
    /\ At(t, "new_queue")
    /\ queued' = queued \cup {cur[t]}
    /\ Goto(t, "init")
    /\ UNCHANGED <<handle_index, maps, handle, ref, created, deleted, inited, scheduled,
                   cur, arg, abort, failed>>

CallInit(t) ==
    /\ At(t, "init")
    /\ \/ Goto(t, "release_launched")
       \/ Goto(t, "release_failed")
    /\ UNCHANGED <<handle_index, maps, life, cur, arg, abort, failed>>

\* MUTANT: the test of `ret` is inverted
ReleaseInverted(t) ==
    /\ At(t, "release_launched")
    /\ Release(cur[t])
    /\ Goto(t, IF ref[cur[t]] = 1 THEN "set_init" ELSE "push_queue")
    /\ UNCHANGED <<handle_index, maps, handle, created, queued, inited, scheduled,
                   cur, arg, abort, failed>>

\* release() returns null if the context was retired in the meantime, and then
\* `ret` is not used any more.
ReleaseLaunched(t) ==
    /\ At(t, "release_launched")
    /\ Release(cur[t])
    /\ Goto(t, IF ref[cur[t]] = 1 THEN "push_queue" ELSE "set_init")
    /\ UNCHANGED <<handle_index, maps, handle, created, queued, inited, scheduled,
                   cur, arg, abort, failed>>

\* ctx->init = true, through a pointer that is no longer counted: by now the
\* context may be deleted.
SetInit(t) ==
    /\ At(t, "set_init")
    /\ inited' = inited \cup {cur[t]}
    /\ Goto(t, "push_queue")
    /\ UNCHANGED <<handle_index, maps, handle, ref, created, deleted, queued, scheduled,
                   cur, arg, abort, failed>>

\* GlobalMQ::push(queue), then create returns.
PushQueue(t) ==
    /\ At(t, "push_queue")
    /\ scheduled' = scheduled \cup {cur[t]}
    /\ Return(t)
    /\ UNCHANGED <<handle_index, maps, handle, ref, created, deleted, queued, inited, abort, failed>>

ReleaseFailed(t) ==
    /\ At(t, "release_failed")
    /\ Release(cur[t])
    /\ Goto(t, "read_handle")
    /\ UNCHANGED <<handle_index, maps, handle, created, queued, inited, scheduled,
                   cur, arg, abort, failed>>

\* MUTANT: the handle handed out last is retired, not this context's
ReadIndex(t) ==
    /\ At(t, "read_handle")
    /\ arg' = [arg EXCEPT ![t] = HandleOf(handle_index - 1)]
    /\ Goto(t, "retire_failed")
    /\ UNCHANGED <<handle_index, maps, life, cur, abort, failed>>

\* retire(ctx->handle): a deleted context's handle is whatever the memory holds.
ReadHandle(t) ==
    /\ At(t, "read_handle")
    /\ \E h \in Handle :
          /\ cur[t] \in deleted \/ h = handle[cur[t]]
          /\ arg' = [arg EXCEPT ![t] = h]
    /\ Goto(t, "retire_failed")
    /\ UNCHANGED <<handle_index, maps, life, cur, abort, failed>>
-----------------------------------------------------------------------------
(* Handle::retire, reg_name and retireall *)

\* MUTANT: retire under a read lock
RemoveUnlocked(t, h) ==
    /\ h2c' = [h2c EXCEPT ![h] = NoCtx]
    /\ h2n' = [h2n EXCEPT ![h] = NoName]
    /\ n2h' = IF h2n[h] = NoName THEN n2h ELSE [n2h EXCEPT ![h2n[h]] = 0]
    /\ IF h2c[h] = NoCtx
       THEN Return(t)
       ELSE /\ Goto(t, "put")
            /\ cur' = [cur EXCEPT ![t] = h2c[h]]
            /\ arg' = [arg EXCEPT ![t] = 0]

\* The write section of retire(h): the handle, its context's entry and the one
\* name h2n has for it.  The context found is then released.
RemoveHandle(t, h) ==
    /\ NoReader
    /\ h2c' = [h2c EXCEPT ![h] = NoCtx]
    /\ h2n' = [h2n EXCEPT ![h] = NoName]
    /\ n2h' = IF h2n[h] = NoName THEN n2h ELSE [n2h EXCEPT ![h2n[h]] = 0]
    /\ IF h2c[h] = NoCtx
       THEN Return(t)
       ELSE /\ Goto(t, "put")
            /\ cur' = [cur EXCEPT ![t] = h2c[h]]
            /\ arg' = [arg EXCEPT ![t] = 0]

\* EXIT and KILL: any handle a caller has at hand.
Retire(t, h) ==
    /\ At(t, "idle")
    /\ h # 0
    /\ RemoveHandle(t, h)
    /\ UNCHANGED <<handle_index, life, abort, failed>>

RetireFailed(t) ==
    /\ At(t, "retire_failed")
    /\ RemoveHandle(t, arg[t])
    /\ failed' = failed \cup {cur[t]}
    /\ UNCHANGED <<handle_index, life, abort>>

\* MUTANT: reg_name does not look for an earlier owner of the name
RegNameTaken(t, h, n) ==
    /\ At(t, "idle")
    /\ NoReader
    /\ h2c[h] # NoCtx
    /\ n2h' = [n2h EXCEPT ![n] = h]
    /\ h2n' = [h2n EXCEPT ![h] = n]
    /\ UNCHANGED <<handle_index, h2c, life, pc, cur, arg, abort, failed>>

\* NAME and REG.  A handle may be given several names; h2n keeps the last.
RegName(t, h, n) ==
    /\ At(t, "idle")
    /\ NoReader
    /\ h2c[h] # NoCtx
    /\ n2h[n] = 0
    /\ n2h' = [n2h EXCEPT ![n] = h]
    /\ h2n' = [h2n EXCEPT ![h] = n]
    /\ UNCHANGED <<handle_index, h2c, life, pc, cur, arg, abort, failed>>

\* ABORT: retireall visits 1 .. handle_index - 1, without the harbor's bits.
\* Its local `ctx` is not initialised.
BeginAbort(t) ==
    /\ At(t, "idle")
    /\ next' = [next EXCEPT ![t] = 1]
    /\ \E b \in BOOLEAN : nonnull' = [nonnull EXCEPT ![t] = b]
    /\ found' = [found EXCEPT ![t] = {h \in Handle : h2c[h] # NoCtx}]
    /\ Goto(t, "look")
    /\ UNCHANGED <<handle_index, maps, life, cur, arg, failed>>

\* The look-up of one i.  An i that is not there leaves `ctx` as it was, and is
\* retired all the same if that is not null.
Look(t) ==
    /\ At(t, "look")
    /\ next[t] < handle_index
    /\ h2c[next[t]] # NoCtx \/ nonnull[t]
    /\ nonnull' = [nonnull EXCEPT ![t] = TRUE]
    /\ Goto(t, "retire_next")
    /\ UNCHANGED <<handle_index, maps, life, cur, arg, next, found, failed>>

Skip(t) ==
    /\ At(t, "look")
    /\ next[t] < handle_index
    /\ h2c[next[t]] = NoCtx /\ ~nonnull[t]
    /\ next' = [next EXCEPT ![t] = @ + 1]
    /\ UNCHANGED <<handle_index, maps, life, pc, cur, arg, nonnull, found, failed>>

RetireNext(t) ==
    /\ At(t, "retire_next")
    /\ RemoveHandle(t, next[t])
    /\ next' = [next EXCEPT ![t] = @ + 1]
    /\ UNCHANGED <<handle_index, life, nonnull, found, failed>>

\* MUTANT: the loop ends one handle early
EndAbortEarly(t) ==
    /\ At(t, "look")
    /\ next[t] + 1 >= handle_index
    /\ next' = [next EXCEPT ![t] = 0]
    /\ nonnull' = [nonnull EXCEPT ![t] = FALSE]
    /\ Goto(t, "aborted")
    /\ UNCHANGED <<handle_index, maps, life, cur, arg, found, failed>>

EndAbort(t) ==
    /\ At(t, "look")
    /\ next[t] >= handle_index
    /\ next' = [next EXCEPT ![t] = 0]
    /\ nonnull' = [nonnull EXCEPT ![t] = FALSE]
    /\ Goto(t, "aborted")
    /\ UNCHANGED <<handle_index, maps, life, cur, arg, found, failed>>

ReturnFromAbort(t) ==
    /\ At(t, "aborted")
    /\ found' = [found EXCEPT ![t] = {}]
    /\ Goto(t, "idle")
    /\ UNCHANGED <<handle_index, maps, life, cur, arg, next, nonnull, failed>>
-----------------------------------------------------------------------------
(* Context::push and Context::endless: grab, use, release *)

Find(t, h) ==
    /\ At(t, "idle")
    /\ h2c[h] # NoCtx
    /\ cur' = [cur EXCEPT ![t] = h2c[h]]
    /\ Goto(t, "grab")
    /\ UNCHANGED <<handle_index, maps, life, arg, abort, failed>>

Grab(t) ==
    /\ At(t, "grab")
    /\ ref' = [ref EXCEPT ![cur[t]] = @ + 1]
    /\ Goto(t, "use")
    /\ UNCHANGED <<handle_index, maps, handle, created, deleted, queued, inited, scheduled,
                   cur, arg, abort, failed>>

\* What follows a push through an uninitialised queue pointer is not followed.
Use(t) ==
    /\ At(t, "use")
    /\ Goto(t, IF cur[t] \in queued THEN "put" ELSE "lost")
    /\ UNCHANGED <<handle_index, maps, life, cur, arg, abort, failed>>

\* MUTANT: the thread that retired a context does not release it
PutGrabbedOnly(t) ==
    /\ At(t, "put")
    /\ IF h2c[handle[cur[t]]] = NoCtx THEN UNCHANGED <<ref, deleted>> ELSE Release(cur[t])
    /\ Return(t)
    /\ UNCHANGED <<handle_index, maps, handle, created, queued, inited, scheduled, abort, failed>>

Put(t) ==
    /\ At(t, "put")
    /\ Release(cur[t])
    /\ Return(t)
    /\ UNCHANGED <<handle_index, maps, handle, created, queued, inited, scheduled, abort, failed>>
-----------------------------------------------------------------------------
\* The steps of a call that has begun.
Continue(t) ==
    \/ Reg(t) \/ NewQueue(t) \/ CallInit(t)
    \/ ReleaseLaunched(t) \/ SetInit(t) \/ PushQueue(t)
    \/ ReleaseFailed(t) \/ ReadHandle(t) \/ RetireFailed(t)
    \/ Look(t) \/ RetireNext(t) \/ Skip(t) \/ EndAbort(t) \/ ReturnFromAbort(t)
    \/ Grab(t) \/ Use(t) \/ Put(t)

Begin(t) ==
    \/ Create(t)
    \/ BeginAbort(t)
    \/ \E h \in Handle : Retire(t, h) \/ Find(t, h)
    \/ \E h \in Handle, n \in Names : RegName(t, h, n)

Next == \E t \in Threads : Begin(t) \/ Continue(t)

Spec == Init /\ [][Next]_vars

\* Threads run, and the init and release callbacks of modules return.
FairSpec == Spec /\ \A t \in Threads : WF_vars(Continue(t))
-----------------------------------------------------------------------------
Labels == {"idle", "reg", "new_queue", "init", "release_launched", "set_init", "push_queue",
           "release_failed", "read_handle", "retire_failed", "look", "retire_next", "aborted",
           "grab", "use", "put", "lost"}

TypeOK ==
    /\ handle_index \in 1 .. MaxLaunch + 1
    /\ h2c \in [Handle -> Contexts \cup {NoCtx}]
    /\ h2n \in [Handle -> Names \cup {NoName}]
    /\ n2h \in [Names -> Handle]
    /\ handle \in [Contexts -> Handle]
    /\ ref \in [Contexts -> Nat]
    /\ created \in 0 .. MaxLaunch
    /\ inited \subseteq queued /\ scheduled \subseteq queued /\ queued \subseteq 1 .. created
    /\ deleted \subseteq queued
    /\ failed \cap scheduled = {}
    /\ pc \in [Threads -> Labels]
    /\ cur \in [Threads -> Contexts \cup {NoCtx}]
    /\ arg \in [Threads -> Handle]
    /\ next \in [Threads -> 0 .. MaxLaunch + 1]
    /\ nonnull \in [Threads -> BOOLEAN]
    /\ found \in [Threads -> SUBSET Handle]

Building == {"new_queue", "init", "release_launched", "release_failed"}

\* The thread owns a reference to the context.
Holds(t, c) == cur[t] = c /\ pc[t] \in Building \cup {"use", "put", "lost"}

\* m_ref counts the table's entry and the threads that hold the context, the
\* launching one included, whoever retires it and when.
RefCounts ==
    \A c \in Contexts :
        \/ ref[c] = Cardinality({h \in Handle : h2c[h] = c}) + Cardinality({t \in Threads : Holds(t, c)})
        \/ ref[c] = 2 /\ \E t \in Threads : cur[t] = c /\ At(t, "reg")

\* A deleted context is out of reach: not in the table, held by no thread, and
\* not between a reader's look-up and its increment.  (The launching thread
\* keeps a pointer that it does not count: "set_init", "read_handle".)
DeletedIsUnreachable ==
    \A c \in deleted :
        /\ \A h \in Handle : h2c[h] # c
        /\ \A t \in Threads : ~Holds(t, c) /\ ~(cur[t] = c /\ At(t, "grab"))

\* h2n and n2h agree on the name a handle was given last, and only registered
\* handles have one.
NamesAgree ==
    \A h \in Handle : h2n[h] # NoName => h2c[h] # NoCtx /\ n2h[h2n[h]] = h

\* The dispatcher asserts ctx->init (dispatcher.h:135): no queue is scheduled
\* whose context lives and has not got the flag.
ScheduledIsInit == scheduled \subseteq inited \cup deleted

\* A create that returned NULL has left no handle behind, also when the
\* context was retired, or deleted, while it ran.
FailedIsGone == \A c \in failed, h \in Handle : h2c[h] # c

\* "destroy all context" (command.h:223): what was registered when ABORT began
\* is not registered when it ends.
AbortRetiresAll ==
    \A t \in Threads : At(t, "aborted") => \A h \in found[t] : h2c[h] = NoCtx

\* "delete from h2n, n2h" (handle.cpp:33): a name in n2h leads to a registered
\* handle.
NamesResolve == \A n \in Names : n2h[n] # 0 => h2c[n2h[n]] # NoCtx

\* Every reference is given back: a retired context is deleted in the end,
\* unless a thread that pushed to its missing queue took one with it.
Retired(c) == handle[c] # 0 /\ \A h \in Handle : h2c[h] # c

RetiredIsDeleted ==
    \A c \in Contexts :
        []<>(Retired(c) => c \in deleted \/ \E t \in Threads : cur[t] = c /\ At(t, "lost"))
=============================================================================
