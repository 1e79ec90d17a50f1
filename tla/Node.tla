-------------------------------- MODULE Node --------------------------------
(***************************************************************************)
(* The services around the dispatcher: a behaviour takes one of them, its  *)
(* part, through its interleavings.  The parts share no variable; what one *)
(* promises another is in their modules.                                   *)
(***************************************************************************)
EXTENDS Integers

CONSTANTS
    Handles, Deaf, MaxCommands, MaxCasts, Junk,                                   \* Multicast
    Threads, Names, Harbor, HANDLE_REMOTE_SHIFT, MaxLaunch, NoCtx, NoName,  \* Handles
    Services, GroupHandles, NoGroup, MaxGroups, MaxGroupCalls,              \* Groups
    Loaders, ModuleNames, Opening, Initialising, MAX_MODULE_TYPE,           \* Modules
    Locals, Remote, MaxCallbacks, MaxBuffers, MaxPending,             \* Delivery
    Targets, MaxVersion                                                     \* Monitor

\* The members of a group are contexts of one node, whose handles differ in the low 24
\* bits: compar_uint orders them as numbers.
ASSUME HandlesAssumption == Handles \subseteq Nat \ {0} /\ \A h, k \in Handles : h - k < 2^24
ASSUME CastsAssumption == MaxCommands \in Nat /\ MaxCasts \in Nat
ASSUME GroupsAssumption == Services \subseteq Nat \ {0} /\ NoGroup \notin GroupHandles /\ MaxGroups \in Nat
ASSUME ModulesAssumption ==
    Initialising \subseteq Opening /\ Opening \subseteq ModuleNames /\ MAX_MODULE_TYPE \in Nat
ASSUME LocalsAssumption ==
    /\ Locals \subseteq Nat \ {0} /\ Remote \notin Locals \cup {0}
    /\ MaxBuffers \in Nat /\ MaxPending \in Nat
ASSUME TargetsAssumption == Targets \subseteq Nat \ {0}

VARIABLES
    part,
    data, enter_queue, leave_queue, alive, mc_queued, dropped, m_ref, freed,
    deaf, torn, casts, mc_pc, i, release, lost,                                         \* Multicast
    handle_index, h2c, h2n, n2h, handle, ref, created, deleted, queued,
    inited, scheduled, pc, cur, arg, next, nonnull, found, failed,          \* Handles
    m_hash, m_lock, sent, cleared, late, killed, creations, calls, at, cmd, group, ctx, effect, \* Groups
    m, m_count, module_lock, opened, loader, wanted, result, answers,       \* Modules
    store, registered, cb, current, forwarded, forward, named, dangling, crossed,   \* Delivery
    version, check_version, m_dest, worker, watched, checker, in_table, m_endless   \* Monitor

Multicast == INSTANCE Multicast WITH queued <- mc_queued, pc <- mc_pc
Table     == INSTANCE Handles
Groups    == INSTANCE Groups
Modules   == INSTANCE Modules
Delivery  == INSTANCE Delivery
Monitor   == INSTANCE Monitor WITH handle <- watched

multicast == <<data, enter_queue, leave_queue, alive, mc_queued, dropped, m_ref, freed,
               deaf, torn, casts, mc_pc, i, release, lost>>
table     == <<handle_index, h2c, h2n, n2h, handle, ref, created, deleted, queued,
               inited, scheduled, pc, cur, arg, next, nonnull, found, failed>>
groups    == <<m_hash, m_lock, sent, cleared, late, killed, creations, calls, at, cmd, group, ctx, effect>>
modules   == <<m, m_count, module_lock, opened, loader, wanted, result, answers>>
delivery  == <<store, registered, cb, current, forwarded, forward, named, dangling, crossed>>
monitor   == <<version, check_version, m_dest, worker, watched, checker, in_table, m_endless>>
vars == <<part, multicast, table, groups, modules, delivery, monitor>>

Init ==
    /\ part \in {"multicast", "handles", "groups", "modules", "delivery", "monitor"}
    /\ Multicast!Init /\ Table!Init /\ Groups!Init /\ Modules!Init /\ Delivery!Init /\ Monitor!Init
    /\ part # "delivery" => cb = Locals
    /\ part # "multicast" => deaf = {}

Next ==
    /\ UNCHANGED part
    /\ \/ /\ part = "multicast" /\ Multicast!Next
          /\ UNCHANGED <<table, groups, modules, delivery, monitor>>
       \/ /\ part = "handles" /\ Table!Next
          /\ UNCHANGED <<multicast, groups, modules, delivery, monitor>>
       \/ /\ part = "groups" /\ Groups!Next
          /\ UNCHANGED <<multicast, table, modules, delivery, monitor>>
       \/ /\ part = "modules" /\ Modules!Next
          /\ UNCHANGED <<multicast, table, groups, delivery, monitor>>
       \/ /\ part = "delivery" /\ Delivery!Next
          /\ UNCHANGED <<multicast, table, groups, modules, monitor>>
       \/ /\ part = "monitor" /\ Monitor!Next
          /\ UNCHANGED <<multicast, table, groups, modules, delivery>>

Spec == Init /\ [][Next]_vars

\* Threads run, callbacks that cast run on, workers dispatch what is queued, and the
\* monitor's thread checks; the modules say why.
FairSpec ==
    /\ Spec
    /\ WF_multicast(part = "multicast" /\ Multicast!Cast)
    /\ \A h \in Handles, k \in Multicast!Messages :
          WF_multicast(part = "multicast" /\ (Multicast!Dispatch(h, k) \/ Multicast!Discard(h, k)))
    /\ \A t \in Threads : WF_table(part = "handles" /\ Table!Continue(t))
    /\ WF_monitor(part = "monitor" /\ Monitor!Check)
-----------------------------------------------------------------------------
\* What each part promises; the modules say it in full.

\* combine_queue merges and removes as on sets (multicast.h:108-194).
CombineIsSetUnion == Multicast!CombineIsSetUnion

\* A shared message's count is exact while dispatches overtake the cast, and it is not
\* deleted before the last (multicast.h:44-98), but for a message that a member without
\* a callback frees under the others (dispatcher.h:41-43).
CountIsExact == Multicast!CountIsExact /\ Multicast!FreedIsDone

\* Every shared message is deleted in the end, or freed by a member without a callback
\* (multicast.h:44-98).
CastIsFreed == Multicast!CastIsFreed

\* Every retired context is deleted in the end (handle.cpp:21-45, context.cpp:48-64).
RetiredIsDeleted == Table!RetiredIsDeleted

\* A group's context is sent what took effect on its group, in that order (group_mgr.h).
GroupsAgree == Groups!GroupsAgree

\* Modules are loaded once and found by everybody (module.h:79-107).
ModulesOnce == Modules!ModulesOnce

\* The data of every message has one owner, but for three exceptions (dispatcher.h).
OneOwner == Delivery!OneOwner

\* A callback that does not return is logged, and its context flagged unless it is
\* retired (monitor.h:26-34).
StuckIsReported == Monitor!StuckIsReported
=============================================================================
