------------------------------- MODULE Monitor ------------------------------
(***************************************************************************)
(* The watch on one worker (include/monitor.h): the worker's triggers      *)
(* around a dispatch (dispatcher.h), the monitor's check, the endless flag *)
(* that it sets in the context (context.cpp, endless) and the ENDLESS      *)
(* command that reads it (command.h).  Contexts are retired meanwhile; the *)
(* one that is dispatched stays, since its worker has a reference.         *)
(***************************************************************************)
EXTENDS Integers

CONSTANTS
    Targets,        \* handles of contexts, numbers other than 0
    MaxVersion      \* bound: triggers

VARIABLES
    version, check_version,
    m_dest,         \* the context dispatched, or 0
    worker,         \* where the worker is; "dispatching" may last for ever
    handle,         \* the context it dispatches
    checker,        \* where the monitor's thread is
    in_table,       \* contexts that can be grabbed
    m_endless       \* contexts with the flag

watched == <<version, m_dest, worker, handle>>
vars == <<watched, check_version, checker, in_table, m_endless>>

Init ==
    /\ version = 0 /\ check_version = 0
    /\ m_dest = 0
    /\ worker = "idle" /\ handle = 0
    /\ checker = "idle"
    /\ in_table = Targets
    /\ m_endless = {}
-----------------------------------------------------------------------------
(* trigger writes the destination, then counts *)

TriggerBegin(h) ==
    /\ worker = "idle" /\ version < MaxVersion
    /\ m_dest' = h /\ handle' = h
    /\ worker' = "begin"
    /\ UNCHANGED <<version, check_version, checker, in_table, m_endless>>

TriggerEnd ==
    /\ worker = "dispatching"
    /\ m_dest' = 0
    /\ worker' = "end"
    /\ UNCHANGED <<version, handle, check_version, checker, in_table, m_endless>>

Count ==
    /\ worker \in {"begin", "end"}
    /\ version' = version + 1
    /\ worker' = IF worker = "begin" THEN "dispatching" ELSE "idle"
    /\ handle' = IF worker = "begin" THEN handle ELSE 0
    /\ UNCHANGED <<m_dest, check_version, checker, in_table, m_endless>>

\* ENDLESS, sent by the context that is dispatched: the flag is read and cleared.
Endless ==
    /\ worker = "dispatching" /\ handle \in m_endless
    /\ m_endless' = m_endless \ {handle}
    /\ UNCHANGED <<watched, check_version, checker, in_table>>

(* check reads version, and then version or m_dest again *)

Compare ==
    /\ checker = "idle"
    /\ checker' = IF version = check_version THEN "stuck" ELSE "moved"
    /\ UNCHANGED <<watched, check_version, in_table, m_endless>>

\* MUTANT: the version is copied one behind
CopyLate ==
    /\ checker = "moved"
    /\ check_version' = version - 1
    /\ checker' = "idle"
    /\ UNCHANGED <<watched, in_table, m_endless>>

Copy ==
    /\ checker = "moved"
    /\ check_version' = version
    /\ checker' = "idle"
    /\ UNCHANGED <<watched, in_table, m_endless>>

Test ==
    /\ checker = "stuck"
    /\ checker' = IF m_dest # 0 THEN "flag" ELSE "idle"
    /\ UNCHANGED <<watched, check_version, in_table, m_endless>>

\* Context::endless(m_dest) grabs the context, and flags none that is retired; there
\* is no context 0.
Flag ==
    /\ checker = "flag"
    /\ m_endless' = m_endless \cup ({m_dest} \cap in_table)
    /\ checker' = "log"
    /\ UNCHANGED <<watched, check_version, in_table>>

\* "A message from [ ] to [ ] maybe in an endless loop": m_dest is read once more.
Log ==
    /\ checker = "log"
    /\ checker' = "idle"
    /\ UNCHANGED <<watched, check_version, in_table, m_endless>>

\* A context is retired, by itself from its callback or by another.
Retire(h) ==
    /\ h \in in_table
    /\ in_table' = in_table \ {h}
    /\ UNCHANGED <<watched, check_version, checker, m_endless>>

Check == Compare \/ Copy \/ Test \/ Flag \/ Log

Next ==
    \/ \E h \in Targets : TriggerBegin(h) \/ Retire(h)
    \/ TriggerEnd \/ Count \/ Endless \/ Check

Spec == Init /\ [][Next]_vars

\* The monitor's thread goes on checking; nothing is said of the worker.
FairSpec == Spec /\ WF_vars(Check)
-----------------------------------------------------------------------------
\* A callback that never returns is logged again and again, with its context.  The
\* context is flagged as well, and again whenever it has read the flag, if it is in the
\* table; one that was retired during its callback is not (monitor.h:26-34,
\* context.cpp:38-46).
Stuck == worker = "dispatching"

StuckIsReported ==
    <>[]Stuck =>
        /\ []<>(checker = "log" /\ m_dest = handle)
        /\ <>[](handle \in in_table) => []<>(handle \in m_endless)
=============================================================================
