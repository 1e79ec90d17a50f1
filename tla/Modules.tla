------------------------------- MODULE Modules ------------------------------
(***************************************************************************)
(* The module registry (include/module.h): query looks for a module        *)
(* without the lock, then again with it, and loads it.  The file system    *)
(* decides which libraries there are and which of them have an init        *)
(* function.  insert is left out: it copies through a local pointer that   *)
(* is null (module.h:116), and nothing calls it.                           *)
(***************************************************************************)
EXTENDS Integers, FiniteSets

CONSTANTS
    Loaders,            \* threads that launch contexts
    ModuleNames,
    Opening,            \* names whose library dlopen finds
    Initialising,       \* those of them with an init function
    MAX_MODULE_TYPE

VARIABLES
    m,                  \* the array, from 1: what open_sym has filled in, or is to
    m_count,
    module_lock,
    opened,             \* how often dlopen has succeeded for a name
    loader,             \* where a thread is
    wanted, result,     \* the name it looks for, the index it has found or 0
    answers             \* history: the answers given, as <<name, index>>

vars == <<m, m_count, module_lock, opened, loader, wanted, result, answers>>

Empty == "empty"

Init ==
    /\ m = [index \in 1 .. MAX_MODULE_TYPE |-> Empty]
    /\ m_count = 0
    /\ module_lock = FALSE
    /\ opened = [n \in ModuleNames |-> 0]
    /\ loader = [t \in Loaders |-> "idle"]
    /\ wanted = [t \in Loaders |-> Empty]
    /\ result = [t \in Loaders |-> 0]
    /\ answers = {}

Goto(t, label) == loader' = [loader EXCEPT ![t] = label]

\* find: only entries below m_count are looked at.
Found(name) ==
    IF \E index \in 1 .. m_count : m[index] = name
    THEN CHOOSE index \in 1 .. m_count : m[index] = name ELSE 0

Answer(t, index) ==
    /\ answers' = answers \cup {<<wanted[t], index>>}
    /\ wanted' = [wanted EXCEPT ![t] = Empty] /\ result' = [result EXCEPT ![t] = 0]
    /\ Goto(t, "idle")
-----------------------------------------------------------------------------
Query(t, name) ==
    /\ loader[t] = "idle"
    /\ wanted' = [wanted EXCEPT ![t] = name]
    /\ Goto(t, "find")
    /\ UNCHANGED <<m, m_count, module_lock, opened, result, answers>>

Find(t) ==
    /\ loader[t] = "find"
    /\ IF Found(wanted[t]) # 0 THEN Answer(t, Found(wanted[t]))
       ELSE Goto(t, "lock") /\ UNCHANGED <<wanted, result, answers>>
    /\ UNCHANGED <<m, m_count, module_lock, opened>>

LockModules(t) ==
    /\ loader[t] = "lock" /\ ~module_lock
    /\ module_lock' = TRUE
    /\ Goto(t, "check")
    /\ UNCHANGED <<m, m_count, opened, wanted, result, answers>>

\* MUTANT: no second look under the lock
CheckOnce(t) ==
    /\ loader[t] = "check"
    /\ Goto(t, IF m_count < MAX_MODULE_TYPE THEN "open" ELSE "unlock")
    /\ UNCHANGED <<m, m_count, module_lock, opened, wanted, result, answers>>

DoubleCheck(t) ==
    /\ loader[t] = "check"
    /\ result' = [result EXCEPT ![t] = Found(wanted[t])]
    /\ Goto(t, IF Found(wanted[t]) = 0 /\ m_count < MAX_MODULE_TYPE THEN "open" ELSE "unlock")
    /\ UNCHANGED <<m, m_count, module_lock, opened, wanted, answers>>

\* try_open, and the name and handle of the entry behind the last.
TryOpen(t) ==
    /\ loader[t] = "open"
    /\ IF wanted[t] \in Opening
       THEN /\ opened' = [opened EXCEPT ![wanted[t]] = @ + 1]
            /\ m' = [m EXCEPT ![m_count + 1] = wanted[t]]
            /\ Goto(t, "sym")
       ELSE Goto(t, "unlock") /\ UNCHANGED <<m, opened>>
    /\ UNCHANGED <<m_count, module_lock, wanted, result, answers>>

\* open_sym: without an init function the entry stays outside, and the library open.
OpenSym(t) ==
    /\ loader[t] = "sym"
    /\ IF wanted[t] \in Initialising
       THEN m_count' = m_count + 1 /\ result' = [result EXCEPT ![t] = m_count + 1]
       ELSE UNCHANGED <<m_count, result>>
    /\ Goto(t, "unlock")
    /\ UNCHANGED <<m, module_lock, opened, wanted, answers>>

UnlockModules(t) ==
    /\ loader[t] = "unlock"
    /\ module_lock' = FALSE
    /\ Answer(t, result[t])
    /\ UNCHANGED <<m, m_count, opened>>

Next ==
    \E t \in Loaders :
        \/ \E name \in ModuleNames : opened[name] < 2 /\ Query(t, name)
        \/ Find(t) \/ LockModules(t) \/ DoubleCheck(t) \/ TryOpen(t) \/ OpenSym(t) \/ UnlockModules(t)

Spec == Init /\ [][Next]_vars
-----------------------------------------------------------------------------
\* A module is loaded once, however many threads want it at a time, and everybody is given
\* the same entry, one that is complete; nobody is refused a module that is loaded, or that
\* can be while there is room for it (module.h:79-107).
ModulesOnce ==
    /\ \A i, j \in 1 .. m_count : m[i] \in Initialising /\ (m[i] = m[j] => i = j)
    /\ \A n \in Initialising : opened[n] <= 1
    /\ \A a \in answers :
          IF a[2] = 0 THEN a[1] \notin Initialising \/ (m_count = MAX_MODULE_TYPE /\ Found(a[1]) = 0)
          ELSE a[2] <= m_count /\ m[a[2]] = a[1]
=============================================================================
