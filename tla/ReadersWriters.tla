--------------------------- MODULE ReadersWriters ---------------------------
(***************************************************************************)
(* What a read-write lock promises its callers: any number of threads may  *)
(* be inside a read section together, a thread inside a write section is   *)
(* alone.  Acquiring is one atomic step here; RWLock.tla shows how the     *)
(* code gets there in several.                                             *)
(***************************************************************************)

CONSTANT Threads

VARIABLES reading,      \* the threads inside a read section
          writing       \* the threads inside a write section

rwVars == <<reading, writing>>

Init ==
    /\ reading = {}
    /\ writing = {}

BeginRead(t) ==
    /\ t \notin reading
    /\ writing = {}
    /\ reading' = reading \cup {t}
    /\ UNCHANGED writing

EndRead(t) ==
    /\ t \in reading
    /\ reading' = reading \ {t}
    /\ UNCHANGED writing

BeginWrite(t) ==
    /\ reading = {}
    /\ writing = {}
    /\ writing' = {t}
    /\ UNCHANGED reading

EndWrite(t) ==
    /\ t \in writing
    /\ writing' = writing \ {t}
    /\ UNCHANGED reading

Next ==
    \E t \in Threads : BeginRead(t) \/ EndRead(t) \/ BeginWrite(t) \/ EndWrite(t)

Spec == Init /\ [][Next]_rwVars
=============================================================================
