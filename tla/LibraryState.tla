---------------------------- MODULE LibraryState ----------------------------
(***************************************************************************)
(* The state of a behaviour of the library: the part it uses, what the     *)
(* part holds, and what it should.                                         *)
(***************************************************************************)
VARIABLES kind, s, model

part == <<kind, s, model>>

\* A step of a behaviour that uses part k.
Becomes(k, t, m) == kind = k /\ s' = t /\ model' = m /\ UNCHANGED kind
=============================================================================
