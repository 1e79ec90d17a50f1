------------------------------ MODULE MCHandles ------------------------------
(***************************************************************************)
(* Handles.tla for TLC, safety only.  Threads are interchangeable, and so  *)
(* are names: no action or invariant tells one from another.               *)
(***************************************************************************)
EXTENDS Handles, TLC

Symmetry == Permutations(Threads) \cup Permutations(Names)
=============================================================================
