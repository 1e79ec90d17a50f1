---------------------------- MODULE MCDispatcher ----------------------------
(***************************************************************************)
(* Dispatcher.tla for TLC.  Workers are interchangeable, and so are        *)
(* handles: no action or invariant names one of them.                      *)
(***************************************************************************)
EXTENDS Dispatcher, TLC

Symmetry == Permutations(Workers) \cup Permutations(Handles)
=============================================================================
