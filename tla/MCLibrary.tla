----------------------------- MODULE MCLibrary ------------------------------
(***************************************************************************)
(* The small graphs and the alphabet the library is checked with: two list *)
(* orders of four vertices, in one of which a vertex comes before the one  *)
(* it is reached from.                                                     *)
(***************************************************************************)
EXTENDS Library

MCOrder == {<<1, 2, 3, 4>>, <<1, 3, 2, 4>>}
MCDirected == <<<<1, 2>>, <<1, 3>>, <<2, 3>>, <<3, 2>>, <<2, 4>>, <<3, 4>>, <<4, 2>>>>
MCUndirected == <<<<1, 2>>, <<1, 3>>, <<1, 4>>, <<2, 3>>, <<2, 4>>, <<3, 4>>>>
MCSigned == {-1, 0, 2}
MCGridSizes == {<<3, 3>>, <<2, 3>>, <<3, 2>>}
MCSymbols == <<1, 2, 3, 4>>
=============================================================================
