--------------------------- MODULE MCHybridTable ---------------------------
(* A small instance of HybridTable: the smallest array has 2 cells, so keys *)
(* up to 6 force three growths, and 3, 5, 6 can start in the hash part.     *)
EXTENDS HybridTable, TLC

Symmetric == Permutations(Values)
=============================================================================
