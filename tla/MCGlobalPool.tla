--------------------------- MODULE MCGlobalPool ---------------------------
(* Instances of GlobalPool for TLC. *)
EXTENDS GlobalPool, TLC

Symmetry == Permutations(Thread \ {Main}) \union Permutations(Pool)
=============================================================================
