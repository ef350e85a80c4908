---------------------------- MODULE MCChunkPool ----------------------------
(* Instances of ChunkPool for TLC. *)
EXTENDS ChunkPool, TLC

Symmetry == Permutations(Thread)
=============================================================================
