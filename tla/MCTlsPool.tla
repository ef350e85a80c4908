----------------------------- MODULE MCTlsPool -----------------------------
(* Instances of TlsPool for TLC. *)
EXTENDS TlsPool, TLC

Symmetry == Permutations(Thread) \union Permutations(Chunk)

\* Programs that free remotely keep their threads; the others end them.
Disciplined == {{"remote"}, {"exits", "exhausts"}}
Undisciplined == {{"remote", "exits"}}
Greedy == {{"exits", "exhausts"}}
=============================================================================
