-------------------------- MODULE MCLockFreeStack --------------------------
(***************************************************************************)
(* An instance of LockFreeStack for TLC.  No symmetry: it is not sound for *)
(* the liveness property the run checks.                                   *)
(***************************************************************************)
EXTENDS LockFreeStack
=============================================================================
