------------------------------- MODULE Powers -------------------------------
(***************************************************************************)
(* Powers of two.  A recursive function and not 2^n, so that what holds of *)
(* shifts and of sizes that double can be proved from its equation.        *)
(***************************************************************************)
EXTENDS Integers

Pow2[n \in Nat] == IF n = 0 THEN 1 ELSE 2 * Pow2[n - 1]
=============================================================================
