---------------------------- MODULE MCCancellation -----------------------------
(***************************************************************************)
(* Instances of Cancellation for TLC.                                      *)
(***************************************************************************)
EXTENDS Cancellation, TLC

CONSTANTS r1, r2, c1, c2, s1, s2

Symmetry == Permutations({r1, r2}) \union Permutations({c1, c2})
================================================================================
