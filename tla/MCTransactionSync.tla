--------------------------- MODULE MCTransactionSync ---------------------------
(***************************************************************************)
(* Instances of TransactionSync for TLC.                                   *)
(***************************************************************************)
EXTENDS TransactionSync

CONSTANTS j1, j2, t1, a1
================================================================================
