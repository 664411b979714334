------------------------------- MODULE MCBilling -------------------------------
(***************************************************************************)
(* Instances of Billing for TLC.                                           *)
(***************************************************************************)
EXTENDS Billing, TLC

CONSTANTS h1, h2, m1, p1, p2,
          MaxMuddle        \* BOUND: events, once things go out of order

Bounded == (orderly /\ ~crossed) \/ Len(sent) <= MaxMuddle

Symmetry == Permutations({h1, h2})
================================================================================
