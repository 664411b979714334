----------------------------- MODULE MCNegotiation -----------------------------
(***************************************************************************)
(* Instances of Negotiation for TLC.                                       *)
(***************************************************************************)
EXTENDS NegotiationModes, TLC

CONSTANTS r1, r2, c1, c2, b1

\* Requests are interchangeable, and so are the ids the database hands out.
MCSymmetry == Permutations({r1, r2}) \union Permutations({c1, c2})
================================================================================
