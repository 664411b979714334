------------------------------- MODULE CreditOnce ------------------------------
(***************************************************************************)
(* What the reclaimed-money ledger promises of one table of cases, with no *)
(* requests, snapshots or rows: a source is credited at most once, with a  *)
(* figure somebody on staff put forward for it, and a credit never changes *)
(* or disappears.  Header comment of apps/api/src/services/savings-ledger. *)
(***************************************************************************)
EXTENDS Integers

CONSTANTS Sources,      \* the cases that may be credited
          Figures       \* the amounts a credit may have, all positive

VARIABLES tabled,       \* tabled[s]: the credits s may be settled with
          credit        \* credit[s]: what s was credited, or NoCredit

NoCredit == -1

Init == /\ tabled = [s \in Sources |-> {}]
        /\ credit = [s \in Sources |-> NoCredit]

\* A figure becomes available for settlement.
Table(s, f) ==
  /\ tabled' = [tabled EXCEPT ![s] = @ \union {f}]
  /\ UNCHANGED credit

\* The one credit of a source, from a tabled figure.
Credit(s, f) ==
  /\ credit[s] = NoCredit
  /\ f \in tabled[s]
  /\ credit' = [credit EXCEPT ![s] = f]
  /\ UNCHANGED tabled

Next == \E s \in Sources, f \in Figures : Table(s, f) \/ Credit(s, f)

Spec == Init /\ [][Next]_<<tabled, credit>>
================================================================================
