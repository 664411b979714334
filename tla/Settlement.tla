------------------------------ MODULE Settlement -------------------------------
(***************************************************************************)
(* settleNegotiation over a band of inputs: a negotiation on a fixed fee   *)
(* whose secured saving is raised cent by cent.                            *)
(***************************************************************************)
EXTENDS CaseRules

CONSTANT MaxSaving   \* BOUND: the largest saving tried, in cents

ASSUME SettlementAssumption == MaxSaving \in Nat

\* FEE_PERCENT_MIN and FEE_PERCENT_MAX
MinFee == 35
MaxFee == 60

VARIABLES saving, pct

settlementVars == <<saving, pct>>

SettlementInit == saving = 0 /\ pct \in MinFee..MaxFee

\* The concierge secures one cent more.
Raise == /\ saving < MaxSaving
         /\ saving' = saving + 1
         /\ UNCHANGED pct

SettlementSpec == SettlementInit /\ [][Raise]_settlementVars

\* What the dialog of a bill offers to choose from, and the fee it shows beside it.
FeeChoices == {35, 45, 55, 60}
FeePreview(projected, percent) ==
  LET exact == projected * percent
  IN exact \div 100 + (IF exact % 100 >= 50 THEN 1 ELSE 0)

\* The fee is the nearest cent to its exact share, and never more than the
\* saving: fee and share always split the saving. The dialog's choices are fees a case
\* may be created with, and a projection that comes true costs what the dialog showed.
FeeIsNearestCent ==
  /\ 100 * Fee(saving, pct) - saving * pct \in -49..50
  /\ Fee(saving, pct) \in 0..saving
  /\ FeeChoices \subseteq MinFee..MaxFee
  /\ pct \in FeeChoices => FeePreview(saving, pct) = Fee(saving, pct)
================================================================================
