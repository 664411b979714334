------------------------------- MODULE SeriesWalk -------------------------------
(***************************************************************************)
(* The recurring-charge engine over a growing history: one merchant        *)
(* charges again, or a day passes without a charge.                        *)
(***************************************************************************)
EXTENDS Recurrence

CONSTANTS ChargeGaps,     \* days between two charges
          ChargeAmounts,  \* amounts charged, in cents
          MaxCharges,     \* BOUND: charges of a history
          MaxSilence      \* BOUND: days after the last charge

ASSUME SeriesAssumption ==
  /\ ChargeGaps \subseteq Nat \ {0} /\ ChargeAmounts \subseteq Nat
  /\ MaxCharges \in Nat /\ MaxSilence \in Nat

VARIABLES history, silence

seriesVars == <<history, silence>>

HistoryInit == history = <<>> /\ silence = 0

ChargeAgain ==
  /\ Len(history) < MaxCharges
  /\ \E gap \in ChargeGaps, amount \in ChargeAmounts :
       history' = Append(history,
         [day |-> IF history = <<>> THEN 0 ELSE Last(history).day + gap,
          amount |-> amount, provider |-> FALSE, category |-> "entertainment"])
  /\ silence' = 0

DayPasses == history # <<>> /\ silence < MaxSilence /\ silence' = silence + 1 /\ UNCHANGED history

HistoryNext == ChargeAgain \/ DayPasses
HistorySpec == HistoryInit /\ [][HistoryNext]_seriesVars

--------------------------------------------------------------------------------
(* Properties *)

\* A subscription is not given up before the charge predicted for it is due,
\* however irregular the charges that its cadence still admits.
ActiveUntilNextCharge ==
  history # <<>> =>
    LET now == Last(history).day + silence
    IN \A s \in DetectSubscription(history, now) : now <= s.next => s.isActive

\* The whole days that a band admits.
Fits(days, n, b) == Abs(16 * days - n * b.days) <= n * b.tolerance

\* A merchant that was found and charges again on time stays found, and in one band
\* only: whichever of its earlier charges came early or late, as long as their mean
\* fits, no interval at the edge of a band and no median of an even number of them
\* lets the series drop out, and it does not end while the next charge may still
\* come in time (cadence.ts, detect-subscriptions.ts).
OnTimeStaysFound ==
  Len(history) > MinOccurrences =>
    LET earlier == Gaps(Front(history))
        now == Last(history).day + silence
    IN \A b \in MatchCadenceBand(earlier) :
         /\ Fits(SumSeq(earlier), Len(earlier), b)
         /\ Fits(Last(Gaps(history)), 1, b)
         => /\ MatchCadenceBand(Gaps(history)) = {b}
            /\ \E s \in DetectSubscription(history, now) : Fits(silence, 1, b) => s.isActive
================================================================================
