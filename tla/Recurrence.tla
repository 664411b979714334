------------------------------- MODULE Recurrence -------------------------------
(***************************************************************************)
(* The recurring-charge engine of packages/core/src/detection: which       *)
(* charges count, whether those of one merchant are a subscription or a    *)
(* bill, at which amount, and whether the price changed.  Dates are whole  *)
(* days, amounts cents, a merchant its normalized key.  Confidence scores  *)
(* and display names decide nothing and are left out.                      *)
(***************************************************************************)
EXTENDS Stats

NonPurchaseCategories == {"income", "transfers", "savings", "fees"}
BillCategories == {"housing", "utilities", "telecommunications", "insurance"}

\* A charge is [day, amount, category, provider]; a history is in order of days.
IsSubscriptionCandidate(txn) ==
  /\ txn.amount > 0
  /\ txn.category \notin NonPurchaseCategories
  /\ txn.provider \/ txn.category \notin BillCategories
IsBillCandidate(txn) == txn.amount > 0 /\ txn.category \in BillCategories

\* The charges at these places of a history.
Filtered(all, places) ==
  LET filtered[n \in 0..Len(all)] ==
        IF n = 0 THEN <<>>
        ELSE IF n \in places THEN Append(filtered[n - 1], all[n]) ELSE filtered[n - 1]
  IN filtered[Len(all)]
SubscriptionCharges(all) == Filtered(all, {i \in DOMAIN all : IsSubscriptionCandidate(all[i])})
BillCharges(all) == Filtered(all, {i \in DOMAIN all : IsBillCandidate(all[i])})

MinOccurrences == 3

\* A band in sixteenths of a day, and 35% of it, squared, in hundredths of a day.
CadenceBands ==
  {[cadence |-> "weekly",    days |-> 112,  tolerance |-> 16,  jitter |-> 600],
   [cadence |-> "biweekly",  days |-> 224,  tolerance |-> 24,  jitter |-> 2401],
   [cadence |-> "monthly",   days |-> 487,  tolerance |-> 41,  jitter |-> 11348],
   [cadence |-> "quarterly", days |-> 1461, tolerance |-> 128, jitter |-> 102140],
   [cadence |-> "annual",    days |-> 5844, tolerance |-> 224, jitter |-> 1634242]}

BugMatchCadenceBand(gaps) ==
  {b \in CadenceBands :
     /\ Abs(8 * TwiceMedian(gaps) - b.days) < b.tolerance
     /\ 100 * Spread(gaps) <= b.jitter * Len(gaps) * Len(gaps)}

\* The bands are apart: a gap distribution fits one at most.
MatchCadenceBand(gaps) ==
  {b \in CadenceBands :
     /\ Abs(8 * TwiceMedian(gaps) - b.days) <= b.tolerance
     /\ 100 * Spread(gaps) <= b.jitter * Len(gaps) * Len(gaps)}

Gaps(txns) == [i \in 1..(Len(txns) - 1) |-> txns[i + 1].day - txns[i].day]
Amounts(txns) == [i \in DOMAIN txns |-> txns[i].amount]

Recurs(txns) == Len(txns) >= MinOccurrences /\ MatchCadenceBand(Gaps(txns)) # {}

\* Silent for at most one and a half intervals and a grace.
IsActive(txns, now, grace) ==
  4 * (now - Last(txns).day) <= 3 * TwiceMedian(Gaps(txns)) + 4 * grace

PredictNextCharge(txns) == Last(txns).day + Rounded(TwiceMedian(Gaps(txns)), 2)

\* The latest amount is over 8% off the mean of those before.
PriceChanged(amounts) ==
  LET n == Len(amounts) - 1
      prior == SumSeq(Front(amounts))
  IN n >= 2 /\ prior > 0 /\ 100 * Abs(n * Last(amounts) - prior) > 8 * prior

SubscriptionGrace == 10
BillGrace == 20

\* What the engine reports of a merchant: nothing or one series.
DetectSubscription(all, now) ==
  LET txns == SubscriptionCharges(all)
      changed == PriceChanged(Amounts(txns))
  IN IF ~Recurs(txns) THEN {}
     ELSE {[amount |-> Last(txns).amount,
            changed |-> changed,
            previous |-> IF changed THEN Mode(Front(Amounts(txns))) ELSE -1,
            next |-> PredictNextCharge(txns),
            isActive |-> IsActive(txns, now, SubscriptionGrace)]}

DetectBill(all, now) ==
  LET txns == BillCharges(all)
  IN IF ~Recurs(txns) THEN {}
     ELSE {[last |-> Last(txns).amount,
            expected |-> Rounded(TwiceMedian(Amounts(txns)), 2),
            isActive |-> IsActive(txns, now, BillGrace)]}
================================================================================
