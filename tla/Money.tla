---------------------------------- MODULE Money ----------------------------------
(***************************************************************************)
(* What a recurring amount costs a month and how much of it is wasted:     *)
(* packages/core/src/money/{monthly-equivalent,savings}.ts, the saving of  *)
(* a cancellation (case-money.ts) and the rot score (rot/index.ts), on     *)
(* whole cents and hours with the default benchmark and square root.       *)
(* One subscription is walked: its member uses it an hour more, or its     *)
(* price goes up by a cent.                                                *)
(***************************************************************************)
EXTENDS Stats, Settlement

CONSTANTS BillingCadences,  \* cadences walked
          MaxPrice,         \* BOUND: highest price, in cents
          MaxHours          \* BOUND: hours used in a month

ASSUME MoneyAssumption ==
  /\ BillingCadences \subseteq {"weekly", "biweekly", "monthly", "quarterly", "annual"}
  /\ MaxPrice \in Nat /\ MaxHours \in Nat

VARIABLES price, cadence, hours

moneyVars == <<price, cadence, hours>>

\* CADENCE_DAYS in sixteenths of a day.
CadenceDays ==
  [weekly |-> 112, biweekly |-> 224, monthly |-> 487, quarterly |-> 1461, annual |-> 5844]

\* Wrong variant: Math.floor.
BugMonthlyEquivalentCents(cents, cad) == (cents * 487) \div CadenceDays[cad]
MonthlyEquivalentCents(cents, cad) == Rounded(cents * CadenceDays["monthly"], CadenceDays[cad])

CancellationSavingsCents(cents, cad) == 12 * MonthlyEquivalentCents(cents, cad)

\* The dashboard counts periods in a year instead.
PeriodsPerYear == [weekly |-> 52, biweekly |-> 26, monthly |-> 12, quarterly |-> 4, annual |-> 1]
WebMonthlyEquivalentCents(cents, cad) == Rounded(cents * PeriodsPerYear[cad], 12)

\* The rows with a status, and the rows that a filter keeps, in their order.
WithStatus(rows, status) == {i \in DOMAIN rows : rows[i].status = status}
Kept(rows, places) ==
  [k \in 1..Cardinality(places) |->
     rows[CHOOSE i \in places : Cardinality({j \in places : j < i}) = k - 1]]

\* summarizeSubscriptions over rows of [id, cents, cadence, status].
SummarizeSubscriptions(subs) ==
  LET monthly == SumSeq([i \in DOMAIN subs |->
                   IF subs[i].status = "active"
                   THEN WebMonthlyEquivalentCents(subs[i].cents, subs[i].cadence) ELSE 0])
      count(status) == Cardinality(WithStatus(subs, status))
  IN [monthly |-> monthly, yearly |-> 12 * monthly, active |-> count("active"),
      paused |-> count("paused"), requested |-> count("cancel_requested"),
      canceled |-> count("canceled")]

\* What the dashboard calls potential a month: the cost of the active subscriptions
\* flagged as unused, and of each negotiable bill a twelfth of what a year is projected
\* to save.
PotentialMonthlySavings(subs, unused, bills) ==
  SumSeq([i \in DOMAIN subs |->
     IF subs[i].status = "active" /\ subs[i].id \in unused
     THEN WebMonthlyEquivalentCents(subs[i].cents, subs[i].cadence) ELSE 0])
    + SumSeq([i \in DOMAIN bills |->
         IF bills[i].negotiable THEN Rounded(bills[i].projected, 12) ELSE 0])

\* The bills page counts monthly bills alone as monthly; bills are rows of [last,
\* cadence, negotiable, projected].
BillsPage(bills) ==
  [monthly |-> SumSeq([i \in DOMAIN bills |->
                 IF bills[i].cadence = "monthly" THEN bills[i].last ELSE 0]),
   projection |-> SumSeq([i \in DOMAIN bills |->
                    IF bills[i].negotiable THEN bills[i].projected ELSE 0])]

\* The cards of the overview, where every bill counts as monthly.
Overview(subs, unused, bills) ==
  LET summary == SummarizeSubscriptions(subs)
  IN [monthly |-> summary.monthly, yearly |-> summary.yearly,
      potential |-> PotentialMonthlySavings(subs, unused, bills),
      active |-> summary.active, notActive |-> summary.paused + summary.canceled,
      bills |-> Len(bills), negotiable |-> Cardinality({i \in DOMAIN bills : bills[i].negotiable}),
      billsPerMonth |-> SumSeq([i \in DOMAIN bills |-> bills[i].last])]

\* The savings page over rows of [kind, cents]; refunds do not recur.
SavingsSummary(events) ==
  LET total == SumSeq([i \in DOMAIN events |-> events[i].cents])
      firstYear == SumSeq([i \in DOMAIN events |->
                     IF events[i].kind # "fee_refunded" THEN events[i].cents ELSE 0])
  IN [total |-> total, monthlyRunRate |-> Rounded(firstYear, 12), yearlyProjected |-> firstYear]

\* Totals over rows of [cents, cadence].
SubscriptionSpend(subs) ==
  LET monthly == SumSeq([i \in DOMAIN subs |->
                   MonthlyEquivalentCents(subs[i].cents, subs[i].cadence)])
  IN [monthly |-> monthly, annual |-> 12 * monthly]

\* Fifteen percent of a year, as a projection.
EstimatedNegotiationSavings(monthly) == Rounded(monthly * 12 * 15, 100)

\* What the API projects for the active negotiable bills, rows of [last, expected,
\* cadence]: a bill that was never charged counts with what is expected of it, if anything.
Null == -1
BillAmount(b) == IF b.last # Null THEN b.last ELSE IF b.expected # Null THEN b.expected ELSE 0
BillNegotiationPotential(bills) ==
  LET monthly == SumSeq([i \in DOMAIN bills |->
                   MonthlyEquivalentCents(BillAmount(bills[i]), bills[i].cadence)])
  IN [monthly |-> monthly, annual |-> EstimatedNegotiationSavings(monthly)]

BenchmarkHours == 20

\* round(100 * (1 - sqrt(used / 20))): the scores that are not above it by half.
RotScore(used) ==
  Cardinality({s \in 1..100 : 2000 * Min({used, BenchmarkHours}) <= (201 - 2 * s) * (201 - 2 * s)})

\* round(cents * (1 - sqrt(used / 20))), counted likewise.
NotAbove(w, cents, used) == cents * cents * used <= 5 * (2 * cents + 1 - 2 * w) * (2 * cents + 1 - 2 * w)
\* Wrong variant: the benchmark is not a cap, and the ratio is negative beyond it.
BugWasted(cents, used) ==
  Cardinality({w \in 1..cents : NotAbove(w, cents, used)})
    - (IF used > BenchmarkHours THEN (cents * (used - BenchmarkHours)) \div BenchmarkHours ELSE 0)
Wasted(cents, used) == Cardinality({w \in 1..cents : NotAbove(w, cents, Min({used, BenchmarkHours}))})

Tier(score) == IF score >= 60 THEN "high_rot"
               ELSE IF score >= 30 THEN "moderate_rot" ELSE "healthy"

ComputeRotScore(cents, used) ==
  [score |-> RotScore(used), wasted |-> Wasted(cents, used),
   captured |-> cents - Wasted(cents, used), tier |-> Tier(RotScore(used))]

\* Totals over rows of [cents, used]; the score is weighted by price.
SummarizePortfolio(items) ==
  LET total == SumSeq([i \in DOMAIN items |-> items[i].cents])
      weighted == SumSeq([i \in DOMAIN items |-> RotScore(items[i].used) * items[i].cents])
      scores == SumSeq([i \in DOMAIN items |-> RotScore(items[i].used)])
      count(tier) == Cardinality({i \in DOMAIN items : Tier(RotScore(items[i].used)) = tier})
  IN [total |-> total,
      high |-> count("high_rot"), moderate |-> count("moderate_rot"), healthy |-> count("healthy"),
      wasted |-> SumSeq([i \in DOMAIN items |-> Wasted(items[i].cents, items[i].used)]),
      average |-> IF items = <<>> THEN 0
                  ELSE IF total > 0 THEN Rounded(weighted, total)
                  ELSE Rounded(scores, Len(items))]

\* The list's score of a subscription, and its portfolio of the active ones.
CalculateSubscriptionRot(sub, used) ==
  ComputeRotScore(WebMonthlyEquivalentCents(sub.cents, sub.cadence), used)
PortfolioRotSummary(subs, used) ==
  LET active == Kept(subs, WithStatus(subs, "active"))
  IN SummarizePortfolio([i \in DOMAIN active |->
       [cents |-> WebMonthlyEquivalentCents(active[i].cents, active[i].cadence),
        used |-> used[active[i].id]]])

\* The banner over the list, and the card of one subscription with its slider at used.
RotBanner(subs, used) ==
  LET portfolio == PortfolioRotSummary(subs, used)
  IN [tier |-> Tier(portfolio.average), leakage |-> portfolio.wasted,
      high |-> portfolio.high, of |-> SummarizeSubscriptions(subs).active]
RotScoreCard(sub, used) ==
  LET rot == CalculateSubscriptionRot(sub, used)
  IN [tier |-> rot.tier, score |-> rot.score, leak |-> rot.wasted, leakPerYear |-> 12 * rot.wasted]

MoneyInit == price = 0 /\ cadence \in BillingCadences /\ hours = 0

UseAnHour == hours < MaxHours /\ hours' = hours + 1 /\ UNCHANGED <<price, cadence>>
PriceRises == price < MaxPrice /\ price' = price + 1 /\ UNCHANGED <<hours, cadence>>

MoneyNext == UseAnHour \/ PriceRises
MoneySpec == MoneyInit /\ [][MoneyNext]_moneyVars
--------------------------------------------------------------------------------
(* Properties *)

Portfolio == <<[cents |-> price, used |-> hours], [cents |-> 9, used |-> 5]>>

\* A canceled subscription is booked at what a year of it would have cost, to
\* within the twelve half cents of rounding each month, and the year the
\* dashboard showed (52 weeks) is a day and a quarter and that rounding away.
CancellationBooksAYear ==
  LET booked == CancellationSavingsCents(price, cadence)
      shown == SummarizeSubscriptions(
                 <<[id |-> 1, cents |-> price, cadence |-> cadence, status |-> "active"]>>).yearly
  IN /\ 2 * Abs(booked * CadenceDays[cadence] - price * CadenceDays["annual"])
           <= 12 * CadenceDays[cadence]
     /\ Abs(booked - shown) * CadenceDays[cadence] <= 12 * CadenceDays[cadence] + 20 * price

\* Score and money are rounded apart and must tell one story: what is wasted is
\* the score's share of the price, nothing is wasted at full use, and the
\* portfolio's score lies between those of its subscriptions.
RotIsConsistent == price > 0 =>
  /\ 2 * Abs(100 * Wasted(price, hours) - RotScore(hours) * price) <= 100 + price
  /\ hours >= BenchmarkHours => ComputeRotScore(price, hours).captured = price
  /\ SummarizePortfolio(Portfolio).wasted \in 0..SummarizePortfolio(Portfolio).total
  /\ SummarizePortfolio(Portfolio).average \in
       Min({RotScore(hours), RotScore(5)})..Max({RotScore(hours), RotScore(5)})

\* A member's subscriptions with what they used of them, and their bills.
Held(status) ==
  <<[id |-> 1, cents |-> price, cadence |-> cadence, status |-> status],
    [id |-> 2, cents |-> 9, cadence |-> "weekly", status |-> "active"],
    [id |-> 3, cents |-> 400, cadence |-> "monthly", status |-> "paused"]>>
Used == [id \in 1..3 |-> IF id = 1 THEN hours ELSE 5]
Owed ==
  <<[last |-> price, cadence |-> cadence, negotiable |-> TRUE, projected |-> price],
    [last |-> 5, cadence |-> "monthly", negotiable |-> TRUE, projected |-> 12 * hours + 7],
    [last |-> 3, cadence |-> "annual", negotiable |-> FALSE, projected |-> 0]>>

\* Canceling what is flagged as unused takes off the monthly spend what was promised
\* as potential, and each subscription is counted under one status.
SpendAgrees ==
  LET before == SummarizeSubscriptions(Held("active")).monthly
      after == SummarizeSubscriptions(Held("canceled")).monthly
      overview == Overview(Held("active"), {}, Owed)
  IN /\ before - after = PotentialMonthlySavings(Held("active"), {1, 3}, <<>>)
     /\ overview.active + overview.notActive = Len(Held("active"))

\* The portfolio is worth the monthly spend and has its subscriptions in one tier
\* each; the banner sums up the cards of the active subscriptions.
BannerAgrees ==
  LET held == Held("active")
      active == WithStatus(held, "active")
      portfolio == PortfolioRotSummary(held, Used)
      banner == RotBanner(held, Used)
      card == [i \in DOMAIN held |-> RotScoreCard(held[i], Used[held[i].id])]
  IN /\ portfolio.total = SummarizeSubscriptions(held).monthly
     /\ portfolio.wasted = SumSeq([i \in DOMAIN held |-> IF i \in active THEN card[i].leak ELSE 0])
     /\ 12 * banner.leakage =
          SumSeq([i \in DOMAIN held |-> IF i \in active THEN card[i].leakPerYear ELSE 0])
     /\ banner.high = Cardinality({i \in active : card[i].tier = "high_rot"})
     /\ portfolio.high + portfolio.moderate + portfolio.healthy = banner.of
     /\ banner.high = banner.of => banner.tier = "high_rot"

\* A booked cancellation adds its own monthly cost to the run rate, a refund nothing.
SavingsAgree ==
  LET booked == [kind |-> "subscription_canceled", cents |-> CancellationSavingsCents(price, cadence)]
      savings == SavingsSummary(<<booked, [kind |-> "fee_refunded", cents |-> 7]>>)
  IN /\ savings.monthlyRunRate = MonthlyEquivalentCents(price, cadence)
     /\ savings.total = savings.yearlyProjected + 7

\* Projecting bills together or one by one differs by a cent a bill; the overview's
\* potential and the bills page's projection are a twelfth apart, and its monthly
\* bills no less than theirs.
BillsAgree ==
  LET charged == [last |-> price, expected |-> 5, cadence |-> cadence]
      awaited == [last |-> Null, expected |-> hours, cadence |-> "monthly"]
      overview == Overview(Held("active"), {}, Owed)
  IN /\ Abs(BillNegotiationPotential(<<charged, awaited>>).annual
            - (BillNegotiationPotential(<<charged>>).annual
                 + BillNegotiationPotential(<<awaited>>).annual)) <= 1
     /\ Abs(12 * overview.potential - BillsPage(Owed).projection) <= 6 * overview.negotiable
     /\ overview.billsPerMonth >= BillsPage(Owed).monthly

\* Numbers that the pages reckon apart agree.
PagesAgree == price > 0 => SpendAgrees /\ BannerAgrees /\ SavingsAgree /\ BillsAgree

\* The money shown and the money booked: all of the above, for every price, cadence
\* and use (monthly-equivalent.ts, case-money.ts, rot/index.ts, the web client's data.ts).
MoneyIsConsistent == CancellationBooksAYear /\ RotIsConsistent /\ PagesAgree

RoundingSpec == SettlementSpec /\ MoneySpec

\* Every rounding of money: the fee of a settlement is the nearest cent, for every
\* saving and percentage (settleNegotiation), and spend, savings and rot score tell
\* one story (monthly-equivalent.ts, case-money.ts, rot/index.ts).
RoundingIsSound == FeeIsNearestCent /\ MoneyIsConsistent
================================================================================
