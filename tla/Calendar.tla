-------------------------------- MODULE Calendar --------------------------------
(***************************************************************************)
(* Reconstructions of when a bill is due, from "day N of the period":      *)
(* the member's calendar (packages/core/src/bills/schedule.ts, read by     *)
(* BillService.upcoming) and the daily reminders                           *)
(* (packages/core/src/alerts/rules.ts).  One bill is walked through a span *)
(* of days; a day is the number of days since 1 March of year 0, in UTC.   *)
(***************************************************************************)
EXTENDS Integers, Sequences, SequencesExt, FiniteSets, FiniteSetsExt

CONSTANTS FirstDays,  \* days a walk may start on
          DueDays,    \* days of the month a bill may be due on
          Cadences,   \* cadences of the bill
          Horizon,    \* UpcomingBillsQuery.days
          MaxWalk     \* BOUND: days a walk lasts

ASSUME CalendarAssumption ==
  /\ FirstDays \subseteq Nat /\ DueDays \subseteq 1..31
  /\ Cadences \subseteq {"weekly", "biweekly", "monthly", "quarterly", "annual"}
  /\ Horizon \in Nat /\ MaxWalk \in Nat

VARIABLES bill, started, today, reminded

calendarVars == <<bill, started, today, reminded>>

\* Date.UTC: months from 0, out-of-range months and days carried over.
Utc(year, month, day) ==
  LET m == (month + 10) % 12
      y == year + month \div 12 - (IF month % 12 < 2 THEN 1 ELSE 0)
  IN 365 * y + y \div 4 - y \div 100 + y \div 400 + (153 * m + 2) \div 5 + day - 1

\* getUTCFullYear and getUTCMonth of a day.
Month(d) ==
  LET era == d \div 146097
      doe == d % 146097
      yoe == (doe - doe \div 1460 + doe \div 36524 - doe \div 146096) \div 365
      m == (5 * (doe - 365 * yoe - yoe \div 4 + yoe \div 100) + 2) \div 153 + 2
  IN [year |-> yoe + 400 * era + m \div 12, month |-> m % 12]

DaysIn(year, month) == Utc(year, month + 1, 1) - Utc(year, month, 1)

\* Wrong variant: a due day past the month's end spills into the next month.
BugClampedDueDate(year, month, dueDay) == Utc(year, month, dueDay)
ClampedDueDate(year, month, dueDay) ==
  Utc(year, month, Min({dueDay, DaysIn(year, month)}))

MonthStep == [monthly |-> 1, quarterly |-> 3, annual |-> 12]
DayStep == [weekly |-> 7, biweekly |-> 14]

\* From one step before the window's first month.
MonthCadence(step, dueDay, from, to) ==
  LET first == Month(from)
      steps == 0..(2 + (to - from) \div (28 * step))
  IN {ClampedDueDate(first.year, first.month - step + step * i, dueDay) : i \in steps}
       \intersect from..to

\* A cycle anchored in the window's first month.
DayCadence(step, dueDay, from, to) ==
  LET first == Month(from)
      anchor == ClampedDueDate(first.year, first.month, dueDay)
  IN {d \in from..to : (d - anchor) % step = 0}

BillOccurrences(cadence, dueDay, from, to) ==
  IF cadence \in DOMAIN MonthStep
  THEN MonthCadence(MonthStep[cadence], dueDay, from, to)
  ELSE DayCadence(DayStep[cadence], dueDay, from, to)

OverdueLookback == 7

\* BillService.upcoming on a day.
Upcoming(day) ==
  BillOccurrences(bill.cadence, bill.dueDay, day - OverdueLookback, day + Horizon)

NextDueDate(dueDay, now) ==
  LET m == Month(now)
      candidates == {ClampedDueDate(m.year, m.month + i, dueDay) : i \in 0..1}
  IN IF \E d \in candidates : d >= now THEN Min({d \in candidates : d >= now}) ELSE now + 1

\* nextDueDate of the dashboard: this month's, or else the next month's.
WebNextDueDate(dueDay, now) ==
  LET m == Month(now)
      thisMonth == ClampedDueDate(m.year, m.month, dueDay)
  IN IF thisMonth >= now THEN thisMonth ELSE ClampedDueDate(m.year, m.month + 1, dueDay)

\* The client derives the charges of a subscription from the next one, by whole periods.
ChargePeriod == [weekly |-> 7, biweekly |-> 14, monthly |-> 30, quarterly |-> 91, annual |-> 365]
PreviousChargeDate(next, cadence) == next - ChargePeriod[cadence]
UpcomingChargeDates(next, cadence, count) == [i \in 1..count |-> next + i * ChargePeriod[cadence]]
RecentChargeDates(next, cadence, count) == [i \in 1..count |-> next - i * ChargePeriod[cadence]]

\* The charges listed on a subscription's page, newest first.
ChargeRows(next, cadence, status) ==
  LET ahead == SubSeq(UpcomingChargeDates(next, cadence, 3), 1, 2)
      behind == SubSeq(RecentChargeDates(next, cadence, 6), 1, 5)
  IN [i \in 1..8 |->
        IF i <= 2 THEN [date |-> Reverse(ahead)[i], upcoming |-> TRUE]
        ELSE IF i = 3 THEN [date |-> next, upcoming |-> status # "canceled"]
        ELSE [date |-> behind[i - 3], upcoming |-> FALSE]]

\* A canceled subscription has none ahead, but keeps the row of its next billing
\* date, as charged.
HistoryRows(next, cadence, status) ==
  LET rows == ChargeRows(next, cadence, status)
      kept == {i \in 1..8 : ~rows[i].upcoming \/ status # "canceled"}
  IN [k \in 1..Cardinality(kept) |->
        rows[CHOOSE i \in kept : Cardinality({j \in kept : j < i}) = k - 1]]

ReminderWindow == 3

\* The due dates in the keys of the alerts raised on a day.
FindUpcomingBills(now) ==
  {NextDueDate(bill.dueDay, now)} \intersect {d \in now..(now + 31) : d - now <= ReminderWindow}

CalendarInit ==
  /\ bill \in [cadence : Cadences, dueDay : DueDays]
  /\ started \in FirstDays
  /\ today = started
  /\ reminded = FindUpcomingBills(started)

\* The next day's calendar and its daily evaluation, deduplicated by key.
NextDay ==
  /\ today < started + MaxWalk
  /\ today' = today + 1
  /\ reminded' = reminded \union FindUpcomingBills(today + 1)
  /\ UNCHANGED <<bill, started>>

CalendarSpec == CalendarInit /\ [][NextDay]_calendarVars

--------------------------------------------------------------------------------
(* Properties *)

\* A day is a due day of a monthly bill when it is the bill's day of its month,
\* or the last of a month too short for it.
IsMonthlyDue(d) ==
  LET m == Month(d)
      dayOfMonth == d - Utc(m.year, m.month, 0)
  IN dayOfMonth = Min({bill.dueDay, DaysIn(m.year, m.month)})

\* For a monthly bill the calendar shows exactly the due days of its window:
\* none twice, none missing at a short month, a leap day or a year's end.
\* Evaluated daily, the reminders are the due days the calendar has shown: each
\* is announced, under one key, and nothing else is; and the dashboard's own
\* reckoning names the next of them. The history of a subscription that is next
\* charged on such a day lists eight charges, newest first, each within three days of
\* the due day it stands for; a cancellation takes away just those ahead.
DueDatesAreExact ==
  bill.cadence = "monthly" =>
    /\ IsMonthlyDue(today) =>
         LET rows == HistoryRows(today, "monthly", "active")
             m == Month(today)
         IN /\ Len(rows) = 8
            /\ \A i \in 1..8 :
                 rows[i].date - ClampedDueDate(m.year, m.month + 3 - i, bill.dueDay) \in -3..3
            /\ rows[4].date = PreviousChargeDate(today, "monthly")
            /\ HistoryRows(today, "monthly", "canceled") =
                 [i \in 1..6 |-> [rows[i + 2] EXCEPT !.upcoming = FALSE]]
    /\ Upcoming(today) = {d \in (today - OverdueLookback)..(today + Horizon) : IsMonthlyDue(d)}
    /\ reminded = {d \in started..(today + ReminderWindow) : IsMonthlyDue(d)}
    /\ WebNextDueDate(bill.dueDay, today) = NextDueDate(bill.dueDay, today)
================================================================================
