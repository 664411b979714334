---------------------------------- MODULE Days -----------------------------------
(***************************************************************************)
(* What the days bring a member: the due dates of a bill and the standing  *)
(* alerts, each at its own pace.                                           *)
(***************************************************************************)
EXTENDS Calendar, Watch

DaysSpec == CalendarSpec /\ WatchSpec

--------------------------------------------------------------------------------
(* Property *)

\* What the days bring: due dates are exactly the clamped days wherever they are
\* reckoned (schedule.ts, rules.ts, domain.ts), and standing alerts are raised once,
\* late purchases and lost evaluations included (alert.service.ts).
DaysAreKept == DueDatesAreExact /\ WatchIsKept
================================================================================
