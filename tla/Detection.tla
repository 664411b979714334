-------------------------------- MODULE Detection --------------------------------
(***************************************************************************)
(* SubscriptionDetectionService.runForUser                                 *)
(* (apps/api/src/modules/detection/subscription-detection.service.ts) and  *)
(* AlertService.recordMany (modules/alerts/alert.service.ts) for one       *)
(* member and one merchant that charges monthly, beside other runs and the *)
(* member's edits.  A run is one statement per step.  Nothing but the      *)
(* queries forbids a second row of a merchant or a second alert of a key,  *)
(* and the worker runs two detection jobs at a time.  Transactions marked  *)
(* as recurring are left out: only a list filter reads the mark.           *)
(***************************************************************************)
EXTENDS Recurrence

CONSTANTS Runs,        \* detection runs in flight
          Prices,      \* amounts the merchant charges
          FirstPrice,  \* amount of the first two charges
          MaxMonths,   \* BOUND: charges of the merchant
          MaxRows,     \* BOUND: rows ever created
          MaxEdits     \* BOUND: edits by the member and crashes

ASSUME DetectionAssumption ==
  /\ Prices \subseteq Nat \ {0} /\ FirstPrice \in Prices
  /\ MaxMonths \in Nat /\ MaxRows \in Nat /\ MaxEdits \in Nat

VARIABLES
  charges,   \* amounts charged, a month apart
  quiet,     \* the merchant has stopped charging for three months
  subs,      \* rows of subscriptions, source "auto", in order of creation
  alerts,    \* alerts of the member in order of creation: all unread
  runs,      \* the runs in flight
  edits,
  met, cut   \* history: two runs were in flight; a run died after writing the row

detectionVars == <<charges, quiet, subs, alerts, runs, edits, met, cut>>

NoRow == 0
NoRun == [pc |-> "idle"]
Rows == 1..Len(subs)
Live == {s \in Rows : subs[s].status # "deleted"}

\* The merchant's settled transactions of the last 400 days, and the day.
Transactions ==
  [i \in DOMAIN charges |-> [day |-> 30 * i, amount |-> charges[i], provider |-> FALSE,
                             category |-> "entertainment"]]
Today == 30 * Len(charges) + IF quiet THEN 90 ELSE 0

NewDraft(s) == [type |-> "new_subscription_detected", sub |-> s, amount |-> 0, previous |-> 0]
\* The title says the price increased.
PriceDraft(s, series) ==
  [type |-> "price_increase", sub |-> s, amount |-> series.amount, previous |-> series.previous]

\* Wrong variant: the key does not name the subscription.
BugDedupKey(draft) == <<draft.type, draft.amount>>
\* The payload without previousAmountCents.
DedupKey(draft) == <<draft.type, draft.sub, draft.amount>>

\* The transactions are read and the engine runs; zombie series are skipped.
BeginRun(r) ==
  /\ runs[r].pc = "idle"
  /\ \E series \in DetectSubscription(Transactions, Today) :
       /\ series.isActive
       /\ runs' = [runs EXCEPT ![r] = [pc |-> "find", series |-> series]]
  /\ met' = (met \/ \E o \in Runs : runs[o].pc # "idle")
  /\ UNCHANGED <<charges, quiet, subs, alerts, edits, cut>>

\* findFirst without an order: any automatic row of the merchant.
FindRow(r) ==
  /\ runs[r].pc = "find"
  /\ \E s \in IF Live = {} THEN {NoRow} ELSE Live :
       runs' = [runs EXCEPT ![r] =
         [pc |-> "write", series |-> @.series, row |-> s,
          found |-> IF s = NoRow THEN <<>> ELSE <<subs[s]>>]]
  /\ UNCHANGED <<charges, quiet, subs, alerts, edits, met, cut>>

CreateRow(r) ==
  LET series == runs[r].series
      s == Len(subs) + 1
  IN /\ runs[r].pc = "write" /\ runs[r].row = NoRow
     /\ Len(subs) < MaxRows
     /\ subs' = Append(subs, [amount |-> series.amount, status |-> "active",
                              priceChangedAt |-> series.changed])
     /\ runs' = [runs EXCEPT ![r] = [pc |-> "unread", drafts |->
          {NewDraft(s)} \union (IF series.changed THEN {PriceDraft(s, series)} ELSE {})]]
     /\ UNCHANGED <<charges, quiet, alerts, edits, met, cut>>

\* Wrong variant: a change is announced whenever the engine reports one.
BugPriceJustChanged(found, series) == series.changed
PriceJustChanged(found, series) ==
  /\ series.changed
  /\ found.amount = series.previous
  /\ ~found.priceChangedAt

\* By id, with the status as it was found; an update of a deleted row throws.
UpdateRow(r) ==
  LET series == runs[r].series
      s == runs[r].row
      found == runs[r].found[1]
      just == PriceJustChanged(found, series)
  IN /\ runs[r].pc = "write" /\ s # NoRow
     /\ subs[s].status # "deleted"
     /\ subs' = [subs EXCEPT ![s] =
          [amount |-> series.amount,
           status |-> IF found.status = "active" THEN "active" ELSE @.status,
           priceChangedAt |-> @.priceChangedAt \/ just]]
     /\ runs' = [runs EXCEPT ![r] = [pc |-> "unread", drafts |->
          IF just THEN {PriceDraft(s, series)} ELSE {}]]
     /\ UNCHANGED <<charges, quiet, alerts, edits, met, cut>>

UpdateThrows(r) ==
  /\ runs[r].pc = "write" /\ runs[r].row # NoRow
  /\ subs[runs[r].row].status = "deleted"
  /\ runs' = [runs EXCEPT ![r] = NoRun]
  /\ UNCHANGED <<charges, quiet, subs, alerts, edits, met, cut>>

\* recordMany: the keys of the unread alerts of the drafts' types, then the
\* drafts whose key is not among them.
ReadUnread(r) ==
  /\ runs[r].pc = "unread"
  /\ runs' = [runs EXCEPT ![r] =
       [pc |-> "record", drafts |-> @.drafts, seen |-> {DedupKey(a) : a \in Range(alerts)}]]
  /\ UNCHANGED <<charges, quiet, subs, alerts, edits, met, cut>>

Fresh(drafts, seen) == {d \in drafts : DedupKey(d) \notin seen}

CreateAlerts(r) ==
  /\ runs[r].pc = "record"
  /\ alerts' = alerts \o SetToSeq(Fresh(runs[r].drafts, runs[r].seen))
  /\ runs' = [runs EXCEPT ![r] = NoRun]
  /\ UNCHANGED <<charges, quiet, subs, edits, met, cut>>

\* The process dies, or the database fails; the job is run again from its start.
CrashRun(r) ==
  /\ runs[r].pc # "idle" /\ edits < MaxEdits
  /\ edits' = edits + 1
  /\ cut' = (cut \/ (runs[r].pc \in {"unread", "record"} /\ runs[r].drafts # {}))
  /\ runs' = [runs EXCEPT ![r] = NoRun]
  /\ UNCHANGED <<charges, quiet, subs, alerts, met>>

\* The merchant charges another month, or stays silent.
Charge ==
  /\ Len(charges) < MaxMonths
  /\ \E p \in Prices : charges' = Append(charges, p)
  /\ quiet' = FALSE
  /\ UNCHANGED <<subs, alerts, runs, edits, met, cut>>

FallSilent == ~quiet /\ quiet' = TRUE /\ UNCHANGED <<charges, subs, alerts, runs, edits, met, cut>>

\* PATCH and DELETE of a subscription by its member.
EditSub(s) ==
  /\ edits < MaxEdits /\ s \in Live
  /\ edits' = edits + 1
  /\ \E status \in {"active", "paused"}, p \in Prices :
       subs' = [subs EXCEPT ![s].status = status, ![s].amount = p]
  /\ UNCHANGED <<charges, quiet, alerts, runs, met, cut>>

DeleteSub(s) ==
  /\ edits < MaxEdits /\ s \in Live
  /\ edits' = edits + 1
  /\ subs' = [subs EXCEPT ![s].status = "deleted"]
  /\ UNCHANGED <<charges, quiet, alerts, runs, met, cut>>

DetectionInit ==
  /\ charges = <<FirstPrice, FirstPrice>>
  /\ quiet = FALSE
  /\ subs = <<>> /\ alerts = <<>>
  /\ runs = [r \in Runs |-> NoRun]
  /\ edits = 0 /\ met = FALSE /\ cut = FALSE

DetectionNext ==
  \/ Charge \/ FallSilent
  \/ \E s \in Rows : EditSub(s) \/ DeleteSub(s)
  \/ \E r \in Runs :
       \/ BeginRun(r) \/ FindRow(r) \/ CreateRow(r) \/ UpdateRow(r) \/ UpdateThrows(r)
       \/ ReadUnread(r) \/ CreateAlerts(r) \/ CrashRun(r)

DetectionSpec == DetectionInit /\ [][DetectionNext]_detectionVars

--------------------------------------------------------------------------------
(* Properties *)

Working == \E r \in Runs : runs[r].pc # "idle"
Announced(type, s) == {i \in DOMAIN alerts : alerts[i].type = type /\ alerts[i].sub = s}

\* As long as no two runs were in flight at once, re-running never duplicates:
\* a merchant has one automatic row, a new row is announced once and a change
\* of its price once, whatever the member edits and wherever a run dies.
SoloRunsNeverDuplicate ==
  ~met => /\ Cardinality(Live) <= 1
          /\ \A s \in Rows : /\ Cardinality(Announced("new_subscription_detected", s)) <= 1
                             /\ Cardinality(Announced("price_increase", s)) <= 1

\* Unless a run died between the row and its alerts, every row has been
\* announced and so has every change recorded on it - by overlapping runs too.
NothingGoesUnannounced ==
  ~Working /\ ~cut =>
    \A s \in Rows : /\ Announced("new_subscription_detected", s) # {}
                    /\ subs[s].priceChangedAt => Announced("price_increase", s) # {}
================================================================================
