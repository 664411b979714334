----------------------------- MODULE Cancellation ------------------------------
(***************************************************************************)
(* Subscription cancellation cases and the subscription rows they drive:   *)
(* apps/api/src/modules/cancellations/service.ts, the member's PATCH and   *)
(* DELETE of a subscription (modules/subscriptions/service.ts) and the     *)
(* refresh of an auto-detected row by a detection run (modules/detection). *)
(*                                                                         *)
(* As in Negotiation, a request is a read with checks and, later, one      *)
(* write that re-checks nothing.  Nothing a write stores depends on the    *)
(* row it read except the timeline, which Negotiation models; here a       *)
(* request in flight only remembers what it is going to write.             *)
(***************************************************************************)
EXTENDS CaseRules

CONSTANTS Requests,        \* slots for HTTP requests and worker jobs in flight
          Cases,           \* case ids the database may hand out
          Subs,            \* subscription ids; they start active
          Prices           \* monthly-equivalent prices, in cents

ASSUME PricesAreCents == Prices \subseteq Nat

VARIABLES cases,           \* cases[c]: the cancellation_cases row of c
          subs,            \* subs[s]: the subscriptions row of s
          ledger,          \* ledger[c]: amounts of the savings_events rows
                           \*   with source (cancellation, c), oldest first
          req,             \* req[r]: the write request r is about to make
          disturbed        \* HISTORY: subscriptions with two requests in
                           \*   flight at once, or written by anything else

vars == <<cases, subs, ledger, req, disturbed>>

SubStatuses == {"active", "paused", "cancel_requested", "canceled"}

Idle == [op |-> "idle"]
NoCase == [status |-> "absent"]

\* The row has been deleted.
NoSub == [status |-> "deleted"]

Exists(c) == cases[c].status # "absent"
IsOpen(c) == Exists(c) /\ cases[c].status \notin TerminalCaseStatuses
IsTerminal(c) == cases[c].status \in TerminalCaseStatuses
CasesOf(s) == {c \in Cases : Exists(c) /\ cases[c].sub = s}
HasSub(s) == subs[s] # NoSub

Init ==
  /\ cases = [c \in Cases |-> NoCase]
  /\ subs \in [Subs -> {[status |-> "active", monthly |-> p, canceledAt |-> FALSE] :
                          p \in Prices}]
  /\ ledger = [c \in Cases |-> <<>>]
  /\ req = [r \in Requests |-> Idle]
  /\ disturbed = {}

\* The subscription that the request q is about.
SubOf(q) == CASE q.op \in {"create", "detect"}    -> q.sub
              [] q.op \in {"withdraw", "advance"} -> cases[q.case].sub
              [] OTHER                            -> Idle

Start(r, request) ==
  LET s == SubOf(request)
  IN /\ req[r] = Idle
     /\ req' = [req EXCEPT ![r] = request]
     /\ disturbed' = IF \E q \in Requests : SubOf(req[q]) = s
                      THEN disturbed \union {s} ELSE disturbed
     /\ UNCHANGED <<cases, subs, ledger>>

Finish(r) == req' = [req EXCEPT ![r] = Idle]

SetStatus(s, status) == subs' = [subs EXCEPT ![s].status = status]

\* Wrong variant: a withdrawn or failed case leaves the flag set.
BugKeepFlag(s) == UNCHANGED subs

\* updateMany scoped to rows still flagged as being canceled.
ReleaseFlag(s) ==
  IF subs[s].status = "cancel_requested" THEN SetStatus(s, "active")
                                         ELSE UNCHANGED subs

--------------------------------------------------------------------------------
\* Wrong variant: the check looks for work already begun.
BugNoneInProgress(s) == \A c \in CasesOf(s) : cases[c].status # "in_progress"

\* create's findFirst for a case of the subscription that is not terminal.
NoOpenCase(s) == \A c \in CasesOf(s) : ~IsOpen(c)

\* create: not canceled, no open case; the price is snapshotted here ...
BeginCreate(r, s) ==
  /\ HasSub(s)
  /\ subs[s].status # "canceled"
  /\ NoOpenCase(s)
  /\ Start(r, [op |-> "create", sub |-> s, monthly |-> subs[s].monthly])

\* ... and the case is inserted and the subscription flagged in one
\* transaction, which fails if the subscription has been deleted meanwhile.
CommitCreate(r, c) ==
  LET s == req[r].sub
  IN /\ req[r].op = "create"
     /\ ~Exists(c)
     /\ IF HasSub(s)
        THEN /\ cases' = [cases EXCEPT ![c] =
                  [sub |-> s, status |-> "submitted",
                   monthly |-> req[r].monthly, resolved |-> FALSE]]
             /\ SetStatus(s, "cancel_requested")
        ELSE UNCHANGED <<cases, subs>>
     /\ Finish(r)
     /\ UNCHANGED <<ledger, disturbed>>

--------------------------------------------------------------------------------
BeginWithdraw(r, c) ==
  /\ Exists(c)
  /\ CanTransition("cancellation", cases[c].status, "canceled", "member")
  /\ Start(r, [op |-> "withdraw", case |-> c])

CommitWithdraw(r) ==
  LET c == req[r].case
  IN /\ req[r].op = "withdraw"
     /\ cases' = [cases EXCEPT ![c].status = "canceled", ![c].resolved = TRUE]
     /\ ReleaseFlag(cases[c].sub)
     /\ Finish(r)
     /\ UNCHANGED <<ledger, disturbed>>

--------------------------------------------------------------------------------
BeginAdvance(r, c, to) ==
  /\ Exists(c)
  /\ CanTransition("cancellation", cases[c].status, to, "concierge")
  /\ Start(r, [op |-> "advance", case |-> c, to |-> to])

\* Wrong variants: a monthly figure credited; a credit at today's price; the
\* subscription retired outside the transaction, and that write lost.
BugCreditMonthly(c) == cases[c].monthly
BugCreditToday(c) == 12 * subs[cases[c].sub].monthly
BugRetireLost(s) == UNCHANGED subs

\* The unique index on savings_events (sourceType, sourceId).
CanInsert(c) == ledger[c] = <<>>

\* recordCancellation: a year of the monthly price snapshotted on the case.
CreditOf(c) == 12 * cases[c].monthly

Retire(s) == subs' = [subs EXCEPT ![s].status = "canceled", ![s].canceledAt = TRUE]

\* The case, the subscription and the ledger change in one transaction; a
\* refused insert aborts all of it.  A saving of zero is not inserted.
CommitAdvance(r) ==
  LET c       == req[r].case
      to      == req[r].to
      s       == cases[c].sub
      moved   == [cases EXCEPT ![c].status = to,
                               ![c].resolved = @ \/ to \in TerminalCaseStatuses]
      succeed ==
        IF CreditOf(c) > 0 /\ ~CanInsert(c)
        THEN UNCHANGED <<cases, subs, ledger>>
        ELSE /\ cases' = moved
             /\ Retire(s)
             /\ ledger' = IF CreditOf(c) > 0
                          THEN [ledger EXCEPT ![c] = Append(@, CreditOf(c))]
                          ELSE ledger
  IN /\ req[r].op = "advance"
     /\ CASE to = "succeeded" -> succeed
          [] to = "failed" -> cases' = moved /\ ReleaseFlag(s) /\ UNCHANGED ledger
          [] OTHER -> cases' = moved /\ UNCHANGED <<subs, ledger>>
     /\ Finish(r)
     /\ UNCHANGED disturbed

--------------------------------------------------------------------------------
(* The rest of the system writes the same subscription rows *)

\* PATCH /subscriptions/:id lets the member set any status and price.
Patch(s, status, monthly) ==
  /\ HasSub(s)
  /\ subs' = [subs EXCEPT ![s].status = status, ![s].monthly = monthly]
  /\ disturbed' = disturbed \union {s}
  /\ UNCHANGED <<cases, ledger, req>>

\* DELETE /subscriptions/:id; the foreign key of cancellation_cases restricts.
Remove(s) ==
  /\ HasSub(s)
  /\ CasesOf(s) = {}
  /\ subs' = [subs EXCEPT ![s] = NoSub]
  /\ UNCHANGED <<cases, ledger, req, disturbed>>

\* A detection run finds the auto-detected row of a series still charging ...
BeginDetect(r, s) ==
  /\ HasSub(s)
  /\ Start(r, [op |-> "detect", sub |-> s, seen |-> subs[s].status])

\* ... and refreshes it: the price, and status "active" if the row it read
\* was active or being canceled.
CommitDetect(r, monthly) ==
  LET s == req[r].sub
  IN /\ req[r].op = "detect"
     /\ subs' = IF HasSub(s)
                THEN [subs EXCEPT ![s].monthly = monthly,
                        ![s].status = IF req[r].seen \in {"active", "cancel_requested"}
                                      THEN "active" ELSE @]
                ELSE subs
     /\ Finish(r)
     /\ disturbed' = disturbed \union {s}
     /\ UNCHANGED <<cases, ledger>>

--------------------------------------------------------------------------------
Drop(r) ==
  /\ req[r] # Idle
  /\ Finish(r)
  /\ UNCHANGED <<cases, subs, ledger, disturbed>>

CaseRequest(r) ==
  \/ \E s \in Subs : BeginCreate(r, s)
  \/ \E c \in Cases : CommitCreate(r, c)
  \/ \E c \in Cases : BeginWithdraw(r, c)
  \/ CommitWithdraw(r)
  \/ \E c \in Cases, to \in CaseStatuses : BeginAdvance(r, c, to)
  \/ CommitAdvance(r)
  \/ Drop(r)

Detection(r) ==
  \/ \E s \in Subs : BeginDetect(r, s)
  \/ \E monthly \in Prices : CommitDetect(r, monthly)

Catalogue ==
  \/ \E s \in Subs, status \in SubStatuses, monthly \in Prices :
       Patch(s, status, monthly)
  \/ \E s \in Subs : Remove(s)

\* Without the member's edits of the subscription, and with them.
DetectNext == \E r \in Requests : CaseRequest(r) \/ Detection(r)
Next == \/ \E r \in Requests : CaseRequest(r) \/ Detection(r)
        \/ Catalogue

DetectSpec == Init /\ [][DetectNext]_vars
Spec == Init /\ [][Next]_vars

--------------------------------------------------------------------------------
(* Types *)

CaseRows == [sub : Subs, status : CaseStatuses, monthly : Prices, resolved : BOOLEAN]
SubRows == [status : SubStatuses, monthly : Prices, canceledAt : BOOLEAN]

Pending ==
  [op : {"create"}, sub : Subs, monthly : Prices]
    \union [op : {"withdraw"}, case : Cases]
    \union [op : {"advance"}, case : Cases, to : CaseStatuses]
    \union [op : {"detect"}, sub : Subs, seen : SubStatuses]

\* Type invariant; a pending write names a case that exists.
TypeOK ==
  /\ cases \in [Cases -> CaseRows \union {NoCase}]
  /\ subs \in [Subs -> SubRows \union {NoSub}]
  /\ ledger \in [Cases -> Seq(Nat)]
  /\ req \in [Requests -> Pending \union {Idle}]
  /\ disturbed \subseteq Subs
  /\ \A r \in Requests : req[r].op \in {"withdraw", "advance"} => Exists(req[r].case)

--------------------------------------------------------------------------------
(* Safety that survives any interleaving *)

\* The ledger credits a case once, with a year of the price the member was
\* paying when they asked, whatever happens to the subscription's price and
\* however many concierges resolve the case.
CreditIsSnapshotOnce ==
  \A c \in Cases : ledger[c] # <<>> => ledger[c] = <<12 * cases[c].monthly>>

\* Nothing is credited unless the subscription was retired with it, in the
\* same transaction: the row of a credited case carries canceledAt for good.
CreditRetiresSubscription ==
  \A c \in Cases : ledger[c] # <<>> => subs[cases[c].sub].canceledAt

\* A subscription somebody has asked us to cancel is never deleted under the
\* case.
CaseKeepsSubscription == \A c \in Cases : Exists(c) => HasSub(cases[c].sub)

--------------------------------------------------------------------------------
(* What the comments claim *)

\* "One open case per subscription".
OneOpenCase(s) == \A c, d \in CasesOf(s) : IsOpen(c) /\ IsOpen(d) => c = d

\* "could book the saving twice": one subscription, canceled once, credited once.
SavingBookedOnce(s) ==
  \A c, d \in CasesOf(s) : ledger[c] # <<>> /\ ledger[d] # <<>> => c = d

\* "a saving with no case": a credited case reads succeeded.
CreditExplained(s) ==
  \A c \in CasesOf(s) : ledger[c] # <<>> => cases[c].status = "succeeded"

\* "the member never sees a case without the subscription reflecting that it
\* is being canceled".
OpenCaseFlags(s) ==
  \A c \in CasesOf(s) : IsOpen(c) => subs[s].status = "cancel_requested"

\* The converse, which "release the flag" is for.
FlagHasOpenCase(s) ==
  subs[s].status = "cancel_requested" => \E c \in CasesOf(s) : IsOpen(c)

\* A canceled subscription was canceled by a case that succeeded.
CanceledByCase(s) ==
  subs[s].status = "canceled" => \E c \in CasesOf(s) : cases[c].status = "succeeded"

\* Promises about money: an undisturbed subscription has one open case at
\* most, books its saving once, and a case explains the credit.
UndisturbedMoney ==
  \A s \in Subs \ disturbed :
    OneOpenCase(s) /\ SavingBookedOnce(s) /\ CreditExplained(s)

\* Promises about the row: an undisturbed subscription says it is being
\* canceled exactly while a case is open, and canceled only when one succeeded.
UndisturbedStatus ==
  \A s \in Subs \ disturbed :
    OpenCaseFlags(s) /\ FlagHasOpenCase(s) /\ CanceledByCase(s)

\* "could book the saving twice", of every subscription.
EverySavingBookedOnce == \A s \in Subs : SavingBookedOnce(s)

--------------------------------------------------------------------------------
(* Refinement *)

Tabled == [c \in Cases |-> IF Exists(c) THEN {12 * cases[c].monthly} \ {0} ELSE {}]
Credited == [c \in Cases |-> IF ledger[c] = <<>> THEN -1 ELSE ledger[c][1]]

Book == INSTANCE CreditOnce WITH
          Sources <- Cases, Figures <- {12 * p : p \in Prices} \ {0},
          tabled <- Tabled, credit <- Credited

\* The cancellation credits keep the ledger's promise.
ImplementsCreditOnce == Book!Spec
================================================================================
