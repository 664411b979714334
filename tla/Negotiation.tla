------------------------------ MODULE Negotiation ------------------------------
(***************************************************************************)
(* Bill negotiation cases: apps/api/src/modules/negotiations/service.ts    *)
(* over the negotiation_cases and savings_events tables.                   *)
(*                                                                         *)
(* Every operation of the service reads a row, checks it in memory, and    *)
(* then writes with `where: { id }`, which re-checks nothing.  An HTTP     *)
(* request is therefore two steps: Begin<Op> is the read and the checks,   *)
(* Commit<Op> the single statement, or the single transaction, that        *)
(* writes.  A request whose checks fail changes nothing and is not a step. *)
(* Requests run concurrently on one database (READ COMMITTED).             *)
(***************************************************************************)
EXTENDS CaseRules

CONSTANTS Requests,        \* slots for HTTP requests in flight
          Cases,           \* case ids the database may hand out
          Bills,           \* the member's bills with negotiable = true
          OfferAmounts,    \* annual savings a concierge may publish, in cents
          FeePercents,     \* success fees a member may pick
          MaxTimeline      \* BOUND: no write extends a timeline beyond this

ASSUME DataAssumption ==
  /\ OfferAmounts \subseteq Nat
  /\ FeePercents \subseteq 1..100
  /\ MaxTimeline \in Nat

VARIABLES cases,           \* cases[c]: the negotiation_cases row of c
          ledger,          \* ledger[c]: amounts of the savings_events rows
                           \*   with source (negotiation, c), oldest first
          published,       \* HISTORY published[c]: offers ever made for c
          req              \* req[r]: what request r has read, or Idle

vars == <<cases, ledger, published, req>>

NoAmount == -1             \* a NULL amount column

Event(status, actor) == [status |-> status, actor |-> actor]

\* The id is not in the table yet.
NoRow == [status |-> "absent"]

Exists(c) == cases[c].status # "absent"

IsTerminal(c) == Exists(c) /\ cases[c].status \in TerminalCaseStatuses

\* status: { notIn: TERMINAL_CASE_STATUSES }
IsOpen(c) == Exists(c) /\ cases[c].status \notin TerminalCaseStatuses

Idle == [op |-> "idle"]

--------------------------------------------------------------------------------
Init ==
  /\ cases = [c \in Cases |-> NoRow]
  /\ ledger = [c \in Cases |-> <<>>]
  /\ published = [c \in Cases |-> {}]
  /\ req = [r \in Requests |-> Idle]

\* The request has its answer; nothing of it is kept.
Finish(r) == req' = [req EXCEPT ![r] = Idle]

\* Load the row of c and keep what was read until the write.
Read(r, c, op, to, amount) ==
  /\ req[r] = Idle
  /\ Exists(c)
  /\ req' = [req EXCEPT ![r] = [op |-> op, case |-> c, snap |-> cases[c],
                                to |-> to, amount |-> amount]]
  /\ UNCHANGED <<cases, ledger, published>>

\* The request has been read and checked, and its row is within the bound.
Ready(r, op) ==
  /\ req[r].op = op
  /\ Len(req[r].snap.timeline) < MaxTimeline

\* Wrong variant: appending to the row as it is now.
BugExtendCurrent(r, status, actor) ==
  Append(cases[req[r].case].timeline, Event(status, actor))

\* The timeline a request writes is the one it read plus its own event.
Extend(r, status, actor) == Append(req[r].snap.timeline, Event(status, actor))

--------------------------------------------------------------------------------
\* create's findFirst for a case on the bill with a status not terminal.
NoOpenCase(b) == \A c \in Cases : IsOpen(c) => cases[c].bill # b

\* create: the checks ...
BeginCreate(r, b, pct) ==
  /\ req[r] = Idle
  /\ NoOpenCase(b)
  /\ req' = [req EXCEPT ![r] = [op |-> "create", bill |-> b, pct |-> pct]]
  /\ UNCHANGED <<cases, ledger, published>>

\* ... and the insert.
CommitCreate(r, c) ==
  /\ req[r].op = "create"
  /\ ~Exists(c)
  /\ cases' = [cases EXCEPT ![c] =
       [bill |-> req[r].bill, status |-> "submitted",
        feePercent |-> req[r].pct, offered |-> NoAmount,
        confirmed |-> NoAmount, fee |-> NoAmount,
        responded |-> FALSE, resolved |-> FALSE,
        timeline |-> <<Event("submitted", "member")>>]]
  /\ Finish(r)
  /\ UNCHANGED <<ledger, published>>

--------------------------------------------------------------------------------
BeginWithdraw(r, c) ==
  /\ Read(r, c, "withdraw", "canceled", NoAmount)
  /\ CanTransition("negotiation", cases[c].status, "canceled", "member")

CommitWithdraw(r) ==
  /\ Ready(r, "withdraw")
  /\ cases' = [cases EXCEPT ![req[r].case] =
       [@ EXCEPT !.status = "canceled", !.resolved = TRUE,
                 !.timeline = Extend(r, "canceled", "member")]]
  /\ Finish(r)
  /\ UNCHANGED <<ledger, published>>

BeginReject(r, c) ==
  /\ Read(r, c, "reject", "failed", NoAmount)
  /\ cases[c].status = "offer_pending"
  /\ CanTransition("negotiation", cases[c].status, "failed", "member")

\* Wrong variant: resolvedAt is not set.
BugCommitReject(r) ==
  /\ Ready(r, "reject")
  /\ cases' = [cases EXCEPT ![req[r].case] =
       [@ EXCEPT !.status = "failed", !.responded = TRUE,
                 !.timeline = Extend(r, "failed", "member")]]
  /\ Finish(r)
  /\ UNCHANGED <<ledger, published>>

CommitReject(r) ==
  /\ Ready(r, "reject")
  /\ cases' = [cases EXCEPT ![req[r].case] =
       [@ EXCEPT !.status = "failed", !.responded = TRUE, !.resolved = TRUE,
                 !.timeline = Extend(r, "failed", "member")]]
  /\ Finish(r)
  /\ UNCHANGED <<ledger, published>>

--------------------------------------------------------------------------------
\* approveOffer: the amount to settle is the one read here.
BeginApprove(r, c) ==
  /\ Read(r, c, "approve", "succeeded", cases[c].offered)
  /\ cases[c].status = "offer_pending"
  /\ cases[c].offered # NoAmount
  /\ CanTransition("negotiation", cases[c].status, "succeeded", "member")

\* Wrong variants: the gross saving credited; a duplicate skipped without aborting
\* the transaction.
BugCreditGross(r) == req[r].amount
BugDuplicateSkipped(r) == FALSE

\* The unique index on savings_events (sourceType, sourceId).
CanInsert(c) == ledger[c] = <<>>

\* What recordNegotiation credits: the member's share of the settled offer.
CreditOf(r) == Net(req[r].amount, req[r].snap.feePercent)

\* When the index refuses the insert, record() swallows P2002, but PostgreSQL
\* has aborted the transaction: COMMIT rolls the case update back too.  A
\* saving of zero is never inserted.
Aborts(r) == CreditOf(r) > 0 /\ ~CanInsert(req[r].case)

\* The case update and the ledger insert share one transaction.
CommitApprove(r) ==
  LET c    == req[r].case
      book ==
        /\ cases' = [cases EXCEPT ![c] =
             [@ EXCEPT !.status = "succeeded", !.confirmed = req[r].amount,
                       !.fee = Fee(req[r].amount, req[r].snap.feePercent),
                       !.responded = TRUE, !.resolved = TRUE,
                       !.timeline = Extend(r, "succeeded", "member")]]
        /\ ledger' = IF CreditOf(r) > 0 /\ CanInsert(c)
                     THEN [ledger EXCEPT ![c] = Append(@, CreditOf(r))]
                     ELSE ledger
  IN /\ Ready(r, "approve")
     /\ IF Aborts(r) THEN UNCHANGED <<cases, ledger>> ELSE book
     /\ Finish(r)
     /\ UNCHANGED published

--------------------------------------------------------------------------------
\* Wrong variant: an offer may be published without its amount.
BugBeginAdvance(r, c, to, amount) ==
  /\ Read(r, c, "advance", to, amount)
  /\ CanTransition("negotiation", cases[c].status, to, "concierge")

\* advanceAsConcierge accepts any target; the state machine decides.  An
\* offer must state its amount.
BeginAdvance(r, c, to, amount) ==
  /\ Read(r, c, "advance", to, amount)
  /\ CanTransition("negotiation", cases[c].status, to, "concierge")
  /\ (to = "offer_pending") <=> (amount # NoAmount)

CommitAdvance(r) ==
  LET c      == req[r].case
      to     == req[r].to
      moved  == [cases[c] EXCEPT !.status = to,
                                 !.timeline = Extend(r, to, "concierge")]
      offer  == [moved EXCEPT !.offered = req[r].amount, !.responded = FALSE]
      closed == [moved EXCEPT !.resolved = TRUE]
  IN /\ Ready(r, "advance")
     /\ cases' = [cases EXCEPT ![c] =
          IF to = "offer_pending" THEN offer
          ELSE IF to \in TerminalCaseStatuses THEN closed ELSE moved]
     /\ published' = IF to = "offer_pending"
                     THEN [published EXCEPT ![c] = @ \union {req[r].amount}]
                     ELSE published
     /\ Finish(r)
     /\ UNCHANGED ledger

--------------------------------------------------------------------------------
\* The API process dies, or the database refuses, before the write.
Drop(r) ==
  /\ req[r] # Idle
  /\ Finish(r)
  /\ UNCHANGED <<cases, ledger, published>>

Begin(r) ==
  \/ \E b \in Bills, pct \in FeePercents : BeginCreate(r, b, pct)
  \/ \E c \in Cases : BeginWithdraw(r, c)
  \/ \E c \in Cases : BeginReject(r, c)
  \/ \E c \in Cases : BeginApprove(r, c)
  \/ \E c \in Cases, to \in CaseStatuses, amount \in OfferAmounts \union {NoAmount} :
       BeginAdvance(r, c, to, amount)

Commit(r) ==
  \/ \E c \in Cases : CommitCreate(r, c)
  \/ CommitWithdraw(r)
  \/ CommitReject(r)
  \/ CommitApprove(r)
  \/ CommitAdvance(r)

Next == \E r \in Requests : Begin(r) \/ Commit(r) \/ Drop(r)

Spec == Init /\ [][Next]_vars
--------------------------------------------------------------------------------
(* Types *)

Offers == OfferAmounts \union {NoAmount}

TimelineEvents == [status : CaseStatuses, actor : CaseActors]

Rows ==
  [bill : Bills, status : CaseStatuses, feePercent : FeePercents,
   offered : Offers, confirmed : Offers, fee : Nat \union {NoAmount},
   responded : BOOLEAN, resolved : BOOLEAN, timeline : Seq(TimelineEvents)]

ReadOps == {"withdraw", "reject", "approve", "advance"}

InFlight ==
  [op : ReadOps, case : Cases, snap : Rows, to : CaseStatuses, amount : Offers]

Creating == [op : {"create"}, bill : Bills, pct : FeePercents]

\* Type invariant: every row, credit and request in flight is well formed.
TypeOK ==
  /\ cases \in [Cases -> Rows \union {NoRow}]
  /\ ledger \in [Cases -> Seq(Nat)]
  /\ published \in [Cases -> SUBSET OfferAmounts]
  /\ req \in [Requests -> InFlight \union Creating \union {Idle}]

--------------------------------------------------------------------------------
(* Safety that survives any interleaving of requests *)

\* The fee on the case and the credit in the ledger settle the same figure:
\* approveOffer writes both, or neither, even when a second approval of a
\* re-opened case is made on another offer.
CaseLedgerAgree ==
  \A c \in Cases :
    LET row == cases[c]
    IN \/ /\ ledger[c] = <<>>
          /\ Exists(c) => row.confirmed = NoAmount /\ row.fee = NoAmount
       \/ /\ Exists(c)
          /\ row.confirmed \in published[c]
          /\ row.fee = Fee(row.confirmed, row.feePercent)
          /\ ledger[c] = <<Net(row.confirmed, row.feePercent)>>

\* A case marked succeeded carries its credit: no request, concierge or
\* stale, can leave "a case marked succeeded with no corresponding saving".
SucceededIsCredited ==
  \A c \in Cases :
    Exists(c) /\ cases[c].status = "succeeded" => ledger[c] # <<>>

\* tl starts with the member's submission, ends in status, and every move in
\* it was the state machine's to allow.
LegalHistory(tl, status) ==
  /\ tl # <<>>
  /\ tl[1] = Event("submitted", "member")
  /\ tl[Len(tl)].status = status
  /\ \A i \in 1..(Len(tl) - 1) :
       CanTransition("negotiation", tl[i].status,
                     tl[i + 1].status, tl[i + 1].actor)

\* A timeline is a legal history of one case, from its submission to the
\* status on the row, each move by an actor who may make it, even when a
\* blind write has discarded somebody else's events.
TimelineIsLegalPath ==
  \A c \in Cases :
    Exists(c) => LegalHistory(cases[c].timeline, cases[c].status)

\* The actor whose token an operation requires.
ActorOf(op) == IF op = "advance" THEN "concierge" ELSE "member"

\* What a request in flight may rely on, however stale its snapshot: the case
\* still exists with the fee the member picked, the move was legal from what
\* it read, and an approval settles an amount a concierge did publish.
RequestsSound ==
  \A r \in Requests :
    LET q == req[r]
    IN q.op \in ReadOps =>
         /\ Exists(q.case)
         /\ q.snap.feePercent = cases[q.case].feePercent
         /\ LegalHistory(q.snap.timeline, q.snap.status)
         /\ CanTransition("negotiation", q.snap.status, q.to, ActorOf(q.op))
         /\ q.op = "withdraw" => q.to = "canceled"
         /\ q.op = "reject" => q.to = "failed"
         /\ q.op = "approve" => q.to = "succeeded" /\ q.amount \in published[q.case]
         /\ q.op = "advance" /\ q.to = "offer_pending" => q.amount \in OfferAmounts

\* The offer on a row is one that was published for that case, and nothing is
\* published for an id not yet handed out.
OffersArePublished ==
  \A c \in Cases :
    IF Exists(c) THEN cases[c].offered \in published[c] \union {NoAmount}
                 ELSE published[c] = {}

\* Every offer that can still earn a fee pays the member something.  True of
\* the wire schema's 35..60% band for every offer of two cents or more.
OffersPay == \A a \in OfferAmounts, p \in FeePercents : Net(a, p) > 0

--------------------------------------------------------------------------------
(* What the comments claim, and one request at a time delivers *)

\* "a resolved case can never be reopened".
ResolvedStays ==
  \A c \in Cases : IsTerminal(c) => cases'[c].status = cases[c].status

ResolvedStaysResolved == [][ResolvedStays]_vars

\* "... or a saving with no case to explain it": a credited case reads
\* succeeded.
CreditExplainedByCase ==
  \A c \in Cases : ledger[c] # <<>> => cases[c].status = "succeeded"

\* "Case timelines are append-only": a write keeps every recorded event.
TimelineGrows ==
  \A c \in Cases :
    Exists(c) =>
      LET old == cases[c].timeline  new == cases'[c].timeline
      IN /\ Len(old) <= Len(new)
         /\ SubSeq(new, 1, Len(old)) = old

\* One open case per bill: create refuses with CASE_ALREADY_OPEN.
OneOpenCasePerBill ==
  \A c, d \in Cases :
    c # d /\ IsOpen(c) /\ IsOpen(d) => cases[c].bill # cases[d].bill

\* An approval that reaches its transaction resolves the case: losing the
\* race for the ledger entry is reported as created: false, never undone.
ApprovalApplies ==
  \A r \in Requests :
    CommitApprove(r) => cases'[req[r].case].status = "succeeded"

ApprovalTakesEffect == [][ApprovalApplies]_vars

\* The columns agree with the status they were written for: resolvedAt with a
\* terminal status, offerRespondedAt with the member's answer, the confirmed
\* amount and fee with success.
RowConsistent ==
  \A c \in Cases :
    Exists(c) =>
      LET row  == cases[c]
          last == row.timeline[Len(row.timeline)]
      IN /\ row.resolved <=> row.status \in TerminalCaseStatuses
         /\ row.responded <=> last \in {Event("succeeded", "member"),
                                        Event("failed", "member")}
         /\ row.confirmed # NoAmount <=> row.status = "succeeded"
         /\ row.status = "offer_pending" => row.offered \in published[c]

--------------------------------------------------------------------------------
(* Refinement: the ledger is a CreditOnce table *)

Figures == {Net(a, p) : a \in OfferAmounts, p \in FeePercents} \ {0}

Tabled ==
  [c \in Cases |-> IF Exists(c)
                   THEN {Net(a, cases[c].feePercent) : a \in published[c]} \ {0}
                   ELSE {}]

Credited == [c \in Cases |-> IF ledger[c] = <<>> THEN -1 ELSE ledger[c][1]]

Book == INSTANCE CreditOnce WITH
          Sources <- Cases, Figures <- Figures,
          tabled <- Tabled, credit <- Credited

\* Behind its requests and snapshots the service keeps the ledger's promise.
ImplementsCreditOnce == Book!Spec
================================================================================
