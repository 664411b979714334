--------------------------- MODULE NegotiationProofs ---------------------------
(***************************************************************************)
(* Negotiation, for every number of concurrent requests, cases, bills and  *)
(* offers: rows stay well formed, a case is credited at most once, and its *)
(* timeline stays a legal history although every write is blind.  One      *)
(* request at a time, what it read is the row (FreshRead), and its write   *)
(* keeps what the comments promise.  The theorems about the rules of       *)
(* CaseRules that this rests on come first.                                *)
(***************************************************************************)
EXTENDS NegotiationModes, TLAPS

--------------------------------------------------------------------------------
(* The pure rules: the money split and the two transition maps *)

\* Rounding a percentage of a non-negative amount gives a non-negative one.
LEMMA RoundIsNat ==
  ASSUME NEW a \in Nat, NEW p \in 1..100
  PROVE  RoundHalfUpPercent(a, p) \in Nat
<1>1. a * p \in Nat
  OBVIOUS
<1>2. \A x \in Nat : (x + 50) \div 100 \in Nat
  OBVIOUS
<1>3. QED
  BY <1>1, <1>2 DEF RoundHalfUpPercent

\* settleNegotiation charges a fee between zero and the saving itself, so the
\* member's share is never negative: "a fee larger than the saving ... must be
\* structurally impossible".
THEOREM FeeWithinSaving ==
  ASSUME NEW a \in Nat, NEW p \in 1..100
  PROVE  /\ Fee(a, p) \in 0..a
         /\ Net(a, p) \in 0..a
         /\ Fee(a, p) + Net(a, p) = a
<1>1. RoundHalfUpPercent(a, p) \in Nat
  BY RoundIsNat
<1>2. Fee(a, p) \in 0..a
  BY <1>1 DEF Fee
<1>3. QED
  BY <1>2 DEF Net

LEMMA SettlementType ==
  ASSUME NEW a \in Nat, NEW p \in 1..100
  PROVE  Fee(a, p) \in Nat /\ Net(a, p) \in Nat
<1>1. Fee(a, p) \in 0..a /\ Net(a, p) \in 0..a
  BY FeeWithinSaving
<1>2. QED
  BY <1>1

\* The state machine never leaves a resolved case, whoever asks.
THEOREM TerminalIsFinal ==
  ASSUME NEW kind \in CaseKinds, NEW from \in TerminalCaseStatuses,
         NEW to \in CaseStatuses, NEW actor \in CaseActors
  PROVE  ~CanTransition(kind, from, to, actor)
<1>1. TransitionsFor(kind)[from] = {}
  BY DEF TransitionsFor, CaseKinds, TerminalCaseStatuses, Resolved,
         CancellationTransitions, NegotiationTransitions
<1>2. {t \in TransitionsFor(kind)[from] : t.to = to} = {}
  BY <1>1
<1>3. QED
  BY <1>2 DEF CanTransition, CheckTransition

\* Only the member, and only over a pending offer, makes a negotiation succeed.
THEOREM OnlyMemberSucceeds ==
  ASSUME NEW from \in CaseStatuses, NEW actor \in CaseActors,
         CanTransition("negotiation", from, "succeeded", actor)
  PROVE  from = "offer_pending" /\ actor = "member"
<1> DEFINE candidates ==
      {t \in NegotiationTransitions[from] : t.to = "succeeded"}
<1>1. candidates # {} /\ ~(\A t \in candidates : actor \notin t.actors)
  BY DEF CanTransition, CheckTransition, TransitionsFor
<1>2. PICK t \in NegotiationTransitions[from] :
        t.to = "succeeded" /\ actor \in t.actors
  BY <1>1
<1>3. QED
  BY <1>2 DEF NegotiationTransitions, CaseStatuses, To, MemberWithdraw, Resolved

--------------------------------------------------------------------------------
(* Types *)

\* A row read by a request in flight is a row of the table at that time.
LEMMA ReadType ==
  ASSUME TypeOK, NEW r \in Requests, NEW c \in Cases,
         NEW op \in ReadOps, NEW to \in CaseStatuses, NEW amount \in Offers,
         Read(r, c, op, to, amount)
  PROVE  TypeOK'
<1>1. cases[c] \in Rows
  BY DEF TypeOK, Read, Exists, NoRow
<1>2. [op |-> op, case |-> c, snap |-> cases[c], to |-> to, amount |-> amount]
        \in InFlight
  BY <1>1 DEF InFlight
<1>3. req' \in [Requests -> InFlight \union Creating \union {Idle}]
  BY <1>2 DEF TypeOK, Read
<1>4. QED
  BY <1>3 DEF TypeOK, Read

LEMMA FinishType ==
  ASSUME TypeOK, NEW r \in Requests, Finish(r)
  PROVE  req' \in [Requests -> InFlight \union Creating \union {Idle}]
BY DEF TypeOK, Finish

\* The request a Commit step carries out has the form its operation gave it.
LEMMA ReadyType ==
  ASSUME TypeOK, NEW r \in Requests, req[r].op \in ReadOps
  PROVE  req[r] \in InFlight
BY DEF TypeOK, ReadOps, Creating, Idle

LEMMA CreatingType ==
  ASSUME TypeOK, NEW r \in Requests, req[r].op = "create"
  PROVE  req[r] \in Creating
<1>1. req[r] \notin InFlight
  BY DEF InFlight, ReadOps
<1>2. QED
  BY <1>1 DEF TypeOK, Idle

--------------------------------------------------------------------------------
(* The inductive invariant *)

\* The unique index lets one credit in.
CreditedAtMostOnce == \A c \in Cases : Len(ledger[c]) <= 1

IInv ==
  /\ TypeOK
  /\ CreditedAtMostOnce
  /\ TimelineIsLegalPath
  /\ RequestsSound
  /\ OffersArePublished

\* What a request writes is the legal history it read and one legal event.
LEMMA ExtendIsLegal ==
  ASSUME TypeOK, RequestsSound, NEW r \in Requests, req[r] \in InFlight
  PROVE  LET actor == ActorOf(req[r].op)
             tl    == Extend(r, req[r].to, actor)
         IN /\ tl \in Seq(TimelineEvents)
            /\ LegalHistory(tl, req[r].to)
<1> DEFINE old   == req[r].snap.timeline
           actor == ActorOf(req[r].op)
           new   == Event(req[r].to, actor)
           tl    == Extend(r, req[r].to, actor)
<1>1. old \in Seq(TimelineEvents) /\ req[r].op \in ReadOps /\ req[r].to \in CaseStatuses
  BY DEF InFlight, Rows
<1>2. new \in TimelineEvents /\ new.status = req[r].to /\ new.actor = actor
  BY <1>1 DEF Event, TimelineEvents, ActorOf, CaseActors
<1>3. /\ LegalHistory(old, req[r].snap.status)
      /\ CanTransition("negotiation", req[r].snap.status, req[r].to, actor)
  BY <1>1 DEF RequestsSound
<1>4. tl = Append(old, new)
  BY DEF Extend
<1> HIDE DEF old, actor, new, tl
<1>5. /\ tl \in Seq(TimelineEvents)
      /\ Len(old) \in Nat \ {0}
      /\ Len(tl) = Len(old) + 1
      /\ tl[Len(tl)] = new
      /\ \A i \in 1..Len(old) : tl[i] = old[i]
  BY <1>1, <1>2, <1>3, <1>4 DEF LegalHistory
<1>6. \A i \in 1..(Len(tl) - 1) :
        CanTransition("negotiation", tl[i].status, tl[i + 1].status, tl[i + 1].actor)
  <2> TAKE i \in 1..(Len(tl) - 1)
  <2>1. CASE i = Len(old)
    BY <2>1, <1>2, <1>3, <1>5 DEF LegalHistory
  <2>2. CASE i # Len(old)
    <3>1. i \in 1..(Len(old) - 1) /\ i + 1 \in 1..Len(old)
      BY <2>2, <1>5
    <3>2. tl[i] = old[i] /\ tl[i + 1] = old[i + 1]
      BY <3>1, <1>5
    <3>3. QED
      BY <3>1, <3>2, <1>3 DEF LegalHistory
  <2>3. QED
    BY <2>1, <2>2
<1>7. LegalHistory(tl, req[r].to)
  <2>1. tl # <<>> /\ tl[1] = old[1] /\ tl[Len(tl)].status = req[r].to
    BY <1>2, <1>5
  <2>2. QED
    BY <2>1, <1>3, <1>6 DEF LegalHistory
<1>8. QED
  BY <1>5, <1>7 DEF tl, actor

\* A request that only reads preserves the invariant.
LEMMA ReadStep ==
  ASSUME IInv, NEW r \in Requests, NEW c \in Cases,
         NEW op \in ReadOps, NEW to \in CaseStatuses, NEW amount \in Offers,
         Read(r, c, op, to, amount),
         CanTransition("negotiation", cases[c].status, to, ActorOf(op)),
         op = "withdraw" => to = "canceled",
         op = "reject" => to = "failed",
         op = "approve" => to = "succeeded" /\ amount \in published[c],
         op = "advance" /\ to = "offer_pending" => amount \in OfferAmounts
  PROVE  IInv'
<1> USE DEF IInv
<1>1. TypeOK'
  BY ReadType
<1>2. CreditedAtMostOnce' /\ TimelineIsLegalPath' /\ OffersArePublished'
  BY DEF Read, CreditedAtMostOnce, TimelineIsLegalPath, OffersArePublished, Exists
<1>3. RequestsSound'
  <2> SUFFICES ASSUME NEW s \in Requests, req'[s].op \in ReadOps
               PROVE  RequestsSound!(s)'
    BY DEF RequestsSound
  <2>1. CASE s = r
    <3>1. req'[s] = [op |-> op, case |-> c, snap |-> cases[c],
                     to |-> to, amount |-> amount]
      BY <2>1 DEF Read, TypeOK
    <3>2. Exists(c) /\ LegalHistory(cases[c].timeline, cases[c].status)
      BY DEF Read, TimelineIsLegalPath
    <3>3. QED
      BY <3>1, <3>2 DEF Read, Exists
  <2>2. CASE s # r
    <3>1. req'[s] = req[s]
      BY <2>2 DEF Read, TypeOK
    <3>2. QED
      BY <3>1 DEF Read, Exists, RequestsSound
  <2>3. QED
    BY <2>1, <2>2
<1>4. QED
  BY <1>1, <1>2, <1>3

\* The one statement a request writes, when the row it leaves is well formed,
\* keeps the member's fee, and carries a legal history and a published offer.
LEMMA WriteStep ==
  ASSUME IInv, NEW r \in Requests, NEW c \in Cases, NEW row \in Rows,
         cases' = [cases EXCEPT ![c] = row],
         Exists(c) => row.feePercent = cases[c].feePercent,
         LegalHistory(row.timeline, row.status),
         row.offered \in published'[c] \union {NoAmount},
         published' \in [Cases -> SUBSET OfferAmounts],
         published[c] \subseteq published'[c],
         \A d \in Cases \ {c} : published'[d] = published[d],
         ledger' \in [Cases -> Seq(Nat)], CreditedAtMostOnce',
         Finish(r)
  PROVE  IInv'
<1> USE DEF IInv
<1>1. TypeOK'
  <2>1. cases' \in [Cases -> Rows \union {NoRow}]
    BY DEF TypeOK
  <2>2. req' \in [Requests -> InFlight \union Creating \union {Idle}]
    BY FinishType
  <2>3. QED
    BY <2>1, <2>2 DEF TypeOK
<1>2. cases'[c] = row /\ \A d \in Cases \ {c} : cases'[d] = cases[d]
  BY DEF TypeOK
<1>3. TimelineIsLegalPath'
  BY <1>2 DEF TimelineIsLegalPath, Exists
<1>4. OffersArePublished'
  BY <1>2, ZenonT(60) DEF OffersArePublished, Exists, Rows, CaseStatuses
<1>5. RequestsSound'
  <2> SUFFICES ASSUME NEW s \in Requests, req'[s].op \in ReadOps
               PROVE  RequestsSound!(s)'
    BY DEF RequestsSound
  <2>1. s # r /\ req'[s] = req[s]
    BY DEF Finish, TypeOK, Idle, ReadOps
  <2>2. RequestsSound!(s)
    BY <2>1 DEF RequestsSound
  <2>3. req[s].case \in Cases
    BY <2>1, ReadyType DEF InFlight
  <2>4. Exists(req[s].case)
    BY <2>1, <2>2
  <2>5. /\ Exists(req[s].case)'
        /\ cases'[req[s].case].feePercent = cases[req[s].case].feePercent
    BY <1>2, <2>1, <2>3, <2>4 DEF Exists, Rows, CaseStatuses
  <2>6. QED
    BY <2>1, <2>2, <2>3, <2>5
<1>6. QED
  BY <1>1, <1>3, <1>4, <1>5

\* The facts every Commit step on an existing case starts from.
LEMMA ReadyFacts ==
  ASSUME IInv, NEW r \in Requests, NEW op \in ReadOps, Ready(r, op)
  PROVE  /\ req[r] \in InFlight
         /\ req[r].op = op
         /\ req[r].case \in Cases
         /\ cases[req[r].case] \in Rows
         /\ RequestsSound!(r)
         /\ cases[req[r].case].offered \in published[req[r].case] \union {NoAmount}
         /\ Extend(r, req[r].to, ActorOf(op)) \in Seq(TimelineEvents)
         /\ LegalHistory(Extend(r, req[r].to, ActorOf(op)), req[r].to)
<1>1. req[r] \in InFlight /\ req[r].op = op
  BY ReadyType DEF IInv, Ready
<1>2. req[r].case \in Cases /\ RequestsSound!(r)
  BY <1>1 DEF InFlight, IInv, RequestsSound
<1>3. cases[req[r].case] \in Rows
  BY <1>1, <1>2 DEF IInv, TypeOK, Exists, NoRow
<1>4. cases[req[r].case].offered \in published[req[r].case] \union {NoAmount}
  BY <1>1, <1>2 DEF IInv, OffersArePublished
<1>5. QED
  BY <1>1, <1>2, <1>3, <1>4, ExtendIsLegal DEF IInv

--------------------------------------------------------------------------------
(* One lemma per action of Next *)

LEMMA BeginPreserves ==
  ASSUME IInv, NEW r \in Requests, Begin(r)
  PROVE  IInv'
<1> USE DEF ReadOps, CaseStatuses, Offers, ActorOf
<1>1. ASSUME NEW b \in Bills, NEW pct \in FeePercents, BeginCreate(r, b, pct)
      PROVE  IInv'
  <2>1. [op |-> "create", bill |-> b, pct |-> pct] \in Creating
    BY DEF Creating
  <2>2. TypeOK'
    BY <1>1, <2>1 DEF BeginCreate, IInv, TypeOK
  <2>3. RequestsSound'
    BY <1>1 DEF BeginCreate, IInv, TypeOK, RequestsSound, Exists
  <2>4. QED
    BY <1>1, <2>2, <2>3 DEF BeginCreate, IInv, CreditedAtMostOnce,
       TimelineIsLegalPath, OffersArePublished, Exists
<1>2. ASSUME NEW c \in Cases, BeginWithdraw(r, c)
      PROVE  IInv'
  BY <1>2, ReadStep DEF BeginWithdraw
<1>3. ASSUME NEW c \in Cases, BeginReject(r, c)
      PROVE  IInv'
  BY <1>3, ReadStep DEF BeginReject
<1>4. ASSUME NEW c \in Cases, BeginApprove(r, c)
      PROVE  IInv'
  <2>1. cases[c].offered \in published[c] /\ cases[c].offered \in Offers
    BY <1>4 DEF BeginApprove, Read, IInv, OffersArePublished, TypeOK, Rows, Exists, NoRow
  <2>2. QED
    BY <1>4, <2>1, ReadStep DEF BeginApprove
<1>5. ASSUME NEW c \in Cases, NEW to \in CaseStatuses, NEW amount \in Offers,
             BeginAdvance(r, c, to, amount)
      PROVE  IInv'
  BY <1>5, ReadStep DEF BeginAdvance
<1>6. QED
  BY <1>1, <1>2, <1>3, <1>4, <1>5 DEF Begin

LEMMA DropPreserves ==
  ASSUME IInv, NEW r \in Requests, Drop(r)
  PROVE  IInv'
<1>1. TypeOK'
  BY FinishType DEF Drop, IInv, TypeOK
<1>2. RequestsSound'
  BY DEF Drop, Finish, IInv, TypeOK, RequestsSound, Exists, Idle, ReadOps
<1>3. QED
  BY <1>1, <1>2 DEF Drop, IInv, CreditedAtMostOnce, TimelineIsLegalPath,
     OffersArePublished, Exists

LEMMA CommitCreatePreserves ==
  ASSUME IInv, NEW r \in Requests, NEW c \in Cases, CommitCreate(r, c)
  PROVE  IInv'
<1> DEFINE row == [bill |-> req[r].bill, status |-> "submitted",
                   feePercent |-> req[r].pct, offered |-> NoAmount,
                   confirmed |-> NoAmount, fee |-> NoAmount,
                   responded |-> FALSE, resolved |-> FALSE,
                   timeline |-> <<Event("submitted", "member")>>]
<1>1. req[r] \in Creating
  BY CreatingType DEF CommitCreate, IInv
<1>2. Event("submitted", "member") \in TimelineEvents
  BY DEF Event, TimelineEvents, CaseStatuses, CaseActors
<1>3. row.timeline \in Seq(TimelineEvents) /\ Len(row.timeline) = 1
  BY <1>2
<1>4. row \in Rows
  BY <1>1, <1>3 DEF Creating, Rows, Offers, CaseStatuses
<1>5. LegalHistory(row.timeline, row.status)
  BY <1>3 DEF LegalHistory, Event
<1>6. CreditedAtMostOnce'
  BY DEF CommitCreate, IInv, CreditedAtMostOnce
<1> HIDE DEF row
<1>7. /\ cases' = [cases EXCEPT ![c] = row]
      /\ row.offered = NoAmount
      /\ ~Exists(c)
      /\ published' = published /\ ledger' = ledger /\ Finish(r)
  BY DEF CommitCreate, row
<1>8. QED
  BY <1>4, <1>5, <1>6, <1>7, WriteStep DEF IInv, TypeOK

LEMMA CommitWithdrawPreserves ==
  ASSUME IInv, NEW r \in Requests, CommitWithdraw(r)
  PROVE  IInv'
<1> DEFINE c   == req[r].case
           tl  == Extend(r, "canceled", "member")
           row == [cases[c] EXCEPT !.status = "canceled", !.resolved = TRUE,
                                   !.timeline = tl]
<1>1. Ready(r, "withdraw") /\ cases' = [cases EXCEPT ![c] = row]
  BY DEF CommitWithdraw
<1>2. /\ c \in Cases /\ cases[c] \in Rows
      /\ cases[c].offered \in published[c] \union {NoAmount}
      /\ tl \in Seq(TimelineEvents) /\ LegalHistory(tl, "canceled")
  BY <1>1, ReadyFacts DEF ReadOps, ActorOf
<1> HIDE DEF tl
<1>3. /\ row \in Rows /\ row.status = "canceled" /\ row.timeline = tl
      /\ row.offered = cases[c].offered /\ row.feePercent = cases[c].feePercent
  BY <1>2 DEF Rows, CaseStatuses
<1>4. CreditedAtMostOnce'
  BY DEF CommitWithdraw, IInv, CreditedAtMostOnce
<1> HIDE DEF row, c
<1>5. QED
  BY <1>1, <1>2, <1>3, <1>4, WriteStep DEF CommitWithdraw, IInv, TypeOK

LEMMA CommitRejectPreserves ==
  ASSUME IInv, NEW r \in Requests, CommitReject(r)
  PROVE  IInv'
<1> DEFINE c   == req[r].case
           tl  == Extend(r, "failed", "member")
           row == [cases[c] EXCEPT !.status = "failed", !.responded = TRUE,
                                   !.resolved = TRUE, !.timeline = tl]
<1>1. Ready(r, "reject") /\ cases' = [cases EXCEPT ![c] = row]
  BY DEF CommitReject
<1>2. /\ c \in Cases /\ cases[c] \in Rows
      /\ cases[c].offered \in published[c] \union {NoAmount}
      /\ tl \in Seq(TimelineEvents) /\ LegalHistory(tl, "failed")
  BY <1>1, ReadyFacts DEF ReadOps, ActorOf
<1> HIDE DEF tl
<1>3. /\ row \in Rows /\ row.status = "failed" /\ row.timeline = tl
      /\ row.offered = cases[c].offered /\ row.feePercent = cases[c].feePercent
  BY <1>2 DEF Rows, CaseStatuses
<1>4. CreditedAtMostOnce'
  BY DEF CommitReject, IInv, CreditedAtMostOnce
<1> HIDE DEF row, c
<1>5. QED
  BY <1>1, <1>2, <1>3, <1>4, WriteStep DEF CommitReject, IInv, TypeOK

\* Publishing an offer adds to the case's published offers, which is where
\* the row's new offer comes from.
LEMMA CommitAdvancePreserves ==
  ASSUME IInv, NEW r \in Requests, CommitAdvance(r)
  PROVE  IInv'
<1> DEFINE c      == req[r].case
           to     == req[r].to
           tl     == Extend(r, to, "concierge")
           moved  == [cases[c] EXCEPT !.status = to, !.timeline = tl]
           offer  == [moved EXCEPT !.offered = req[r].amount, !.responded = FALSE]
           closed == [moved EXCEPT !.resolved = TRUE]
           row    == IF to = "offer_pending" THEN offer
                     ELSE IF to \in TerminalCaseStatuses THEN closed ELSE moved
<1>1. /\ Ready(r, "advance") /\ Finish(r) /\ ledger' = ledger
      /\ cases' = [cases EXCEPT ![c] = row]
      /\ published' = IF to = "offer_pending"
                      THEN [published EXCEPT ![c] = @ \union {req[r].amount}]
                      ELSE published
  BY DEF CommitAdvance
<1>2. /\ c \in Cases /\ cases[c] \in Rows /\ to \in CaseStatuses
      /\ cases[c].offered \in published[c] \union {NoAmount}
      /\ tl \in Seq(TimelineEvents) /\ LegalHistory(tl, to)
      /\ to = "offer_pending" => req[r].amount \in OfferAmounts
  BY <1>1, ReadyFacts DEF ReadOps, ActorOf, InFlight
<1> HIDE DEF tl
<1>3. moved \in Rows /\ moved.status = to /\ moved.timeline = tl
      /\ moved.offered = cases[c].offered /\ moved.feePercent = cases[c].feePercent
  BY <1>2 DEF Rows
<1> HIDE DEF moved
<1>4. /\ row \in Rows /\ row.status = to /\ row.timeline = tl
      /\ row.feePercent = cases[c].feePercent
      /\ row.offered = IF to = "offer_pending" THEN req[r].amount
                                               ELSE cases[c].offered
  BY <1>2, <1>3 DEF Rows, Offers
<1> HIDE DEF row
<1>5. /\ published' \in [Cases -> SUBSET OfferAmounts]
      /\ published[c] \subseteq published'[c]
      /\ \A d \in Cases \ {c} : published'[d] = published[d]
      /\ row.offered \in published'[c] \union {NoAmount}
  BY <1>1, <1>2, <1>4 DEF IInv, TypeOK
<1>6. CreditedAtMostOnce'
  BY DEF CommitAdvance, IInv, CreditedAtMostOnce
<1> HIDE DEF c, to
<1>7. QED
  BY <1>1, <1>2, <1>4, <1>5, <1>6, WriteStep DEF IInv, TypeOK

\* The ledger insert and the case update are one step or no step.
LEMMA CommitApprovePreserves ==
  ASSUME IInv, NEW r \in Requests, CommitApprove(r)
  PROVE  IInv'
<1> DEFINE c   == req[r].case
           pct == req[r].snap.feePercent
           net == Net(req[r].amount, pct)
           tl  == Extend(r, "succeeded", "member")
           row == [cases[c] EXCEPT !.status = "succeeded",
                     !.confirmed = req[r].amount, !.fee = Fee(req[r].amount, pct),
                     !.responded = TRUE, !.resolved = TRUE, !.timeline = tl]
<1>1. /\ Ready(r, "approve") /\ Finish(r) /\ published' = published
      /\ \/ /\ ~(net > 0 /\ ~CanInsert(c))
            /\ cases' = [cases EXCEPT ![c] = row]
            /\ ledger' = IF net > 0 /\ CanInsert(c)
                         THEN [ledger EXCEPT ![c] = Append(@, net)] ELSE ledger
         \/ cases' = cases /\ ledger' = ledger
  BY DEF CommitApprove, CreditOf, Aborts
<1>2. /\ c \in Cases /\ cases[c] \in Rows
      /\ cases[c].offered \in published[c] \union {NoAmount}
      /\ tl \in Seq(TimelineEvents) /\ LegalHistory(tl, "succeeded")
      /\ req[r].amount \in published[c] /\ pct = cases[c].feePercent
  BY <1>1, ReadyFacts DEF ReadOps, ActorOf
<1>3. /\ req[r].amount \in OfferAmounts /\ req[r].amount \in Nat /\ pct \in 1..100
  BY <1>2, DataAssumption DEF IInv, TypeOK, Rows
<1>4. Fee(req[r].amount, pct) \in Nat /\ net \in Nat
  BY <1>3, SettlementType
<1> HIDE DEF tl, net
<1>5. /\ row \in Rows /\ row.status = "succeeded" /\ row.timeline = tl
      /\ row.offered = cases[c].offered /\ row.feePercent = cases[c].feePercent
  BY <1>2, <1>3, <1>4 DEF Rows, CaseStatuses, Offers
<1> HIDE DEF row, c
<1>6. CASE /\ cases' = [cases EXCEPT ![c] = row]
           /\ ledger' = IF net > 0 /\ CanInsert(c)
                        THEN [ledger EXCEPT ![c] = Append(@, net)] ELSE ledger
  <2>1. ledger' \in [Cases -> Seq(Nat)]
    BY <1>2, <1>4, <1>6 DEF IInv, TypeOK
  <2>2. CreditedAtMostOnce'
    BY <1>2, <1>4, <1>6 DEF IInv, TypeOK, CreditedAtMostOnce, CanInsert
  <2>3. QED
    BY <1>1, <1>2, <1>5, <1>6, <2>1, <2>2, WriteStep DEF IInv, TypeOK
<1>7. CASE cases' = cases /\ ledger' = ledger
  <2>1. TypeOK'
    BY <1>1, <1>7, FinishType DEF IInv, TypeOK
  <2>2. RequestsSound'
    BY <1>1, <1>7 DEF Finish, IInv, TypeOK, RequestsSound, Exists, Idle, ReadOps
  <2>3. QED
    BY <1>1, <1>7, <2>1, <2>2 DEF IInv, CreditedAtMostOnce, TimelineIsLegalPath,
       OffersArePublished, Exists
<1>8. QED
  BY <1>1, <1>6, <1>7

LEMMA StepPreserves == IInv /\ [Next]_vars => IInv'
<1> SUFFICES ASSUME IInv, [Next]_vars PROVE IInv'
  OBVIOUS
<1>1. ASSUME NEW r \in Requests, Begin(r) PROVE IInv'
  BY <1>1, BeginPreserves
<1>2. ASSUME NEW r \in Requests, Commit(r) PROVE IInv'
  BY <1>2, CommitCreatePreserves, CommitWithdrawPreserves, CommitRejectPreserves,
     CommitApprovePreserves, CommitAdvancePreserves DEF Commit
<1>3. ASSUME NEW r \in Requests, Drop(r) PROVE IInv'
  BY <1>3, DropPreserves
<1>4. CASE UNCHANGED vars
  BY <1>4 DEF vars, IInv, TypeOK, CreditedAtMostOnce, TimelineIsLegalPath,
     RequestsSound, OffersArePublished, Exists
<1>5. QED
  BY <1>1, <1>2, <1>3, <1>4 DEF Next

LEMMA InitHolds == Init => IInv
<1> SUFFICES ASSUME Init PROVE IInv
  OBVIOUS
<1>1. TypeOK
  BY DEF Init, TypeOK
<1>2. RequestsSound
  BY DEF Init, RequestsSound, Idle, ReadOps
<1>3. QED
  BY <1>1, <1>2 DEF Init, IInv, CreditedAtMostOnce, TimelineIsLegalPath,
     OffersArePublished, Exists, NoRow

\* The strengthening holds in every reachable state.
THEOREM Invariance == Spec => []IInv
BY InitHolds, StepPreserves, PTL DEF Spec

\* Rows, credits and requests stay well formed.
THEOREM TypeCorrect == Spec => []TypeOK
<1>1. IInv => TypeOK
  BY DEF IInv
<1>2. QED
  BY <1>1, Invariance, PTL

\* Blind writes may lose events, but what remains is a legal history.
THEOREM LegalTimelines == Spec => []TimelineIsLegalPath
<1>1. IInv => TimelineIsLegalPath
  BY DEF IInv
<1>2. QED
  BY <1>1, Invariance, PTL

--------------------------------------------------------------------------------
(* The money on the case and the money in the ledger *)

Money == CaseLedgerAgree /\ SucceededIsCredited

\* A write that leaves the settlement columns and the ledger alone, and does
\* not itself mark the case succeeded.
LEMMA MoneyKept ==
  ASSUME IInv, Money, NEW c \in Cases, NEW row \in Rows, Exists(c),
         cases' = [cases EXCEPT ![c] = row], ledger' = ledger,
         row.confirmed = cases[c].confirmed, row.fee = cases[c].fee,
         row.feePercent = cases[c].feePercent, row.status # "succeeded",
         published[c] \subseteq published'[c],
         \A d \in Cases \ {c} : published'[d] = published[d]
  PROVE  Money'
<1>1. cases'[c] = row /\ \A d \in Cases \ {c} : cases'[d] = cases[d]
  BY DEF IInv, TypeOK
<1>2. Exists(c)'
  BY <1>1 DEF Exists, Rows, CaseStatuses
<1>3. CaseLedgerAgree'
  BY <1>1, <1>2 DEF Money, CaseLedgerAgree, Exists
<1>4. SucceededIsCredited'
  BY <1>1 DEF Money, SucceededIsCredited, Exists
<1>5. QED
  BY <1>3, <1>4 DEF Money

LEMMA MoneyUnchanged ==
  ASSUME Money, UNCHANGED <<cases, ledger, published>>
  PROVE  Money'
BY DEF Money, CaseLedgerAgree, SucceededIsCredited, Exists

LEMMA MoneyCreate ==
  ASSUME IInv, Money, NEW r \in Requests, NEW c \in Cases, CommitCreate(r, c)
  PROVE  Money'
<1>1. /\ cases'[c].status = "submitted" /\ cases'[c].confirmed = NoAmount
      /\ cases'[c].fee = NoAmount /\ ~Exists(c)
      /\ \A d \in Cases \ {c} : cases'[d] = cases[d]
      /\ ledger' = ledger /\ published' = published
  BY DEF CommitCreate, IInv, TypeOK
<1>2. ledger[c] = <<>>
  BY <1>1 DEF Money, CaseLedgerAgree
<1>3. CaseLedgerAgree'
  BY <1>1, <1>2 DEF Money, CaseLedgerAgree, Exists
<1>4. SucceededIsCredited'
  BY <1>1 DEF Money, SucceededIsCredited, Exists
<1>5. QED
  BY <1>3, <1>4 DEF Money

\* No advance a concierge can have begun leads to succeeded.
LEMMA MoneyAdvance ==
  ASSUME IInv, Money, NEW r \in Requests, CommitAdvance(r)
  PROVE  Money'
<1> DEFINE c      == req[r].case
           to     == req[r].to
           tl     == Extend(r, to, "concierge")
           moved  == [cases[c] EXCEPT !.status = to, !.timeline = tl]
           offer  == [moved EXCEPT !.offered = req[r].amount, !.responded = FALSE]
           closed == [moved EXCEPT !.resolved = TRUE]
           row    == IF to = "offer_pending" THEN offer
                     ELSE IF to \in TerminalCaseStatuses THEN closed ELSE moved
<1>1. /\ Ready(r, "advance") /\ cases' = [cases EXCEPT ![c] = row]
      /\ ledger' = ledger
      /\ published' = IF to = "offer_pending"
                      THEN [published EXCEPT ![c] = @ \union {req[r].amount}]
                      ELSE published
  BY DEF CommitAdvance
<1>2. /\ c \in Cases /\ Exists(c) /\ cases[c] \in Rows /\ to \in CaseStatuses
      /\ tl \in Seq(TimelineEvents)
      /\ to = "offer_pending" => req[r].amount \in OfferAmounts
      /\ CanTransition("negotiation", req[r].snap.status, to, "concierge")
      /\ req[r].snap.status \in CaseStatuses
  BY <1>1, ReadyFacts DEF ReadOps, ActorOf, InFlight, Rows
<1>3. to # "succeeded"
  BY <1>2, OnlyMemberSucceeds DEF CaseActors
<1> HIDE DEF tl
<1>4. moved \in Rows /\ moved.status = to /\ moved.confirmed = cases[c].confirmed
      /\ moved.fee = cases[c].fee /\ moved.feePercent = cases[c].feePercent
  BY <1>2 DEF Rows
<1> HIDE DEF moved
<1>5. /\ row \in Rows /\ row.status = to /\ row.confirmed = cases[c].confirmed
      /\ row.fee = cases[c].fee /\ row.feePercent = cases[c].feePercent
  BY <1>2, <1>4 DEF Rows, Offers
<1> HIDE DEF row
<1>6. /\ published[c] \subseteq published'[c]
      /\ \A d \in Cases \ {c} : published'[d] = published[d]
  BY <1>1, <1>2 DEF IInv, TypeOK
<1> HIDE DEF c, to
<1>7. QED
  BY <1>1, <1>2, <1>3, <1>5, <1>6, MoneyKept

LEMMA MoneyWithdraw ==
  ASSUME IInv, Money, NEW r \in Requests, CommitWithdraw(r)
  PROVE  Money'
<1> DEFINE c   == req[r].case
           tl  == Extend(r, "canceled", "member")
           row == [cases[c] EXCEPT !.status = "canceled", !.resolved = TRUE,
                                   !.timeline = tl]
<1>1. /\ Ready(r, "withdraw") /\ cases' = [cases EXCEPT ![c] = row]
      /\ ledger' = ledger /\ published' = published
  BY DEF CommitWithdraw
<1>2. c \in Cases /\ Exists(c) /\ cases[c] \in Rows /\ tl \in Seq(TimelineEvents)
  BY <1>1, ReadyFacts DEF ReadOps, ActorOf
<1> HIDE DEF tl
<1>3. /\ row \in Rows /\ row.status = "canceled" /\ row.confirmed = cases[c].confirmed
      /\ row.fee = cases[c].fee /\ row.feePercent = cases[c].feePercent
  BY <1>2 DEF Rows, CaseStatuses
<1> HIDE DEF row, c
<1>4. QED
  BY <1>1, <1>2, <1>3, MoneyKept

LEMMA MoneyReject ==
  ASSUME IInv, Money, NEW r \in Requests, CommitReject(r)
  PROVE  Money'
<1> DEFINE c   == req[r].case
           tl  == Extend(r, "failed", "member")
           row == [cases[c] EXCEPT !.status = "failed", !.responded = TRUE,
                                   !.resolved = TRUE, !.timeline = tl]
<1>1. /\ Ready(r, "reject") /\ cases' = [cases EXCEPT ![c] = row]
      /\ ledger' = ledger /\ published' = published
  BY DEF CommitReject
<1>2. c \in Cases /\ Exists(c) /\ cases[c] \in Rows /\ tl \in Seq(TimelineEvents)
  BY <1>1, ReadyFacts DEF ReadOps, ActorOf
<1> HIDE DEF tl
<1>3. /\ row \in Rows /\ row.status = "failed" /\ row.confirmed = cases[c].confirmed
      /\ row.fee = cases[c].fee /\ row.feePercent = cases[c].feePercent
  BY <1>2 DEF Rows, CaseStatuses
<1> HIDE DEF row, c
<1>4. QED
  BY <1>1, <1>2, <1>3, MoneyKept

\* An approval either books case and ledger together, on an empty ledger, or
\* leaves both as they were.
LEMMA MoneyApprove ==
  ASSUME OffersPay, IInv, Money, NEW r \in Requests, CommitApprove(r)
  PROVE  Money'
<1> DEFINE c   == req[r].case
           pct == req[r].snap.feePercent
           net == Net(req[r].amount, pct)
           tl  == Extend(r, "succeeded", "member")
           row == [cases[c] EXCEPT !.status = "succeeded",
                     !.confirmed = req[r].amount, !.fee = Fee(req[r].amount, pct),
                     !.responded = TRUE, !.resolved = TRUE, !.timeline = tl]
<1>1. /\ Ready(r, "approve") /\ published' = published
      /\ \/ /\ ~(net > 0 /\ ~CanInsert(c))
            /\ cases' = [cases EXCEPT ![c] = row]
            /\ ledger' = IF net > 0 /\ CanInsert(c)
                         THEN [ledger EXCEPT ![c] = Append(@, net)] ELSE ledger
         \/ cases' = cases /\ ledger' = ledger
  BY DEF CommitApprove, CreditOf, Aborts
<1>2. /\ c \in Cases /\ Exists(c) /\ cases[c] \in Rows
      /\ req[r].amount \in published[c] /\ pct = cases[c].feePercent
  BY <1>1, ReadyFacts DEF ReadOps
<1>3. req[r].amount \in OfferAmounts /\ pct \in FeePercents
  BY <1>2 DEF IInv, TypeOK, Rows
<1>4. net > 0
  BY <1>3 DEF OffersPay
<1>5. net \in Nat
  BY <1>3, DataAssumption, SettlementType
<1> HIDE DEF net
<1>6. /\ row.status = "succeeded" /\ row.confirmed = req[r].amount
      /\ row.fee = Fee(req[r].amount, pct) /\ row.feePercent = pct
  BY <1>2 DEF Rows
<1> HIDE DEF row
<1>7. CASE /\ CanInsert(c)
           /\ cases' = [cases EXCEPT ![c] = row]
           /\ ledger' = [ledger EXCEPT ![c] = Append(@, net)]
  <2>1. /\ ledger'[c] = <<net>> /\ \A d \in Cases \ {c} : ledger'[d] = ledger[d]
        /\ cases'[c] = row /\ \A d \in Cases \ {c} : cases'[d] = cases[d]
    BY <1>2, <1>7 DEF IInv, TypeOK, CanInsert
  <2>2. ledger'[c] = <<Net(row.confirmed, row.feePercent)>>
    BY <2>1, <1>6 DEF net
  <2>3. CaseLedgerAgree'
    <3> SUFFICES ASSUME NEW d \in Cases PROVE CaseLedgerAgree!(d)'
      BY DEF CaseLedgerAgree
    <3>1. CASE d = c
      BY <3>1, <2>1, <2>2, <1>1, <1>2, <1>6 DEF Exists
    <3>2. CASE d # c
      BY <3>2, <2>1, <1>1 DEF Money, CaseLedgerAgree, Exists
    <3>3. QED
      BY <3>1, <3>2
  <2>4. SucceededIsCredited'
    BY <2>1 DEF Money, SucceededIsCredited, Exists
  <2>5. QED
    BY <2>3, <2>4 DEF Money
<1>8. CASE cases' = cases /\ ledger' = ledger
  BY <1>1, <1>8, MoneyUnchanged
<1>9. QED
  BY <1>1, <1>4, <1>5, <1>7, <1>8

LEMMA MoneyStep ==
  ASSUME OffersPay, IInv, Money, [Next]_vars
  PROVE  Money'
<1>1. ASSUME NEW r \in Requests, Begin(r) PROVE Money'
  <2>1. UNCHANGED <<cases, ledger, published>>
    BY <1>1 DEF Begin, BeginCreate, BeginWithdraw, BeginReject, BeginApprove,
       BeginAdvance, Read
  <2>2. QED
    BY <2>1, MoneyUnchanged
<1>2. ASSUME NEW r \in Requests, Commit(r) PROVE Money'
  BY <1>2, MoneyCreate, MoneyWithdraw, MoneyReject, MoneyApprove, MoneyAdvance
     DEF Commit
<1>3. ASSUME NEW r \in Requests, Drop(r) PROVE Money'
  BY <1>3, MoneyUnchanged DEF Drop
<1>4. CASE UNCHANGED vars
  BY <1>4, MoneyUnchanged DEF vars
<1>5. QED
  BY <1>1, <1>2, <1>3, <1>4 DEF Next

LEMMA MoneyInit == Init => Money
BY DEF Init, Money, CaseLedgerAgree, SucceededIsCredited, Exists, NoRow

\* When every offer pays, the confirmed amount and fee on a case and its one
\* ledger entry always settle the same published figure, and a case marked
\* succeeded is credited, whatever requests interleave.
THEOREM SettlementAgrees ==
  ASSUME OffersPay
  PROVE  Spec => [](CaseLedgerAgree /\ SucceededIsCredited)
<1>1. IInv /\ Money /\ [Next]_vars => Money'
  BY MoneyStep
<1>2. Money => CaseLedgerAgree /\ SucceededIsCredited
  BY DEF Money
<1>3. QED
  BY <1>1, <1>2, MoneyInit, Invariance, PTL DEF Spec

--------------------------------------------------------------------------------
(* Refinement of CreditOnce *)

LEMMA BookInit == Init => Book!Init
BY DEF Init, Book!Init, Tabled, Credited, Exists, NoRow, Book!NoCredit

\* Writes that keep every fee, offer set and credit are stutters of the book.
LEMMA BookStutters ==
  ASSUME UNCHANGED <<ledger, published>>,
         \A d \in Cases : Exists(d)' = Exists(d),
         \A d \in Cases : Exists(d) => cases'[d].feePercent = cases[d].feePercent
  PROVE  UNCHANGED <<Tabled, Credited>>
BY DEF Tabled, Credited

\* A row replaced by one of the same fee keeps every id's existence and fee.
LEMMA RowKeepsFee ==
  ASSUME IInv, NEW c \in Cases, NEW row \in Rows,
         cases' = [cases EXCEPT ![c] = row],
         Exists(c), row.feePercent = cases[c].feePercent
  PROVE  /\ \A d \in Cases : Exists(d)' = Exists(d)
         /\ \A d \in Cases : Exists(d) => cases'[d].feePercent = cases[d].feePercent
<1>1. cases'[c] = row /\ \A d \in Cases \ {c} : cases'[d] = cases[d]
  BY DEF IInv, TypeOK
<1>2. QED
  BY <1>1 DEF Exists, Rows, CaseStatuses

LEMMA BookCreate ==
  ASSUME IInv, NEW r \in Requests, NEW c \in Cases, CommitCreate(r, c)
  PROVE  UNCHANGED <<Tabled, Credited>>
<1>1. /\ ledger' = ledger /\ published' = published /\ published[c] = {}
      /\ \A d \in Cases \ {c} : cases'[d] = cases[d]
  BY DEF CommitCreate, IInv, TypeOK, OffersArePublished
<1>2. Tabled' = Tabled
  <2> SUFFICES ASSUME NEW d \in Cases
               PROVE  (IF Exists(d) THEN {Net(a, cases[d].feePercent) :
                          a \in published[d]} \ {0} ELSE {})' =
                      IF Exists(d) THEN {Net(a, cases[d].feePercent) :
                          a \in published[d]} \ {0} ELSE {}
    BY DEF Tabled
  <2>1. CASE d = c
    BY <2>1, <1>1
  <2>2. CASE d # c
    BY <2>2, <1>1 DEF Exists
  <2>3. QED
    BY <2>1, <2>2
<1>3. QED
  BY <1>1, <1>2 DEF Credited

LEMMA BookWithdrawOrReject ==
  ASSUME IInv, NEW r \in Requests, CommitWithdraw(r) \/ CommitReject(r)
  PROVE  UNCHANGED <<Tabled, Credited>>
<1>1. ASSUME CommitWithdraw(r) PROVE UNCHANGED <<Tabled, Credited>>
  <2> DEFINE c   == req[r].case
             tl  == Extend(r, "canceled", "member")
             row == [cases[c] EXCEPT !.status = "canceled", !.resolved = TRUE,
                                     !.timeline = tl]
  <2>1. /\ Ready(r, "withdraw") /\ cases' = [cases EXCEPT ![c] = row]
        /\ UNCHANGED <<ledger, published>>
    BY <1>1 DEF CommitWithdraw
  <2>2. c \in Cases /\ Exists(c) /\ cases[c] \in Rows /\ tl \in Seq(TimelineEvents)
    BY <2>1, ReadyFacts DEF ReadOps, ActorOf
  <2> HIDE DEF tl
  <2>3. row \in Rows /\ row.feePercent = cases[c].feePercent
    BY <2>2 DEF Rows, CaseStatuses
  <2> HIDE DEF row, c
  <2>4. QED
    BY <2>1, <2>2, <2>3, RowKeepsFee, BookStutters
<1>2. ASSUME CommitReject(r) PROVE UNCHANGED <<Tabled, Credited>>
  <2> DEFINE c   == req[r].case
             tl  == Extend(r, "failed", "member")
             row == [cases[c] EXCEPT !.status = "failed", !.responded = TRUE,
                                     !.resolved = TRUE, !.timeline = tl]
  <2>1. /\ Ready(r, "reject") /\ cases' = [cases EXCEPT ![c] = row]
        /\ UNCHANGED <<ledger, published>>
    BY <1>2 DEF CommitReject
  <2>2. c \in Cases /\ Exists(c) /\ cases[c] \in Rows /\ tl \in Seq(TimelineEvents)
    BY <2>1, ReadyFacts DEF ReadOps, ActorOf
  <2> HIDE DEF tl
  <2>3. row \in Rows /\ row.feePercent = cases[c].feePercent
    BY <2>2 DEF Rows, CaseStatuses
  <2> HIDE DEF row, c
  <2>4. QED
    BY <2>1, <2>2, <2>3, RowKeepsFee, BookStutters
<1>3. QED
  BY <1>1, <1>2

\* Publishing an offer tables the credit it would bring, if any.
LEMMA BookAdvance ==
  ASSUME IInv, NEW r \in Requests, CommitAdvance(r)
  PROVE  [Book!Next]_<<Tabled, Credited>>
<1>c. PICK c \in Cases : c = req[r].case
  BY ReadyFacts DEF CommitAdvance, ReadOps
<1> DEFINE to     == req[r].to
           tl     == Extend(r, to, "concierge")
           moved  == [cases[c] EXCEPT !.status = to, !.timeline = tl]
           offer  == [moved EXCEPT !.offered = req[r].amount, !.responded = FALSE]
           closed == [moved EXCEPT !.resolved = TRUE]
           row    == IF to = "offer_pending" THEN offer
                     ELSE IF to \in TerminalCaseStatuses THEN closed ELSE moved
           pct    == cases[c].feePercent
           net    == Net(req[r].amount, pct)
<1>1. /\ Ready(r, "advance") /\ cases' = [cases EXCEPT ![c] = row]
      /\ ledger' = ledger
      /\ published' = IF to = "offer_pending"
                      THEN [published EXCEPT ![c] = @ \union {req[r].amount}]
                      ELSE published
  BY <1>c DEF CommitAdvance
<1>2. /\ Exists(c) /\ cases[c] \in Rows /\ to \in CaseStatuses
      /\ tl \in Seq(TimelineEvents)
      /\ to = "offer_pending" => req[r].amount \in OfferAmounts
  BY <1>1, <1>c, ReadyFacts DEF ReadOps, ActorOf, InFlight
<1> HIDE DEF tl
<1>3. moved \in Rows /\ moved.feePercent = pct
  BY <1>2 DEF Rows
<1> HIDE DEF moved
<1>4. row \in Rows /\ row.feePercent = pct
  BY <1>2, <1>3 DEF Rows, Offers
<1> HIDE DEF row, to
<1>5. /\ \A d \in Cases : Exists(d)' = Exists(d)
      /\ \A d \in Cases : Exists(d) => cases'[d].feePercent = cases[d].feePercent
  BY <1>1, <1>2, <1>4, RowKeepsFee
<1>6. CASE to # "offer_pending"
  BY <1>1, <1>5, <1>6, BookStutters
<1>7. CASE to = "offer_pending"
  <2>1. published'[c] = published[c] \union {req[r].amount}
        /\ \A d \in Cases \ {c} : published'[d] = published[d]
    BY <1>1, <1>2, <1>7 DEF IInv, TypeOK
  <2>2. Tabled' = [Tabled EXCEPT ![c] = @ \union ({net} \ {0})]
    <3> DEFINE T(d) == IF Exists(d)
                       THEN {Net(a, cases[d].feePercent) : a \in published[d]} \ {0}
                       ELSE {}
    <3>1. Tabled = [d \in Cases |-> T(d)] /\ Tabled' = [d \in Cases |-> T(d)']
      BY DEF Tabled
    <3>2. T(c)' = T(c) \union ({net} \ {0})
      BY <1>2, <1>5, <2>1
    <3>3. \A d \in Cases \ {c} : T(d)' = T(d)
      BY <1>5, <2>1, SMTT(60)
    <3> HIDE DEF T
    <3>4. QED
      BY <3>1, <3>2, <3>3
  <2>3. Credited' = Credited
    BY <1>1 DEF Credited
  <2>4. CASE net = 0
    BY <2>2, <2>3, <2>4, ZenonT(60) DEF Tabled
  <2>5. CASE net # 0
    <3>1. net \in Figures
      BY <1>2, <1>7, <2>5 DEF Figures, Rows
    <3>2. Book!Table(c, net)
      BY <2>2, <2>3, <2>5 DEF Book!Table
    <3>3. QED
      BY <1>2, <3>1, <3>2 DEF Book!Next
  <2>6. QED
    BY <2>4, <2>5
<1>8. QED
  BY <1>6, <1>7

\* An approval that books is the one credit of its case.
LEMMA BookApprove ==
  ASSUME IInv, NEW r \in Requests, CommitApprove(r)
  PROVE  [Book!Next]_<<Tabled, Credited>>
<1>c. PICK c \in Cases : c = req[r].case
  BY ReadyFacts DEF CommitApprove, ReadOps
<1> DEFINE pct == req[r].snap.feePercent
           net == Net(req[r].amount, pct)
           tl  == Extend(r, "succeeded", "member")
           row == [cases[c] EXCEPT !.status = "succeeded",
                     !.confirmed = req[r].amount, !.fee = Fee(req[r].amount, pct),
                     !.responded = TRUE, !.resolved = TRUE, !.timeline = tl]
<1>1. /\ Ready(r, "approve") /\ published' = published
      /\ \/ /\ ~(net > 0 /\ ~CanInsert(c))
            /\ cases' = [cases EXCEPT ![c] = row]
            /\ ledger' = IF net > 0 /\ CanInsert(c)
                         THEN [ledger EXCEPT ![c] = Append(@, net)] ELSE ledger
         \/ cases' = cases /\ ledger' = ledger
  BY <1>c DEF CommitApprove, CreditOf, Aborts
<1>2. /\ Exists(c) /\ cases[c] \in Rows /\ tl \in Seq(TimelineEvents)
      /\ req[r].amount \in published[c] /\ pct = cases[c].feePercent
  BY <1>1, <1>c, ReadyFacts DEF ReadOps, ActorOf
<1>3. req[r].amount \in OfferAmounts /\ pct \in FeePercents
  BY <1>2 DEF IInv, TypeOK, Rows
<1>4. net \in Nat /\ Fee(req[r].amount, pct) \in Nat
  BY <1>3, DataAssumption, SettlementType
<1>5. net \in {Net(a, pct) : a \in published[c]} /\ net \in
        {Net(a, p) : a \in OfferAmounts, p \in FeePercents}
  BY <1>2, <1>3
<1> HIDE DEF net, tl
<1>6. row \in Rows /\ row.feePercent = cases[c].feePercent
  BY <1>2, <1>3, <1>4 DEF Rows, CaseStatuses, Offers
<1> HIDE DEF row
<1>7. CASE UNCHANGED <<cases, ledger>>
  BY <1>1, <1>7 DEF Tabled, Credited, Exists
<1>8. CASE cases' = [cases EXCEPT ![c] = row]
  <2>1. /\ \A d \in Cases : Exists(d)' = Exists(d)
        /\ \A d \in Cases : Exists(d) => cases'[d].feePercent = cases[d].feePercent
    BY <1>2, <1>6, <1>8, RowKeepsFee
  <2>2. Tabled' = Tabled
    BY <1>1, <2>1 DEF Tabled
  <2>3. CASE ledger' = ledger
    BY <2>2, <2>3 DEF Credited
  <2>4. CASE /\ CanInsert(c) /\ net > 0
             /\ ledger' = [ledger EXCEPT ![c] = Append(@, net)]
    <3>1. /\ ledger[c] = <<>> /\ ledger'[c] = <<net>>
          /\ \A d \in Cases \ {c} : ledger'[d] = ledger[d]
      BY <2>4 DEF IInv, TypeOK, CanInsert
    <3>2. Credited[c] = -1
      BY <3>1 DEF Credited
    <3>3. Credited' = [Credited EXCEPT ![c] = net]
      <4> DEFINE K(d) == IF ledger[d] = <<>> THEN -1 ELSE ledger[d][1]
      <4>1. Credited = [d \in Cases |-> K(d)] /\ Credited' = [d \in Cases |-> K(d)']
        BY DEF Credited
      <4>2. K(c)' = net
        BY <3>1
      <4>3. \A d \in Cases \ {c} : K(d)' = K(d)
        BY <3>1
      <4> HIDE DEF K
      <4>4. QED
        BY <4>1, <4>2, <4>3
    <3>4. net \in Tabled[c]
      BY <1>2, <1>4, <1>5, <2>4 DEF Tabled
    <3>5. net \in Figures
      BY <1>4, <1>5, <2>4 DEF Figures
    <3>6. Book!Credit(c, net)
      BY <2>2, <3>2, <3>3, <3>4 DEF Book!Credit, Book!NoCredit
    <3>7. QED
      BY <3>5, <3>6 DEF Book!Next
  <2>5. QED
    BY <1>1, <1>4, <2>3, <2>4, <1>7
<1>9. QED
  BY <1>1, <1>7, <1>8

LEMMA BookStep == IInv /\ [Next]_vars => [Book!Next]_<<Tabled, Credited>>
<1> SUFFICES ASSUME IInv, [Next]_vars
             PROVE  [Book!Next]_<<Tabled, Credited>>
  OBVIOUS
<1>1. CASE UNCHANGED <<cases, ledger, published>>
  BY <1>1 DEF Tabled, Credited, Exists
<1>2. ASSUME NEW r \in Requests, Begin(r) PROVE UNCHANGED <<cases, ledger, published>>
  BY <1>2 DEF Begin, BeginCreate, BeginWithdraw, BeginReject, BeginApprove,
     BeginAdvance, Read
<1>3. ASSUME NEW r \in Requests, Commit(r) PROVE [Book!Next]_<<Tabled, Credited>>
  BY <1>3, BookCreate, BookWithdrawOrReject, BookApprove, BookAdvance DEF Commit
<1>4. ASSUME NEW r \in Requests, Drop(r) PROVE UNCHANGED <<cases, ledger, published>>
  BY <1>4 DEF Drop
<1>5. CASE UNCHANGED vars
  BY <1>1, <1>5 DEF vars
<1>6. QED
  BY <1>1, <1>2, <1>3, <1>4, <1>5 DEF Next

\* The service implements the ledger's promise: a source is credited at most
\* once, with a published figure, and for good.
THEOREM RefinesCreditOnce == Spec => ImplementsCreditOnce
BY BookInit, BookStep, Invariance, PTL DEF Spec, ImplementsCreditOnce, Book!Spec

--------------------------------------------------------------------------------
(* One request at a time *)

\* What the one request in flight has read is what the table still holds.
FreshRead(r) ==
  /\ req[r].op \in ReadOps =>
       /\ req[r].snap = cases[req[r].case]
       /\ req[r].op \in {"reject", "approve"} => cases[req[r].case].status = "offer_pending"
  /\ req[r].op = "create" => NoOpenCase(req[r].bill)

SerialSound ==
  /\ OneRequest /\ (\A r \in Requests : FreshRead(r))
  /\ CreditExplainedByCase /\ OneOpenCasePerBill /\ RowConsistent

SerialInv == IInv /\ (mode = "serial" => SerialSound)

Answers == {Event("succeeded", "member"), Event("failed", "member")}

\* RowConsistent, of one row.
Consistent(row, offers) ==
  /\ row.resolved <=> row.status \in TerminalCaseStatuses
  /\ row.responded <=> row.timeline[Len(row.timeline)] \in Answers
  /\ row.confirmed # NoAmount <=> row.status = "succeeded"
  /\ row.status = "offer_pending" => row.offered \in offers

\* A move starts from a case that is still open, and only the member's answer to
\* an offer makes it succeed.
LEMMA MovesFromOpen ==
  ASSUME NEW from \in CaseStatuses, NEW to \in CaseStatuses, NEW actor \in CaseActors,
         CanTransition("negotiation", from, to, actor)
  PROVE  /\ from \notin TerminalCaseStatuses
         /\ to = "succeeded" => from = "offer_pending" /\ actor = "member"
BY TerminalIsFinal, OnlyMemberSucceeds DEF CaseKinds

\* Appending an event keeps those before it.
LEMMA Appended ==
  ASSUME NEW S, NEW old \in Seq(S), NEW e \in S, NEW new, new = Append(old, e)
  PROVE  /\ new[Len(new)] = e
         /\ Len(old) <= Len(new) /\ SubSeq(new, 1, Len(old)) = old
<1>1. new \in Seq(S) /\ Len(new) = Len(old) + 1 /\ Len(old) \in Nat
      /\ new[Len(new)] = e /\ \A i \in 1..Len(old) : new[i] = old[i]
  OBVIOUS
<1>2. PICK part : part = SubSeq(new, 1, Len(old))
  OBVIOUS
<1>3. part \in Seq(S) /\ Len(part) = Len(old) /\ \A i \in 1..Len(old) : part[i] = new[i]
  BY <1>1, <1>2
<1>4. part = old
  BY <1>1, <1>3
<1>5. QED
  BY <1>1, <1>2, <1>4

\* An open row, before any answer to its offer, has nothing in its last columns.
LEMMA OpenRow ==
  ASSUME NEW row \in Rows, NEW offers, Consistent(row, offers),
         LegalHistory(row.timeline, row.status), row.status \notin TerminalCaseStatuses
  PROVE  row.resolved = FALSE /\ row.responded = FALSE /\ row.confirmed = NoAmount
<1>1. row.timeline[Len(row.timeline)] \notin Answers
  BY DEF LegalHistory, Answers, Event, TerminalCaseStatuses
<1>2. row.resolved \in BOOLEAN /\ row.responded \in BOOLEAN
  BY DEF Rows
<1>3. ~row.resolved /\ ~row.responded /\ ~(row.confirmed # NoAmount)
  BY <1>1, Zenon DEF Consistent, TerminalCaseStatuses
<1>4. QED
  BY <1>2, <1>3


\* A request that reads while no other is under way reads what it will act on.
LEMMA SerialRead ==
  ASSUME SerialInv, mode = "serial", IInv', mode' = mode, OneRequest', NEW r \in Requests,
         UNCHANGED <<cases, ledger, published>>, FreshRead(r)',
         \A s \in Requests \ {r} : req'[s] = req[s]
  PROVE  SerialInv'
<1>1. SerialSound
  BY DEF SerialInv
<1>2. \A s \in Requests : FreshRead(s)'
  BY <1>1 DEF SerialSound, FreshRead, NoOpenCase, IsOpen, Exists
<1>3. CreditExplainedByCase' /\ OneOpenCasePerBill' /\ RowConsistent'
  BY <1>1 DEF SerialSound, CreditExplainedByCase, OneOpenCasePerBill, RowConsistent, IsOpen, Exists
<1>4. QED
  BY <1>2, <1>3 DEF SerialInv, SerialSound

\* The write of the one request in flight.
LEMMA SerialWrite ==
  ASSUME SerialInv, mode = "serial", IInv', mode' = mode, NEW r \in Requests,
         req[r] # Idle, Finish(r), NEW c \in Cases, NEW row \in Rows,
         cases' = [cases EXCEPT ![c] = row],
         Consistent(row, published'[c]),
         (IsOpen(c) /\ row.bill = cases[c].bill) \/ NoOpenCase(row.bill),
         ledger'[c] # <<>> => row.status = "succeeded",
         \A d \in Cases \ {c} : published'[d] = published[d] /\ ledger'[d] = ledger[d]
  PROVE  SerialInv'
<1>1. SerialSound /\ TypeOK
  BY DEF SerialInv, IInv
<1>2. cases'[c] = row /\ \A d \in Cases \ {c} : cases'[d] = cases[d]
  BY <1>1 DEF TypeOK
<1>3. \A s \in Requests : req'[s] = Idle
  <2> TAKE s \in Requests
  <2>1. CASE s = r
    BY <1>1, <2>1 DEF Finish, TypeOK
  <2>2. CASE s # r
    BY <1>1, <2>2 DEF Finish, TypeOK, SerialSound, OneRequest
  <2>3. QED
    BY <2>1, <2>2
<1>4. OneRequest' /\ \A s \in Requests : FreshRead(s)'
  BY <1>3 DEF OneRequest, FreshRead, Idle, ReadOps
<1>5. CreditExplainedByCase'
  BY <1>1, <1>2 DEF SerialSound, CreditExplainedByCase
<1>6. OneOpenCasePerBill'
  <2> SUFFICES ASSUME NEW d \in Cases \ {c}, IsOpen(d)', IsOpen(c)'
               PROVE  cases'[d].bill # row.bill
    BY <1>1, <1>2 DEF SerialSound, OneOpenCasePerBill, IsOpen, Exists
  <2>1. IsOpen(d) /\ cases'[d].bill = cases[d].bill
    BY <1>2 DEF IsOpen, Exists
  <2>2. QED
    BY <1>1, <2>1 DEF SerialSound, OneOpenCasePerBill, NoOpenCase
<1>7. RowConsistent'
  <2> SUFFICES ASSUME NEW d \in Cases, Exists(d)' PROVE RowConsistent!(d)'
    BY DEF RowConsistent
  <2>1. CASE d = c
    BY <1>2, <2>1 DEF Consistent, Answers
  <2>2. CASE d # c
    <3>1. Exists(d) /\ cases'[d] = cases[d] /\ published'[d] = published[d]
      BY <1>2, <2>2 DEF Exists
    <3>2. RowConsistent!(d)
      BY <1>1, <3>1 DEF SerialSound, RowConsistent
    <3>3. QED
      BY <3>1, <3>2
  <2>3. QED
    BY <2>1, <2>2
<1>8. QED
  BY <1>4, <1>5, <1>6, <1>7 DEF SerialInv, SerialSound


LEMMA SerialBegin ==
  ASSUME SerialInv, mode = "serial", IInv', mode' = mode, OneRequest', NEW r \in Requests, Begin(r)
  PROVE  SerialInv'
<1>1. TypeOK
  BY DEF SerialInv, IInv
<1>2. ASSUME NEW b \in Bills, NEW pct \in FeePercents, BeginCreate(r, b, pct)
      PROVE  SerialInv'
  <2>1. req'[r] = [op |-> "create", bill |-> b, pct |-> pct] /\ NoOpenCase(b)'
    BY <1>1, <1>2 DEF BeginCreate, TypeOK, NoOpenCase, IsOpen, Exists
  <2>2. FreshRead(r)'
    BY <2>1 DEF FreshRead, ReadOps
  <2>3. QED
    BY <1>1, <1>2, <2>2, SerialRead DEF BeginCreate, TypeOK
<1>3. ASSUME NEW c \in Cases, NEW op \in ReadOps, NEW to \in CaseStatuses, NEW amount \in Offers,
             Read(r, c, op, to, amount),
             op \in {"reject", "approve"} => cases[c].status = "offer_pending"
      PROVE  SerialInv'
  <2>1. req'[r] = [op |-> op, case |-> c, snap |-> cases[c], to |-> to, amount |-> amount]
    BY <1>1, <1>3 DEF Read, TypeOK
  <2>2. FreshRead(r)'
    BY <1>3, <2>1 DEF FreshRead, ReadOps, Read
  <2>3. QED
    BY <1>1, <1>3, <2>2, SerialRead DEF Read, TypeOK
<1>4. ASSUME NEW c \in Cases, BeginWithdraw(r, c) \/ BeginReject(r, c) PROVE SerialInv'
  BY <1>3, <1>4 DEF BeginWithdraw, BeginReject, ReadOps, CaseStatuses, Offers
<1>5. ASSUME NEW c \in Cases, BeginApprove(r, c) PROVE SerialInv'
  <2>1. cases[c].offered \in Offers
    BY <1>1, <1>5 DEF BeginApprove, Read, TypeOK, Rows, Exists, NoRow
  <2>2. QED
    BY <1>3, <1>5, <2>1 DEF BeginApprove, ReadOps, CaseStatuses
<1>6. ASSUME NEW c \in Cases, NEW to \in CaseStatuses, NEW amount \in Offers,
             BeginAdvance(r, c, to, amount)
      PROVE  SerialInv'
  BY <1>3, <1>6 DEF BeginAdvance, ReadOps
<1>7. QED
  BY <1>2, <1>4, <1>5, <1>6 DEF Begin, Offers

LEMMA SerialDrop ==
  ASSUME SerialInv, mode = "serial", IInv', mode' = mode, OneRequest', NEW r \in Requests, Drop(r)
  PROVE  SerialInv'
<1>1. req'[r] = Idle /\ (\A s \in Requests \ {r} : req'[s] = req[s])
      /\ UNCHANGED <<cases, ledger, published>>
  BY DEF Drop, Finish, SerialInv, IInv, TypeOK
<1>2. FreshRead(r)'
  BY <1>1 DEF FreshRead, Idle, ReadOps
<1>3. QED
  BY <1>1, <1>2, SerialRead

\* What a request one at a time commits: a legal move from the open case as it
\* is, so that the row's last columns are still empty and nothing is credited.
LEMMA SerialReady ==
  ASSUME SerialInv, mode = "serial", NEW r \in Requests, NEW op \in ReadOps, Ready(r, op),
         NEW c, c = req[r].case
  PROVE  /\ req[r] # Idle /\ c \in Cases /\ cases[c] \in Rows /\ IsOpen(c)
         /\ req[r].snap = cases[c] /\ ledger[c] = <<>>
         /\ cases[c].resolved = FALSE /\ cases[c].responded = FALSE
         /\ cases[c].confirmed = NoAmount
         /\ op \in {"reject", "approve"} => cases[c].status = "offer_pending"
         /\ cases[c].timeline \in Seq(TimelineEvents)
         /\ req[r].to \in CaseStatuses
         /\ CanTransition("negotiation", cases[c].status, req[r].to, ActorOf(op))
<1>1. IInv /\ SerialSound /\ FreshRead(r)
  BY DEF SerialInv, SerialSound
<1>2. /\ req[r] \in InFlight /\ req[r].op = op /\ c \in Cases /\ cases[c] \in Rows
      /\ RequestsSound!(r)
  BY <1>1, ReadyFacts
<1>3. req[r].snap = cases[c] /\ (op \in {"reject", "approve"} => cases[c].status = "offer_pending")
  BY <1>1, <1>2 DEF FreshRead
<1>4. /\ cases[c].status \in CaseStatuses /\ req[r].to \in CaseStatuses
      /\ cases[c].timeline \in Seq(TimelineEvents) /\ ActorOf(op) \in CaseActors
  BY <1>2 DEF Rows, InFlight, ActorOf, CaseActors
<1>5. CanTransition("negotiation", cases[c].status, req[r].to, ActorOf(op))
  BY <1>2, <1>3
<1>6. cases[c].status \notin TerminalCaseStatuses
  BY <1>4, <1>5, MovesFromOpen
<1>7. Exists(c)
  BY <1>4 DEF Exists, CaseStatuses
<1>8. Consistent(cases[c], published[c])
  BY <1>1, <1>2, <1>7 DEF SerialSound, RowConsistent, Consistent, Answers
<1>9. LegalHistory(cases[c].timeline, cases[c].status)
  BY <1>1, <1>2, <1>7 DEF IInv, TimelineIsLegalPath
<1>10. cases[c].resolved = FALSE /\ cases[c].responded = FALSE /\ cases[c].confirmed = NoAmount
  BY <1>2, <1>6, <1>8, <1>9, OpenRow
<1>11. ledger[c] = <<>>
  BY <1>1, <1>2, <1>6 DEF SerialSound, CreditExplainedByCase, TerminalCaseStatuses
<1>12. req[r] # Idle
  BY <1>2 DEF InFlight, Idle, ReadOps
<1>13. QED
  BY <1>2, <1>3, <1>4, <1>5, <1>6, <1>7, <1>10, <1>11, <1>12 DEF IsOpen


\* The last event of what it writes is its own.
LEMMA WritesItsEvent ==
  ASSUME SerialInv, mode = "serial", NEW r \in Requests, NEW op \in ReadOps, Ready(r, op),
         NEW status \in CaseStatuses, NEW actor \in CaseActors, NEW tl, tl = Extend(r, status, actor)
  PROVE  LET old == cases[req[r].case].timeline
         IN /\ tl \in Seq(TimelineEvents) /\ tl[Len(tl)] = Event(status, actor)
            /\ Len(old) <= Len(tl) /\ SubSeq(tl, 1, Len(old)) = old
<1>1. PICK old, e : old = cases[req[r].case].timeline /\ e = Event(status, actor)
  OBVIOUS
<1>2. old \in Seq(TimelineEvents) /\ tl = Append(old, e)
  BY <1>1, SerialReady DEF Extend
<1>3. e \in TimelineEvents
  BY <1>1 DEF Event, TimelineEvents
<1>4. tl \in Seq(TimelineEvents)
  BY <1>2, <1>3
<1>5. tl[Len(tl)] = e /\ Len(old) <= Len(tl) /\ SubSeq(tl, 1, Len(old)) = old
  BY <1>2, <1>3, Appended
<1>6. QED
  BY <1>1, <1>4, <1>5

LEMMA SerialCreate ==
  ASSUME SerialInv, mode = "serial", IInv', mode' = mode,
         NEW r \in Requests, NEW c \in Cases, CommitCreate(r, c)
  PROVE  SerialInv'
<1>1. PICK row : row = [bill |-> req[r].bill, status |-> "submitted",
                        feePercent |-> req[r].pct, offered |-> NoAmount,
                        confirmed |-> NoAmount, fee |-> NoAmount,
                        responded |-> FALSE, resolved |-> FALSE,
                        timeline |-> <<Event("submitted", "member")>>]
  OBVIOUS
<1>2. IInv /\ TypeOK /\ SerialSound /\ FreshRead(r)
  BY DEF SerialInv, SerialSound, IInv
<1>3. /\ cases' = [cases EXCEPT ![c] = row] /\ Finish(r) /\ ~Exists(c)
      /\ published' = published /\ ledger' = ledger /\ req[r].op = "create"
  BY <1>1 DEF CommitCreate
<1>4. cases'[c] = row /\ cases'[c] \in Rows
  <2>1. cases'[c] = row
    BY <1>2, <1>3 DEF TypeOK
  <2>2. row # NoRow
    BY <1>1 DEF NoRow
  <2>3. QED
    BY <2>1, <2>2 DEF IInv, TypeOK
<1>5. /\ row.status = "submitted" /\ row.confirmed = NoAmount
      /\ row.resolved = FALSE /\ row.responded = FALSE
      /\ row.timeline[Len(row.timeline)] = Event("submitted", "member")
      /\ row.bill = req[r].bill
  BY <1>1
<1>6. Event("submitted", "member") \notin Answers
  BY DEF Event, Answers
<1>7. Consistent(row, published'[c])
  BY <1>5, <1>6 DEF Consistent, TerminalCaseStatuses
<1>8. ledger[c] = <<>>
  BY <1>2, <1>3 DEF SerialSound, CreditExplainedByCase, Exists
<1>9. NoOpenCase(row.bill) /\ req[r] # Idle
  BY <1>2, <1>3, <1>5 DEF FreshRead, Idle
<1>10. QED
  BY <1>3, <1>4, <1>7, <1>8, <1>9, SerialWrite

\* The member withdraws, or rejects the offer.
LEMMA SerialClose ==
  ASSUME SerialInv, mode = "serial", IInv', mode' = mode,
         NEW r \in Requests, CommitWithdraw(r) \/ CommitReject(r)
  PROVE  SerialInv'
<1>1. PICK op \in {"withdraw", "reject"} : Ready(r, op) /\ IF op = "withdraw" THEN CommitWithdraw(r) ELSE CommitReject(r)
  BY DEF CommitWithdraw, CommitReject
<1>2. PICK status, yes, c : /\ status = IF op = "withdraw" THEN "canceled" ELSE "failed"
                            /\ yes = TRUE /\ c = req[r].case
  OBVIOUS
<1>3. PICK tl : tl = Extend(r, status, "member")
  OBVIOUS
<1>4. PICK row : row = IF op = "withdraw"
                       THEN [cases[c] EXCEPT !.status = status, !.resolved = yes, !.timeline = tl]
                       ELSE [cases[c] EXCEPT !.status = status, !.responded = yes, !.resolved = yes,
                                             !.timeline = tl]
  OBVIOUS
<1>5. /\ cases' = [cases EXCEPT ![c] = row] /\ Finish(r) /\ UNCHANGED <<ledger, published>>
  <2>1. CASE op = "withdraw"
    BY <1>1, <1>2, <1>3, <1>4, <2>1 DEF CommitWithdraw
  <2>2. CASE op # "withdraw"
    BY <1>1, <1>2, <1>3, <1>4, <2>2 DEF CommitReject
  <2>3. QED
    BY <2>1, <2>2
<1>6. /\ req[r] # Idle /\ c \in Cases /\ cases[c] \in Rows /\ IsOpen(c) /\ ledger[c] = <<>>
      /\ cases[c].responded = FALSE /\ cases[c].confirmed = NoAmount
  <2>1. op \in ReadOps /\ Ready(r, op) /\ c = req[r].case
    BY <1>1, <1>2 DEF ReadOps
  <2>2. QED
    BY <2>1, SerialReady
<1>7. tl \in Seq(TimelineEvents) /\ tl[Len(tl)] = Event(status, "member")
  BY <1>1, <1>2, <1>3, WritesItsEvent, ZenonT(60) DEF ReadOps, CaseStatuses, CaseActors
<1>8. yes \in BOOLEAN
  BY <1>2, Zenon
<1>9. /\ row \in Rows /\ row.status = status /\ row.resolved = yes /\ row.confirmed = NoAmount
      /\ row.timeline = tl /\ row.bill = cases[c].bill
      /\ row.responded = IF op = "withdraw" THEN FALSE ELSE yes
  BY <1>2, <1>4, <1>6, <1>7, <1>8 DEF Rows, CaseStatuses
<1>10. Consistent(row, published'[c])
  <2>1. op = "withdraw" => Event(status, "member") \notin Answers
    BY <1>2 DEF Event, Answers
  <2>2. op = "reject" => Event(status, "member") \in Answers
    BY <1>2 DEF Event, Answers
  <2>3. QED
    BY <1>1, <1>2, <1>7, <1>9, <2>1, <2>2 DEF Consistent, TerminalCaseStatuses
<1>11. QED
  BY <1>5, <1>6, <1>9, <1>10, SerialWrite

\* The concierge moves the case on, and may publish an offer.
LEMMA SerialAdvance ==
  ASSUME SerialInv, mode = "serial", IInv', mode' = mode, NEW r \in Requests, CommitAdvance(r)
  PROVE  SerialInv'
<1>1. PICK to, yes, no, c, amount :
        /\ to = req[r].to /\ yes = TRUE /\ no = FALSE /\ c = req[r].case /\ amount = req[r].amount
  OBVIOUS
<1>2. PICK tl : tl = Extend(r, to, "concierge")
  OBVIOUS
<1>3. PICK row : row = IF to = "offer_pending"
                       THEN [cases[c] EXCEPT !.status = to, !.timeline = tl,
                                             !.offered = amount, !.responded = no]
                       ELSE IF to \in TerminalCaseStatuses
                       THEN [cases[c] EXCEPT !.status = to, !.timeline = tl, !.resolved = yes]
                       ELSE [cases[c] EXCEPT !.status = to, !.timeline = tl]
  OBVIOUS
<1>4. /\ req[r] # Idle /\ c \in Cases /\ cases[c] \in Rows /\ IsOpen(c) /\ ledger[c] = <<>>
      /\ cases[c].resolved = FALSE /\ cases[c].responded = FALSE /\ cases[c].confirmed = NoAmount
      /\ to \in CaseStatuses
      /\ CanTransition("negotiation", cases[c].status, to, "concierge")
  BY <1>1, SerialReady, ZenonT(60) DEF CommitAdvance, ReadOps, ActorOf
<1>5. /\ Ready(r, "advance") /\ cases' = [cases EXCEPT ![c] = row] /\ Finish(r)
      /\ ledger' = ledger
      /\ published' = IF to = "offer_pending" THEN [published EXCEPT ![c] = @ \union {amount}]
                                              ELSE published
  <2>1. cases' = [cases EXCEPT ![c] = row]
    BY <1>1, <1>2, <1>3, <1>4 DEF CommitAdvance, Rows
  <2>2. QED
    BY <1>1, <2>1 DEF CommitAdvance
<1>6. to # "succeeded"
  BY <1>4, MovesFromOpen DEF Rows, CaseActors
<1>7. /\ tl \in Seq(TimelineEvents) /\ tl[Len(tl)] = Event(to, "concierge")
      /\ Event(to, "concierge") \notin Answers
  <2>1. Event(to, "concierge") \notin Answers
    BY DEF Event, Answers
  <2>2. QED
    BY <1>2, <1>4, <1>5, <2>1, WritesItsEvent DEF ReadOps, CaseActors
<1>8. yes \in BOOLEAN /\ no \in BOOLEAN
  BY <1>1, Zenon
<1>9. amount \in Offers
  BY <1>1, <1>5, ReadyFacts DEF SerialInv, ReadOps, InFlight
<1>10. /\ row \in Rows /\ row.status = to /\ row.timeline = tl /\ row.bill = cases[c].bill
       /\ row.confirmed = NoAmount
       /\ row.responded = FALSE
       /\ row.resolved = IF to \in TerminalCaseStatuses THEN yes ELSE FALSE
       /\ to = "offer_pending" => row.offered = amount
  BY <1>1, <1>3, <1>4, <1>7, <1>8, <1>9 DEF Rows, TerminalCaseStatuses
<1>11. to = "offer_pending" => row.offered \in published'[c]
  BY <1>4, <1>5, <1>10 DEF SerialInv, IInv, TypeOK
<1>12. Consistent(row, published'[c])
  BY <1>1, <1>6, <1>7, <1>10, <1>11 DEF Consistent, TerminalCaseStatuses
<1>13. \A d \in Cases \ {c} : published'[d] = published[d]
  BY <1>5 DEF SerialInv, IInv, TypeOK
<1>14. QED
  BY <1>4, <1>5, <1>10, <1>12, <1>13, SerialWrite


\* The member accepts: the case is credited for the first time, so the index
\* refuses nothing and the update stands.
LEMMA ApprovalStands ==
  ASSUME SerialInv, mode = "serial", IInv', NEW r \in Requests, CommitApprove(r), NEW c, c = req[r].case
  PROVE  \E row \in Rows :
           /\ cases' = [cases EXCEPT ![c] = row] /\ row.bill = cases[c].bill
           /\ row.status = "succeeded" /\ row.timeline = Extend(r, "succeeded", "member")
           /\ row.confirmed \in OfferAmounts /\ row.resolved = TRUE /\ row.responded = TRUE
           /\ \A d \in Cases \ {c} : published'[d] = published[d] /\ ledger'[d] = ledger[d]
<1>1. PICK pct, amount, tl : /\ pct = req[r].snap.feePercent /\ amount = req[r].amount
                             /\ tl = Extend(r, "succeeded", "member")
  OBVIOUS
<1>2. PICK row : row = [cases[c] EXCEPT !.status = "succeeded", !.confirmed = amount,
                                        !.fee = Fee(amount, pct), !.responded = TRUE,
                                        !.resolved = TRUE, !.timeline = tl]
  OBVIOUS
<1>3. Ready(r, "approve") /\ "approve" \in ReadOps
  BY DEF CommitApprove, ReadOps
<1>4. c \in Cases /\ cases[c] \in Rows /\ ledger[c] = <<>>
  BY <1>3, SerialReady
<1>5. ~Aborts(r)
  BY <1>4 DEF Aborts, CanInsert
<1>6. /\ cases' = [cases EXCEPT ![c] = row] /\ published' = published
      /\ ledger' = IF CreditOf(r) > 0 /\ CanInsert(c)
                   THEN [ledger EXCEPT ![c] = Append(@, CreditOf(r))] ELSE ledger
  BY <1>1, <1>2, <1>5 DEF CommitApprove
<1>7. amount \in OfferAmounts
  <2>1. RequestsSound!(r) /\ req[r].op = "approve"
    BY <1>3, ReadyFacts DEF SerialInv
  <2>2. amount \in published[c]
    BY <1>1, <1>3, <2>1
  <2>3. QED
    BY <1>4, <2>2 DEF SerialInv, IInv, TypeOK
<1>8. /\ row.status = "succeeded" /\ row.timeline = tl /\ row.bill = cases[c].bill
      /\ row.confirmed = amount /\ row.resolved = TRUE /\ row.responded = TRUE
  BY <1>2, <1>4 DEF Rows
<1>9. row \in Rows
  <2>1. cases'[c] = row /\ row # NoRow
    BY <1>4, <1>6, <1>8 DEF SerialInv, IInv, TypeOK, NoRow
  <2>2. QED
    BY <1>4, <2>1 DEF IInv, TypeOK
<1>10. \A d \in Cases \ {c} : published'[d] = published[d] /\ ledger'[d] = ledger[d]
  BY <1>6 DEF SerialInv, IInv, TypeOK
<1>11. QED
  BY <1>1, <1>6, <1>7, <1>8, <1>9, <1>10

LEMMA SerialApprove ==
  ASSUME SerialInv, mode = "serial", IInv', mode' = mode, NEW r \in Requests, CommitApprove(r)
  PROVE  SerialInv'
<1>1. PICK c, tl : c = req[r].case /\ tl = Extend(r, "succeeded", "member")
  OBVIOUS
<1>2. PICK row \in Rows :
        /\ cases' = [cases EXCEPT ![c] = row] /\ row.bill = cases[c].bill
        /\ row.status = "succeeded" /\ row.timeline = tl
        /\ row.confirmed \in OfferAmounts /\ row.resolved = TRUE /\ row.responded = TRUE
        /\ \A d \in Cases \ {c} : published'[d] = published[d] /\ ledger'[d] = ledger[d]
  BY <1>1, ApprovalStands
<1>3. Ready(r, "approve") /\ "approve" \in ReadOps /\ Finish(r)
  BY DEF CommitApprove, ReadOps
<1>4. req[r] # Idle /\ c \in Cases /\ IsOpen(c)
  BY <1>1, <1>3, SerialReady
<1>5. tl[Len(tl)] = Event("succeeded", "member")
  BY <1>1, <1>3, WritesItsEvent DEF CaseStatuses, CaseActors
<1>6. Consistent(row, published'[c])
  BY <1>2, <1>5, DataAssumption DEF Consistent, Answers, TerminalCaseStatuses, NoAmount
<1>7. QED
  BY <1>2, <1>3, <1>4, <1>6, SerialWrite

LEMMA SerialStep == SerialInv /\ [ModeNext]_modeVars => SerialInv'
<1> SUFFICES ASSUME SerialInv, [ModeNext]_modeVars PROVE SerialInv'
  OBVIOUS
<1>1. IInv' /\ mode' = mode
  BY StepPreserves DEF SerialInv, ModeNext, modeVars, vars
<1>2. CASE mode # "serial"
  BY <1>1, <1>2 DEF SerialInv
<1>3. CASE mode = "serial" /\ ModeNext
  <2>1. OneRequest'
    BY <1>3 DEF ModeNext
  <2>2. PICK r \in Requests : Begin(r) \/ Commit(r) \/ Drop(r)
    BY <1>3 DEF ModeNext, Next
  <2>3. CASE Begin(r)
    BY <1>1, <1>3, <2>1, <2>3, SerialBegin
  <2>4. CASE Commit(r)
    BY <1>1, <1>3, <2>4, SerialCreate, SerialClose, SerialApprove, SerialAdvance DEF Commit
  <2>5. CASE Drop(r)
    BY <1>1, <1>3, <2>1, <2>5, SerialDrop
  <2>6. QED
    BY <2>2, <2>3, <2>4, <2>5
<1>4. CASE UNCHANGED modeVars
  BY <1>1, <1>4 DEF SerialInv, SerialSound, modeVars, vars, OneRequest, FreshRead, NoOpenCase,
     CreditExplainedByCase, OneOpenCasePerBill, RowConsistent, IsOpen, Exists
<1>5. QED
  BY <1>2, <1>3, <1>4

LEMMA SerialInit == ModeInit => SerialInv
<1> SUFFICES ASSUME ModeInit PROVE SerialInv
  OBVIOUS
<1>1. IInv
  BY InitHolds DEF ModeInit
<1>2. (\A c \in Cases : ~Exists(c) /\ ledger[c] = <<>>) /\ \A r \in Requests : req[r] = Idle
  BY DEF ModeInit, Init, Exists, NoRow
<1>3. OneRequest /\ \A r \in Requests : FreshRead(r)
  BY <1>2 DEF OneRequest, FreshRead, Idle, ReadOps
<1>4. CreditExplainedByCase /\ OneOpenCasePerBill /\ RowConsistent
  BY <1>2 DEF CreditExplainedByCase, OneOpenCasePerBill, RowConsistent, IsOpen
<1>5. QED
  BY <1>1, <1>3, <1>4 DEF SerialInv, SerialSound

\* When requests do not overlap, the rows keep what the comments of service.ts
\* promise: a credit has a succeeded case that explains it, a bill one open case,
\* and the columns of a row agree with the status they were written for.
THEOREM SerialRowsHold == ModeSpec => []SerialRows
<1>1. SerialInv => SerialRows
  BY DEF SerialInv, SerialSound, SerialRows
<1>2. QED
  BY <1>1, SerialInit, SerialStep, PTL DEF ModeSpec

--------------------------------------------------------------------------------
\* A write to an open case, or of a new one, that keeps the case's events.
LEMMA WriteKeeps ==
  ASSUME TypeOK, NEW c \in Cases, NEW row, cases' = [cases EXCEPT ![c] = row], ~IsTerminal(c),
         Exists(c) => LET old == cases[c].timeline
                      IN  /\ Len(old) <= Len(row.timeline)
                          /\ SubSeq(row.timeline, 1, Len(old)) = old
  PROVE  ResolvedStays /\ TimelineGrows
<1>1. cases'[c] = row /\ \A d \in Cases \ {c} : cases'[d] = cases[d]
  BY DEF TypeOK
<1>2. ResolvedStays
  BY <1>1 DEF ResolvedStays
<1>3. ASSUME NEW d \in Cases, Exists(d)
      PROVE  LET old == cases[d].timeline  new == cases'[d].timeline
             IN  Len(old) <= Len(new) /\ SubSeq(new, 1, Len(old)) = old
  <2>1. CASE d = c
    BY <1>1, <1>3, <2>1
  <2>2. CASE d # c
    <3>1. PICK tl : tl = cases[d].timeline
      OBVIOUS
    <3>2. tl \in Seq(TimelineEvents) /\ cases'[d] = cases[d]
      BY <1>1, <1>3, <2>2, <3>1 DEF TypeOK, Rows, Exists, NoRow
    <3>3. Len(tl) <= Len(tl) /\ SubSeq(tl, 1, Len(tl)) = tl
      BY <3>2
    <3>4. QED
      BY <3>1, <3>2, <3>3
  <2>3. QED
    BY <2>1, <2>2
<1>4. QED
  BY <1>2, <1>3 DEF TimelineGrows

LEMMA WritesKeep ==
  ASSUME SerialInv, mode = "serial", IInv', NEW r \in Requests, Commit(r)
  PROVE  ResolvedStays /\ TimelineGrows
<1>1. TypeOK
  BY DEF SerialInv, IInv
<1>2. ASSUME NEW c \in Cases, CommitCreate(r, c) PROVE ResolvedStays /\ TimelineGrows
  BY <1>1, <1>2, WriteKeeps DEF CommitCreate, IsTerminal
<1>3. ASSUME NEW op \in ReadOps, Ready(r, op), NEW status \in CaseStatuses, NEW actor \in CaseActors,
             NEW row, row.timeline = Extend(r, status, actor),
             cases' = [cases EXCEPT ![req[r].case] = row]
      PROVE  ResolvedStays /\ TimelineGrows
  <2>1. req[r].case \in Cases /\ ~IsTerminal(req[r].case)
    BY <1>3, SerialReady DEF IsTerminal, IsOpen
  <2>2. LET old == cases[req[r].case].timeline
        IN  /\ Len(old) <= Len(row.timeline)
            /\ SubSeq(row.timeline, 1, Len(old)) = old
    BY <1>3, WritesItsEvent
  <2>3. QED
    BY <1>1, <1>3, <2>1, <2>2, WriteKeeps
<1>4. ASSUME NEW op \in ReadOps, Ready(r, op) PROVE cases[req[r].case] \in Rows
  BY <1>4, SerialReady
<1>5. CASE CommitWithdraw(r)
  <2>1. Ready(r, "withdraw") /\ cases[req[r].case] \in Rows
    BY <1>4, <1>5 DEF CommitWithdraw, ReadOps
  <2>2. PICK row : row = [cases[req[r].case] EXCEPT !.status = "canceled", !.resolved = TRUE,
                                    !.timeline = Extend(r, "canceled", "member")]
    OBVIOUS
  <2>3. cases' = [cases EXCEPT ![req[r].case] = row]
    BY <1>5, <2>2 DEF CommitWithdraw
  <2>4. row.timeline = Extend(r, "canceled", "member")
    BY <2>1, <2>2 DEF Rows
  <2>5. QED
    BY <1>3, <2>1, <2>3, <2>4 DEF ReadOps, CaseStatuses, CaseActors
<1>6. CASE CommitReject(r)
  <2>1. Ready(r, "reject") /\ cases[req[r].case] \in Rows
    BY <1>4, <1>6 DEF CommitReject, ReadOps
  <2>2. PICK row : row = [cases[req[r].case] EXCEPT !.status = "failed", !.responded = TRUE, !.resolved = TRUE,
                                    !.timeline = Extend(r, "failed", "member")]
    OBVIOUS
  <2>3. cases' = [cases EXCEPT ![req[r].case] = row]
    BY <1>6, <2>2 DEF CommitReject
  <2>4. row.timeline = Extend(r, "failed", "member")
    BY <2>1, <2>2 DEF Rows
  <2>5. QED
    BY <1>3, <2>1, <2>3, <2>4 DEF ReadOps, CaseStatuses, CaseActors
<1>7. CASE CommitApprove(r)
  <2>1. Ready(r, "approve") /\ \E row \in Rows :
          /\ cases' = [cases EXCEPT ![req[r].case] = row]
          /\ row.timeline = Extend(r, "succeeded", "member")
    BY <1>7, ApprovalStands, ZenonT(60) DEF CommitApprove
  <2>2. QED
    BY <1>3, <2>1 DEF ReadOps, CaseStatuses, CaseActors
<1>8. CASE CommitAdvance(r)
  <2>1. Ready(r, "advance") /\ cases[req[r].case] \in Rows /\ req[r].to \in CaseStatuses
    BY <1>4, <1>8, SerialReady DEF CommitAdvance, ReadOps
  <2>2. PICK to, tl, moved :
          /\ to = req[r].to /\ tl = Extend(r, to, "concierge")
          /\ moved = [cases[req[r].case] EXCEPT !.status = to, !.timeline = tl]
    OBVIOUS
  <2>3. PICK row : row = IF to = "offer_pending"
                         THEN [moved EXCEPT !.offered = req[r].amount, !.responded = FALSE]
                         ELSE IF to \in TerminalCaseStatuses THEN [moved EXCEPT !.resolved = TRUE]
                              ELSE moved
    OBVIOUS
  <2>4. cases' = [cases EXCEPT ![req[r].case] = row]
    BY <1>8, <2>2, <2>3 DEF CommitAdvance
  <2>5. row.timeline = tl
    BY <2>1, <2>2, <2>3 DEF Rows
  <2>6. QED
    BY <1>3, <2>1, <2>2, <2>4, <2>5 DEF ReadOps, CaseActors
<1>9. QED
  BY <1>2, <1>5, <1>6, <1>7, <1>8 DEF Commit

LEMMA ReadsKeep ==
  ASSUME SerialInv, cases' = cases PROVE ResolvedStays /\ TimelineGrows
<1>1. ASSUME NEW c \in Cases, Exists(c), NEW tl, tl = cases[c].timeline
      PROVE  Len(tl) <= Len(tl) /\ SubSeq(tl, 1, Len(tl)) = tl
  <2>1. tl \in Seq(TimelineEvents)
    BY <1>1 DEF SerialInv, IInv, TypeOK, Rows, Exists, NoRow
  <2>2. QED
    BY <2>1
<1>2. QED
  BY <1>1 DEF ResolvedStays, TimelineGrows

\* When requests do not overlap, every write leaves a resolved case resolved and
\* every recorded event where it was, and an approval takes effect.
THEOREM SerialWritesHold == ModeSpec => SerialWrites
<1> DEFINE Keeps == mode = "serial" => ResolvedStays /\ TimelineGrows /\ ApprovalApplies
<1>1. SerialInv /\ [ModeNext]_modeVars => [Keeps]_modeVars
  <2> SUFFICES ASSUME SerialInv, ModeNext, mode = "serial"
               PROVE  ResolvedStays /\ TimelineGrows /\ ApprovalApplies
    OBVIOUS
  <2>1. IInv'
    BY StepPreserves DEF SerialInv, ModeNext
  <2>2. PICK r \in Requests : Begin(r) \/ Commit(r) \/ Drop(r)
    BY DEF ModeNext, Next
  <2>3. ASSUME Begin(r) \/ Drop(r) PROVE ResolvedStays /\ TimelineGrows
    <3>1. cases' = cases
      BY <2>3 DEF Begin, Drop, BeginCreate, BeginWithdraw, BeginReject, BeginApprove,
         BeginAdvance, Read
    <3>2. QED
      BY <3>1, ReadsKeep
  <2>4. ResolvedStays /\ TimelineGrows
    BY <2>1, <2>2, <2>3, WritesKeep, ReadsKeep
  <2>5. ApprovalApplies
    <3> SUFFICES ASSUME NEW s \in Requests, CommitApprove(s)
                 PROVE  cases'[req[s].case].status = "succeeded"
      BY DEF ApprovalApplies
    <3>1. PICK row \in Rows : /\ cases' = [cases EXCEPT ![req[s].case] = row]
                              /\ row.status = "succeeded"
      BY <2>1, ApprovalStands
    <3>2. req[s].case \in Cases
      BY SerialReady DEF CommitApprove, ReadOps
    <3>3. QED
      BY <3>1, <3>2 DEF SerialInv, IInv, TypeOK
  <2>6. QED
    BY <2>4, <2>5
<1>2. QED
  BY <1>1, SerialInit, SerialStep, PTL DEF ModeSpec, SerialWrites
================================================================================
