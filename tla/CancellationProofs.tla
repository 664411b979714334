---------------------------- MODULE CancellationProofs ----------------------------
(***************************************************************************)
(* Cancellation, for every number of requests, cases, subscriptions and    *)
(* prices: a case is credited once, with a year of the price it recorded,  *)
(* its subscription is kept and retired with the credit, and the credits   *)
(* are a CreditOnce table.  A subscription over which no two writers met   *)
(* has one open case, one saving and a status that says so: what such a    *)
(* writer read still holds when it writes (Fresh).                         *)
(***************************************************************************)
EXTENDS Cancellation, TLAPS

\* Nothing is credited before it is a case.
CreditHasCase == \A c \in Cases : ledger[c] # <<>> => Exists(c)

IInv ==
  /\ TypeOK
  /\ CaseKeepsSubscription
  /\ CreditHasCase
  /\ CreditIsSnapshotOnce
  /\ CreditRetiresSubscription

--------------------------------------------------------------------------------
(* Types *)

LEMMA CaseForm ==
  ASSUME TypeOK, NEW c \in Cases, Exists(c)
  PROVE  cases[c] \in CaseRows
BY DEF TypeOK, Exists, NoCase

LEMMA SubForm ==
  ASSUME TypeOK, NEW s \in Subs, HasSub(s)
  PROVE  subs[s] \in SubRows
BY DEF TypeOK, HasSub

LEMMA FinishType ==
  ASSUME TypeOK, NEW r \in Requests, Finish(r), \A c \in Cases : Exists(c) => Exists(c)'
  PROVE  /\ req' \in [Requests -> Pending \union {Idle}]
         /\ \A q \in Requests : req'[q].op \in {"withdraw", "advance"} =>
                                cases'[req'[q].case].status # "absent"
<1>1. req' \in [Requests -> Pending \union {Idle}]
  BY DEF TypeOK, Finish
<1>2. ASSUME NEW q \in Requests, req'[q].op \in {"withdraw", "advance"}
      PROVE  cases'[req'[q].case].status # "absent"
  <2>1. req'[q] = req[q] /\ req[q].op \in {"withdraw", "advance"}
    BY <1>2 DEF Finish, TypeOK, Idle
  <2>2. req[q].case \in Cases /\ Exists(req[q].case)
    BY <2>1 DEF TypeOK, Pending, Idle
  <2>3. QED
    BY <2>1, <2>2 DEF Exists
<1>3. QED
  BY <1>1, <1>2

\* A request that begins to write to an existing case.
LEMMA StartOk ==
  ASSUME IInv, NEW r \in Requests, NEW q \in Pending, Start(r, q),
         q.op \in {"withdraw", "advance"} => Exists(q.case)
  PROVE  IInv'
<1>1. /\ req' = [req EXCEPT ![r] = q] /\ UNCHANGED <<cases, subs, ledger>>
      /\ disturbed' \in {disturbed, disturbed \union {SubOf(q)}}
  BY DEF Start
<1>2. SubOf(q) \in Subs
  <2>1. CASE q.op \in {"create", "detect"}
    BY <2>1 DEF SubOf, Pending
  <2>2. CASE q.op \in {"withdraw", "advance"}
    <3>1. q.case \in Cases /\ cases[q.case] \in CaseRows
      BY <2>2, CaseForm DEF Pending, IInv
    <3>2. QED
      BY <2>2, <3>1 DEF SubOf, CaseRows
  <2>3. QED
    BY <2>1, <2>2 DEF Pending
<1>3. TypeOK'
  BY <1>1, <1>2 DEF IInv, TypeOK, Exists
<1>4. QED
  BY <1>1, <1>3 DEF IInv, CaseKeepsSubscription, CreditHasCase, CreditIsSnapshotOnce,
     CreditRetiresSubscription, Exists, HasSub

--------------------------------------------------------------------------------
(* What a write may do to a subscription and to a case *)

\* No write of a subscription takes back that it was canceled by us.
SubsKept ==
  \A s \in Subs : /\ HasSub(s) => HasSub(s)'
                  /\ HasSub(s) /\ subs[s].canceledAt => subs'[s].canceledAt

LEMMA PutSub ==
  ASSUME TypeOK, NEW s \in Subs, NEW row \in SubRows, subs' = [subs EXCEPT ![s] = row],
         HasSub(s) /\ subs[s].canceledAt => row.canceledAt
  PROVE  subs' \in [Subs -> SubRows \union {NoSub}] /\ SubsKept
<1>1. row # NoSub
  BY DEF SubRows, SubStatuses, NoSub
<1>2. QED
  BY <1>1 DEF TypeOK, SubsKept, HasSub

LEMMA ReleaseOk ==
  ASSUME TypeOK, NEW s \in Subs, ReleaseFlag(s)
  PROVE  subs' \in [Subs -> SubRows \union {NoSub}] /\ SubsKept
<1>1. CASE subs[s].status = "cancel_requested"
  <2>1. subs[s] \in SubRows
    BY <1>1 DEF TypeOK, NoSub
  <2> DEFINE row == [subs[s] EXCEPT !.status = "active"]
  <2>2. row \in SubRows /\ row.canceledAt = subs[s].canceledAt
    BY <2>1 DEF SubRows, SubStatuses
  <2>3. subs' = [subs EXCEPT ![s] = row]
    BY <1>1 DEF ReleaseFlag, SetStatus
  <2>4. QED
    BY <2>2, <2>3, PutSub
<1>2. CASE subs[s].status # "cancel_requested"
  BY <1>2 DEF ReleaseFlag, TypeOK, SubsKept, HasSub
<1>3. QED
  BY <1>1, <1>2

\* A step that writes an existing case without crediting it, and subscriptions
\* only as it may.
LEMMA MoveCase ==
  ASSUME IInv, NEW r \in Requests, NEW c \in Cases, NEW row \in CaseRows, Exists(c),
         cases' = [cases EXCEPT ![c] = row],
         row.sub = cases[c].sub, row.monthly = cases[c].monthly,
         subs' \in [Subs -> SubRows \union {NoSub}], SubsKept,
         Finish(r), disturbed' = disturbed,
         \/ ledger' = ledger
         \/ /\ ledger[c] = <<>> /\ subs'[cases[c].sub].canceledAt
            /\ ledger' = [ledger EXCEPT ![c] = <<12 * row.monthly>>]
  PROVE  IInv'
<1>0. row # NoCase
  BY DEF CaseRows, CaseStatuses, NoCase
<1>1. \A d \in Cases : /\ Exists(d) <=> Exists(d)'
                       /\ Exists(d) => /\ cases'[d].sub = cases[d].sub
                                       /\ cases'[d].monthly = cases[d].monthly
  BY <1>0 DEF IInv, TypeOK, Exists, CaseRows, CaseStatuses
<1>2. 12 * row.monthly \in Nat
  <2>1. row.monthly \in Nat
    BY PricesAreCents DEF CaseRows
  <2>2. QED
    BY <2>1
<1>3. TypeOK'
  <2>1. cases' \in [Cases -> CaseRows \union {NoCase}]
    BY DEF IInv, TypeOK
  <2>2. ledger' \in [Cases -> Seq(Nat)]
    <3>1. <<12 * row.monthly>> \in Seq(Nat)
      BY <1>2
    <3>2. QED
      BY <3>1 DEF IInv, TypeOK
  <2>3. /\ req' \in [Requests -> Pending \union {Idle}]
        /\ \A q \in Requests : req'[q].op \in {"withdraw", "advance"} =>
                                cases'[req'[q].case].status # "absent"
    BY <1>1, FinishType DEF IInv
  <2>4. QED
    BY <2>1, <2>2, <2>3 DEF IInv, TypeOK, Exists
<1>4. ASSUME NEW d \in Cases, Exists(d)
      PROVE  cases[d].sub \in Subs /\ HasSub(cases[d].sub)
  BY <1>4, CaseForm DEF IInv, CaseRows, CaseKeepsSubscription
<1>5. CaseKeepsSubscription'
  BY <1>1, <1>4 DEF CaseKeepsSubscription, SubsKept
<1>6. ASSUME NEW d \in Cases, ledger'[d] # <<>>
      PROVE  Exists(d)' /\ ledger'[d] = <<12 * cases'[d].monthly>> /\ subs'[cases'[d].sub].canceledAt
  <2>1. CASE ledger'[d] = ledger[d]
    BY <1>1, <1>4, <1>6, <2>1 DEF IInv, CreditHasCase, CreditIsSnapshotOnce,
       CreditRetiresSubscription, SubsKept
  <2>2. CASE ledger'[d] # ledger[d]
    <3>1. d = c /\ subs'[cases[c].sub].canceledAt /\ ledger'[c] = <<12 * row.monthly>>
      BY <2>2 DEF IInv, TypeOK
    <3>2. QED
      BY <1>1, <3>1
  <2>3. QED
    BY <2>1, <2>2
<1>7. QED
  BY <1>3, <1>5, <1>6 DEF IInv, CreditHasCase, CreditIsSnapshotOnce, CreditRetiresSubscription

\* A step that writes no case and no credit.
LEMMA SubsOnly ==
  ASSUME IInv, UNCHANGED <<cases, ledger>>, SubsKept,
         subs' \in [Subs -> SubRows \union {NoSub}], disturbed' \subseteq Subs,
         req' = req \/ \E r \in Requests : Finish(r)
  PROVE  IInv'
<1>1. TypeOK'
  <2>1. CASE req' = req
    BY <2>1 DEF IInv, TypeOK, Exists
  <2>2. ASSUME NEW r \in Requests, Finish(r) PROVE TypeOK'
    <3>1. \A c \in Cases : Exists(c) => Exists(c)'
      BY DEF Exists
    <3>2. /\ req' \in [Requests -> Pending \union {Idle}]
          /\ \A q \in Requests : req'[q].op \in {"withdraw", "advance"} =>
                                  cases'[req'[q].case].status # "absent"
      BY <2>2, <3>1, FinishType DEF IInv
    <3>3. QED
      BY <3>2 DEF IInv, TypeOK, Exists
  <2>3. QED
    BY <2>1, <2>2
<1>2. ASSUME NEW d \in Cases, Exists(d)
      PROVE  cases[d].sub \in Subs /\ HasSub(cases[d].sub)
  BY <1>2, CaseForm DEF IInv, CaseRows, CaseKeepsSubscription
<1>3. QED
  BY <1>1, <1>2 DEF IInv, CaseKeepsSubscription, CreditHasCase, CreditIsSnapshotOnce,
     CreditRetiresSubscription, SubsKept, Exists

--------------------------------------------------------------------------------
(* One lemma per kind of step *)

LEMMA InitOk == Init => IInv
<1> SUFFICES ASSUME Init PROVE IInv
  OBVIOUS
<1>1. TypeOK
  <2>1. /\ cases \in [Cases -> CaseRows \union {NoCase}]
        /\ ledger \in [Cases -> Seq(Nat)]
        /\ disturbed \subseteq Subs
    BY DEF Init
  <2>2. \A p \in Prices :
          [status |-> "active", monthly |-> p, canceledAt |-> FALSE] \in SubRows
    BY DEF SubRows, SubStatuses
  <2>3. subs \in [Subs -> SubRows \union {NoSub}]
    BY <2>2 DEF Init
  <2>4. /\ req \in [Requests -> Pending \union {Idle}]
        /\ \A r \in Requests : req[r].op \notin {"withdraw", "advance"}
    BY DEF Init, Idle
  <2>5. QED
    BY <2>1, <2>3, <2>4 DEF TypeOK
<1>2. QED
  BY <1>1 DEF Init, IInv, CaseKeepsSubscription, CreditHasCase, CreditIsSnapshotOnce,
     CreditRetiresSubscription, Exists, NoCase

LEMMA BeginCreateOk ==
  ASSUME IInv, NEW r \in Requests, NEW s \in Subs, BeginCreate(r, s)
  PROVE  IInv'
<1> DEFINE q == [op |-> "create", sub |-> s, monthly |-> subs[s].monthly]
<1>1. subs[s] \in SubRows
  BY SubForm DEF BeginCreate, IInv
<1>2. q \in Pending /\ q.op = "create"
  BY <1>1 DEF Pending, SubRows
<1>3. QED
  BY <1>2, StartOk DEF BeginCreate

LEMMA BeginDetectOk ==
  ASSUME IInv, NEW r \in Requests, NEW s \in Subs, BeginDetect(r, s)
  PROVE  IInv'
<1> DEFINE q == [op |-> "detect", sub |-> s, seen |-> subs[s].status]
<1>1. subs[s] \in SubRows
  BY SubForm DEF BeginDetect, IInv
<1>2. q \in Pending /\ q.op = "detect"
  BY <1>1 DEF Pending, SubRows
<1>3. QED
  BY <1>2, StartOk DEF BeginDetect

LEMMA BeginWithdrawOk ==
  ASSUME IInv, NEW r \in Requests, NEW c \in Cases, BeginWithdraw(r, c)
  PROVE  IInv'
<1> DEFINE q == [op |-> "withdraw", case |-> c]
<1>1. q \in Pending /\ q.case = c
  BY DEF Pending
<1>2. QED
  BY <1>1, StartOk DEF BeginWithdraw

LEMMA BeginAdvanceOk ==
  ASSUME IInv, NEW r \in Requests, NEW c \in Cases, NEW to \in CaseStatuses,
         BeginAdvance(r, c, to)
  PROVE  IInv'
<1> DEFINE q == [op |-> "advance", case |-> c, to |-> to]
<1>1. q \in Pending /\ q.case = c
  BY DEF Pending
<1>2. QED
  BY <1>1, StartOk DEF BeginAdvance

LEMMA CommitCreateOk ==
  ASSUME IInv, NEW r \in Requests, NEW c \in Cases, CommitCreate(r, c)
  PROVE  IInv'
<1> DEFINE s == req[r].sub
           row == [sub |-> s, status |-> "submitted", monthly |-> req[r].monthly,
                   resolved |-> FALSE]
<1>1. req[r] \in [op : {"create"}, sub : Subs, monthly : Prices]
  BY DEF CommitCreate, IInv, TypeOK, Pending, Idle
<1>2. CASE ~HasSub(s)
  BY <1>2, SubsOnly DEF CommitCreate, IInv, TypeOK, SubsKept, HasSub
<1>3. CASE HasSub(s)
  <2>1. row \in CaseRows /\ row # NoCase /\ row.sub = s /\ row.status # "absent"
    BY <1>1 DEF CaseRows, CaseStatuses, NoCase
  <2>2. subs[s] \in SubRows
    BY <1>1, <1>3, SubForm DEF IInv
  <2> DEFINE flagged == [subs[s] EXCEPT !.status = "cancel_requested"]
  <2>3. flagged \in SubRows /\ flagged.canceledAt = subs[s].canceledAt
    BY <2>2 DEF SubRows, SubStatuses
  <2>4. subs' = [subs EXCEPT ![s] = flagged]
    BY <1>3 DEF CommitCreate, SetStatus
  <2>5. subs' \in [Subs -> SubRows \union {NoSub}] /\ SubsKept
    BY <1>1, <2>3, <2>4, PutSub DEF IInv
  <2>6. /\ cases' = [cases EXCEPT ![c] = row] /\ ~Exists(c) /\ Finish(r)
        /\ UNCHANGED <<ledger, disturbed>>
    BY <1>3 DEF CommitCreate
  <2>7. /\ Exists(c)' /\ cases'[c].sub = s
        /\ \A d \in Cases \ {c} : cases'[d] = cases[d]
    BY <2>1, <2>6 DEF IInv, TypeOK, Exists
  <2>8. TypeOK'
    <3>1. cases' \in [Cases -> CaseRows \union {NoCase}]
      BY <2>1, <2>6 DEF IInv, TypeOK
    <3>2. \A d \in Cases : Exists(d) => Exists(d)'
      BY <2>7 DEF Exists
    <3>3. /\ req' \in [Requests -> Pending \union {Idle}]
          /\ \A q \in Requests : req'[q].op \in {"withdraw", "advance"} =>
                                  cases'[req'[q].case].status # "absent"
      BY <2>6, <3>2, FinishType DEF IInv
    <3>4. QED
      BY <2>5, <2>6, <3>1, <3>3 DEF IInv, TypeOK, Exists
  <2>9. CaseKeepsSubscription'
    <3>1. ASSUME NEW d \in Cases, Exists(d)' PROVE HasSub(cases[d].sub)'
      <4>1. CASE d = c
        BY <1>1, <1>3, <2>5, <2>7, <4>1 DEF SubsKept, HasSub
      <4>2. CASE d # c
        <5>1. Exists(d) /\ cases'[d] = cases[d]
          BY <2>7, <3>1, <4>2 DEF Exists
        <5>2. cases[d].sub \in Subs /\ HasSub(cases[d].sub)
          BY <5>1, CaseForm DEF IInv, CaseRows, CaseKeepsSubscription
        <5>3. QED
          BY <2>5, <5>1, <5>2 DEF SubsKept, HasSub
      <4>3. QED
        BY <4>1, <4>2
    <3>2. QED
      BY <3>1 DEF CaseKeepsSubscription
  <2>10. ASSUME NEW d \in Cases, ledger'[d] # <<>>
         PROVE  Exists(d)' /\ ledger'[d] = <<12 * cases'[d].monthly>>
                /\ subs'[cases'[d].sub].canceledAt
    <3>1. ledger[d] # <<>> /\ Exists(d)
      BY <2>6, <2>10 DEF IInv, CreditHasCase
    <3>2. d # c /\ cases'[d] = cases[d]
      BY <2>6, <2>7, <3>1
    <3>3. cases[d].sub \in Subs /\ HasSub(cases[d].sub)
      BY <3>1, CaseForm DEF IInv, CaseRows, CaseKeepsSubscription
    <3>4. QED
      BY <2>5, <2>6, <3>1, <3>2, <3>3 DEF IInv, CreditIsSnapshotOnce,
         CreditRetiresSubscription, SubsKept, Exists
  <2>11. QED
    BY <2>8, <2>9, <2>10 DEF IInv, CreditHasCase, CreditIsSnapshotOnce,
       CreditRetiresSubscription
<1>4. QED
  BY <1>2, <1>3

LEMMA CommitWithdrawOk ==
  ASSUME IInv, NEW r \in Requests, CommitWithdraw(r)
  PROVE  IInv'
<1> DEFINE c == req[r].case
           row == [cases[c] EXCEPT !.status = "canceled", !.resolved = TRUE]
<1>1. c \in Cases /\ Exists(c)
  BY DEF CommitWithdraw, IInv, TypeOK, Pending, Idle
<1>2. cases[c] \in CaseRows
  BY <1>1, CaseForm DEF IInv
<1>3. row \in CaseRows /\ row.sub = cases[c].sub /\ row.monthly = cases[c].monthly
  BY <1>2 DEF CaseRows, CaseStatuses
<1>4. cases' = [cases EXCEPT ![c] = row]
  BY DEF CommitWithdraw
<1>5. cases[c].sub \in Subs
  BY <1>2 DEF CaseRows
<1>6. subs' \in [Subs -> SubRows \union {NoSub}] /\ SubsKept
  BY <1>5, ReleaseOk DEF CommitWithdraw, IInv
<1>7. Finish(r) /\ UNCHANGED <<ledger, disturbed>>
  BY DEF CommitWithdraw
<1> HIDE DEF row, c
<1>8. QED
  BY <1>1, <1>3, <1>4, <1>6, <1>7, MoveCase

LEMMA RetireOk ==
  ASSUME TypeOK, NEW s \in Subs, HasSub(s), Retire(s)
  PROVE  subs' \in [Subs -> SubRows \union {NoSub}] /\ SubsKept /\ subs'[s].canceledAt
<1> DEFINE row == [subs[s] EXCEPT !.status = "canceled", !.canceledAt = TRUE]
<1>1. row \in SubRows /\ row.canceledAt
  BY SubForm DEF SubRows, SubStatuses
<1>2. subs' = [subs EXCEPT ![s] = row]
  BY DEF Retire
<1>3. QED
  BY <1>1, <1>2, PutSub DEF TypeOK

LEMMA CommitAdvanceOk ==
  ASSUME IInv, NEW r \in Requests, CommitAdvance(r)
  PROVE  IInv'
<1> DEFINE c == req[r].case
           to == req[r].to
           s == cases[c].sub
           row == [cases[c] EXCEPT !.status = to,
                                   !.resolved = @ \/ to \in TerminalCaseStatuses]
<1>1. c \in Cases /\ Exists(c) /\ to \in CaseStatuses
  BY DEF CommitAdvance, IInv, TypeOK, Pending, Idle
<1>2. cases[c] \in CaseRows /\ s \in Subs /\ HasSub(s)
  BY <1>1, CaseForm DEF IInv, CaseRows, CaseKeepsSubscription
<1>3. row \in CaseRows /\ row.sub = s /\ row.monthly = cases[c].monthly
  BY <1>1, <1>2 DEF CaseRows
<1>4. Finish(r) /\ disturbed' = disturbed
  BY DEF CommitAdvance
<1>5. CASE UNCHANGED <<cases, subs, ledger>>
  BY <1>4, <1>5, SubsOnly DEF IInv, TypeOK, SubsKept, HasSub
<1>6. CASE cases' = [cases EXCEPT ![c] = row] /\ ledger' = ledger
           /\ (ReleaseFlag(s) \/ Retire(s) \/ subs' = subs)
  <2>1. subs' \in [Subs -> SubRows \union {NoSub}] /\ SubsKept
    BY <1>2, <1>6, ReleaseOk, RetireOk DEF IInv, TypeOK, SubsKept, HasSub
  <2> HIDE DEF row, c, s
  <2>2. QED
    BY <1>1, <1>3, <1>4, <1>6, <2>1, MoveCase DEF s
<1>7. CASE /\ cases' = [cases EXCEPT ![c] = row] /\ Retire(s) /\ CanInsert(c)
           /\ ledger' = [ledger EXCEPT ![c] = Append(@, CreditOf(c))]
  <2>1. subs' \in [Subs -> SubRows \union {NoSub}] /\ SubsKept /\ subs'[s].canceledAt
    BY <1>2, <1>7, RetireOk DEF IInv
  <2>2. ledger[c] = <<>> /\ ledger' = [ledger EXCEPT ![c] = <<12 * row.monthly>>]
    BY <1>3, <1>7 DEF CanInsert, CreditOf
  <2> HIDE DEF row, c, s
  <2>3. QED
    BY <1>1, <1>3, <1>4, <1>7, <2>1, <2>2, MoveCase DEF s
<1>8. QED
  BY <1>5, <1>6, <1>7 DEF CommitAdvance

LEMMA CommitDetectOk ==
  ASSUME IInv, NEW r \in Requests, NEW monthly \in Prices, CommitDetect(r, monthly)
  PROVE  IInv'
<1> DEFINE s == req[r].sub
           row == [subs[s] EXCEPT !.monthly = monthly,
                     !.status = IF req[r].seen \in {"active", "cancel_requested"}
                                THEN "active" ELSE @]
<1>1. s \in Subs
  BY DEF CommitDetect, IInv, TypeOK, Pending, Idle
<1>2. UNCHANGED <<cases, ledger>> /\ Finish(r) /\ disturbed' \subseteq Subs
  BY <1>1 DEF CommitDetect, IInv, TypeOK
<1>3. CASE HasSub(s)
  <2>1. subs[s] \in SubRows
    BY <1>1, <1>3, SubForm DEF IInv
  <2>2. row \in SubRows /\ row.canceledAt = subs[s].canceledAt
    BY <2>1 DEF SubRows, SubStatuses
  <2>3. subs' = [subs EXCEPT ![s] = row]
    BY <1>3 DEF CommitDetect
  <2>4. QED
    BY <1>1, <1>2, <2>2, <2>3, PutSub, SubsOnly DEF IInv
<1>4. CASE ~HasSub(s)
  BY <1>2, <1>4, SubsOnly DEF CommitDetect, IInv, TypeOK, SubsKept, HasSub
<1>5. QED
  BY <1>3, <1>4

LEMMA PatchOk ==
  ASSUME IInv, NEW s \in Subs, NEW status \in SubStatuses, NEW monthly \in Prices,
         Patch(s, status, monthly)
  PROVE  IInv'
<1> DEFINE row == [subs[s] EXCEPT !.status = status, !.monthly = monthly]
<1>1. subs[s] \in SubRows
  BY SubForm DEF Patch, IInv
<1>2. row \in SubRows /\ row.canceledAt = subs[s].canceledAt
  BY <1>1 DEF SubRows
<1>3. subs' = [subs EXCEPT ![s] = row] /\ UNCHANGED <<cases, ledger, req>>
      /\ disturbed' \subseteq Subs
  BY DEF Patch, IInv, TypeOK
<1>4. QED
  BY <1>2, <1>3, PutSub, SubsOnly DEF IInv

\* The foreign key keeps the row of every case.
LEMMA RemoveOk ==
  ASSUME IInv, NEW s \in Subs, Remove(s)
  PROVE  IInv'
<1>1. \A c \in Cases : Exists(c) => cases[c].sub # s
  BY DEF Remove, CasesOf
<1>2. /\ \A t \in Subs \ {s} : subs'[t] = subs[t]
      /\ UNCHANGED <<cases, ledger, req, disturbed>>
      /\ subs' \in [Subs -> SubRows \union {NoSub}]
  BY DEF Remove, IInv, TypeOK
<1>3. TypeOK'
  BY <1>2 DEF IInv, TypeOK, Exists
<1>4. ASSUME NEW d \in Cases, Exists(d)
      PROVE  HasSub(cases[d].sub) /\ subs'[cases[d].sub] = subs[cases[d].sub]
  BY <1>1, <1>2, <1>4, CaseForm DEF IInv, CaseRows, CaseKeepsSubscription
<1>5. QED
  BY <1>2, <1>3, <1>4 DEF IInv, CaseKeepsSubscription, CreditHasCase, CreditIsSnapshotOnce,
     CreditRetiresSubscription, Exists, HasSub

LEMMA DropOk ==
  ASSUME IInv, NEW r \in Requests, Drop(r)
  PROVE  IInv'
BY SubsOnly DEF Drop, IInv, TypeOK, SubsKept, HasSub

LEMMA CancellationStep == IInv /\ [Next]_vars => IInv'
<1> SUFFICES ASSUME IInv, [Next]_vars PROVE IInv'
  OBVIOUS
<1>1. CASE UNCHANGED vars
  BY <1>1, SubsOnly DEF vars, IInv, TypeOK, SubsKept, HasSub
<1>2. ASSUME NEW r \in Requests, CaseRequest(r) PROVE IInv'
  BY <1>2, BeginCreateOk, CommitCreateOk, BeginWithdrawOk, CommitWithdrawOk, BeginAdvanceOk,
     CommitAdvanceOk, DropOk DEF CaseRequest
<1>3. ASSUME NEW r \in Requests, Detection(r) PROVE IInv'
  BY <1>3, BeginDetectOk, CommitDetectOk DEF Detection
<1>4. CASE Catalogue
  BY <1>4, PatchOk, RemoveOk DEF Catalogue
<1>5. QED
  BY <1>1, <1>2, <1>3, <1>4 DEF Next

LEMMA CancellationInvariance == Spec => []IInv
BY InitOk, CancellationStep, PTL DEF Spec

--------------------------------------------------------------------------------
(* Refinement of CreditOnce *)

LEMMA BookInit == Init => Book!Init
BY DEF Init, Book!Init, Tabled, Credited, Exists, NoCase, Book!NoCredit

\* Steps that keep every credit, every case and its price are stutters of the
\* book.
LEMMA BookStutters ==
  ASSUME ledger' = ledger,
         \A d \in Cases : Exists(d)' = Exists(d),
         \A d \in Cases : Exists(d) => cases'[d].monthly = cases[d].monthly
  PROVE  UNCHANGED <<Tabled, Credited>>
BY DEF Tabled, Credited

\* A row replaced by one of the same price keeps every case and its price.
LEMMA RowKeepsPrice ==
  ASSUME IInv, NEW c \in Cases, NEW row \in CaseRows, Exists(c),
         cases' = [cases EXCEPT ![c] = row], row.monthly = cases[c].monthly
  PROVE  /\ \A d \in Cases : Exists(d)' = Exists(d)
         /\ \A d \in Cases : Exists(d) => cases'[d].monthly = cases[d].monthly
<1>1. cases'[c] = row /\ \A d \in Cases \ {c} : cases'[d] = cases[d]
  BY DEF IInv, TypeOK
<1>2. QED
  BY <1>1 DEF Exists, CaseRows, CaseStatuses

LEMMA FigureOf ==
  ASSUME NEW p \in Prices
  PROVE  /\ 12 * p \in Nat
         /\ 12 * p # 0 => 12 * p \in {12 * q : q \in Prices} \ {0}
<1>1. p \in Nat
  BY PricesAreCents
<1>2. QED
  BY <1>1

\* A new case tables the credit it would bring, if any.
LEMMA BookCreate ==
  ASSUME IInv, NEW r \in Requests, NEW c \in Cases, CommitCreate(r, c)
  PROVE  [Book!Next]_<<Tabled, Credited>>
<1> DEFINE s   == req[r].sub
           row == [sub |-> s, status |-> "submitted", monthly |-> req[r].monthly,
                   resolved |-> FALSE]
           figure == 12 * req[r].monthly
<1>1. req[r] \in [op : {"create"}, sub : Subs, monthly : Prices]
  BY DEF CommitCreate, IInv, TypeOK, Pending, Idle
<1>2. ~Exists(c) /\ ledger' = ledger
  BY DEF CommitCreate
<1>3. CASE ~HasSub(s)
  BY <1>2, <1>3, BookStutters DEF CommitCreate, Exists
<1>4. CASE HasSub(s)
  <2>1. cases' = [cases EXCEPT ![c] = row]
    BY <1>4 DEF CommitCreate
  <2>2. /\ Exists(c)' /\ cases'[c].monthly = req[r].monthly
        /\ \A d \in Cases \ {c} : cases'[d] = cases[d]
    BY <2>1 DEF IInv, TypeOK, Exists
  <2>3. Tabled' = [Tabled EXCEPT ![c] = @ \union ({figure} \ {0})]
    <3> DEFINE T(d) == IF Exists(d) THEN {12 * cases[d].monthly} \ {0} ELSE {}
    <3>1. Tabled = [d \in Cases |-> T(d)] /\ Tabled' = [d \in Cases |-> T(d)']
      BY DEF Tabled
    <3>2. T(c)' = T(c) \union ({figure} \ {0})
      BY <1>2, <2>2
    <3>3. \A d \in Cases \ {c} : T(d)' = T(d)
      BY <2>2 DEF Exists
    <3> HIDE DEF T
    <3>4. QED
      BY <3>1, <3>2, <3>3
  <2>4. Credited' = Credited
    BY <1>2 DEF Credited
  <2>5. CASE figure = 0
    BY <2>3, <2>4, <2>5 DEF Tabled
  <2>6. CASE figure # 0
    <3>1. figure \in {12 * p : p \in Prices} \ {0}
      BY <1>1, <2>6, FigureOf
    <3>2. Book!Table(c, figure)
      BY <2>3, <2>4, <2>6 DEF Book!Table
    <3>3. QED
      BY <3>1, <3>2 DEF Book!Next
  <2>7. QED
    BY <2>5, <2>6
<1>5. QED
  BY <1>3, <1>4

LEMMA BookWithdraw ==
  ASSUME IInv, NEW r \in Requests, CommitWithdraw(r)
  PROVE  UNCHANGED <<Tabled, Credited>>
<1> DEFINE c == req[r].case
           row == [cases[c] EXCEPT !.status = "canceled", !.resolved = TRUE]
<1>1. c \in Cases /\ Exists(c)
  BY DEF CommitWithdraw, IInv, TypeOK, Pending, Idle
<1>2. cases[c] \in CaseRows
  BY <1>1, CaseForm DEF IInv
<1>3. row \in CaseRows /\ row.monthly = cases[c].monthly
  BY <1>2 DEF CaseRows, CaseStatuses
<1>4. cases' = [cases EXCEPT ![c] = row] /\ ledger' = ledger
  BY DEF CommitWithdraw
<1> HIDE DEF row, c
<1>5. QED
  BY <1>1, <1>3, <1>4, RowKeepsPrice, BookStutters

\* A case that succeeds with a saving is credited it, once.
LEMMA BookAdvance ==
  ASSUME IInv, NEW r \in Requests, CommitAdvance(r)
  PROVE  [Book!Next]_<<Tabled, Credited>>
<1>c. PICK c \in Cases : c = req[r].case
  BY DEF CommitAdvance, IInv, TypeOK, Pending, Idle
<1> DEFINE to == req[r].to
           row == [cases[c] EXCEPT !.status = to,
                                   !.resolved = @ \/ to \in TerminalCaseStatuses]
           figure == 12 * cases[c].monthly
<1>1. c \in Cases /\ Exists(c) /\ to \in CaseStatuses
  BY <1>c DEF CommitAdvance, IInv, TypeOK, Pending, Idle
<1>2. cases[c] \in CaseRows
  BY <1>1, CaseForm DEF IInv
<1>3. row \in CaseRows /\ row.monthly = cases[c].monthly
  BY <1>1, <1>2 DEF CaseRows
<1>4. CASE UNCHANGED <<cases, ledger>>
  BY <1>4, BookStutters DEF Exists
<1>5. CASE cases' = [cases EXCEPT ![c] = row] /\ ledger' = ledger
  <2> HIDE DEF row
  <2>1. QED
    BY <1>1, <1>3, <1>5, RowKeepsPrice, BookStutters
<1>6. CASE /\ cases' = [cases EXCEPT ![c] = row] /\ CanInsert(c) /\ figure > 0
           /\ ledger' = [ledger EXCEPT ![c] = Append(@, figure)]
  <2>1. figure \in {12 * p : p \in Prices} \ {0} /\ figure \in Nat
    <3>1. cases[c].monthly \in Prices
      BY <1>2 DEF CaseRows
    <3>2. figure # 0
      BY <1>6, <3>1, FigureOf
    <3>3. QED
      BY <3>1, <3>2, FigureOf
  <2>2. /\ \A d \in Cases : Exists(d)' = Exists(d)
        /\ \A d \in Cases : Exists(d) => cases'[d].monthly = cases[d].monthly
    <3> HIDE DEF row
    <3>1. QED
      BY <1>1, <1>3, <1>6, RowKeepsPrice
  <2>3. Tabled' = Tabled
    BY <2>2 DEF Tabled
  <2>4. ledger[c] = <<>> /\ ledger' = [ledger EXCEPT ![c] = <<figure>>]
    BY <1>6 DEF CanInsert
  <2>5. Credited[c] = -1 /\ Credited' = [Credited EXCEPT ![c] = figure]
    <3> DEFINE G(d) == IF ledger[d] = <<>> THEN -1 ELSE ledger[d][1]
    <3>1. Credited = [d \in Cases |-> G(d)] /\ Credited' = [d \in Cases |-> G(d)']
      BY DEF Credited
    <3>2. /\ ledger'[c] = <<figure>>
          /\ \A d \in Cases \ {c} : ledger'[d] = ledger[d]
      BY <1>1, <2>4 DEF IInv, TypeOK
    <3>3. G(c) = -1 /\ G(c)' = figure
      <4>1. <<figure>> # <<>> /\ <<figure>>[1] = figure
        OBVIOUS
      <4> HIDE DEF figure
      <4>2. QED
        BY <2>4, <3>2, <4>1
    <3>4. \A d \in Cases \ {c} : G(d)' = G(d)
      BY <3>2
    <3> HIDE DEF G
    <3>5. QED
      BY <1>1, <3>1, <3>3, <3>4
  <2>6. figure \in Tabled[c]
    BY <1>1, <2>1 DEF Tabled
  <2>7. Book!Credit(c, figure)
    BY <2>3, <2>5, <2>6 DEF Book!Credit, Book!NoCredit
  <2>8. QED
    BY <1>1, <2>1, <2>7 DEF Book!Next
<1>7. QED
  BY <1>c, <1>4, <1>5, <1>6 DEF CommitAdvance, CreditOf

LEMMA BookStep == IInv /\ [Next]_vars => [Book!Next]_<<Tabled, Credited>>
<1> SUFFICES ASSUME IInv, [Next]_vars
             PROVE  [Book!Next]_<<Tabled, Credited>>
  OBVIOUS
<1>1. CASE UNCHANGED <<cases, ledger>>
  BY <1>1, BookStutters DEF Exists
<1>2. ASSUME NEW r \in Requests, CaseRequest(r)
      PROVE  UNCHANGED <<cases, ledger>> \/ [Book!Next]_<<Tabled, Credited>>
  BY <1>2, BookCreate, BookWithdraw, BookAdvance
     DEF CaseRequest, BeginCreate, BeginWithdraw, BeginAdvance, Start, Drop
<1>3. ASSUME NEW r \in Requests, Detection(r) PROVE UNCHANGED <<cases, ledger>>
  BY <1>3 DEF Detection, BeginDetect, CommitDetect, Start
<1>4. ASSUME Catalogue PROVE UNCHANGED <<cases, ledger>>
  BY <1>4 DEF Catalogue, Patch, Remove
<1>5. QED
  BY <1>1, <1>2, <1>3, <1>4 DEF Next, vars

--------------------------------------------------------------------------------
(* Undisturbed subscriptions *)

\* A request about s is in flight.
Busy(r, s) == req[r].op # "idle" /\ SubOf(req[r]) = s

Solo(s) == \A q, r \in Requests : Busy(q, s) /\ Busy(r, s) => q = r

Succeeded(c) == cases[c].status = "succeeded"

\* What the request in flight checked is still so.
Fresh(q, s) ==
  /\ q.op = "create" => NoOpenCase(s) /\ subs[s].status # "canceled"
  /\ q.op = "withdraw" => CanTransition("cancellation", cases[q.case].status, "canceled", "member")
  /\ q.op = "advance" => CanTransition("cancellation", cases[q.case].status, q.to, "concierge")

\* The row and its cases agree: it is being canceled while its one open case
\* is, canceled when its one succeeded case is, and no other case is credited.
Agree(s) ==
  /\ OneOpenCase(s)
  /\ \A c, d \in CasesOf(s) : Succeeded(c) /\ Succeeded(d) => c = d
  /\ (\E c \in CasesOf(s) : IsOpen(c)) <=> subs[s].status = "cancel_requested"
  /\ (\E c \in CasesOf(s) : Succeeded(c)) <=> subs[s].status = "canceled"
  /\ CreditExplained(s)

Orderly(s) ==
  /\ Solo(s)
  /\ Agree(s)
  /\ \A r \in Requests : Busy(r, s) => Fresh(req[r], s)

UInv == \A s \in Subs \ disturbed : Orderly(s)

\* What a step leaves of s when it is about another subscription.
Untouched(s) ==
  /\ CasesOf(s)' = CasesOf(s)
  /\ \A c \in CasesOf(s) : cases'[c] = cases[c] /\ ledger'[c] = ledger[c]
  /\ subs'[s] = subs[s]
  /\ \A r \in Requests : req'[r] = req[r] \/ req'[r] = Idle

LEMMA MovesFromOpen ==
  ASSUME NEW from \in CaseStatuses, NEW to \in CaseStatuses
  PROVE  /\ CanTransition("cancellation", from, "canceled", "member") =>
              from \notin TerminalCaseStatuses
         /\ CanTransition("cancellation", from, to, "concierge") =>
              /\ from \notin TerminalCaseStatuses
              /\ to \in {"in_review", "in_progress", "succeeded", "failed"}
BY DEF CanTransition, CheckTransition, TransitionsFor, CancellationTransitions, To,
   MemberWithdraw, Resolved, CaseStatuses, TerminalCaseStatuses

\* The case that a pending move is about is a case of its subscription.
LEMMA BusyCase ==
  ASSUME TypeOK, NEW r \in Requests, NEW s \in Subs, Busy(r, s)
  PROVE  /\ req[r] \in Pending
         /\ req[r].op \in {"create", "detect"} => req[r].sub = s
         /\ req[r].op \in {"withdraw", "advance"} => req[r].case \in CasesOf(s)
<1>1. req[r] \in Pending
  BY DEF TypeOK, Busy, Idle
<1>2. QED
  BY <1>1 DEF TypeOK, Busy, SubOf, Pending, CasesOf

LEMMA UntouchedOk ==
  ASSUME TypeOK, TypeOK', NEW s \in Subs, Orderly(s), Untouched(s)
  PROVE  Orderly(s)'
<1>1. Agree(s)'
  BY DEF Orderly, Untouched, Agree, OneOpenCase, CreditExplained, IsOpen, Exists, Succeeded
<1>2. ASSUME NEW r \in Requests, Busy(r, s)'
      PROVE  Busy(r, s) /\ req'[r] = req[r]
  <2>1. req'[r] = req[r] /\ req[r].op # "idle"
    BY <1>2 DEF Untouched, Busy, Idle
  <2>2. req[r] \in Pending
    BY <2>1 DEF TypeOK, Idle
  <2>3. CASE req[r].op \in {"create", "detect"}
    BY <1>2, <2>1, <2>3 DEF Busy, SubOf
  <2>4. CASE req[r].op \in {"withdraw", "advance"}
    <3>1. PICK d \in Cases : d = req[r].case
      BY <2>2, <2>4 DEF Pending
    <3>2. cases'[d].status # "absent" /\ cases'[d].sub = s
      BY <1>2, <2>1, <2>4, <3>1 DEF TypeOK, Exists, Busy, SubOf
    <3>3. d \in CasesOf(s)'
      BY <3>2 DEF CasesOf, Exists
    <3>4. d \in CasesOf(s)
      BY <3>3 DEF Untouched
    <3>5. QED
      BY <2>1, <2>4, <3>1, <3>4 DEF Busy, SubOf, CasesOf
  <2>5. QED
    BY <2>2, <2>3, <2>4 DEF Pending
<1>3. Solo(s)'
  BY <1>2 DEF Orderly, Solo
<1>4. ASSUME NEW r \in Requests, Busy(r, s)'
      PROVE  Fresh(req[r], s)'
  <2>1. Busy(r, s) /\ req'[r] = req[r] /\ Fresh(req[r], s)
    BY <1>2, <1>4 DEF Orderly
  <2>2. req[r].op = "create" => (NoOpenCase(s) <=> NoOpenCase(s)')
    BY DEF Untouched, NoOpenCase, IsOpen, Exists
  <2>3. req[r].op \in {"withdraw", "advance"} => cases'[req[r].case] = cases[req[r].case]
    BY <2>1, BusyCase DEF Untouched
  <2>4. QED
    BY <2>1, <2>2, <2>3 DEF Fresh, Untouched
<1>5. QED
  BY <1>1, <1>3, <1>4 DEF Orderly

\* The only request about s ends: what is left to show is that s agrees.
LEMMA AloneOk ==
  ASSUME TypeOK, TypeOK', NEW r \in Requests, NEW s \in Subs, Solo(s), Busy(r, s), Finish(r),
         \A d \in Cases : Exists(d) => cases'[d].sub = cases[d].sub,
         Agree(s)'
  PROVE  Orderly(s)'
<1>1. ASSUME NEW q \in Requests, Busy(q, s)' PROVE FALSE
  <2>1. q # r /\ req'[q] = req[q] /\ req[q].op # "idle"
    BY <1>1 DEF Finish, TypeOK, Busy, Idle
  <2>2. req[q] \in Pending
    BY <2>1 DEF TypeOK, Idle
  <2>3. SubOf(req[q])' = SubOf(req[q])
    <3>1. CASE req[q].op \in {"create", "detect"}
      BY <2>1, <3>1 DEF SubOf
    <3>2. CASE req[q].op \in {"withdraw", "advance"}
      <4>1. req[q].case \in Cases /\ Exists(req[q].case)
        BY <2>2, <3>2 DEF TypeOK, Pending
      <4>2. cases'[req[q].case].sub = cases[req[q].case].sub
        BY <4>1
      <4>3. QED
        BY <2>1, <3>2, <4>2 DEF SubOf
    <3>3. QED
      BY <2>2, <3>1, <3>2 DEF Pending
  <2>4. Busy(q, s)
    BY <1>1, <2>1, <2>3 DEF Busy
  <2>5. QED
    BY <2>1, <2>4 DEF Solo
<1>2. QED
  BY <1>1 DEF Orderly, Solo

LEMMA FinishLeaves ==
  ASSUME TypeOK, NEW r \in Requests, Finish(r)
  PROVE  \A q \in Requests : req'[q] = req[q] \/ req'[q] = Idle
BY DEF TypeOK, Finish

\* A request that checked s begins while no other is about s.
LEMMA StartOrderly ==
  ASSUME TypeOK, TypeOK', NEW r \in Requests, NEW q \in Pending, Start(r, q),
         NEW s \in Subs \ disturbed', Orderly(s), SubOf(q) = s => Fresh(q, s)
  PROVE  Orderly(s)'
<1>1. /\ req'[r] = q /\ req[r] = Idle
      /\ \A p \in Requests \ {r} : req'[p] = req[p]
      /\ UNCHANGED <<cases, subs, ledger>>
  BY DEF Start, TypeOK
<1>2. \A p \in Requests \ {r} : Busy(p, s)' <=> Busy(p, s)
  BY <1>1 DEF Busy, SubOf
<1>3. Busy(r, s)' => SubOf(q) = s
  BY <1>1 DEF Busy, SubOf
<1>4. SubOf(q) = s => \A p \in Requests : ~Busy(p, s)
  BY DEF Start, Busy
<1>5. Solo(s)'
  BY <1>2, <1>3, <1>4 DEF Solo, Orderly
<1>6. Agree(s)'
  BY <1>1 DEF Orderly, Agree, OneOpenCase, CreditExplained, CasesOf, IsOpen, Exists, Succeeded
<1>7. ASSUME NEW p \in Requests, Busy(p, s)' PROVE Fresh(req[p], s)'
  <2>1. Fresh(req'[p], s)
    BY <1>1, <1>2, <1>3, <1>7 DEF Orderly
  <2>2. QED
    BY <1>1, <2>1 DEF Fresh, NoOpenCase, CasesOf, IsOpen, Exists
<1>8. QED
  BY <1>5, <1>6, <1>7 DEF Orderly

LEMMA CommitCreateOrderly ==
  ASSUME IInv, IInv', NEW r \in Requests, NEW c \in Cases, CommitCreate(r, c),
         NEW s \in Subs, Orderly(s)
  PROVE  Orderly(s)'
<1> DEFINE t == req[r].sub
           row == [sub |-> t, status |-> "submitted", monthly |-> req[r].monthly,
                   resolved |-> FALSE]
<1>1. req[r] \in [op : {"create"}, sub : Subs, monthly : Prices] /\ Busy(r, t)
  BY DEF CommitCreate, IInv, TypeOK, Pending, Idle, Busy, SubOf
<1>2. Finish(r) /\ ledger' = ledger /\ ~Exists(c)
  BY DEF CommitCreate
<1>3. \A q \in Requests : req'[q] = req[q] \/ req'[q] = Idle
  BY <1>2, FinishLeaves DEF IInv
<1>4. CASE ~HasSub(t)
  <2>1. UNCHANGED <<cases, subs>>
    BY <1>4 DEF CommitCreate
  <2>2. Untouched(s)
    BY <1>2, <1>3, <2>1 DEF Untouched, CasesOf, Exists
  <2>3. QED
    BY <2>2, UntouchedOk DEF IInv
<1>5. CASE HasSub(t)
  <2>1. /\ cases'[c] = row /\ \A d \in Cases \ {c} : cases'[d] = cases[d]
        /\ Exists(c)'
    BY <1>5 DEF CommitCreate, IInv, TypeOK, Exists
  <2>2. subs[t] \in SubRows
    BY <1>1, <1>5, SubForm DEF IInv
  <2>3. /\ subs'[t].status = "cancel_requested"
        /\ \A u \in Subs \ {t} : subs'[u] = subs[u]
    BY <1>1, <1>5, <2>2 DEF CommitCreate, SetStatus, IInv, TypeOK, SubRows
  <2>4. CASE s # t
    <3>1. CasesOf(s)' = CasesOf(s)
      BY <1>2, <2>1, <2>4 DEF CasesOf, Exists
    <3>2. \A d \in CasesOf(s) : d # c
      BY <1>2 DEF CasesOf
    <3>3. Untouched(s)
      BY <1>2, <1>3, <2>1, <2>3, <2>4, <3>1, <3>2 DEF Untouched, CasesOf
    <3>4. QED
      BY <3>3, UntouchedOk DEF IInv
  <2>5. CASE s = t
    <3>1. NoOpenCase(s) /\ subs[s].status # "canceled"
      BY <1>1, <2>5 DEF Orderly, Fresh
    <3>2. /\ c \notin CasesOf(s) /\ CasesOf(s)' = CasesOf(s) \union {c}
          /\ \A d \in CasesOf(s) : cases'[d] = cases[d]
      BY <1>2, <2>1, <2>5 DEF CasesOf, Exists
    <3>3. ledger[c] = <<>>
      BY <1>2 DEF IInv, CreditHasCase
    <3>4. /\ IsOpen(c)' /\ ~Succeeded(c)'
          /\ \A d \in CasesOf(s) : ~IsOpen(d)' /\ Succeeded(d)' = Succeeded(d)
      BY <2>1, <3>1, <3>2 DEF NoOpenCase, IsOpen, Exists, Succeeded, TerminalCaseStatuses
    <3>5. Agree(s)'
      <4>1. \A d \in CasesOf(s) : ~Succeeded(d)
        BY <3>1 DEF Orderly, Agree
      <4>2. \A d \in CasesOf(s) : ledger[d] = <<>>
        BY <4>1 DEF Orderly, Agree, CreditExplained, Succeeded
      <4>3. QED
        BY <1>2, <2>3, <2>5, <3>2, <3>3, <3>4, <4>1, <4>2
           DEF Agree, OneOpenCase, CreditExplained
    <3>6. \A d \in Cases : Exists(d) => cases'[d].sub = cases[d].sub
      BY <1>2, <2>1
    <3>7. QED
      BY <1>1, <1>2, <2>5, <3>5, <3>6, AloneOk DEF IInv, Orderly
  <2>6. QED
    BY <2>4, <2>5
<1>6. QED
  BY <1>4, <1>5

\* Rewriting the row of a case keeps every subscription's set of cases, and
\* touches no other subscription.
LEMMA RowKeepsSub ==
  ASSUME TypeOK, NEW c \in Cases, NEW row \in CaseRows, Exists(c),
         cases' = [cases EXCEPT ![c] = row], row.sub = cases[c].sub
  PROVE  /\ cases'[c] = row
         /\ \A d \in Cases \ {c} : cases'[d] = cases[d]
         /\ \A d \in Cases : Exists(d) => cases'[d].sub = cases[d].sub
         /\ \A s \in Subs : CasesOf(s)' = CasesOf(s)
<1>1. cases'[c] = row /\ \A d \in Cases \ {c} : cases'[d] = cases[d]
  BY DEF TypeOK
<1>2. Exists(c)'
  BY <1>1 DEF Exists, CaseRows, CaseStatuses
<1>3. QED
  BY <1>1, <1>2 DEF CasesOf, Exists

LEMMA RowElsewhere ==
  ASSUME IInv, IInv', NEW r \in Requests, NEW c \in Cases, NEW row \in CaseRows, Exists(c),
         cases' = [cases EXCEPT ![c] = row], row.sub = cases[c].sub, Finish(r),
         \A d \in Cases \ {c} : ledger'[d] = ledger[d],
         \A u \in Subs \ {cases[c].sub} : subs'[u] = subs[u],
         NEW s \in Subs, s # cases[c].sub, Orderly(s)
  PROVE  Orderly(s)'
<1>1. c \notin CasesOf(s)
  BY DEF CasesOf
<1>2. Untouched(s)
  BY <1>1, RowKeepsSub, FinishLeaves DEF Untouched, IInv, CasesOf
<1>3. QED
  BY <1>2, UntouchedOk DEF IInv

\* The one open case of s moves on without being resolved, ends without a
\* saving and releases the flag, or succeeds and retires the row.
LEMMA RowAgrees ==
  ASSUME IInv, NEW s \in Subs, NEW c \in CasesOf(s), NEW row \in CaseRows,
         cases' = [cases EXCEPT ![c] = row], row.sub = s,
         IsOpen(c), Agree(s),
         \/ /\ row.status \in {"in_review", "in_progress"}
            /\ subs' = subs /\ ledger' = ledger
         \/ /\ row.status \in {"canceled", "failed"}
            /\ ReleaseFlag(s) /\ ledger' = ledger
         \/ /\ row.status = "succeeded"
            /\ Retire(s) /\ \A d \in Cases \ {c} : ledger'[d] = ledger[d]
  PROVE  Agree(s)'
<1>1. c \in Cases /\ Exists(c) /\ cases[c].sub = s
  BY DEF CasesOf
<1>2. /\ cases'[c] = row /\ CasesOf(s)' = CasesOf(s)
      /\ \A d \in CasesOf(s) \ {c} : cases'[d] = cases[d]
  BY <1>1, RowKeepsSub DEF IInv, CasesOf
<1>3. HasSub(s) /\ subs[s] \in SubRows /\ subs[s].status = "cancel_requested"
  <2>1. subs[s].status = "cancel_requested"
    BY DEF Agree
  <2>2. QED
    BY <2>1 DEF IInv, TypeOK, HasSub, NoSub
<1>4. /\ \A d \in CasesOf(s) \ {c} : ~IsOpen(d) /\ ~Succeeded(d)
      /\ \A d \in CasesOf(s) : ledger[d] = <<>>
  <2>1. \A d \in CasesOf(s) : ~Succeeded(d)
    BY <1>3 DEF Agree
  <2>2. \A d \in CasesOf(s) : ledger[d] = <<>>
    BY <2>1 DEF Agree, CreditExplained, Succeeded
  <2>3. QED
    BY <2>1, <2>2 DEF Agree, OneOpenCase
<1>5. \A d \in CasesOf(s) \ {c} : ~IsOpen(d)' /\ ~Succeeded(d)'
  BY <1>2, <1>4 DEF IsOpen, Exists, Succeeded
<1>6. CASE /\ row.status \in {"in_review", "in_progress"}
           /\ subs' = subs /\ ledger' = ledger
  <2>1. IsOpen(c)' /\ ~Succeeded(c)'
    BY <1>2, <1>6 DEF IsOpen, Exists, Succeeded, TerminalCaseStatuses
  <2>2. QED
    BY <1>2, <1>3, <1>4, <1>5, <1>6, <2>1 DEF Agree, OneOpenCase, CreditExplained
<1>7. CASE /\ row.status \in {"canceled", "failed"}
           /\ ReleaseFlag(s) /\ ledger' = ledger
  <2>1. ~IsOpen(c)' /\ ~Succeeded(c)'
    BY <1>2, <1>7 DEF IsOpen, Exists, Succeeded, TerminalCaseStatuses
  <2>2. subs'[s].status = "active"
    BY <1>3, <1>7 DEF ReleaseFlag, SetStatus, IInv, TypeOK, SubRows
  <2>3. QED
    BY <1>2, <1>4, <1>5, <1>7, <2>1, <2>2 DEF Agree, OneOpenCase, CreditExplained
<1>8. CASE /\ row.status = "succeeded"
           /\ Retire(s) /\ \A d \in Cases \ {c} : ledger'[d] = ledger[d]
  <2>1. ~IsOpen(c)' /\ Succeeded(c)'
    BY <1>2, <1>8 DEF IsOpen, Exists, Succeeded, TerminalCaseStatuses
  <2>2. subs'[s].status = "canceled"
    BY <1>3, <1>8 DEF Retire, IInv, TypeOK, SubRows
  <2>3. \A d \in CasesOf(s) : ledger'[d] # <<>> => d = c
    BY <1>4, <1>8 DEF CasesOf
  <2>4. QED
    BY <1>2, <1>5, <1>8, <2>1, <2>2, <2>3 DEF Agree, OneOpenCase, CreditExplained
<1>9. QED
  BY <1>6, <1>7, <1>8

LEMMA CommitWithdrawOrderly ==
  ASSUME IInv, IInv', NEW r \in Requests, CommitWithdraw(r), NEW s \in Subs, Orderly(s)
  PROVE  Orderly(s)'
<1>c. PICK c \in Cases : c = req[r].case
  BY DEF CommitWithdraw, IInv, TypeOK, Pending, Idle
<1> DEFINE row == [cases[c] EXCEPT !.status = "canceled", !.resolved = TRUE]
<1>1. Exists(c) /\ req[r].op = "withdraw"
  BY <1>c DEF CommitWithdraw, IInv, TypeOK
<1>2. cases[c] \in CaseRows
  BY <1>1, CaseForm DEF IInv
<1>3. row \in CaseRows /\ row.sub = cases[c].sub /\ row.status = "canceled"
  BY <1>2 DEF CaseRows, CaseStatuses
<1>4. /\ cases' = [cases EXCEPT ![c] = row] /\ ledger' = ledger /\ Finish(r)
      /\ ReleaseFlag(cases[c].sub)
  BY <1>c DEF CommitWithdraw
<1> HIDE DEF row
<1>5. CASE s # cases[c].sub
  <2>1. \A u \in Subs \ {cases[c].sub} : subs'[u] = subs[u]
    BY <1>4 DEF ReleaseFlag, SetStatus, IInv, TypeOK
  <2>2. QED
    BY <1>1, <1>3, <1>4, <1>5, <2>1, RowElsewhere
<1>6. CASE s = cases[c].sub
  <2>1. c \in CasesOf(s) /\ Busy(r, s)
    BY <1>1, <1>6, <1>c DEF CasesOf, Busy, SubOf
  <2>2. CanTransition("cancellation", cases[c].status, "canceled", "member")
    BY <1>1, <1>c, <2>1 DEF Orderly, Fresh
  <2>3. IsOpen(c)
    BY <1>1, <1>2, <2>2, MovesFromOpen DEF IsOpen, CaseRows, CaseStatuses
  <2>4. Agree(s)'
    BY <1>3, <1>4, <1>6, <2>1, <2>3, RowAgrees DEF Orderly
  <2>5. \A d \in Cases : Exists(d) => cases'[d].sub = cases[d].sub
    BY <1>1, <1>3, <1>4, RowKeepsSub DEF IInv
  <2>6. QED
    BY <1>4, <2>1, <2>4, <2>5, AloneOk DEF IInv, Orderly
<1>7. QED
  BY <1>5, <1>6

LEMMA CommitAdvanceOrderly ==
  ASSUME IInv, IInv', NEW r \in Requests, CommitAdvance(r), NEW s \in Subs, Orderly(s)
  PROVE  Orderly(s)'
<1>c. PICK c \in Cases : c = req[r].case
  BY SMTT(30) DEF CommitAdvance, IInv, TypeOK, Pending, Idle
<1> DEFINE to == req[r].to
           row == [cases[c] EXCEPT !.status = to,
                                   !.resolved = @ \/ to \in TerminalCaseStatuses]
<1>1. Exists(c) /\ req[r].op = "advance" /\ to \in CaseStatuses
  <2>1. req[r].op = "advance" /\ req[r] \in Pending
    BY DEF CommitAdvance, IInv, TypeOK, Idle
  <2>2. QED
    BY <1>c, <2>1 DEF IInv, TypeOK, Pending
<1>2. cases[c] \in CaseRows /\ cases[c].sub \in Subs
  BY <1>1, CaseForm DEF IInv, CaseRows
<1>3. row \in CaseRows /\ row.sub = cases[c].sub /\ row.status = to
  BY <1>1, <1>2 DEF CaseRows
<1>4. Finish(r)
  BY DEF CommitAdvance
<1> DEFINE refused  == UNCHANGED <<cases, subs, ledger>> /\ CreditOf(c) > 0 /\ ~CanInsert(c)
           succeed  == /\ to = "succeeded" /\ cases' = [cases EXCEPT ![c] = row]
                       /\ Retire(cases[c].sub)
                       /\ \A d \in Cases \ {c} : ledger'[d] = ledger[d]
           fail     == /\ to = "failed" /\ cases' = [cases EXCEPT ![c] = row]
                       /\ ReleaseFlag(cases[c].sub) /\ ledger' = ledger
           move     == /\ to \notin {"succeeded", "failed"}
                       /\ cases' = [cases EXCEPT ![c] = row]
                       /\ subs' = subs /\ ledger' = ledger
<1>5. refused \/ succeed \/ fail \/ move
  <2>1. \A d \in Cases \ {c} : [ledger EXCEPT ![c] = Append(@, CreditOf(c))][d] = ledger[d]
    BY DEF IInv, TypeOK
  <2>2. CASE to = "succeeded"
    BY <1>c, <2>1, <2>2 DEF CommitAdvance
  <2>3. CASE to # "succeeded"
    BY <1>c, <2>3 DEF CommitAdvance
  <2>4. QED
    BY <2>2, <2>3
<1> HIDE DEF row, to
<1>6. CASE s # cases[c].sub
  <2>1. CASE refused
    <3>1. Untouched(s)
      BY <1>4, <2>1, FinishLeaves DEF Untouched, CasesOf, Exists, IInv
    <3>2. QED
      BY <3>1, UntouchedOk DEF IInv
  <2>2. CASE succeed \/ fail \/ move
    <3>1. \A u \in Subs \ {cases[c].sub} : subs'[u] = subs[u]
      BY <2>2 DEF ReleaseFlag, SetStatus, Retire, IInv, TypeOK
    <3>2. cases' = [cases EXCEPT ![c] = row] /\ \A d \in Cases \ {c} : ledger'[d] = ledger[d]
      BY <2>2
    <3>3. QED
      BY <1>1, <1>3, <1>4, <1>6, <3>1, <3>2, RowElsewhere
  <2>3. QED
    BY <1>5, <2>1, <2>2
<1>7. CASE s = cases[c].sub
  <2>1. c \in CasesOf(s) /\ Busy(r, s)
    BY <1>1, <1>7, <1>c DEF CasesOf, Busy, SubOf
  <2>2. CanTransition("cancellation", cases[c].status, to, "concierge")
    BY <1>1, <1>c, <2>1 DEF Orderly, Fresh, to
  <2>3. IsOpen(c) /\ to \in {"in_review", "in_progress", "succeeded", "failed"}
    BY <1>1, <1>2, <2>2, MovesFromOpen DEF IsOpen, CaseRows
  <2>4. ~refused
    <3>1. cases[c].status # "succeeded"
      BY <2>3 DEF IsOpen, TerminalCaseStatuses
    <3>2. QED
      BY <2>1, <3>1 DEF Orderly, Agree, CreditExplained, CanInsert
  <2>5. Agree(s)'
    BY <1>3, <1>5, <1>7, <2>1, <2>3, <2>4, RowAgrees DEF Orderly
  <2>6. \A d \in Cases : Exists(d) => cases'[d].sub = cases[d].sub
    BY <1>1, <1>3, <1>5, <2>4, RowKeepsSub DEF IInv
  <2>7. QED
    BY <1>4, <2>1, <2>5, <2>6, AloneOk DEF IInv, Orderly
<1>8. QED
  BY <1>6, <1>7

\* A step that ends a request, or writes other subscriptions than s.
LEMMA SubsElsewhere ==
  ASSUME IInv, IInv', UNCHANGED <<cases, ledger>>, req' = req \/ \E r \in Requests : Finish(r),
         NEW s \in Subs, subs'[s] = subs[s], Orderly(s)
  PROVE  Orderly(s)'
<1>1. Untouched(s)
  BY FinishLeaves DEF Untouched, CasesOf, Exists, IInv
<1>2. QED
  BY <1>1, UntouchedOk DEF IInv

\* The foreign key: a subscription is deleted before its first case.
LEMMA RemoveOrderly ==
  ASSUME IInv, IInv', NEW t \in Subs, Remove(t), NEW s \in Subs, Orderly(s)
  PROVE  Orderly(s)'
<1>1. UNCHANGED <<cases, ledger, req>> /\ subs' = [subs EXCEPT ![t] = NoSub]
  BY DEF Remove
<1>2. CASE s # t
  BY <1>1, <1>2, SubsElsewhere DEF IInv, TypeOK
<1>3. CASE s = t
  <2>1. CasesOf(s) = {} /\ CasesOf(s)' = CasesOf(s) /\ subs'[s].status = "deleted"
    BY <1>1, <1>3 DEF Remove, CasesOf, Exists, IInv, TypeOK, NoSub
  <2>2. Agree(s)'
    BY <2>1 DEF Agree, OneOpenCase, CreditExplained
  <2>3. Solo(s)'
    BY <1>1 DEF Solo, Busy, SubOf, Orderly
  <2>4. ASSUME NEW r \in Requests, Busy(r, s)' PROVE Fresh(req[r], s)'
    <3>1. Busy(r, s) /\ Fresh(req[r], s)
      BY <1>1, <2>4 DEF Busy, SubOf, Orderly
    <3>2. NoOpenCase(s)'
      BY <2>1 DEF NoOpenCase
    <3>3. QED
      BY <1>1, <2>1, <3>1, <3>2 DEF Fresh
  <2>5. QED
    BY <2>2, <2>3, <2>4 DEF Orderly
<1>4. QED
  BY <1>2, <1>3

LEMMA BeginOrderly ==
  ASSUME IInv, IInv', NEW r \in Requests, NEW s \in Subs \ disturbed', Orderly(s),
         \/ \E t \in Subs : BeginCreate(r, t) \/ BeginDetect(r, t)
         \/ \E c \in Cases : BeginWithdraw(r, c)
         \/ \E c \in Cases, to \in CaseStatuses : BeginAdvance(r, c, to)
  PROVE  Orderly(s)'
<1>1. ASSUME NEW t \in Subs, BeginCreate(r, t) PROVE Orderly(s)'
  <2> DEFINE q == [op |-> "create", sub |-> t, monthly |-> subs[t].monthly]
  <2>1. subs[t] \in SubRows
    BY <1>1, SubForm DEF BeginCreate, IInv
  <2>2. q \in Pending /\ SubOf(q) = t
    BY <2>1 DEF Pending, SubRows, SubOf
  <2>3. Fresh(q, t)
    BY <1>1 DEF BeginCreate, Fresh
  <2>4. QED
    BY <1>1, <2>2, <2>3, StartOrderly DEF BeginCreate, IInv
<1>2. ASSUME NEW t \in Subs, BeginDetect(r, t) PROVE Orderly(s)'
  <2> DEFINE q == [op |-> "detect", sub |-> t, seen |-> subs[t].status]
  <2>1. subs[t] \in SubRows
    BY <1>2, SubForm DEF BeginDetect, IInv
  <2>2. q \in Pending /\ Fresh(q, s)
    BY <2>1 DEF Pending, SubRows, Fresh
  <2>3. QED
    BY <1>2, <2>2, StartOrderly DEF BeginDetect, IInv
<1>3. ASSUME NEW c \in Cases, BeginWithdraw(r, c) PROVE Orderly(s)'
  <2> DEFINE q == [op |-> "withdraw", case |-> c]
  <2>1. q \in Pending /\ Fresh(q, s)
    BY <1>3 DEF Pending, Fresh, BeginWithdraw
  <2>2. QED
    BY <1>3, <2>1, StartOrderly DEF BeginWithdraw, IInv
<1>4. ASSUME NEW c \in Cases, NEW to \in CaseStatuses, BeginAdvance(r, c, to) PROVE Orderly(s)'
  <2> DEFINE q == [op |-> "advance", case |-> c, to |-> to]
  <2>1. q \in Pending /\ Fresh(q, s)
    BY <1>4 DEF Pending, Fresh, BeginAdvance
  <2>2. QED
    BY <1>4, <2>1, StartOrderly DEF BeginAdvance, IInv
<1>5. QED
  BY <1>1, <1>2, <1>3, <1>4

\* A detection run and the member's own edit disturb what they write.
LEMMA OtherWriters ==
  ASSUME IInv, IInv', NEW s \in Subs \ disturbed', Orderly(s),
         \/ \E r \in Requests : Drop(r) \/ \E m \in Prices : CommitDetect(r, m)
         \/ \E t \in Subs, status \in SubStatuses, m \in Prices : Patch(t, status, m)
  PROVE  Orderly(s)'
<1>1. UNCHANGED <<cases, ledger>> /\ (req' = req \/ \E r \in Requests : Finish(r))
  BY DEF Drop, CommitDetect, Patch
<1>2. subs'[s] = subs[s]
  BY DEF Drop, CommitDetect, Patch, IInv, TypeOK
<1>3. QED
  BY <1>1, <1>2, SubsElsewhere

LEMMA UndisturbedInit == Init => UInv
<1> SUFFICES ASSUME Init, NEW s \in Subs PROVE Orderly(s)
  BY DEF UInv
<1>1. CasesOf(s) = {} /\ subs[s].status = "active"
  BY DEF Init, CasesOf, Exists, NoCase
<1>2. \A r \in Requests : ~Busy(r, s)
  BY DEF Init, Busy, Idle
<1>3. QED
  BY <1>1, <1>2 DEF Orderly, Solo, Agree, OneOpenCase, CreditExplained

LEMMA UndisturbedStep == IInv /\ UInv /\ [Next]_vars => UInv'
<1> SUFFICES ASSUME IInv, UInv, [Next]_vars, NEW s \in Subs \ disturbed' PROVE Orderly(s)'
  BY DEF UInv
<1>1. IInv'
  BY CancellationStep
<1>2. Orderly(s)
  <2>1. disturbed \subseteq disturbed'
    BY DEF Next, vars, CaseRequest, Detection, Catalogue, BeginCreate, CommitCreate, BeginWithdraw,
       CommitWithdraw, BeginAdvance, CommitAdvance, Drop, BeginDetect, CommitDetect, Patch,
       Remove, Start
  <2>2. QED
    BY <2>1 DEF UInv
<1>3. CASE UNCHANGED vars
  BY <1>1, <1>2, <1>3, SubsElsewhere DEF vars
<1>4. ASSUME NEW r \in Requests, CaseRequest(r) PROVE Orderly(s)'
  BY <1>1, <1>2, <1>4, BeginOrderly, CommitCreateOrderly, CommitWithdrawOrderly,
     CommitAdvanceOrderly, OtherWriters DEF CaseRequest
<1>5. ASSUME NEW r \in Requests, Detection(r) PROVE Orderly(s)'
  BY <1>1, <1>2, <1>5, BeginOrderly, OtherWriters DEF Detection
<1>6. CASE Catalogue
  BY <1>1, <1>2, <1>6, OtherWriters, RemoveOrderly DEF Catalogue
<1>7. QED
  BY <1>3, <1>4, <1>5, <1>6 DEF Next

LEMMA UndisturbedInvariance == Spec => []UInv
BY UndisturbedInit, UndisturbedStep, CancellationInvariance, PTL DEF Spec

--------------------------------------------------------------------------------
(* Theorems *)

\* Rows, credits and pending writes keep their types.
THEOREM CancellationTypes == Spec => []TypeOK
<1>1. IInv => TypeOK
  BY DEF IInv
<1>2. QED
  BY <1>1, CancellationInvariance, PTL

\* A case is credited once, with a year of the price it recorded.
THEOREM CreditIsSnapshot == Spec => []CreditIsSnapshotOnce
<1>1. IInv => CreditIsSnapshotOnce
  BY DEF IInv
<1>2. QED
  BY <1>1, CancellationInvariance, PTL

\* The subscription of a credited case has been retired, and stays so.
THEOREM CreditRetires == Spec => []CreditRetiresSubscription
<1>1. IInv => CreditRetiresSubscription
  BY DEF IInv
<1>2. QED
  BY <1>1, CancellationInvariance, PTL

\* A subscription with a case is never deleted.
THEOREM CaseKeeps == Spec => []CaseKeepsSubscription
<1>1. IInv => CaseKeepsSubscription
  BY DEF IInv
<1>2. QED
  BY <1>1, CancellationInvariance, PTL

\* The credits of the cancellation cases are a CreditOnce table: a case is
\* credited a figure it was created with, at most once, and for good.
THEOREM CancellationRefinesCreditOnce == Spec => ImplementsCreditOnce
BY BookInit, BookStep, CancellationInvariance, PTL
   DEF Spec, ImplementsCreditOnce, Book!Spec

\* A subscription that one request at a time has acted on, and nothing else
\* has written, has at most one open case, one credit, and a succeeded case
\* under the credit.
THEOREM UndisturbedMoneyHolds == Spec => []UndisturbedMoney
<1>1. UInv => UndisturbedMoney
  BY DEF UInv, Orderly, Agree, UndisturbedMoney, CreditExplained, SavingBookedOnce, Succeeded
<1>2. QED
  BY <1>1, UndisturbedInvariance, PTL

\* Such a subscription reads "being canceled" exactly while its case is open,
\* and "canceled" only when one succeeded.
THEOREM UndisturbedStatusHolds == Spec => []UndisturbedStatus
<1>1. UInv => UndisturbedStatus
  BY DEF UInv, Orderly, Agree, UndisturbedStatus, OpenCaseFlags, FlagHasOpenCase,
     CanceledByCase, Succeeded
<1>2. QED
  BY <1>1, UndisturbedInvariance, PTL
================================================================================
