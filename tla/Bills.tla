---------------------------------- MODULE Bills ----------------------------------
(***************************************************************************)
(* The bills of one member, of one payee or of others:                     *)
(* BillDetectionService.runForUser (modules/detection/bill-detection.      *)
(* service.ts), BillService (modules/bills/service.ts), the reminders of   *)
(* AlertService.evaluateUser (modules/alerts/alert.service.ts) and, where  *)
(* they meet bills, the negotiation cases opened on them.  A slot of       *)
(* Workers is a request or a job, one statement per step.  The recurring   *)
(* mark of transactions is left out.                                       *)
(***************************************************************************)
EXTENDS Recurrence

CONSTANTS Workers,     \* requests and jobs in flight
          BillAmounts, \* amounts the payee charges
          MaxBills,    \* BOUND: rows ever created
          MaxBilled,   \* BOUND: charges of the payee
          MaxPeriods,  \* BOUND: due dates
          MaxMoves     \* BOUND: requests of the member

ASSUME BillsAssumption ==
  /\ BillAmounts \subseteq Nat \ {0}
  /\ MaxBills \in Nat /\ MaxBilled \in Nat /\ MaxPeriods \in Nat /\ MaxMoves \in Nat

VARIABLES
  billed,     \* amounts charged, a month apart
  period,     \* the due date in the reminder window
  bills,      \* rows in order of creation
  reminders,  \* upcoming_bill alerts in order of creation, all unread
  work,       \* the requests and jobs in flight
  moves,
  overlapped  \* history: two slots at work at once

billsVars == <<billed, period, bills, reminders, work, moves, overlapped>>

Resting == [pc |-> "idle"]
BillRows == 1..Len(bills)
Kept == {b \in BillRows : ~bills[b].deleted}
Active == {b \in Kept : bills[b].active}
OfPayee == {b \in Active : bills[b].ofPayee}

BillTransactions ==
  [i \in DOMAIN billed |-> [day |-> 30 * i, amount |-> billed[i], provider |-> FALSE,
                            category |-> "utilities"]]

Start(w, state) ==
  /\ work[w].pc = "idle"
  /\ work' = [work EXCEPT ![w] = state]
  /\ overlapped' = (overlapped \/ \E o \in Workers : work[o].pc # "idle")

MemberStart(w, state) ==
  moves < MaxMoves /\ moves' = moves + 1 /\ Start(w, state)

Done(w) == work' = [work EXCEPT ![w] = Resting]

--------------------------------------------------------------------------------
(* Bill detection *)

BeginDetect(w) ==
  /\ \E bill \in DetectBill(BillTransactions, 30 * Len(billed)) :
       bill.isActive /\ Start(w, [pc |-> "find", bill |-> bill])
  /\ UNCHANGED <<billed, period, bills, reminders, moves>>

\* findFirst of an active bill of the payee, in no order.
FindBill(w) ==
  /\ work[w].pc = "find"
  /\ \E b \in IF OfPayee = {} THEN {0} ELSE OfPayee :
       work' = [work EXCEPT ![w] = [pc |-> "write", bill |-> @.bill, row |-> b]]
  /\ UNCHANGED <<billed, period, bills, reminders, moves, overlapped>>

\* byHand is history: the member made it, restored it or moved it to another payee.
Row(bill) == [active |-> TRUE, deleted |-> FALSE, cases |-> 0, ofPayee |-> TRUE,
              byHand |-> FALSE, last |-> bill.last, expected |-> bill.expected]

\* Create, or update by id whatever the row has become; a deleted one throws.
WriteBill(w) ==
  LET bill == work[w].bill
      b == work[w].row
  IN /\ work[w].pc = "write"
     /\ IF b = 0
        THEN Len(bills) < MaxBills /\ bills' = Append(bills, Row(bill))
        ELSE bills' = IF bills[b].deleted THEN bills
                      ELSE [bills EXCEPT ![b].last = bill.last, ![b].expected = bill.expected]
     /\ Done(w)
     /\ UNCHANGED <<billed, period, reminders, moves, overlapped>>

--------------------------------------------------------------------------------
(* Reminders *)

\* Active bills whose due date is near, keyed by bill and date.
BeginEvaluate(w) ==
  /\ Active # {}
  /\ Start(w, [pc |-> "unread", keys |-> {<<b, period>> : b \in Active}])
  /\ UNCHANGED <<billed, period, bills, reminders, moves>>

ReadReminders(w) ==
  /\ work[w].pc = "unread"
  /\ work' = [work EXCEPT ![w] =
       [pc |-> "record", keys |-> @.keys, seen |-> Range(reminders)]]
  /\ UNCHANGED <<billed, period, bills, reminders, moves, overlapped>>

RecordReminders(w) ==
  /\ work[w].pc = "record"
  /\ reminders' = reminders \o SetToSeq(work[w].keys \ work[w].seen)
  /\ Done(w)
  /\ UNCHANGED <<billed, period, bills, moves, overlapped>>

--------------------------------------------------------------------------------
(* The member *)

\* DELETE: the bill's cases are counted, then it is archived or deleted.
BeginRemove(w) ==
  /\ \E b \in Kept : MemberStart(w, [pc |-> "remove", row |-> b, cases |-> bills[b].cases])
  /\ UNCHANGED <<billed, period, bills, reminders>>

\* Wrong variant: a schema whose foreign key does not restrict the deletion.
BugMayDelete(b) == TRUE
\* The case's foreign key restricts the deletion.
MayDelete(b) == bills[b].cases = 0

CommitRemove(w) ==
  LET b == work[w].row
  IN /\ work[w].pc = "remove"
     /\ bills' = IF bills[b].deleted THEN bills
                 ELSE IF work[w].cases > 0 THEN [bills EXCEPT ![b].active = FALSE]
                 ELSE IF MayDelete(b) THEN [bills EXCEPT ![b].deleted = TRUE]
                 ELSE bills
     /\ Done(w)
     /\ UNCHANGED <<billed, period, reminders, moves, overlapped>>

\* A negotiation is opened on any bill of the member, archived or not; the
\* insert of its case needs the bill to be there still.
BeginCase(w) ==
  /\ \E b \in Kept : bills[b].cases = 0 /\ MemberStart(w, [pc |-> "case", row |-> b])
  /\ UNCHANGED <<billed, period, bills, reminders>>

InsertCase(w) ==
  LET b == work[w].row
  IN /\ work[w].pc = "case"
     /\ bills' = IF bills[b].deleted THEN bills ELSE [bills EXCEPT ![b].cases = @ + 1]
     /\ Done(w)
     /\ UNCHANGED <<billed, period, reminders, moves, overlapped>>

OwnRow(a, mine) == [Row([last |-> 0, expected |-> a]) EXCEPT !.ofPayee = mine, !.byHand = TRUE]

\* POST: nothing asks for another bill of the payee, if a payee is given.
CreateBill ==
  /\ moves < MaxMoves /\ moves' = moves + 1 /\ Len(bills) < MaxBills
  /\ \E a \in BillAmounts, mine \in BOOLEAN : bills' = Append(bills, OwnRow(a, mine))
  /\ UNCHANGED <<billed, period, reminders, work, overlapped>>

\* PATCH of isActive, of the payee or of the expected amount.
EditBill(b) ==
  /\ moves < MaxMoves /\ moves' = moves + 1 /\ b \in Kept
  /\ \/ bills' = [bills EXCEPT ![b].active = ~@, ![b].byHand = TRUE]
     \/ bills' = [bills EXCEPT ![b].ofPayee = ~@, ![b].byHand = TRUE]
     \/ \E a \in BillAmounts : bills' = [bills EXCEPT ![b].expected = a]
  /\ UNCHANGED <<billed, period, reminders, work, overlapped>>

Bill ==
  /\ Len(billed) < MaxBilled
  /\ \E a \in BillAmounts : billed' = Append(billed, a)
  /\ UNCHANGED <<period, bills, reminders, work, moves, overlapped>>

NextPeriod ==
  /\ period < MaxPeriods /\ period' = period + 1
  /\ UNCHANGED <<billed, bills, reminders, work, moves, overlapped>>

BillsInit ==
  /\ billed = [i \in 1..3 |-> Min(BillAmounts)]
  /\ period = 1 /\ bills = <<>> /\ reminders = <<>>
  /\ work = [w \in Workers |-> Resting]
  /\ moves = 0 /\ overlapped = FALSE

BillsNext ==
  \/ Bill \/ NextPeriod \/ CreateBill
  \/ \E b \in BillRows : EditBill(b)
  \/ \E w \in Workers :
       \/ BeginDetect(w) \/ FindBill(w) \/ WriteBill(w)
       \/ BeginEvaluate(w) \/ ReadReminders(w) \/ RecordReminders(w)
       \/ BeginRemove(w) \/ CommitRemove(w) \/ BeginCase(w) \/ InsertCase(w)

BillsSpec == BillsInit /\ [][BillsNext]_billsVars

--------------------------------------------------------------------------------
(* Properties *)

\* A bill with a case is never gone, although the cases were counted before it
\* was deleted ("would lose the record of money we charged a fee on").
CasesKeepTheirBill == \A b \in BillRows : bills[b].cases > 0 => ~bills[b].deleted

\* One job or request at a time, whatever bills the member makes, restores and moves
\* meanwhile: of the active bills of the payee at most one is of the detection's own
\* making, and a due date of a bill is announced once - through archiving, deletion
\* and detection again.
SoloBillsNeverDuplicate ==
  ~overlapped =>
    /\ \A b, c \in OfPayee : bills[b].byHand \/ bills[c].byHand \/ b = c
    /\ IsInjective(reminders)

\* Both: however they are archived, deleted, detected again and negotiated.
BillsAreSound == CasesKeepTheirBill /\ SoloBillsNeverDuplicate
================================================================================
