---------------------------- MODULE TransactionSync ----------------------------
(***************************************************************************)
(* Transaction syncing of one linked bank item: the worker job             *)
(* (transaction-sync.service, plaid-sync.processor), what enqueues it      *)
(* (maintenance.processor, sync-pipeline, plaid-link.service) and the      *)
(* aggregator, which is a log of changes read from a cursor.               *)
(*                                                                         *)
(* Several jobs for one item may run at once: the queue runs four, and     *)
(* only the daily job has an id that suppresses a second one.  Each action *)
(* of a job is one call to the aggregator or one statement.  A relink is a *)
(* request that holds a slot until it has queued its sync.                 *)
(***************************************************************************)
EXTENDS Integers, Sequences, FiniteSetsExt

CONSTANTS Jobs,            \* slots for sync jobs of the item
          Txns, Accounts,
          FirstAccounts,   \* the accounts exposed when the item was linked
          PageSize,        \* changes in a page of the aggregator
          MaxSyncPages,    \* MAX_SYNC_PAGES
          Attempts,        \* DEFAULT_JOB_OPTIONS.attempts
          MaxChanges,      \* BOUND: length of the aggregator's log
          MaxFaults        \* BOUND: failed calls, crashes, expired logins

ASSUME SyncBounds ==
  /\ PageSize \in Nat \ {0} /\ MaxSyncPages \in Nat \ {0} /\ Attempts \in Nat \ {0}
  /\ MaxChanges \in Nat /\ MaxFaults \in Nat
  /\ FirstAccounts \subseteq Accounts

VARIABLES log,             \* the aggregator's changes, oldest first
          exposed,         \* the accounts the aggregator exposes
          login,           \* whether the member's credentials are accepted
          cursor,          \* plaid_items.syncCursor, a position in log
          status,          \* plaid_items.status
          accounts,        \* connected_accounts: the status of each, or none
          rows,            \* transactions: the amount stored for each, or none
          alerted,         \* an unread bank_connection_error alert exists
          job,             \* job[j]: where sync job j stands
          faults,          \* faults so far
          lost,            \* HISTORY: transactions with a change left out
          overlapped,      \* HISTORY: two syncs, or a sync and a relink, at once
          cut              \* HISTORY: since a sync or a relink last ran to its end,
                           \* one died, a relink failed half way or the handler of
                           \* a failed sync lost a write

provider == <<log, exposed, login>>
stored == <<cursor, status, accounts, rows, alerted>>
history == <<faults, lost, overlapped, cut>>
vars == <<provider, stored, job, history>>

None == "none"
Absent == -1
Idle == [pc |-> "idle"]
Waiting(n) == [pc |-> "waiting", attempts |-> n]
Running(j) == job[j].pc \notin {"idle", "waiting"}
Quiet == \A j \in Jobs : ~Running(j)
Linking(j) == job[j].pc \in {"relink", "upsert"}
Recording(j) == job[j].pc \in {"failing", "fail_accounts", "fail_alert"}

\* The row a change makes of a row.
Redo(row, c) ==
  CASE c.kind = "added" -> IF row = Absent THEN c.amount ELSE row
    [] c.kind = "modified" -> IF row = Absent THEN Absent ELSE c.amount
    [] c.kind = "removed" -> Absent

\* The row that the changes of t after a cursor make of a row.
Replay(row, t, from) ==
  LET after[i \in from..Len(log)] ==
        IF i = from THEN row
        ELSE IF log[i].txn = t THEN Redo(after[i - 1], log[i]) ELSE after[i - 1]
  IN  after[Len(log)]

Truth(t) == Replay(Absent, t, 0)

Init ==
  /\ log = <<>> /\ exposed = FirstAccounts /\ login = TRUE
  /\ cursor = 0 /\ status = "connected"
  /\ accounts = [a \in Accounts |-> IF a \in FirstAccounts THEN "connected" ELSE None]
  /\ rows = [t \in Txns |-> Absent]
  /\ alerted = FALSE
  /\ job = [j \in Jobs |-> Idle]
  /\ faults = 0 /\ lost = {} /\ overlapped = FALSE /\ cut = FALSE

--------------------------------------------------------------------------------
(* The aggregator, external to the code *)

Append1(c) ==
  /\ Len(log) < MaxChanges
  /\ log' = Append(log, c)
  /\ UNCHANGED <<exposed, login, stored, job, history>>

Post(t, a) ==
  /\ \A i \in DOMAIN log : log[i].txn # t
  /\ a \in exposed
  /\ Append1([kind |-> "added", txn |-> t, account |-> a, amount |-> 0])

Amend(t) ==
  /\ Truth(t) # Absent
  /\ Append1([kind |-> "modified", txn |-> t, amount |-> Truth(t) + 1])

Retract(t) ==
  /\ Truth(t) # Absent
  /\ Append1([kind |-> "removed", txn |-> t])

Expose(a) ==
  /\ exposed' = exposed \cup {a}
  /\ UNCHANGED <<log, login, stored, job, history>>

Fault == faults < MaxFaults /\ faults' = faults + 1

Expire ==
  /\ login /\ login' = FALSE
  /\ Fault
  /\ UNCHANGED <<log, exposed, stored, job, lost, overlapped, cut>>

--------------------------------------------------------------------------------
(* Enqueueing *)

Enqueue(j) ==
  /\ job[j] = Idle
  /\ job' = [job EXCEPT ![j] = Waiting(Attempts)]

\* Wrong variant: the sweep looks for items never synced.
BugDaily(j) ==
  /\ status = "connected" /\ cursor = 0
  /\ Enqueue(j)
  /\ UNCHANGED <<provider, stored, history>>

\* The daily sweep takes connected items only.
Daily(j) ==
  /\ status = "connected"
  /\ Enqueue(j)
  /\ UNCHANGED <<provider, stored, history>>

MemberSync(j) ==
  /\ Enqueue(j)
  /\ UNCHANGED <<provider, stored, history>>

--------------------------------------------------------------------------------
(* Linking again, and the accounts of the aggregator *)

Move(j, r) == job' = [job EXCEPT ![j] = r]

\* The member logs in at the bank again and hands on a public token of the item: the
\* accounts that it exposes are read, and nothing is written yet.
Relink(j) ==
  /\ login' = TRUE /\ job[j] = Idle
  /\ Move(j, [pc |-> "relink", attempts |-> Attempts, todo |-> exposed])
  /\ overlapped' = (overlapped \/ ~Quiet)
  /\ UNCHANGED <<log, exposed, stored, faults, lost, cut>>

RelinkItem(j) ==
  /\ job[j].pc = "relink"
  /\ status' = "connected"
  /\ Move(j, [job[j] EXCEPT !.pc = "upsert"])
  /\ UNCHANGED <<provider, cursor, accounts, rows, alerted, history>>

\* One account of those read is created or connected again, by a relink or at the
\* start of a sync.
Upsert(j) ==
  /\ job[j].pc \in {"upsert", "refresh"}
  /\ \E a \in job[j].todo :
       /\ accounts' = [accounts EXCEPT ![a] = "connected"]
       /\ Move(j, [job[j] EXCEPT !.todo = @ \ {a}])
  /\ UNCHANGED <<provider, cursor, status, rows, alerted, history>>

\* The route then asks for a sync of the item.
EnqueueLinked(j) ==
  /\ job[j].pc = "upsert" /\ job[j].todo = {}
  /\ Move(j, Waiting(Attempts))
  /\ cut' = FALSE
  /\ UNCHANGED <<provider, stored, faults, lost, overlapped>>

\* Nothing handles an error of a relink: what it wrote stays.
RelinkFails(j) ==
  /\ Linking(j)
  /\ Fault
  /\ Move(j, Idle)
  /\ cut' = (cut \/ job[j].pc = "upsert")
  /\ UNCHANGED <<provider, stored, lost, overlapped>>

--------------------------------------------------------------------------------
(* One sync *)

\* Throws to the handler at the end of syncItem.
Throw(j, kind) ==
  Move(j, [pc |-> "failing", attempts |-> job[j].attempts, kind |-> kind])

\* A provider call refused because the member must log in again.
Refused(j) ==
  /\ ~login
  /\ Throw(j, "requires_reauth")
  /\ UNCHANGED <<provider, stored, faults, lost, cut>>

\* Reads the item, with its cursor, and asks for its accounts.
Begin(j) ==
  /\ job[j].pc = "waiting"
  /\ overlapped' = (overlapped \/ ~Quiet)
  /\ \/ /\ login
        /\ Move(j, [pc |-> "refresh", attempts |-> job[j].attempts, cursor |-> cursor,
                    todo |-> exposed])
        /\ UNCHANGED <<provider, stored, faults, lost, cut>>
     \/ Refused(j)

\* The accounts are refreshed: the map of those known is loaded.
LoadAccounts(j) ==
  /\ job[j].pc = "refresh" /\ job[j].todo = {}
  /\ Move(j, [pc |-> "fetch", attempts |-> job[j].attempts, cursor |-> job[j].cursor,
              known |-> {a \in Accounts : accounts[a] # None}, pages |-> 0])
  /\ UNCHANGED <<provider, stored, history>>

NextCursor(from) == Min({from + PageSize, Len(log)})

\* One page, which lists what it adds, modifies and removes.
Fetch(j) ==
  LET from == job[j].cursor
      page == from + 1..NextCursor(from)
      removals == {i \in page : log[i].kind = "removed"}
  IN /\ job[j].pc = "fetch"
     /\ \/ /\ login
           /\ Move(j, [pc |-> "apply", attempts |-> job[j].attempts, known |-> job[j].known,
                       pages |-> job[j].pages + 1, cursor |-> from,
                       writes |-> page \ removals,
                       removed |-> {log[i].txn : i \in removals},
                       next |-> NextCursor(from),
                       more |-> NextCursor(from) < Len(log)])
           /\ UNCHANGED <<provider, stored, history>>
        \/ Refused(j) /\ UNCHANGED overlapped

\* What is added is written before what is modified, each as the page lists it.
NextWrite(j) ==
  LET added == {i \in job[j].writes : log[i].kind = "added"}
  IN  Min(IF added # {} THEN added ELSE job[j].writes)
Change(j) == log[NextWrite(j)]

Applying(j, kind) ==
  /\ job[j].pc = "apply"
  /\ job[j].writes # {}
  /\ Change(j).kind = kind

Applied(j) == [job[j] EXCEPT !.pc = "apply", !.writes = @ \ {NextWrite(j)}]

\* Whether the transaction is stored already; one of an unknown account is
\* left out for good.
Look(j) ==
  LET c == Change(j)
      skip == c.account \notin job[j].known
  IN /\ Applying(j, "added")
     /\ Move(j, IF skip \/ rows[c.txn] # Absent THEN Applied(j)
                ELSE [job[j] EXCEPT !.pc = "insert"])
     /\ lost' = IF skip THEN lost \cup {c.txn} ELSE lost
     /\ UNCHANGED <<provider, stored, faults, overlapped, cut>>

\* Wrong variant: a failed insert is swallowed like a failed update.
BugInsert(j) ==
  LET c == Change(j)
  IN /\ job[j].pc = "insert"
     /\ Move(j, Applied(j))
     /\ \/ rows' = [rows EXCEPT ![c.txn] = c.amount] /\ UNCHANGED faults
        \/ UNCHANGED rows /\ Fault
     /\ UNCHANGED <<provider, cursor, status, accounts, alerted, lost,
                    overlapped, cut>>

\* externalId is unique: the insert fails when a row appeared meanwhile.
Insert(j) ==
  LET c == Change(j)
  IN /\ job[j].pc = "insert"
     /\ \/ /\ rows[c.txn] = Absent
           /\ rows' = [rows EXCEPT ![c.txn] = c.amount]
           /\ Move(j, Applied(j))
        \/ rows[c.txn] # Absent /\ Throw(j, "error") /\ UNCHANGED rows
     /\ UNCHANGED <<provider, cursor, status, accounts, alerted, faults, lost,
                   overlapped, cut>>

Modify(j) ==
  LET c == Change(j)
  IN /\ Applying(j, "modified")
     /\ Move(j, Applied(j))
     /\ rows' = [rows EXCEPT ![c.txn] = Redo(@, c)]
     /\ UNCHANGED <<provider, cursor, status, accounts, alerted, history>>

\* Any error of the update is taken for a missing row.
SwallowModify(j) ==
  /\ Applying(j, "modified")
  /\ Fault
  /\ Move(j, Applied(j))
  /\ lost' = lost \cup {Change(j).txn}
  /\ UNCHANGED <<provider, stored, overlapped, cut>>

DeleteRemoved(j) ==
  /\ job[j].pc = "apply" /\ job[j].writes = {} /\ job[j].removed # {}
  /\ rows' = [t \in Txns |-> IF t \in job[j].removed THEN Absent ELSE rows[t]]
  /\ Move(j, [job[j] EXCEPT !.removed = {}])
  /\ UNCHANGED <<provider, cursor, status, accounts, alerted, history>>

More(j) == job[j].more /\ job[j].pages < MaxSyncPages

\* Wrong variant: the aggregator's latest position, not the page's.
BugReached(j) == Len(log)

Reached(j) == job[j].next

SaveCursor(j) ==
  /\ job[j].pc = "apply" /\ job[j].writes = {} /\ job[j].removed = {}
  /\ cursor' = Reached(j)
  /\ Move(j, IF More(j)
             THEN [pc |-> "fetch", attempts |-> job[j].attempts, cursor |-> job[j].next,
                   known |-> job[j].known, pages |-> job[j].pages]
             ELSE [pc |-> "finish", attempts |-> job[j].attempts])
  /\ UNCHANGED <<provider, status, accounts, rows, alerted, history>>

\* Wrong variant: accounts marked before keep their mark.
BugMarked(to) == [a \in Accounts |-> IF accounts[a] = "connected" THEN to ELSE accounts[a]]

Marked(to) == [a \in Accounts |-> IF accounts[a] = None THEN None ELSE to]

Finish(j) ==
  /\ job[j].pc = "finish"
  /\ status' = "connected"
  /\ Move(j, [job[j] EXCEPT !.pc = "finish_accounts"])
  /\ UNCHANGED <<provider, cursor, accounts, rows, alerted, history>>

FinishAccounts(j) ==
  /\ job[j].pc = "finish_accounts"
  /\ accounts' = Marked("connected")
  /\ Move(j, Idle)
  /\ cut' = FALSE
  /\ UNCHANGED <<provider, cursor, status, rows, alerted, faults, lost, overlapped>>

--------------------------------------------------------------------------------
(* Failure *)

\* A call of the sync itself fails: the aggregator is down or the database is.
CallFails(j) ==
  /\ Running(j) /\ ~Linking(j) /\ ~Recording(j)
  /\ ~Applying(j, "modified")
  /\ Fault
  /\ Throw(j, "error")
  /\ UNCHANGED <<provider, stored, lost, overlapped, cut>>

\* The queue runs the job again while it has attempts left.
Requeued(j) == IF job[j].attempts > 1 THEN Waiting(job[j].attempts - 1) ELSE Idle

\* recordSyncError writes the item, its accounts and, when the member must log in
\* again, an alert; then the error is thrown on to the queue.
AfterRecord(j) ==
  CASE job[j].pc = "failing" -> [job[j] EXCEPT !.pc = "fail_accounts"]
    [] job[j].pc = "fail_accounts" /\ job[j].kind = "requires_reauth" ->
         [job[j] EXCEPT !.pc = "fail_alert"]
    [] OTHER -> Requeued(j)

RecordSyncError(j) ==
  /\ job[j].pc = "failing"
  /\ status' = job[j].kind
  /\ Move(j, AfterRecord(j))
  /\ UNCHANGED <<provider, cursor, accounts, rows, alerted, history>>

RecordAccountErrors(j) ==
  /\ job[j].pc = "fail_accounts"
  /\ accounts' = Marked(job[j].kind)
  /\ Move(j, AfterRecord(j))
  /\ UNCHANGED <<provider, cursor, status, rows, alerted, history>>

RecordAlert(j) ==
  /\ job[j].pc = "fail_alert"
  /\ alerted' = TRUE
  /\ Move(j, AfterRecord(j))
  /\ UNCHANGED <<provider, cursor, status, accounts, rows, history>>

\* Each of these writes may fail, and the handler goes on without it.
SwallowRecord(j) ==
  /\ Recording(j)
  /\ Fault
  /\ Move(j, AfterRecord(j))
  /\ cut' = TRUE
  /\ UNCHANGED <<provider, stored, lost, overlapped>>

\* The process dies: a queued job stalls and is run again, an inline one or a
\* relink is gone.
Crash(j) ==
  /\ Running(j)
  /\ Fault
  /\ cut' = TRUE
  /\ \/ Move(j, Waiting(job[j].attempts)) /\ ~Linking(j)
     \/ Move(j, Idle)
  /\ UNCHANGED <<provider, stored, lost, overlapped>>

Step(j) ==
  \/ RelinkItem(j) \/ Upsert(j) \/ EnqueueLinked(j)
  \/ Begin(j) \/ LoadAccounts(j) \/ Fetch(j) \/ Look(j) \/ Insert(j) \/ Modify(j)
  \/ DeleteRemoved(j) \/ SaveCursor(j) \/ Finish(j) \/ FinishAccounts(j)
  \/ RecordSyncError(j) \/ RecordAccountErrors(j) \/ RecordAlert(j)

Next ==
  \/ \E t \in Txns : Amend(t) \/ Retract(t) \/ \E a \in Accounts : Post(t, a)
  \/ \E a \in Accounts : Expose(a)
  \/ Expire
  \/ \E j \in Jobs : Daily(j) \/ MemberSync(j) \/ Relink(j) \/ Step(j)
                     \/ SwallowModify(j) \/ SwallowRecord(j)
                     \/ CallFails(j) \/ RelinkFails(j) \/ Crash(j)

Spec == Init /\ [][Next]_vars

\* The queue runs what it holds and a process that lives makes progress; the
\* sweep is a daily cron.  Members, the bank and faults promise nothing.
Fairness == (\A j \in Jobs : WF_vars(Step(j))) /\ WF_vars(\E j \in Jobs : Daily(j))

FairSpec == Spec /\ Fairness

--------------------------------------------------------------------------------
(* Properties *)

Statuses == {"connected", "requires_reauth", "error"}

\* The item, its rows and its jobs keep their types, and what a job carries
\* matches the point it has reached in syncItem.
TypeOK ==
  /\ cursor \in 0..Len(log) /\ status \in Statuses
  /\ accounts \in [Accounts -> Statuses \cup {None}]
  /\ rows \in [Txns -> -1..MaxChanges]
  /\ alerted \in BOOLEAN
  /\ \A j \in Jobs :
       \/ job[j] = Idle
       \/ /\ job[j].attempts \in 1..Attempts
          /\ CASE job[j].pc \in {"waiting", "finish", "finish_accounts"} -> TRUE
               [] Linking(j) -> job[j].todo \subseteq exposed
               [] job[j].pc = "refresh" ->
                    job[j].todo \subseteq exposed /\ job[j].cursor \in 0..Len(log)
               [] job[j].pc = "fetch" -> job[j].cursor \in 0..Len(log)
               [] job[j].pc \in {"apply", "insert"} ->
                    job[j].next \in 0..Len(log) /\ job[j].pages \in 1..MaxSyncPages
               [] Recording(j) ->
                    job[j].kind \in Statuses \ {"connected"}

\* "a retry resumes exactly where it stopped and re-applied pages are no-ops"
\* (TransactionSyncService): with no sync running, replaying the log from the
\* saved cursor over the stored rows gives what the bank holds.
CatchesUp ==
  Quiet => \A t \in Txns \ lost : Replay(rows[t], t, cursor) = Truth(t)

\* The same as long as no two syncs of the item ran at once: wherever one is
\* cut short and however often it is run again, nothing is lost, repeated or
\* brought back.
UndisturbedCatchesUp == overlapped \/ CatchesUp

\* However syncs overlap, fail and crash, the saved cursor never moves past a
\* transaction the bank still holds and the table does not.
NothingMissing ==
  Quiet => \A t \in Txns \ lost :
             Truth(t) # Absent => Replay(rows[t], t, cursor) # Absent

\* With no sync or relink under way and never two at once: since one last ran to
\* its end, unless one died, a relink failed half way or the handler of a failed sync
\* lost a write, an item's accounts show its status, and a member who must log in
\* again has been told (recordSyncError, which swallows what it fails to write).
UndisturbedStatus ==
  Quiet /\ ~overlapped /\ ~cut =>
    /\ \A a \in Accounts : accounts[a] \in {None, status}
    /\ status = "requires_reauth" => alerted

Stored(t) == IF overlapped THEN Truth(t) # Absent => rows[t] # Absent
                           ELSE rows[t] = Truth(t)

\* An item that stays connected in the end comes to store what the bank
\* holds, whatever failed before: the daily sweep, the saved cursor and the
\* page limit leave nothing behind.
HealthyItemSettles ==
  <>[](status = "connected") => <>[](\A t \in Txns \ lost : Stored(t))
================================================================================
