------------------------- MODULE TransactionSyncProofs -------------------------
(***************************************************************************)
(* Proofs about transaction syncing, for every number of jobs, accounts    *)
(* and transactions, every page size and every length of the log.          *)
(*                                                                         *)
(* Status.  An account is known only once the aggregator has exposed it    *)
(* (Known), and as long as no two syncs overlapped there is one running at *)
(* most (Alone).  What that one has written of the item, it still has to   *)
(* write to the accounts (Ending, Failing), and with nothing of it lost    *)
(* the item and its accounts agree again (Agreed).                         *)
(*                                                                         *)
(* Rows.  A transaction is added before it is changed and removed last     *)
(* (LogSound), so that one row stands after each prefix of the log         *)
(* (Stands), and replaying from a cursor what a later prefix leaves gives  *)
(* what the bank holds (CatchUp).  What a job has left of its page are     *)
(* the page's last writes, and the removals are behind them (PageSound).   *)
(* Whatever the saved cursor has passed is stored, left out or removed,    *)
(* however many jobs run (Held); and with one job at a time each row is    *)
(* the one of some prefix behind the cursor, with what follows in the page *)
(* still to be written (Solo).                                             *)
(***************************************************************************)
EXTENDS TransactionSync, Induction

\* A job has a point it has reached, one that fails has a reason, and the accounts
\* still to be written are ones that the aggregator exposes.
JobForm(j) ==
  /\ "pc" \in DOMAIN job[j]
  /\ Recording(j) => "kind" \in DOMAIN job[j] /\ job[j].kind \in Statuses
  /\ Linking(j) \/ job[j].pc = "refresh" =>
       "todo" \in DOMAIN job[j] /\ job[j].todo \subseteq exposed

SyncForm ==
  /\ DOMAIN job = Jobs /\ status \in Statuses /\ (\A j \in Jobs : JobForm(j))

Known ==
  /\ accounts \in [Accounts -> Statuses \union {None}]
  /\ \A a \in Accounts : accounts[a] # None => a \in exposed

Alone == ~overlapped => \A j, k \in Jobs : Running(j) /\ Running(k) => j = k

\* Between the writes of a relink, and of the end of a sync.
Ending(j) ==
  /\ job[j].pc = "finish_accounts" => status = "connected"
  /\ job[j].pc = "relink" => \A a \in Accounts : accounts[a] = None \/ a \in job[j].todo
  /\ job[j].pc = "upsert" =>
       /\ status = "connected"
       /\ \A a \in Accounts : accounts[a] \in {None, "connected"} \/ a \in job[j].todo

Shown == \A a \in Accounts : accounts[a] \in {None, status}

\* Between the writes of the handler, none of which was lost, and before the first
\* of a relink.
Failing(j) ==
  /\ job[j].pc = "fail_accounts" => status = job[j].kind
  /\ job[j].pc \in {"fail_alert", "relink"} => Shown

\* Whoever must log in again has been told, or is about to be.
Told ==
  status = "requires_reauth" =>
    alerted \/ \E j \in Jobs : job[j].pc \in {"fail_accounts", "fail_alert"}

Agreed == Quiet => Shown

Sound == Told /\ Agreed /\ \A j \in Jobs : Failing(j)

StatusInv ==
  /\ SyncForm /\ Known /\ Alone
  /\ ~overlapped => \A j \in Jobs : Ending(j)
  /\ ~overlapped /\ ~cut => Sound

--------------------------------------------------------------------------------
(* One job moves *)

LEMMA Moves ==
  ASSUME SyncForm, NEW j \in Jobs, NEW r, Move(j, r)
  PROVE  /\ DOMAIN job' = Jobs /\ job'[j] = r
         /\ \A k \in Jobs \ {j} : job'[k] = job[k]
BY DEF SyncForm, Move

\* A job that keeps running, or starts beside none, leaves at most one at work.
LEMMA StaysAlone ==
  ASSUME StatusInv, NEW j \in Jobs, NEW r, Move(j, r),
         overlapped \/ Running(j) \/ Quiet \/ r.pc \in {"idle", "waiting"},
         overlapped => overlapped'
  PROVE  Alone'
<1> SUFFICES ASSUME ~overlapped', NEW i \in Jobs, NEW k \in Jobs,
                    job'[i].pc \notin {"idle", "waiting"}, job'[k].pc \notin {"idle", "waiting"}
             PROVE  i = k
  BY DEF Alone, Running
<1>1. SyncForm /\ Alone
  BY DEF StatusInv
<1>2. /\ job'[j] = r
      /\ \A n \in Jobs \ {j} : job'[n] = job[n]
  BY <1>1, Moves
<1>3. QED
  BY <1>1, <1>2 DEF Alone, Running, Quiet

\* What a record of a job that moves says of itself.
RecordForm(r) ==
  /\ "pc" \in DOMAIN r
  /\ r.pc \in {"failing", "fail_accounts", "fail_alert"} => "kind" \in DOMAIN r /\ r.kind \in Statuses
  /\ r.pc \in {"relink", "upsert", "refresh"} => "todo" \in DOMAIN r /\ r.todo \subseteq exposed

LEMMA FormMoves ==
  ASSUME SyncForm, NEW j \in Jobs, NEW r, Move(j, r), RecordForm(r), status' \in Statuses,
         UNCHANGED exposed
  PROVE  SyncForm'
<1>1. /\ DOMAIN job' = Jobs /\ job'[j] = r
      /\ \A k \in Jobs \ {j} : job'[k] = job[k]
  BY Moves
<1>2. JobForm(j)'
  BY <1>1 DEF RecordForm, JobForm, Recording, Linking
<1>3. \A k \in Jobs \ {j} : JobForm(k)'
  BY <1>1 DEF SyncForm, JobForm, Recording, Linking
<1>4. QED
  BY <1>1, <1>2, <1>3 DEF SyncForm

\* The only one that runs goes on, and the others rest.
LEMMA OneMoves ==
  ASSUME StatusInv, NEW j \in Jobs, NEW r, Move(j, r), ~overlapped, Running(j) \/ Quiet
  PROVE  \A k \in Jobs \ {j} : job[k].pc \in {"idle", "waiting"} /\ job'[k].pc \in {"idle", "waiting"}
<1>1. SyncForm /\ Alone
  BY DEF StatusInv
<1>2. \A k \in Jobs \ {j} : job'[k] = job[k]
  BY <1>1, Moves
<1>3. QED
  BY <1>1, <1>2 DEF Alone, Running, Quiet

\* What is to be shown of one job that moves while the others keep their place.
LEMMA StatusMoves ==
  ASSUME StatusInv, NEW j \in Jobs, NEW r, Move(j, r), RecordForm(r), status' \in Statuses,
         UNCHANGED exposed, Known',
         overlapped => overlapped',
         overlapped' \/ Running(j) \/ Quiet,
         ~overlapped' => Ending(j)',
         ~overlapped' /\ ~cut' => Failing(j)' /\ Told' /\ (r.pc \in {"idle", "waiting"} => Shown')
  PROVE  StatusInv'
<1>1. SyncForm
  BY DEF StatusInv
<1>2. SyncForm' /\ job'[j] = r
  BY <1>1, FormMoves, Moves
<1>3. Alone'
  <2>1. CASE overlapped'
    BY <2>1 DEF Alone
  <2>2. CASE ~overlapped'
    BY <2>2, StaysAlone
  <2>3. QED
    BY <2>1, <2>2
<1>4. ASSUME ~overlapped' PROVE \A k \in Jobs \ {j} : Ending(k)' /\ Failing(k)'
  <2>1. \A k \in Jobs \ {j} : job'[k].pc \in {"idle", "waiting"}
    BY <1>4, OneMoves
  <2>2. QED
    BY <2>1 DEF Ending, Failing
<1>5. ~overlapped' => \A k \in Jobs : Ending(k)'
  BY <1>4
<1>6. ASSUME ~overlapped', ~cut' PROVE Sound'
  <2>1. Quiet' => r.pc \in {"idle", "waiting"}
    BY <1>2 DEF Quiet, Running
  <2>2. QED
    BY <1>4, <1>6, <2>1 DEF Sound, Agreed
<1>7. QED
  BY <1>2, <1>3, <1>5, <1>6 DEF StatusInv

\* What the invariant says of a job that goes on in the middle of a sync, with
\* nothing written that the item's status or accounts depend on.
Middle == {"refresh", "fetch", "apply", "insert", "finish", "failing"}

LEMMA GoesOn ==
  ASSUME StatusInv, NEW j \in Jobs, NEW r, Move(j, r), Running(j), RecordForm(r),
         r.pc \in Middle, job[j].pc \notin {"fail_accounts", "fail_alert"},
         UNCHANGED <<exposed, status, alerted, overlapped, cut>>, Known'
  PROVE  StatusInv'
<1>1. SyncForm
  BY DEF StatusInv
<1>2. job'[j] = r /\ \A n \in Jobs \ {j} : job'[n] = job[n]
  BY <1>1, Moves
<1>3. Ending(j)' /\ Failing(j)' /\ r.pc \notin {"idle", "waiting"}
  BY <1>2 DEF Ending, Failing, Middle
<1>4. ~overlapped /\ ~cut => Told'
  BY <1>2 DEF StatusInv, Sound, Told
<1>5. status' \in Statuses
  BY <1>1 DEF SyncForm
<1>6. QED
  BY <1>3, <1>4, <1>5, StatusMoves

--------------------------------------------------------------------------------
(* The actions *)

\* The aggregator's side changes nothing that is stored here.
LEMMA AggregatorOk ==
  ASSUME StatusInv, exposed \subseteq exposed', UNCHANGED <<stored, job, overlapped, cut>>
  PROVE  StatusInv'
<1>1. UNCHANGED <<status, accounts, alerted, job, overlapped, cut>>
  BY DEF stored
<1>2. SyncForm' /\ Known' /\ Alone'
  BY <1>1 DEF StatusInv, SyncForm, JobForm, Recording, Linking, Known, Alone, Running
<1>3. (\A j \in Jobs : Ending(j)) => \A j \in Jobs : Ending(j)'
  BY <1>1 DEF Ending
<1>4. Sound => Sound'
  BY <1>1 DEF Sound, Told, Agreed, Quiet, Running, Shown, Failing
<1>5. QED
  BY <1>1, <1>2, <1>3, <1>4 DEF StatusInv

LEMMA EnqueueOk ==
  ASSUME StatusInv, NEW j \in Jobs, Enqueue(j),
         UNCHANGED <<exposed, status, accounts, alerted, overlapped, cut>>
  PROVE  StatusInv'
<1>1. SyncForm /\ Known /\ Move(j, Waiting(Attempts)) /\ job[j].pc = "idle"
  BY DEF StatusInv, Enqueue, Move, Idle
<1>2. PICK r : r = Waiting(Attempts)
  OBVIOUS
<1>3. RecordForm(r) /\ r.pc = "waiting"
  BY <1>2 DEF Waiting, RecordForm
<1>4. /\ DOMAIN job' = Jobs /\ job'[j] = r
      /\ \A n \in Jobs \ {j} : job'[n] = job[n]
  BY <1>1, <1>2, Moves
<1>5. SyncForm' /\ Known'
  <2>1. Move(j, r) /\ status' \in Statuses
    BY <1>1, <1>2 DEF SyncForm
  <2>2. QED
    BY <1>1, <1>3, <2>1, FormMoves DEF Known
<1>6. Alone'
  BY <1>1, <1>2, <1>3, StaysAlone
<1>7. (\A k \in Jobs : Ending(k)) => \A k \in Jobs : Ending(k)'
  BY <1>3, <1>4 DEF Ending
<1>8. Sound => Sound'
  <2>1. \A k \in Jobs : Running(k)' <=> Running(k)
    BY <1>1, <1>3, <1>4 DEF Running
  <2>2. Shown' = Shown
    BY DEF Shown
  <2>3. Sound => Told' /\ Agreed'
    BY <1>1, <1>3, <1>4, <2>1, <2>2 DEF Sound, Told, Agreed, Quiet
  <2>4. Sound => \A k \in Jobs : Failing(k)'
    BY <1>3, <1>4, <2>2 DEF Sound, Failing
  <2>5. QED
    BY <2>3, <2>4 DEF Sound
<1>9. QED
  BY <1>5, <1>6, <1>7, <1>8 DEF StatusInv

\* A relink and a sync begin beside none, or beside one and have overlapped.
LEMMA RelinkOk == ASSUME StatusInv, NEW j \in Jobs, Relink(j) PROVE StatusInv'
<1>1. /\ SyncForm /\ Known /\ job[j].pc = "idle"
      /\ UNCHANGED <<exposed, status, accounts, alerted, cut>>
  BY DEF StatusInv, Relink, Idle, stored
<1>2. overlapped' <=> overlapped \/ ~Quiet
  BY Zenon DEF Relink
<1>3. PICK r : r = [pc |-> "relink", attempts |-> Attempts, todo |-> exposed]
  OBVIOUS
<1>4. Move(j, r)
  BY <1>3 DEF Relink
<1>5. RecordForm(r) /\ r.pc = "relink" /\ r.todo = exposed
  BY <1>3 DEF RecordForm
<1>6. job'[j] = r /\ \A n \in Jobs \ {j} : job'[n] = job[n]
  BY <1>1, <1>4, Moves
<1>7. Known' /\ status' \in Statuses
  BY <1>1 DEF Known, SyncForm
<1>8. Ending(j)'
  BY <1>1, <1>5, <1>6 DEF Ending, Known
<1>9. ~overlapped' /\ ~cut' => Failing(j)' /\ Told'
  <2>1. ~overlapped' /\ ~cut' => Shown /\ Told
    BY <1>1, <1>2 DEF StatusInv, Sound, Agreed
  <2>2. (Shown => Failing(j)') /\ (Told => Told')
    BY <1>1, <1>5, <1>6 DEF Failing, Shown, Told
  <2>3. QED
    BY <2>1, <2>2
<1>10. (overlapped => overlapped') /\ (overlapped' \/ Running(j) \/ Quiet)
  BY <1>2
<1>11. r.pc \notin {"idle", "waiting"}
  BY <1>5
<1>12. QED
  BY <1>1, <1>4, <1>5, <1>7, <1>8, <1>9, <1>10, <1>11, StatusMoves

LEMMA BeginOk == ASSUME StatusInv, NEW j \in Jobs, Begin(j) PROVE StatusInv'
<1>1. /\ SyncForm /\ Known /\ job[j].pc = "waiting"
      /\ UNCHANGED <<exposed, status, accounts, alerted, cut>>
  BY DEF StatusInv, Begin, Refused, provider, stored
<1>2. overlapped' <=> overlapped \/ ~Quiet
  BY Zenon DEF Begin
<1>3. PICK r : Move(j, r) /\ RecordForm(r) /\ r.pc \in {"refresh", "failing"}
  <2>1. CASE Refused(j)
    <3>1. PICK r : r = [pc |-> "failing", attempts |-> job[j].attempts, kind |-> "requires_reauth"]
      OBVIOUS
    <3>2. Move(j, r)
      BY <2>1, <3>1 DEF Refused, Throw
    <3>3. RecordForm(r) /\ r.pc = "failing"
      BY <3>1 DEF RecordForm, Statuses
    <3>4. QED
      BY <3>2, <3>3
  <2>2. CASE ~Refused(j)
    <3>1. PICK r : r = [pc |-> "refresh", attempts |-> job[j].attempts, cursor |-> cursor,
                        todo |-> exposed]
      OBVIOUS
    <3>2. Move(j, r)
      BY <2>2, <3>1 DEF Begin
    <3>3. RecordForm(r) /\ r.pc = "refresh"
      BY <3>1 DEF RecordForm
    <3>4. QED
      BY <3>2, <3>3
  <2>3. QED
    BY <2>1, <2>2
<1>4. job'[j] = r /\ \A n \in Jobs \ {j} : job'[n] = job[n]
  BY <1>1, <1>3, Moves
<1>5. Known' /\ status' \in Statuses
  BY <1>1 DEF Known, SyncForm
<1>6. Ending(j)' /\ Failing(j)'
  BY <1>3, <1>4 DEF Ending, Failing
<1>7. ~overlapped' /\ ~cut' => Told'
  BY <1>1, <1>2, <1>4 DEF StatusInv, Sound, Told
<1>8. (overlapped => overlapped') /\ (overlapped' \/ Running(j) \/ Quiet)
  BY <1>2
<1>9. r.pc \notin {"idle", "waiting"}
  BY <1>3
<1>10. QED
  BY <1>1, <1>3, <1>5, <1>6, <1>7, <1>8, <1>9, StatusMoves

\* The writes of a relink.
LEMMA RelinkItemOk == ASSUME StatusInv, NEW j \in Jobs, RelinkItem(j) PROVE StatusInv'
<1>1. /\ SyncForm /\ Known /\ JobForm(j) /\ Running(j) /\ Linking(j) /\ job[j].pc = "relink"
      /\ status' = "connected" /\ UNCHANGED <<exposed, accounts, alerted, overlapped, cut>>
  BY DEF StatusInv, SyncForm, RelinkItem, provider, history, Running, Linking
<1>2. PICK r : r = [job[j] EXCEPT !.pc = "upsert"]
  OBVIOUS
<1>3. Move(j, r)
  BY <1>2 DEF RelinkItem
<1>4. RecordForm(r) /\ r.pc = "upsert" /\ r.todo = job[j].todo
  BY <1>1, <1>2 DEF RecordForm, JobForm
<1>5. job'[j] = r
  BY <1>1, <1>3, Moves
<1>6. Known' /\ status' \in Statuses
  BY <1>1 DEF Known, Statuses
<1>7. ~overlapped' => Ending(j)'
  <2>1. ~overlapped => \A a \in Accounts : accounts[a] = None \/ a \in job[j].todo
    BY <1>1 DEF StatusInv, Ending
  <2>2. QED
    BY <1>1, <1>4, <1>5, <2>1 DEF Ending
<1>8. Failing(j)' /\ Told' /\ r.pc \notin {"idle", "waiting"}
  BY <1>1, <1>4, <1>5 DEF Failing, Told
<1>9. QED
  BY <1>1, <1>3, <1>4, <1>6, <1>7, <1>8, StatusMoves

LEMMA UpsertOk == ASSUME StatusInv, NEW j \in Jobs, Upsert(j) PROVE StatusInv'
<1>1. /\ SyncForm /\ Known /\ JobForm(j) /\ Running(j)
      /\ job[j].pc \in {"upsert", "refresh"} /\ job[j].todo \subseteq exposed
      /\ "todo" \in DOMAIN job[j]
      /\ UNCHANGED <<exposed, status, alerted, overlapped, cut>>
  BY DEF StatusInv, SyncForm, JobForm, Upsert, provider, history, Running, Linking
<1>2. PICK a \in job[j].todo : /\ accounts' = [accounts EXCEPT ![a] = "connected"]
                              /\ Move(j, [job[j] EXCEPT !.todo = job[j].todo \ {a}])
  BY DEF Upsert
<1>3. PICK r : r = [job[j] EXCEPT !.todo = job[j].todo \ {a}]
  OBVIOUS
<1>4. Move(j, r)
  BY <1>2, <1>3
<1>5. RecordForm(r) /\ r.pc = job[j].pc /\ r.todo = job[j].todo \ {a}
  BY <1>1, <1>3 DEF RecordForm, JobForm, SyncForm
<1>6. job'[j] = r
  BY <1>1, <1>4, Moves
<1>7. Known' /\ \A b \in Accounts : accounts'[b] = IF b = a THEN "connected" ELSE accounts[b]
  BY <1>1, <1>2 DEF Known, Statuses
<1>8. CASE job[j].pc = "refresh"
  BY <1>1, <1>4, <1>5, <1>7, <1>8, GoesOn DEF Middle
<1>9. CASE job[j].pc = "upsert"
  <2>1. ~overlapped => Ending(j)'
    <3>1. ~overlapped => /\ status = "connected"
                         /\ \A b \in Accounts : accounts[b] \in {None, "connected"} \/ b \in job[j].todo
      BY <1>9 DEF StatusInv, Ending
    <3>2. QED
      BY <1>1, <1>5, <1>6, <1>7, <1>9, <3>1 DEF Ending
  <2>2. Failing(j)' /\ r.pc \notin {"idle", "waiting"}
    BY <1>5, <1>6, <1>9 DEF Failing
  <2>3. ~overlapped /\ ~cut => Told'
    <3>1. ~overlapped => status = "connected"
      BY <1>9 DEF StatusInv, Ending
    <3>2. QED
      BY <1>1, <3>1 DEF Told
  <2>4. status' \in Statuses
    BY <1>1 DEF SyncForm
  <2>5. QED
    BY <1>1, <1>4, <1>5, <1>7, <2>1, <2>2, <2>3, <2>4, StatusMoves
<1>10. QED
  BY <1>1, <1>8, <1>9

\* A relink that is through leaves the item and its accounts connected.
LEMMA EnqueueLinkedOk == ASSUME StatusInv, NEW j \in Jobs, EnqueueLinked(j) PROVE StatusInv'
<1>1. /\ SyncForm /\ Known /\ Running(j) /\ job[j].pc = "upsert" /\ job[j].todo = {}
      /\ UNCHANGED <<exposed, status, accounts, alerted, overlapped>>
  BY DEF StatusInv, EnqueueLinked, provider, stored, Running
<1>2. PICK r : r = Waiting(Attempts)
  OBVIOUS
<1>3. Move(j, r) /\ RecordForm(r) /\ r.pc = "waiting"
  BY <1>2 DEF EnqueueLinked, Waiting, RecordForm
<1>4. job'[j] = r
  BY <1>1, <1>3, Moves
<1>5. Known' /\ status' \in Statuses
  BY <1>1 DEF Known, SyncForm
<1>6. Ending(j)' /\ Failing(j)'
  BY <1>3, <1>4 DEF Ending, Failing
<1>7. ~overlapped => status = "connected" /\ Shown
  BY <1>1 DEF StatusInv, Ending, Shown
<1>8. ~overlapped => Told' /\ Shown'
  BY <1>1, <1>7 DEF Told, Shown
<1>9. QED
  BY <1>1, <1>3, <1>5, <1>6, <1>8, StatusMoves

\* The steps in the middle of a sync.
LEMMA MiddleOk ==
  ASSUME StatusInv, NEW j \in Jobs,
         \/ LoadAccounts(j) \/ Fetch(j) \/ Look(j) \/ Insert(j) \/ Modify(j) \/ SwallowModify(j)
         \/ DeleteRemoved(j) \/ SaveCursor(j) \/ CallFails(j)
  PROVE  StatusInv'
<1>0. "pc" \in DOMAIN job[j] /\ Known
  BY DEF StatusInv, SyncForm, JobForm
<1>1. /\ Running(j) /\ job[j].pc \notin {"fail_accounts", "fail_alert"}
      /\ UNCHANGED <<exposed, status, accounts, alerted, overlapped, cut>>
  BY DEF LoadAccounts, Fetch, Refused, Look, Insert, Modify, SwallowModify, DeleteRemoved, SaveCursor,
         CallFails, Applying, Running, Recording, provider, stored, history
<1>2. Known'
  BY <1>0, <1>1 DEF Known
<1>3. ASSUME NEW r, Move(j, r), "pc" \in DOMAIN r, r.pc \in {"fetch", "apply", "insert", "finish"}
      PROVE  StatusInv'
  <2>1. RecordForm(r) /\ r.pc \in Middle
    BY <1>3 DEF RecordForm, Middle
  <2>2. QED
    BY <1>1, <1>2, <1>3, <2>1, GoesOn
<1>4. ASSUME NEW kind \in {"requires_reauth", "error"}, Throw(j, kind) PROVE StatusInv'
  <2>1. PICK r : r = [pc |-> "failing", attempts |-> job[j].attempts, kind |-> kind]
    OBVIOUS
  <2>2. Move(j, r)
    BY <1>4, <2>1 DEF Throw
  <2>3. RecordForm(r) /\ r.pc \in Middle
    BY <2>1 DEF RecordForm, Middle, Statuses
  <2>4. QED
    BY <1>1, <1>2, <2>2, <2>3, GoesOn
<1>5. ASSUME Move(j, Applied(j)) PROVE StatusInv'
  <2>1. PICK r : r = Applied(j)
    OBVIOUS
  <2>2. "pc" \in DOMAIN r /\ r.pc = "apply"
    BY <1>0, <2>1 DEF Applied
  <2>3. QED
    BY <1>3, <1>5, <2>1, <2>2
<1>6. CASE LoadAccounts(j)
  BY <1>3, <1>6 DEF LoadAccounts
<1>7. CASE Fetch(j)
  BY <1>3, <1>4, <1>7 DEF Fetch, Refused
<1>8. CASE Look(j)
  BY <1>0, <1>3, <1>5, <1>8 DEF Look
<1>9. CASE Insert(j)
  BY <1>4, <1>5, <1>9 DEF Insert
<1>10. CASE Modify(j)
  BY <1>5, <1>10 DEF Modify
<1>11. CASE SwallowModify(j)
  BY <1>5, <1>11 DEF SwallowModify
<1>12. CASE DeleteRemoved(j)
  BY <1>0, <1>3, <1>12 DEF DeleteRemoved
<1>13. CASE SaveCursor(j)
  BY <1>3, <1>13 DEF SaveCursor
<1>14. CASE CallFails(j)
  BY <1>4, <1>14 DEF CallFails
<1>15. QED
  BY <1>6, <1>7, <1>8, <1>9, <1>10, <1>11, <1>12, <1>13, <1>14

\* The end of a sync: whatever was lost before, the item and its accounts are
\* connected.
LEMMA FinishOk == ASSUME StatusInv, NEW j \in Jobs, Finish(j) PROVE StatusInv'
<1>1. /\ SyncForm /\ Known /\ JobForm(j) /\ Running(j) /\ job[j].pc = "finish"
      /\ status' = "connected" /\ UNCHANGED <<exposed, accounts, alerted, overlapped, cut>>
  BY DEF StatusInv, SyncForm, Finish, provider, history, Running
<1>2. PICK r : r = [job[j] EXCEPT !.pc = "finish_accounts"]
  OBVIOUS
<1>3. Move(j, r)
  BY <1>2 DEF Finish
<1>4. RecordForm(r) /\ r.pc = "finish_accounts"
  BY <1>1, <1>2 DEF RecordForm, JobForm
<1>5. job'[j] = r
  BY <1>1, <1>3, Moves
<1>6. Known' /\ status' \in Statuses
  BY <1>1 DEF Known, Statuses
<1>7. Ending(j)' /\ Failing(j)' /\ Told' /\ r.pc \notin {"idle", "waiting"}
  BY <1>1, <1>4, <1>5 DEF Ending, Failing, Told
<1>8. QED
  BY <1>1, <1>3, <1>4, <1>6, <1>7, StatusMoves

LEMMA MarkedIs ==
  ASSUME Known, NEW to \in Statuses, accounts' = Marked(to), UNCHANGED exposed
  PROVE  Known' /\ \A a \in Accounts : accounts'[a] \in {None, to}
BY DEF Known, Marked, None, Statuses

LEMMA FinishAccountsOk == ASSUME StatusInv, NEW j \in Jobs, FinishAccounts(j) PROVE StatusInv'
<1>1. /\ SyncForm /\ Known /\ Running(j) /\ job[j].pc = "finish_accounts"
      /\ accounts' = Marked("connected") /\ UNCHANGED <<exposed, status, alerted, overlapped>>
  BY DEF StatusInv, FinishAccounts, provider, Running
<1>2. PICK r, to : r = Idle /\ to = "connected"
  OBVIOUS
<1>3. Move(j, r) /\ RecordForm(r) /\ r.pc = "idle"
  BY <1>2 DEF FinishAccounts, Idle, RecordForm
<1>4. job'[j] = r
  BY <1>1, <1>3, Moves
<1>5. Known' /\ \A a \in Accounts : accounts'[a] \in {None, to}
  <2>1. to \in Statuses /\ accounts' = Marked(to)
    BY <1>1, <1>2 DEF Statuses
  <2>2. QED
    BY <1>1, <2>1, MarkedIs
<1>6. status' \in Statuses /\ Ending(j)' /\ Failing(j)'
  BY <1>1, <1>3, <1>4 DEF SyncForm, Ending, Failing
<1>7. ~overlapped => status = to
  BY <1>1, <1>2 DEF StatusInv, Ending
<1>8. ~overlapped => Told' /\ Shown'
  BY <1>1, <1>2, <1>5, <1>7 DEF Told, Shown
<1>9. QED
  BY <1>1, <1>3, <1>5, <1>6, <1>8, StatusMoves

\* What the handler goes on to.
LEMMA AfterRecordIs ==
  ASSUME StatusInv, NEW j \in Jobs, Recording(j)
  PROVE  /\ RecordForm(AfterRecord(j))
         /\ job[j].pc = "failing" =>
              AfterRecord(j).pc = "fail_accounts" /\ AfterRecord(j).kind = job[j].kind
         /\ job[j].pc = "fail_accounts" /\ job[j].kind = "requires_reauth" =>
              AfterRecord(j).pc = "fail_alert"
         /\ job[j].pc = "fail_alert" => AfterRecord(j).pc \in {"idle", "waiting"}
         /\ job[j].pc = "fail_accounts" /\ job[j].kind # "requires_reauth" =>
              AfterRecord(j).pc \in {"idle", "waiting"}
<1>1. JobForm(j)
  BY DEF StatusInv, SyncForm
<1>2. PICK r : r = AfterRecord(j)
  OBVIOUS
<1>3. CASE job[j].pc = "failing"
  <2>1. r = [job[j] EXCEPT !.pc = "fail_accounts"]
    BY <1>2, <1>3 DEF AfterRecord
  <2>2. r.pc = "fail_accounts" /\ r.kind = job[j].kind /\ DOMAIN r = DOMAIN job[j]
    BY <1>1, <2>1 DEF JobForm, Recording
  <2>3. RecordForm(r)
    BY <1>1, <1>3, <2>2 DEF JobForm, Recording, RecordForm
  <2>4. QED
    BY <1>2, <1>3, <2>2, <2>3
<1>4. CASE job[j].pc = "fail_accounts" /\ job[j].kind = "requires_reauth"
  <2>1. r = [job[j] EXCEPT !.pc = "fail_alert"]
    BY <1>2, <1>4 DEF AfterRecord
  <2>2. r.pc = "fail_alert" /\ r.kind = job[j].kind /\ DOMAIN r = DOMAIN job[j]
    BY <1>1, <1>4, <2>1 DEF JobForm, Recording
  <2>3. RecordForm(r)
    BY <1>1, <1>4, <2>2 DEF JobForm, Recording, RecordForm
  <2>4. QED
    BY <1>2, <1>4, <2>2, <2>3
<1>5. CASE job[j].pc = "fail_alert" \/ (job[j].pc = "fail_accounts" /\ job[j].kind # "requires_reauth")
  <2>1. r = Requeued(j)
    BY <1>2, <1>5 DEF AfterRecord
  <2>2. "pc" \in DOMAIN r /\ r.pc \in {"idle", "waiting"}
    BY <2>1 DEF Requeued, Waiting, Idle
  <2>3. RecordForm(r)
    BY <2>2 DEF RecordForm
  <2>4. QED
    BY <1>2, <1>5, <2>2, <2>3
<1>6. QED
  BY <1>3, <1>4, <1>5 DEF Recording

\* The handler writes the item, its accounts and the alert.
LEMMA RecordOk ==
  ASSUME StatusInv, NEW j \in Jobs,
         RecordSyncError(j) \/ RecordAccountErrors(j) \/ RecordAlert(j)
  PROVE  StatusInv'
<1>1. /\ SyncForm /\ Known /\ JobForm(j) /\ Running(j) /\ Recording(j)
      /\ job[j].kind \in Statuses /\ UNCHANGED <<exposed, overlapped, cut>>
  BY DEF StatusInv, SyncForm, JobForm, RecordSyncError, RecordAccountErrors, RecordAlert, provider,
         history, Running, Recording
<1>2. PICK r, kind : r = AfterRecord(j) /\ kind = job[j].kind
  OBVIOUS
<1>3. Move(j, r)
  BY <1>2 DEF RecordSyncError, RecordAccountErrors, RecordAlert
<1>4. job'[j] = r /\ RecordForm(r)
  BY <1>1, <1>2, <1>3, Moves, AfterRecordIs
<1>5. r.pc \in {"fail_accounts", "fail_alert", "idle", "waiting"}
  BY <1>1, <1>2, AfterRecordIs DEF Recording
<1>6. Ending(j)'
  BY <1>4, <1>5 DEF Ending
<1>7. CASE RecordSyncError(j)
  <2>1. job[j].pc = "failing" /\ status' = kind /\ UNCHANGED <<accounts, alerted>>
    BY <1>2, <1>7 DEF RecordSyncError
  <2>2. r.pc = "fail_accounts" /\ r.kind = kind
    BY <1>1, <1>2, <2>1, AfterRecordIs
  <2>3. Known' /\ status' \in Statuses
    BY <1>1, <1>2, <2>1 DEF Known
  <2>4. Failing(j)' /\ Told'
    BY <1>4, <2>1, <2>2 DEF Failing, Told
  <2>5. QED
    BY <1>1, <1>3, <1>4, <1>6, <2>2, <2>3, <2>4, StatusMoves
<1>8. CASE RecordAccountErrors(j)
  <2>1. job[j].pc = "fail_accounts" /\ accounts' = Marked(kind) /\ UNCHANGED <<status, alerted>>
    BY <1>2, <1>8 DEF RecordAccountErrors
  <2>2. kind = "requires_reauth" => r.pc = "fail_alert"
    BY <1>1, <1>2, <2>1, AfterRecordIs
  <2>3. r.pc # "fail_accounts"
    <3>1. CASE kind = "requires_reauth"
      BY <2>2, <3>1
    <3>2. CASE kind # "requires_reauth"
      BY <1>1, <1>2, <2>1, <3>2, AfterRecordIs
    <3>3. QED
      BY <3>1, <3>2
  <2>4. Known' /\ \A a \in Accounts : accounts'[a] \in {None, kind}
    BY <1>1, <1>2, <2>1, MarkedIs
  <2>5. status' \in Statuses
    BY <1>1, <2>1 DEF SyncForm
  <2>6. ~overlapped /\ ~cut => status = kind
    BY <1>1, <1>2, <2>1 DEF StatusInv, Sound, Failing
  <2>7. ~overlapped /\ ~cut => Shown'
    BY <2>1, <2>4, <2>6 DEF Shown
  <2>8. ~overlapped /\ ~cut => Failing(j)' /\ Told'
    BY <1>4, <2>1, <2>2, <2>3, <2>6, <2>7 DEF Failing, Told
  <2>9. QED
    BY <1>1, <1>3, <1>4, <1>6, <2>4, <2>5, <2>7, <2>8, StatusMoves
<1>9. CASE RecordAlert(j)
  <2>1. job[j].pc = "fail_alert" /\ UNCHANGED <<status, accounts>>
    BY <1>9 DEF RecordAlert
  <2>2. PICK yes \in BOOLEAN : yes /\ alerted' = yes
    BY <1>9 DEF RecordAlert
  <2>3. r.pc \in {"idle", "waiting"}
    BY <1>1, <1>2, <2>1, AfterRecordIs
  <2>4. Known' /\ status' \in Statuses
    BY <1>1, <2>1 DEF Known, SyncForm
  <2>5. ~overlapped /\ ~cut => Shown
    BY <2>1 DEF StatusInv, Sound, Failing
  <2>6. Failing(j)' /\ Told' /\ (Shown => Shown')
    BY <1>4, <2>1, <2>2, <2>3 DEF Failing, Told, Shown
  <2>7. QED
    BY <1>1, <1>3, <1>4, <1>6, <2>4, <2>5, <2>6, StatusMoves
<1>10. QED
  BY <1>7, <1>8, <1>9

\* Whatever is cut short leaves what was written before it.
LEMMA CutOk ==
  ASSUME StatusInv, NEW j \in Jobs, SwallowRecord(j) \/ RelinkFails(j) \/ Crash(j)
  PROVE  StatusInv'
<1>1. PICK yes \in BOOLEAN : yes
  OBVIOUS
<1>2. /\ SyncForm /\ Known /\ Running(j)
      /\ UNCHANGED <<exposed, status, accounts, alerted, overlapped>>
  BY DEF StatusInv, SwallowRecord, RelinkFails, Crash, provider, stored, Recording, Linking, Running
<1>3. Known' /\ status' \in Statuses
  BY <1>2 DEF Known, SyncForm
<1>4. ASSUME NEW r, Move(j, r), RecordForm(r), cut',
             r.pc \in {"fail_accounts", "fail_alert", "idle", "waiting"}
      PROVE  StatusInv'
  <2>1. job'[j] = r
    BY <1>2, <1>4, Moves
  <2>2. Ending(j)'
    BY <1>4, <2>1 DEF Ending
  <2>3. QED
    BY <1>2, <1>3, <1>4, <2>2, StatusMoves
<1>5. RecordForm(Idle) /\ Idle.pc = "idle"
  BY DEF RecordForm, Idle
<1>6. CASE SwallowRecord(j)
  <2>1. PICK r : r = AfterRecord(j)
    OBVIOUS
  <2>2. Recording(j) /\ Move(j, r) /\ cut' = TRUE
    BY <1>6, <2>1 DEF SwallowRecord
  <2>3. RecordForm(r) /\ r.pc \in {"fail_accounts", "fail_alert", "idle", "waiting"}
    BY <2>1, <2>2, AfterRecordIs DEF Recording
  <2>4. QED
    BY <1>4, <2>2, <2>3
<1>7. CASE Crash(j)
  <2>1. RecordForm(Waiting(job[j].attempts)) /\ Waiting(job[j].attempts).pc = "waiting"
    BY DEF RecordForm, Waiting
  <2>2. cut' = TRUE /\ (Move(j, Waiting(job[j].attempts)) \/ Move(j, Idle))
    BY <1>7 DEF Crash
  <2>3. QED
    BY <1>4, <1>5, <2>1, <2>2
<1>8. CASE RelinkFails(j)
  <2>1. Move(j, Idle) /\ Linking(j)
    BY <1>8 DEF RelinkFails
  <2>2. cut' <=> cut \/ job[j].pc = "upsert"
    BY <1>8, Zenon DEF RelinkFails
  <2>3. CASE cut'
    BY <1>4, <1>5, <2>1, <2>3
  <2>4. CASE ~cut'
    <3>1. job[j].pc = "relink" /\ ~cut
      BY <2>1, <2>2, <2>4 DEF Linking
    <3>2. PICK r : r = Idle
      OBVIOUS
    <3>3. Move(j, r) /\ RecordForm(r) /\ r.pc = "idle"
      BY <1>5, <2>1, <3>2
    <3>4. job'[j] = r /\ \A k \in Jobs \ {j} : job'[k] = job[k]
      BY <1>2, <3>3, Moves
    <3>5. Ending(j)' /\ Failing(j)'
      BY <3>3, <3>4 DEF Ending, Failing
    <3>6. ~overlapped => Told'
      BY <1>2, <3>1, <3>4 DEF StatusInv, Sound, Told
    <3>7. ~overlapped => Shown'
      BY <1>2, <3>1 DEF StatusInv, Sound, Failing, Shown
    <3>8. QED
      BY <1>2, <1>3, <3>3, <3>5, <3>6, <3>7, StatusMoves
  <2>5. QED
    BY <2>3, <2>4
<1>9. QED
  BY <1>6, <1>7, <1>8

--------------------------------------------------------------------------------
LEMMA StatusInit == Init => StatusInv
<1> SUFFICES ASSUME Init PROVE StatusInv
  OBVIOUS
<1>1. SyncForm
  BY DEF Init, SyncForm, JobForm, Recording, Linking, Idle, Statuses
<1>2. Known
  BY DEF Init, Known, Statuses
<1>3. \A j \in Jobs : job[j].pc = "idle"
  BY DEF Init, Idle
<1>4. Shown /\ status = "connected"
  BY DEF Init, Shown
<1>5. QED
  BY <1>1, <1>2, <1>3, <1>4 DEF StatusInv, Alone, Running, Sound, Told, Agreed, Ending, Failing

LEMMA StatusStep == StatusInv /\ [Next]_vars => StatusInv'
<1> SUFFICES ASSUME StatusInv, [Next]_vars PROVE StatusInv'
  OBVIOUS
<1>1. ASSUME NEW t \in Txns, Amend(t) \/ Retract(t) \/ \E a \in Accounts : Post(t, a)
      PROVE  StatusInv'
  BY <1>1, AggregatorOk DEF Amend, Retract, Post, Append1, history
<1>2. ASSUME (\E a \in Accounts : Expose(a)) \/ Expire PROVE StatusInv'
  BY <1>2, AggregatorOk DEF Expose, Expire, history
<1>3. ASSUME NEW j \in Jobs, Daily(j) \/ MemberSync(j) PROVE StatusInv'
  BY <1>3, EnqueueOk DEF Daily, MemberSync, provider, stored, history
<1>4. ASSUME NEW j \in Jobs, Relink(j) PROVE StatusInv'
  BY <1>4, RelinkOk
<1>5. ASSUME NEW j \in Jobs, Step(j) PROVE StatusInv'
  BY <1>5, RelinkItemOk, UpsertOk, EnqueueLinkedOk, BeginOk, MiddleOk, FinishOk, FinishAccountsOk,
     RecordOk DEF Step
<1>6. ASSUME NEW j \in Jobs, SwallowModify(j) \/ CallFails(j) PROVE StatusInv'
  BY <1>6, MiddleOk
<1>7. ASSUME NEW j \in Jobs, SwallowRecord(j) \/ RelinkFails(j) \/ Crash(j) PROVE StatusInv'
  BY <1>7, CutOk
<1>8. CASE UNCHANGED vars
  BY <1>8, AggregatorOk DEF vars, provider, history
<1>9. QED
  BY <1>1, <1>2, <1>3, <1>4, <1>5, <1>6, <1>7, <1>8 DEF Next

\* With no sync or relink under way and never two at once: since one last ran to its
\* end, and unless one died, a relink failed half way or the handler of a failed
\* sync lost a write, an item's accounts show its status, and a member who must log
\* in again has been told (recordSyncError) - however syncs fail, are refused and
\* are run again, and whatever the bank exposes meanwhile.
THEOREM StatusIsShown == Spec => []UndisturbedStatus
<1>1. StatusInv => UndisturbedStatus
  BY DEF StatusInv, Sound, Told, Agreed, Shown, UndisturbedStatus, Quiet, Running
<1>2. QED
  BY <1>1, StatusInit, StatusStep, PTL DEF Spec

--------------------------------------------------------------------------------
(* The log and what it says of a transaction *)

Changes ==
  [kind : {"added"}, txn : Txns, account : Accounts, amount : Nat]
    \union [kind : {"modified"}, txn : Txns, amount : Nat]
    \union [kind : {"removed"}, txn : Txns]

\* A transaction is added before it is changed, and removed last.
LogSound ==
  /\ log \in Seq(Changes)
  /\ \A i, k \in 1..Len(log) : i < k /\ log[i].txn = log[k].txn =>
       log[i].kind # "removed" /\ log[k].kind # "added"
  /\ \A k \in 1..Len(log) : log[k].kind # "added" =>
       \E i \in 1..k - 1 : log[i].txn = log[k].txn /\ log[i].kind = "added"

\* No change of t behind a, up to b.
Untold(t, a, b) == \A i \in a + 1..b : log[i].txn # t

\* What change m leaves, and what row the first p changes leave of t.
Leaves(m) == IF log[m].kind = "removed" THEN Absent ELSE log[m].amount
Stands(row, t, p) ==
  \/ Untold(t, 0, p) /\ row = Absent
  \/ \E m \in 1..p : log[m].txn = t /\ Untold(t, m, p) /\ row = Leaves(m)

Stepped(row, t, i) == IF log[i].txn = t THEN Redo(row, log[i]) ELSE row

\* The rows that replaying from c goes through.
IsReplay(f, row, t, c) ==
  f = [i \in c..Len(log) |->
         IF i = c THEN row
         ELSE IF log[i].txn = t THEN Redo(f[i - 1], log[i]) ELSE f[i - 1]]
IsTrace(f, row, t, c) ==
  /\ f[c] = row /\ \A i \in c + 1..Len(log) : f[i] = Stepped(f[i - 1], t, i)
  /\ \A i \in c..Len(log) : f[i] \in Int

\* Nothing between a and b removes t.
Kept(t, a, b) == \A i \in a + 1..b : log[i].txn = t => log[i].kind # "removed"

LEMMA Entry ==
  ASSUME LogSound, NEW i \in 1..Len(log)
  PROVE  /\ log[i].kind \in {"added", "modified", "removed"} /\ log[i].txn \in Txns
         /\ log[i].kind # "removed" => log[i].amount \in Nat
<1>1. log[i] \in Changes /\ Len(log) \in Nat
  BY DEF LogSound
<1>2. CASE log[i] \in [kind : {"added"}, txn : Txns, account : Accounts, amount : Nat]
  BY <1>2
<1>3. CASE log[i] \in [kind : {"modified"}, txn : Txns, amount : Nat]
  BY <1>3
<1>4. CASE log[i] \in [kind : {"removed"}, txn : Txns]
  BY <1>4
<1>5. QED
  BY <1>1, <1>2, <1>3, <1>4 DEF Changes

LEMMA SteppedIs ==
  ASSUME LogSound, NEW i \in 1..Len(log), NEW row \in Int, NEW t
  PROVE  /\ Stepped(row, t, i) \in Int
         /\ log[i].txn # t => Stepped(row, t, i) = row
         /\ log[i].txn = t /\ log[i].kind = "added" =>
              Stepped(row, t, i) = IF row = Absent THEN log[i].amount ELSE row
         /\ log[i].txn = t /\ log[i].kind = "modified" =>
              Stepped(row, t, i) = IF row = Absent THEN Absent ELSE log[i].amount
         /\ log[i].txn = t /\ log[i].kind = "removed" => Stepped(row, t, i) = Absent
BY Entry DEF Stepped, Redo, Absent

LEMMA LogLength == LogSound => Len(log) \in Nat
BY DEF LogSound

\* Replaying goes through a row for each change.
LEMMA Traced ==
  ASSUME LogSound, NEW t, NEW row \in Int, NEW c \in 0..Len(log)
  PROVE  \E f : IsTrace(f, row, t, c) /\ Replay(row, t, c) = f[Len(log)]
<1>1. PICK F : F = [i \in Nat |-> [v \in Int |-> IF i \in 1..Len(log) THEN Stepped(v, t, i) ELSE v]]
  OBVIOUS
<1>2. F \in [Nat -> [Int -> Int]]
  BY <1>1, SteppedIs
<1>3. Len(log) \in Nat /\ c \in Nat /\ c <= Len(log)
  BY LogLength
<1>4. PICK V, n : V = Int /\ n = Len(log)
  OBVIOUS
<1>5. PICK h \in [c..Len(log) -> Int] : h[c] = row /\ \A i \in c + 1..Len(log) : h[i] = F[i][h[i - 1]]
  <2>1. row \in V /\ F \in [Nat -> [V -> V]] /\ c \in Nat /\ n \in Nat /\ c <= n
    BY <1>2, <1>3, <1>4
  <2>2. \E h \in [c..n -> V] : Computes(h, row, F, c, n)
    BY <2>1, Recursion
  <2>3. QED
    BY <1>4, <2>2 DEF Computes
<1>6. ASSUME NEW i \in c + 1..Len(log) PROVE h[i] = Stepped(h[i - 1], t, i)
  <2>1. i \in Nat /\ i \in 1..Len(log) /\ i - 1 \in c..Len(log)
    BY <1>3
  <2>2. h[i - 1] \in Int
    BY <1>5, <2>1
  <2>3. F[i] = [v \in Int |-> IF i \in 1..Len(log) THEN Stepped(v, t, i) ELSE v]
    BY <1>1, <2>1
  <2>4. F[i][h[i - 1]] = Stepped(h[i - 1], t, i)
    BY <2>1, <2>2, <2>3
  <2>5. QED
    BY <1>5, <2>4
<1>7. IsReplay(h, row, t, c)
  BY <1>3, <1>5, <1>6 DEF IsReplay, Stepped
<1>8. PICK f : f = CHOOSE g : IsReplay(g, row, t, c)
  OBVIOUS
<1>9. IsReplay(f, row, t, c)
  BY <1>7, <1>8
<1>10. Replay(row, t, c) = f[Len(log)]
  BY <1>8 DEF Replay, IsReplay
<1>11. f[c] = row /\ \A i \in c + 1..Len(log) : f[i] = Stepped(f[i - 1], t, i)
  <2>1. ASSUME NEW i \in c..Len(log)
        PROVE  f[i] = IF i = c THEN row
                      ELSE IF log[i].txn = t THEN Redo(f[i - 1], log[i]) ELSE f[i - 1]
    BY <1>9, Zenon DEF IsReplay
  <2>2. c \in c..Len(log) /\ \A i \in c + 1..Len(log) : i \in c..Len(log) /\ i # c
    BY <1>3
  <2>3. QED
    BY <2>1, <2>2 DEF Stepped
<1>12. \A i \in c..Len(log) : f[i] \in Int
  <2>1. PICK S : S = {i \in c..Len(log) : f[i] \in Int}
    OBVIOUS
  <2>2. c \in S
    BY <1>3, <1>11, <2>1
  <2>3. ASSUME NEW i \in c + 1..Len(log), i - 1 \in S PROVE i \in S
    <3>1. f[i] = Stepped(f[i - 1], t, i) /\ f[i - 1] \in Int /\ i \in 1..Len(log) /\ i \in c..Len(log)
      BY <1>3, <1>11, <2>1, <2>3
    <3>2. QED
      BY <2>1, <3>1, SteppedIs
  <2>4. \A i \in c..Len(log) : i \in S
    BY <1>3, <2>2, <2>3, Climb
  <2>5. QED
    BY <2>1, <2>4
<1>13. QED
  BY <1>10, <1>11, <1>12 DEF IsTrace

\* Replaying past changes of others changes nothing.
LEMMA TraceUntold ==
  ASSUME LogSound, NEW t, NEW row \in Int, NEW c \in 0..Len(log), NEW f, IsTrace(f, row, t, c),
         NEW p \in c..Len(log), Untold(t, c, p)
  PROVE  f[p] = row
<1>1. PICK S : S = {i \in c..p : f[i] = row}
  OBVIOUS
<1>2. c \in Nat /\ p \in Nat /\ Len(log) \in Nat
  BY LogLength
<1>3. c \in S
  BY <1>1, <1>2 DEF IsTrace
<1>4. ASSUME NEW i \in c + 1..p, i - 1 \in S PROVE i \in S
  BY <1>1, <1>2, <1>4 DEF IsTrace, Stepped, Untold
<1>5. \A i \in c..p : i \in S
  BY <1>2, <1>3, <1>4, Climb
<1>6. QED
  BY <1>1, <1>2, <1>5

\* A row stays while its transaction is not removed.
LEMMA TracePresent ==
  ASSUME LogSound, NEW t, NEW row \in Int, NEW c \in 0..Len(log), NEW f, IsTrace(f, row, t, c),
         NEW a \in c..Len(log), NEW b \in a..Len(log), f[a] # Absent, Kept(t, a, b)
  PROVE  f[b] # Absent
<1>1. PICK S : S = {i \in a..b : f[i] # Absent}
  OBVIOUS
<1>2. a \in Nat /\ b \in Nat /\ c \in Nat /\ Len(log) \in Nat
  BY LogLength
<1>3. a \in S
  BY <1>1, <1>2
<1>4. ASSUME NEW i \in a + 1..b, i - 1 \in S PROVE i \in S
  <2>1. /\ i \in 1..Len(log) /\ i \in a..b /\ f[i] = Stepped(f[i - 1], t, i)
        /\ f[i - 1] \in Int /\ f[i - 1] # Absent
    BY <1>1, <1>2, <1>4 DEF IsTrace
  <2>2. log[i].txn = t => log[i].kind # "removed"
    BY DEF Kept
  <2>3. f[i] # Absent
    BY <2>1, <2>2, Entry, SteppedIs DEF Absent
  <2>4. QED
    BY <1>1, <2>1, <2>3
<1>5. \A i \in a..b : i \in S
  BY <1>2, <1>3, <1>4, Climb
<1>6. QED
  BY <1>1, <1>2, <1>5

\* The next change makes what it leaves of the row the changes before it leave.
LEMMA StandsOn ==
  ASSUME LogSound, NEW t, NEW i \in 1..Len(log), NEW row \in Int, Stands(row, t, i - 1)
  PROVE  Stands(Stepped(row, t, i), t, i)
<1>0. Len(log) \in Nat
  BY LogLength
<1>1. CASE log[i].txn # t
  <2>1. Stepped(row, t, i) = row
    BY <1>1, SteppedIs
  <2>2. CASE Untold(t, 0, i - 1) /\ row = Absent
    BY <1>0, <1>1, <2>1, <2>2 DEF Stands, Untold
  <2>3. CASE \E m \in 1..i - 1 : log[m].txn = t /\ Untold(t, m, i - 1) /\ row = Leaves(m)
    <3>1. PICK m \in 1..i - 1 : log[m].txn = t /\ Untold(t, m, i - 1) /\ row = Leaves(m)
      BY <2>3
    <3>2. m \in 1..i /\ Untold(t, m, i)
      BY <1>0, <1>1, <3>1 DEF Untold
    <3>3. QED
      BY <2>1, <3>1, <3>2 DEF Stands
  <2>4. QED
    BY <2>2, <2>3 DEF Stands
<1>2. CASE log[i].txn = t
  <2>1. Stepped(row, t, i) = Leaves(i)
    <3>1. CASE log[i].kind = "added"
      <4>1. \A m \in 1..i - 1 : log[m].txn # t
        BY <1>0, <1>2, <3>1 DEF LogSound
      <4>2. row = Absent
        BY <4>1 DEF Stands
      <4>3. QED
        BY <1>2, <3>1, <4>2, SteppedIs DEF Leaves
    <3>2. CASE log[i].kind = "modified"
      <4>1. PICK k \in 1..i - 1 : log[k].txn = t
        BY <1>0, <1>2, <3>2 DEF LogSound
      <4>2. PICK m \in 1..i - 1 : log[m].txn = t /\ row = Leaves(m)
        BY <1>0, <4>1 DEF Stands, Untold
      <4>3. m \in 1..Len(log) /\ log[m].kind # "removed"
        BY <1>0, <1>2, <4>2 DEF LogSound
      <4>4. row # Absent
        BY <4>2, <4>3, Entry DEF Leaves, Absent
      <4>5. QED
        BY <1>2, <3>2, <4>4, SteppedIs DEF Leaves
    <3>3. CASE log[i].kind = "removed"
      BY <1>2, <3>3, SteppedIs DEF Leaves
    <3>4. QED
      BY <3>1, <3>2, <3>3, Entry
  <2>2. Untold(t, i, i)
    BY <1>0 DEF Untold
  <2>3. QED
    BY <1>0, <1>2, <2>1, <2>2 DEF Stands
<1>3. QED
  BY <1>1, <1>2

\* From where a replay has the row of the log, it goes on having it.
LEMMA TraceStands ==
  ASSUME LogSound, NEW t, NEW row \in Int, NEW c \in 0..Len(log), NEW f, IsTrace(f, row, t, c),
         NEW a \in c..Len(log), Stands(f[a], t, a)
  PROVE  Stands(f[Len(log)], t, Len(log))
<1>1. PICK S : S = {i \in a..Len(log) : Stands(f[i], t, i)}
  OBVIOUS
<1>2. a \in Nat /\ c \in Nat /\ Len(log) \in Nat
  BY LogLength
<1>3. a \in S
  BY <1>1, <1>2
<1>4. ASSUME NEW i \in a + 1..Len(log), i - 1 \in S PROVE i \in S
  <2>1. /\ i \in 1..Len(log) /\ i \in a..Len(log) /\ f[i] = Stepped(f[i - 1], t, i)
        /\ f[i - 1] \in Int /\ Stands(f[i - 1], t, i - 1)
    BY <1>1, <1>2, <1>4 DEF IsTrace
  <2>2. Stands(f[i], t, i)
    BY <2>1, StandsOn
  <2>3. QED
    BY <1>1, <2>1, <2>2
<1>5. \A i \in a..Len(log) : i \in S
  BY <1>2, <1>3, <1>4, Climb
<1>6. QED
  BY <1>1, <1>2, <1>5

LEMMA StandsOnce ==
  ASSUME LogSound, NEW t, NEW p \in 0..Len(log), NEW v, NEW w, Stands(v, t, p), Stands(w, t, p)
  PROVE  v = w
<1>1. Len(log) \in Nat
  BY LogLength
<1>2. QED
  BY <1>1 DEF Stands, Untold

\* The bank holds what all the changes leave.
LEMMA TruthStands ==
  ASSUME LogSound, NEW t
  PROVE  Stands(Truth(t), t, Len(log)) /\ Truth(t) \in Int
<1>1. Absent \in Int /\ 0 \in 0..Len(log) /\ Len(log) \in Nat
  BY LogLength DEF Absent
<1>2. PICK f : /\ IsTrace(f, Absent, t, 0) /\ Replay(Absent, t, 0) = f[Len(log)]
  BY <1>1, Traced
<1>3. f[0] = Absent
  BY <1>2 DEF IsTrace
<1>4. Stands(f[0], t, 0)
  BY <1>3 DEF Stands, Untold
<1>5. Stands(f[Len(log)], t, Len(log))
  <2>1. PICK row, c, a : row = Absent /\ c = 0 /\ a = 0
    OBVIOUS
  <2>2. /\ row \in Int /\ c \in 0..Len(log) /\ a \in c..Len(log)
        /\ IsTrace(f, row, t, c) /\ Stands(f[a], t, a)
    BY <1>1, <1>2, <1>4, <2>1
  <2>3. QED
    BY <2>2, TraceStands
<1>6. Truth(t) = f[Len(log)]
  BY <1>2 DEF Truth
<1>7. f[Len(log)] \in Int
  BY <1>1, <1>2 DEF IsTrace
<1>8. QED
  BY <1>5, <1>6, <1>7

LEMMA LastEntry ==
  ASSUME LogSound, NEW t, NEW a \in 0..Len(log), NEW b \in 0..Len(log), ~Untold(t, a, b)
  PROVE  \E m \in a + 1..b : log[m].txn = t /\ Untold(t, m, b)
<1>1. PICK T : T = {i \in a + 1..b : log[i].txn = t}
  OBVIOUS
<1>2. Len(log) \in Nat
  BY LogLength
<1>3. b \in Nat /\ T \in SUBSET (0..b) /\ T # {}
  BY <1>1, <1>2 DEF Untold
<1>4. PICK m \in T : \A k \in T : k <= m
  BY <1>3, GreatestElement
<1>5. QED
  BY <1>1, <1>2, <1>4 DEF Untold

\* Replaying from a cursor what a later prefix leaves gives what the bank holds.
LEMMA CatchUp ==
  ASSUME LogSound, NEW t, NEW c \in 0..Len(log), NEW p \in c..Len(log), NEW row \in Int,
         Stands(row, t, p)
  PROVE  Replay(row, t, c) = Truth(t)
<1>1. Len(log) \in Nat
  BY LogLength
<1>2. PICK f : /\ IsTrace(f, row, t, c) /\ Replay(row, t, c) = f[Len(log)]
  BY Traced
<1>3. \E m \in c..p : Stands(f[m], t, m)
  <2>1. CASE Untold(t, c, p)
    <3>1. f[p] = row
      BY <1>2, <2>1, TraceUntold
    <3>2. QED
      BY <1>1, <3>1
  <2>2. CASE ~Untold(t, c, p)
    <3>1. p \in 0..Len(log)
      BY <1>1
    <3>2. PICK m \in c + 1..p : log[m].txn = t /\ Untold(t, m, p)
      BY <2>2, <3>1, LastEntry
    <3>3. /\ m \in 1..Len(log) /\ m \in c..p /\ m - 1 \in c..Len(log) /\ m - 1 \in 0..Len(log)
          /\ f[m] = Stepped(f[m - 1], t, m) /\ f[m - 1] \in Int
      BY <1>1, <1>2, <3>2 DEF IsTrace
    <3>4. row = Leaves(m)
      <4>1. \A n \in 1..p : log[n].txn = t /\ Untold(t, n, p) => n = m
        BY <1>1, <3>2 DEF Untold
      <4>2. ~Untold(t, 0, p)
        BY <1>1, <3>2 DEF Untold
      <4>3. QED
        BY <4>1, <4>2 DEF Stands
    <3>5. f[m] = Leaves(m)
      <4>1. CASE log[m].kind = "removed"
        BY <3>2, <3>3, <4>1, SteppedIs DEF Leaves
      <4>2. CASE log[m].kind = "added"
        <5>1. \A i \in c + 1..m - 1 : log[i].txn # t
          <6>1. SUFFICES ASSUME NEW i \in c + 1..m - 1, log[i].txn = t PROVE FALSE
            OBVIOUS
          <6>2. i \in 1..Len(log) /\ i < m
            BY <1>1, <3>2
          <6>3. QED
            BY <3>2, <3>3, <4>2, <6>1, <6>2 DEF LogSound
        <5>5. Untold(t, c, m - 1)
          BY <5>1 DEF Untold
        <5>2. f[m - 1] = row
          BY <1>2, <3>3, <5>5, TraceUntold
        <5>3. f[m] = IF row = Absent THEN log[m].amount ELSE row
          BY <3>2, <3>3, <4>2, <5>2, SteppedIs
        <5>4. QED
          BY <3>4, <4>2, <5>3 DEF Leaves
      <4>3. CASE log[m].kind = "modified"
        <5>1. f[c] = row /\ row # Absent
          BY <1>2, <3>3, <3>4, <4>3, Entry DEF IsTrace, Leaves, Absent
        <5>2. Kept(t, c, m - 1)
          BY <1>1, <3>2, <3>3 DEF LogSound, Kept
        <5>3. c \in c..Len(log) /\ m - 1 \in c..Len(log)
          BY <1>1, <3>3
        <5>4. f[m - 1] # Absent
          BY <1>2, <5>1, <5>2, <5>3, TracePresent
        <5>5. QED
          BY <3>2, <3>3, <4>3, <5>4, SteppedIs DEF Leaves
      <4>4. QED
        BY <3>3, <4>1, <4>2, <4>3, Entry
    <3>6. Untold(t, m, m)
      BY <1>1 DEF Untold
    <3>7. QED
      BY <1>1, <3>2, <3>3, <3>5, <3>6 DEF Stands
  <2>3. QED
    BY <2>1, <2>2
<1>4. PICK m \in c..p : Stands(f[m], t, m)
  BY <1>3
<1>5. m \in c..Len(log)
  BY <1>1
<1>6. Stands(f[Len(log)], t, Len(log))
  BY <1>2, <1>4, <1>5, TraceStands
<1>7. Len(log) \in 0..Len(log)
  BY <1>1
<1>8. QED
  BY <1>2, <1>6, <1>7, TruthStands, StandsOnce

\* A transaction that stands was never removed.
LEMMA StandingIsKept ==
  ASSUME LogSound, NEW t, Truth(t) # Absent, NEW i \in 1..Len(log), log[i].txn = t
  PROVE  log[i].kind # "removed"
<1>1. Len(log) \in Nat
  BY LogLength
<1>2. SUFFICES ASSUME log[i].kind = "removed" PROVE FALSE
  OBVIOUS
<1>3. Untold(t, i, Len(log))
  BY <1>1, <1>2 DEF LogSound, Untold
<1>4. Stands(Absent, t, Len(log))
  BY <1>1, <1>2, <1>3 DEF Stands, Leaves
<1>5. Len(log) \in 0..Len(log)
  BY <1>1
<1>6. QED
  BY <1>4, <1>5, TruthStands, StandsOnce

\* Replaying leaves a row of what the bank still holds, if there is one or it is
\* added on the way.
LEMMA StaysPresent ==
  ASSUME LogSound, NEW t, NEW c \in 0..Len(log), NEW row \in Int, Truth(t) # Absent,
         row # Absent \/ \E i \in c + 1..Len(log) : log[i].txn = t /\ log[i].kind = "added"
  PROVE  Replay(row, t, c) # Absent
<1>1. Len(log) \in Nat /\ c \in c..Len(log)
  BY LogLength
<1>2. PICK f : /\ IsTrace(f, row, t, c) /\ Replay(row, t, c) = f[Len(log)]
  BY Traced
<1>3. \E a \in c..Len(log) : f[a] # Absent
  <2>1. CASE row # Absent
    BY <1>1, <1>2, <2>1 DEF IsTrace
  <2>2. CASE \E i \in c + 1..Len(log) : log[i].txn = t /\ log[i].kind = "added"
    <3>1. PICK i \in c + 1..Len(log) : log[i].txn = t /\ log[i].kind = "added"
      BY <2>2
    <3>2. /\ i \in 1..Len(log) /\ i \in c..Len(log)
          /\ f[i] = Stepped(f[i - 1], t, i) /\ f[i - 1] \in Int
      BY <1>1, <1>2 DEF IsTrace
    <3>3. f[i] # Absent
      BY <3>1, <3>2, Entry, SteppedIs DEF Absent
    <3>4. QED
      BY <3>2, <3>3
  <2>3. QED
    BY <2>1, <2>2
<1>4. PICK a \in c..Len(log) : f[a] # Absent
  BY <1>3
<1>5. Kept(t, a, Len(log))
  BY <1>1, StandingIsKept DEF Kept
<1>6. Len(log) \in a..Len(log)
  BY <1>1
<1>7. f[Len(log)] # Absent
  BY <1>2, <1>4, <1>5, <1>6, TracePresent
<1>8. QED
  BY <1>2, <1>7
--------------------------------------------------------------------------------
(* What a sync has read, and what of it is left to write *)

\* i is written before k.
Earlier(i, k) ==
  IF log[i].kind = "added" THEN log[k].kind # "added" \/ i < k
                           ELSE log[k].kind # "added" /\ i < k

\* Whether job j is to read a page or has read one.
Ahead(j) == job[j].pc \in {"refresh", "fetch"}
InPage(j) == job[j].pc \in {"apply", "insert"}
Page(j) == job[j].cursor + 1..job[j].next

PageForm(j) ==
  /\ {"pc", "writes", "removed", "next", "cursor"} \subseteq DOMAIN job[j]
  /\ job[j].cursor \in 0..Len(log) /\ job[j].next \in job[j].cursor..Len(log)
  /\ job[j].writes \subseteq {i \in Page(j) : log[i].kind # "removed"}
  /\ job[j].pc = "insert" => job[j].writes # {} /\ Change(j).kind = "added"

\* The writes left are the last of the page's.
PageOrder(j) ==
  \A i \in job[j].writes, k \in Page(j) :
    log[k].kind # "removed" /\ Earlier(i, k) => k \in job[j].writes

\* What is to be removed was, and all of it still is to be while writes are left.
PageRemovals(j) ==
  /\ \A t \in job[j].removed : \E i \in Page(j) : log[i].txn = t /\ log[i].kind = "removed"
  /\ job[j].writes # {} =>
       \A i \in Page(j) : log[i].kind = "removed" => log[i].txn \in job[j].removed

PageSound(j) ==
  /\ Ahead(j) => "cursor" \in DOMAIN job[j] /\ job[j].cursor \in 0..Len(log)
  /\ InPage(j) => PageForm(j) /\ PageOrder(j) /\ PageRemovals(j)

Flow ==
  /\ LogSound
  /\ rows \in [Txns -> Nat \union {Absent}] /\ cursor \in 0..Len(log)
  /\ \A j \in Jobs : PageSound(j)

\* All that the first c changes add is stored, left out, pending or removed since.
Owed(i, pending) ==
  log[i].kind = "added" /\ log[i].txn \notin lost /\ Kept(log[i].txn, 0, Len(log)) =>
    rows[log[i].txn] # Absent \/ i \in pending
Holds(c, pending) == \A i \in 1..c : Owed(i, pending)

HeldBy(j) ==
  /\ Ahead(j) => Holds(job[j].cursor, {})
  /\ InPage(j) => Holds(job[j].next, job[j].writes)

Held == Holds(cursor, {}) /\ \A j \in Jobs : HeldBy(j)

\* The changes of t behind p that j has read are still to be written by it.
Pending(j, t, p) ==
  InPage(j) =>
    \A i \in p + 1..job[j].next : log[i].txn = t =>
      i \in job[j].writes \/ (log[i].kind = "removed" /\ t \in job[j].removed)

\* The row of t is the one of some point behind the cursor.
Reflects(t, p) ==
  /\ p \in cursor..Len(log) /\ Stands(rows[t], t, p)
  /\ \A j \in Jobs : Pending(j, t, p)

AtCursor(j) == Ahead(j) \/ InPage(j) => job[j].cursor = cursor

Followed == \A j \in Jobs : AtCursor(j)
Reflected == \A t \in Txns \ lost : \E p \in cursor..Len(log) : Reflects(t, p)
Solo == ~overlapped => Followed /\ Reflected

--------------------------------------------------------------------------------
(* The log grows *)

Grown ==
  /\ Len(log) <= Len(log') /\ Len(log') \in Nat
  /\ \A i \in 1..Len(log) : log'[i] = log[i]

\* The row of t after all changes is that of its last change.
LEMMA TruthIsLast ==
  ASSUME LogSound, NEW t
  PROVE  \/ Truth(t) = Absent /\ Untold(t, 0, Len(log))
         \/ \E m \in 1..Len(log) : log[m].txn = t /\ Untold(t, m, Len(log)) /\ Truth(t) = Leaves(m)
BY TruthStands DEF Stands

LEMMA Appended ==
  ASSUME LogSound, NEW c \in Changes, Append1(c)
  PROVE  /\ Grown /\ log' \in Seq(Changes)
         /\ Len(log') = Len(log) + 1 /\ log'[Len(log) + 1] = c
BY DEF LogSound, Append1, Grown

\* A change may follow when it adds what is new, or changes what stands.
LEMMA LogSoundGrows ==
  ASSUME LogSound, NEW c \in Changes, Append1(c),
         \/ c.kind = "added" /\ \A i \in 1..Len(log) : log[i].txn # c.txn
         \/ c.kind # "added" /\ Truth(c.txn) # Absent
  PROVE  LogSound'
<1>1. /\ Grown /\ log' \in Seq(Changes) /\ Len(log) \in Nat
      /\ Len(log') = Len(log) + 1 /\ log'[Len(log) + 1] = c
  BY Appended, LogLength
<1>2. ASSUME NEW i \in 1..Len(log), log[i].txn = c.txn
      PROVE  log[i].kind # "removed" /\ c.kind # "added"
  BY <1>2, StandingIsKept
<1>3. ASSUME NEW i \in 1..Len(log'), NEW k \in 1..Len(log'), i < k, log'[i].txn = log'[k].txn
      PROVE  log'[i].kind # "removed" /\ log'[k].kind # "added"
  <2>1. i \in 1..Len(log) /\ log'[i] = log[i]
    BY <1>1, <1>3 DEF Grown
  <2>2. CASE k = Len(log) + 1
    BY <1>1, <1>2, <1>3, <2>1, <2>2
  <2>3. CASE k # Len(log) + 1
    <3>1. k \in 1..Len(log) /\ log'[k] = log[k]
      BY <1>1, <2>3 DEF Grown
    <3>2. QED
      BY <1>3, <2>1, <3>1 DEF LogSound
  <2>4. QED
    BY <2>2, <2>3
<1>4. ASSUME NEW k \in 1..Len(log'), log'[k].kind # "added"
      PROVE  \E i \in 1..k - 1 : log'[i].txn = log'[k].txn /\ log'[i].kind = "added"
  <2>1. CASE k = Len(log) + 1
    <3>1. Truth(c.txn) # Absent
      BY <1>1, <1>4, <2>1
    <3>2. PICK m \in 1..Len(log) : log[m].txn = c.txn
      BY <3>1, TruthIsLast
    <3>3. \E i \in 1..Len(log) : log[i].txn = c.txn /\ log[i].kind = "added"
      BY <1>1, <3>2 DEF LogSound
    <3>4. QED
      BY <1>1, <2>1, <3>3 DEF Grown
  <2>2. CASE k # Len(log) + 1
    <3>1. k \in 1..Len(log) /\ log'[k] = log[k]
      BY <1>1, <2>2 DEF Grown
    <3>2. PICK i \in 1..k - 1 : log[i].txn = log[k].txn /\ log[i].kind = "added"
      BY <1>4, <3>1 DEF LogSound
    <3>3. i \in 1..Len(log)
      BY <1>1, <3>1
    <3>4. QED
      BY <3>1, <3>2, <3>3, <1>1 DEF Grown
  <2>3. QED
    BY <2>1, <2>2
<1>5. QED
  BY <1>1, <1>3, <1>4 DEF LogSound

LEMMA LogStep ==
  ASSUME LogSound, NEW t \in Txns, Amend(t) \/ Retract(t) \/ \E a \in Accounts : Post(t, a)
  PROVE  LogSound' /\ Grown
<1>1. Truth(t) \in Int /\ Len(log) \in Nat /\ DOMAIN log = 1..Len(log)
  BY TruthStands, LogLength DEF LogSound
<1>2. CASE Amend(t)
  <2>1. Truth(t) # Absent
    BY <1>2 DEF Amend
  <2>2. Truth(t) \in Nat
    BY <2>1, TruthIsLast, Entry DEF Leaves
  <2>3. PICK c : c = [kind |-> "modified", txn |-> t, amount |-> Truth(t) + 1]
    OBVIOUS
  <2>4. c \in Changes /\ c.kind = "modified" /\ c.txn = t
    BY <2>2, <2>3 DEF Changes
  <2>5. Append1(c)
    BY <1>2, <2>3 DEF Amend
  <2>6. QED
    BY <2>1, <2>4, <2>5, LogSoundGrows, Appended
<1>3. CASE Retract(t)
  <2>1. Truth(t) # Absent
    BY <1>3 DEF Retract
  <2>3. PICK c : c = [kind |-> "removed", txn |-> t]
    OBVIOUS
  <2>4. c \in Changes /\ c.kind = "removed" /\ c.txn = t
    BY <2>3 DEF Changes
  <2>5. Append1(c)
    BY <1>3, <2>3 DEF Retract
  <2>6. QED
    BY <2>1, <2>4, <2>5, LogSoundGrows, Appended
<1>4. ASSUME NEW a \in Accounts, Post(t, a) PROVE LogSound' /\ Grown
  <2>1. \A i \in 1..Len(log) : log[i].txn # t
    BY <1>1, <1>4 DEF Post
  <2>3. PICK c : c = [kind |-> "added", txn |-> t, account |-> a, amount |-> 0]
    OBVIOUS
  <2>4. c \in Changes /\ c.kind = "added" /\ c.txn = t
    BY <2>3 DEF Changes
  <2>5. Append1(c)
    BY <1>4, <2>3 DEF Post
  <2>6. QED
    BY <2>1, <2>4, <2>5, LogSoundGrows, Appended
<1>5. QED
  BY <1>2, <1>3, <1>4

\* What was said of the first p changes still is.
LEMMA StandsGrows ==
  ASSUME LogSound, Grown, NEW t, NEW row, NEW p \in 0..Len(log), Stands(row, t, p)
  PROVE  Stands(row, t, p)'
<1>1. Len(log) \in Nat
  BY LogLength
<1>2. QED
  BY <1>1, SMTT(60) DEF Grown, Stands, Untold, Leaves, Absent

LEMMA StandsFurther ==
  ASSUME LogSound, NEW t, NEW row, NEW p \in 0..Len(log), NEW n \in p..Len(log),
         Stands(row, t, p), Untold(t, p, n)
  PROVE  Stands(row, t, n)
<1>1. Len(log) \in Nat
  BY LogLength
<1>2. QED
  BY <1>1 DEF Stands, Untold

--------------------------------------------------------------------------------
(* The pages read from the log *)

\* The write that comes next is in front of all that are left.
LEMMA NextWriteIs ==
  ASSUME LogSound, NEW j, PageForm(j), job[j].writes # {}
  PROVE  /\ NextWrite(j) \in job[j].writes
         /\ \A i \in job[j].writes : ~Earlier(i, NextWrite(j))
         /\ log[NextWrite(j)].kind # "added" => \A i \in job[j].writes : log[i].kind # "added"
<1>1. PICK W, A : W = job[j].writes /\ A = {i \in W : log[i].kind = "added"}
  OBVIOUS
<1>2. W \in SUBSET Nat /\ W # {}
  BY <1>1, LogLength DEF PageForm, Page
<1>3. PICK S : S = IF A # {} THEN A ELSE W
  OBVIOUS
<1>4. S \in SUBSET Nat /\ S # {} /\ S \subseteq W
  BY <1>1, <1>2, <1>3
<1>5. PICK n : n = NextWrite(j)
  OBVIOUS
<1>6. n = CHOOSE x \in S : \A y \in S : x <= y
  BY <1>1, <1>3, <1>5 DEF NextWrite, Min
<1>7. n \in S /\ \A y \in S : n <= y
  BY <1>4, <1>6, LeastElement, Zenon
<1>8. log[n].kind # "added" => A = {}
  BY <1>1, <1>3, <1>7
<1>9. ASSUME NEW i \in W, Earlier(i, n) PROVE FALSE
  <2>1. i \in S
    BY <1>1, <1>3, <1>7, <1>8, <1>9 DEF Earlier
  <2>2. i < n
    BY <1>1, <1>3, <1>7, <1>8, <1>9, <2>1 DEF Earlier
  <2>3. QED
    BY <1>4, <1>7, <2>1, <2>2
<1>10. QED
  BY <1>1, <1>4, <1>5, <1>7, <1>8, <1>9

\* A page read stays the page it was.
LEMMA PageGrows ==
  ASSUME LogSound, Grown, NEW j, PageSound(j), job'[j] = job[j]
  PROVE  PageSound(j)'
<1>1. Len(log) \in Nat
  BY LogLength
<1>2. CASE ~InPage(j)
  BY <1>1, <1>2 DEF PageSound, Ahead, InPage, Grown
<1>3. CASE InPage(j)
  <2>1. PageForm(j) /\ PageOrder(j) /\ PageRemovals(j)
    BY <1>3 DEF PageSound
  <2>2. /\ InPage(j)' /\ Page(j)' = Page(j)
        /\ \A i \in Page(j) : i \in 1..Len(log) /\ log'[i] = log[i]
        /\ ~Ahead(j)'
    BY <1>1, <1>3, <2>1 DEF Ahead, InPage, Page, PageForm, Grown
  <2>3. \A i \in job[j].writes : i \in Page(j)
    BY <2>1 DEF PageForm
  <2>4. PageOrder(j)'
    BY <2>1, <2>2, <2>3 DEF PageOrder, Earlier
  <2>5. PageRemovals(j)'
    BY <2>1, <2>2 DEF PageRemovals
  <2>6. job[j].pc = "insert" => Change(j)' = Change(j)
    <3>1. ASSUME job[j].pc = "insert" PROVE Change(j)' = Change(j)
      <4>1. NextWrite(j) \in job[j].writes
        BY <2>1, <3>1, NextWriteIs DEF PageForm
      <4>2. {i \in job'[j].writes : log'[i].kind = "added"} = {i \in job[j].writes : log[i].kind = "added"}
        BY <2>2, <2>3
      <4>3. NextWrite(j)' = NextWrite(j)
        BY <4>2 DEF NextWrite
      <4>4. QED
        BY <2>2, <2>3, <4>1, <4>3 DEF Change
    <3>2. QED
      BY <3>1
  <2>7. PageForm(j)'
    BY <1>1, <2>1, <2>2, <2>3, <2>6 DEF PageForm, Grown
  <2>8. QED
    BY <2>2, <2>4, <2>5, <2>7 DEF PageSound
<1>4. QED
  BY <1>2, <1>3

LEMMA FlowGrows ==
  ASSUME Flow, Grown, LogSound', UNCHANGED <<rows, cursor, job>>
  PROVE  Flow'
<1>1. LogSound /\ Len(log) \in Nat
  BY LogLength DEF Flow
<1>2. \A j \in Jobs : PageSound(j)'
  BY <1>1, PageGrows DEF Flow
<1>3. QED
  BY <1>1, <1>2 DEF Flow, Grown

\* Job j moves while the log stays.
LEMMA FlowMoves ==
  ASSUME Flow, SyncForm, NEW j \in Jobs, NEW r, Move(j, r), UNCHANGED log,
         rows' \in [Txns -> Nat \union {Absent}], cursor' \in 0..Len(log), PageSound(j)'
  PROVE  Flow'
<1>1. LogSound /\ Len(log) \in Nat
  BY LogLength DEF Flow
<1>2. Grown
  BY <1>1 DEF Grown
<1>3. \A k \in Jobs \ {j} : PageSound(k)'
  BY <1>1, <1>2, Moves, PageGrows DEF Flow
<1>4. LogSound'
  BY <1>1 DEF LogSound
<1>5. QED
  BY <1>3, <1>4 DEF Flow, Absent

\* Job j enters, leaves or keeps out of a page.
LEMMA FlowAway ==
  ASSUME Flow, SyncForm, NEW j \in Jobs, NEW r, Move(j, r), UNCHANGED <<log, rows>>,
         cursor' \in 0..Len(log), r.pc \notin {"apply", "insert"},
         r.pc \in {"refresh", "fetch"} => "cursor" \in DOMAIN r /\ r.cursor \in 0..Len(log)
  PROVE  Flow'
<1>1. job'[j] = r
  BY Moves
<1>2. PageSound(j)'
  BY <1>1 DEF PageSound, Ahead, InPage
<1>3. rows' \in [Txns -> Nat \union {Absent}]
  BY DEF Flow, Absent
<1>4. QED
  BY <1>2, <1>3, FlowMoves

\* A write done leaves the page with the later ones.
LEMMA AppliedIs ==
  ASSUME LogSound, SyncForm, NEW j \in Jobs, InPage(j), PageSound(j), job[j].writes # {},
         Move(j, Applied(j)), UNCHANGED log
  PROVE  /\ PageSound(j)' /\ InPage(j)' /\ job'[j].pc = "apply"
         /\ job'[j].writes = job[j].writes \ {NextWrite(j)}
         /\ job'[j].removed = job[j].removed
         /\ job'[j].next = job[j].next /\ job'[j].cursor = job[j].cursor
         /\ NextWrite(j) \in job[j].writes
<1>1. PageForm(j) /\ PageOrder(j) /\ PageRemovals(j)
  BY DEF PageSound
<1>2. PICK n : n = NextWrite(j)
  OBVIOUS
<1>3. n \in job[j].writes /\ \A i \in job[j].writes : ~Earlier(i, n)
  BY <1>1, <1>2, NextWriteIs
<1>4. job'[j] = [job[j] EXCEPT !.pc = "apply", !.writes = job[j].writes \ {n}]
  BY <1>2, Moves DEF Applied
<1>5. /\ job'[j].pc = "apply" /\ job'[j].writes = job[j].writes \ {n}
      /\ job'[j].removed = job[j].removed
      /\ job'[j].next = job[j].next /\ job'[j].cursor = job[j].cursor
      /\ DOMAIN job'[j] = DOMAIN job[j]
  BY <1>1, <1>4 DEF PageForm
<1>6. Page(j)' = Page(j)
  BY <1>5 DEF Page
<1>7. PageForm(j)'
  BY <1>1, <1>5, <1>6 DEF PageForm
<1>8. PageOrder(j)'
  <2> SUFFICES ASSUME NEW i \in job[j].writes, i # n, NEW k \in Page(j),
                      log[k].kind # "removed", Earlier(i, k)
               PROVE  k \in job[j].writes /\ k # n
    BY <1>5, <1>6 DEF PageOrder, Earlier
  <2>1. QED
    BY <1>1, <1>3 DEF PageOrder
<1>9. PageRemovals(j)'
  BY <1>1, <1>5, <1>6 DEF PageRemovals
<1>10. QED
  BY <1>2, <1>3, <1>5, <1>7, <1>8, <1>9 DEF PageSound, Ahead, InPage

\* Another page, no further than the log.
LEMMA NextCursorIs ==
  ASSUME LogSound, NEW from \in 0..Len(log)
  PROVE  NextCursor(from) \in from..Len(log)
<1>1. Len(log) \in Nat /\ PageSize \in Nat
  BY LogLength, SyncBounds
<1>2. PICK S : S = {from + PageSize, Len(log)}
  OBVIOUS
<1>3. S \in SUBSET Nat /\ S # {}
  BY <1>1, <1>2
<1>4. PICK n : n = NextCursor(from)
  OBVIOUS
<1>5. n = CHOOSE x \in S : \A y \in S : x <= y
  BY <1>2, <1>4 DEF NextCursor, Min
<1>6. n \in S /\ \A y \in S : n <= y
  BY <1>3, <1>5, LeastElement, Zenon
<1>7. QED
  BY <1>1, <1>2, <1>4, <1>6

\* A page read is all to be written.
LEMMA FetchIs ==
  ASSUME Flow, SyncForm, NEW j \in Jobs, Fetch(j), ~Refused(j)
  PROVE  /\ PageSound(j)' /\ InPage(j)' /\ (\E r : Move(j, r))
         /\ UNCHANGED <<provider, stored, history>>
         /\ job[j].pc = "fetch" /\ job[j].cursor \in 0..Len(log)
         /\ job'[j].cursor = job[j].cursor /\ job'[j].next \in job[j].cursor..Len(log)
         /\ \A i \in job[j].cursor + 1..job'[j].next :
              i \in job'[j].writes \/ (log[i].kind = "removed" /\ log[i].txn \in job'[j].removed)
<1>1. PICK from, n : from = job[j].cursor /\ n = NextCursor(from)
  OBVIOUS
<1>2. job[j].pc = "fetch" /\ from \in 0..Len(log) /\ LogSound /\ Len(log) \in Nat
  BY <1>1, LogLength DEF Fetch, Flow, PageSound, Ahead
<1>3. n \in from..Len(log)
  BY <1>1, <1>2, NextCursorIs
<1>4. PICK page, removals :
        page = from + 1..n /\ removals = {i \in page : log[i].kind = "removed"}
  OBVIOUS
<1>5. PICK r : r = [pc |-> "apply", attempts |-> job[j].attempts, known |-> job[j].known,
                    pages |-> job[j].pages + 1, cursor |-> from, writes |-> page \ removals,
                    removed |-> {log[i].txn : i \in removals}, next |-> n, more |-> n < Len(log)]
  OBVIOUS
<1>6. Move(j, r) /\ UNCHANGED <<provider, stored, history>>
  BY <1>1, <1>4, <1>5, Zenon DEF Fetch
<1>7. /\ job'[j] = r /\ r.pc = "apply" /\ r.cursor = from /\ r.writes = page \ removals
      /\ r.removed = {log[i].txn : i \in removals} /\ r.next = n
      /\ {"pc", "writes", "removed", "next", "cursor"} \subseteq DOMAIN r
  BY <1>5, <1>6, Moves
<1>8. log' = log
  BY <1>6 DEF provider
<1>9. \A i \in page : log[i].kind = "removed" => log[i].txn \in r.removed
  BY <1>4, <1>7
<1>10. Page(j)' = page
  BY <1>4, <1>7 DEF Page
<1>11. PageForm(j)'
  BY <1>2, <1>3, <1>4, <1>7, <1>8, <1>10 DEF PageForm
<1>12. PageOrder(j)'
  BY <1>4, <1>7, <1>8, <1>10 DEF PageOrder
<1>13. PageRemovals(j)'
  BY <1>4, <1>7, <1>8, <1>9, <1>10 DEF PageRemovals
<1>14. PageSound(j)' /\ InPage(j)'
  BY <1>7, <1>11, <1>12, <1>13 DEF PageSound, Ahead, InPage
<1>15. \A i \in from + 1..n : i \in r.writes \/ (log[i].kind = "removed" /\ log[i].txn \in r.removed)
  BY <1>4, <1>7, <1>9
<1>16. QED
  BY <1>1, <1>2, <1>3, <1>6, <1>7, <1>14, <1>15

--------------------------------------------------------------------------------
(* The steps that write, and those that do not *)

\* A job outside its pages goes on from where it stood, or starts from the saved
\* cursor.
MovesAway(j, r) ==
  /\ Move(j, r) /\ r.pc \notin {"apply", "insert"}
  /\ r.pc \in {"refresh", "fetch"} =>
       "cursor" \in DOMAIN r /\ (r.cursor = cursor \/ (Ahead(j) /\ r.cursor = job[j].cursor))

\* Whatever job j does outside its pages: it starts, links, fails or ends.
Aways(j) ==
  \/ Daily(j) \/ MemberSync(j) \/ Relink(j) \/ RelinkItem(j) \/ Upsert(j) \/ EnqueueLinked(j)
  \/ RelinkFails(j) \/ Begin(j) \/ LoadAccounts(j) \/ (Fetch(j) /\ Refused(j))
  \/ (Insert(j) /\ rows[Change(j).txn] # Absent) \/ Finish(j) \/ FinishAccounts(j)
  \/ CallFails(j) \/ RecordSyncError(j) \/ RecordAccountErrors(j) \/ RecordAlert(j)
  \/ SwallowRecord(j) \/ Crash(j)

\* A job that goes to a point before its pages or behind them.
LEMMA GoesAway ==
  ASSUME NEW j, NEW r, Move(j, r), NEW points, r.pc \in points,
         points \intersect {"apply", "insert", "refresh", "fetch"} = {}
  PROVE  MovesAway(j, r)
BY DEF MovesAway

LEMMA ThrowAway ==
  ASSUME NEW j, NEW kind, Throw(j, kind)
  PROVE  \E r : MovesAway(j, r)
<1>1. PICK r : r = [pc |-> "failing", attempts |-> job[j].attempts, kind |-> kind]
  OBVIOUS
<1>2. r.pc = "failing" /\ Move(j, r)
  BY <1>1 DEF Throw
<1>3. QED
  BY <1>2, GoesAway

\* One that keeps its record but for the point it has reached, or for the accounts
\* still to be written.
LEMMA KeepsAway ==
  ASSUME SyncForm, NEW j \in Jobs, NEW p, p \notin {"apply", "insert", "refresh", "fetch"},
         Move(j, [job[j] EXCEPT !.pc = p])
  PROVE  \E r : MovesAway(j, r)
<1>1. PICK r : r = [job[j] EXCEPT !.pc = p]
  OBVIOUS
<1>2. Move(j, r) /\ r.pc = p
  BY <1>1 DEF SyncForm, JobForm
<1>3. QED
  BY <1>2, GoesAway

LEMMA RecordAway ==
  ASSUME SyncForm, NEW j \in Jobs, Recording(j), Move(j, AfterRecord(j))
  PROVE  \E r : MovesAway(j, r)
<1>1. PICK r : r = AfterRecord(j)
  OBVIOUS
<1>2. "pc" \in DOMAIN job[j] /\ Requeued(j).pc \in {"waiting", "idle"}
  BY DEF SyncForm, JobForm, Requeued, Waiting, Idle
<1>3. \/ r = [job[j] EXCEPT !.pc = "fail_accounts"]
      \/ r = [job[j] EXCEPT !.pc = "fail_alert"]
      \/ r = Requeued(j)
  BY <1>1 DEF AfterRecord, Recording
<1>4. r.pc \in {"fail_accounts", "fail_alert", "waiting", "idle"}
  BY <1>2, <1>3
<1>5. Move(j, r)
  BY <1>1
<1>6. QED
  BY <1>4, <1>5, GoesAway

LEMMA UpsertAway ==
  ASSUME Flow, SyncForm, NEW j \in Jobs, Upsert(j)
  PROVE  \E r : MovesAway(j, r)
<1>1. PICK a : Move(j, [job[j] EXCEPT !.todo = @ \ {a}])
  BY DEF Upsert
<1>2. PICK r : r = [job[j] EXCEPT !.todo = job[j].todo \ {a}]
  OBVIOUS
<1>3. Move(j, r)
  BY <1>1, <1>2
<1>4. "pc" \in DOMAIN job[j] /\ (Ahead(j) => "cursor" \in DOMAIN job[j])
  BY DEF SyncForm, JobForm, Flow, PageSound
<1>5. r.pc = job[j].pc /\ (Ahead(j) => "cursor" \in DOMAIN r /\ r.cursor = job[j].cursor)
  BY <1>2, <1>4
<1>6. r.pc \in {"upsert", "refresh"}
  BY <1>5 DEF Upsert
<1>7. QED
  BY <1>3, <1>5, <1>6 DEF MovesAway, Ahead

\* Where it reads its cursor, and where it takes it on to the first page.
LEMMA StartAway ==
  ASSUME NEW j \in Jobs, Begin(j) \/ LoadAccounts(j)
  PROVE  \E r : MovesAway(j, r)
<1>1. CASE Begin(j) /\ Refused(j)
  BY <1>1, ThrowAway DEF Refused
<1>2. CASE Begin(j) /\ ~Refused(j)
  <2>1. PICK r : r = [pc |-> "refresh", attempts |-> job[j].attempts, cursor |-> cursor,
                      todo |-> exposed]
    OBVIOUS
  <2>2. Move(j, r)
    BY <1>2, <2>1 DEF Begin
  <2>3. QED
    BY <2>1, <2>2 DEF MovesAway
<1>3. CASE LoadAccounts(j)
  <2>1. PICK r : r = [pc |-> "fetch", attempts |-> job[j].attempts, cursor |-> job[j].cursor,
                      known |-> {a \in Accounts : accounts[a] # None}, pages |-> 0]
    OBVIOUS
  <2>2. Move(j, r) /\ Ahead(j)
    BY <1>3, <2>1 DEF LoadAccounts, Ahead
  <2>3. QED
    BY <2>1, <2>2 DEF MovesAway
<1>4. QED
  BY <1>1, <1>2, <1>3

\* Outside its pages a job stores nothing.
LEMMA AwayIs ==
  ASSUME Flow, SyncForm, NEW j \in Jobs, Aways(j)
  PROVE  (\E r : MovesAway(j, r)) /\ UNCHANGED <<log, rows, cursor, lost>>
<1>1. ASSUME Enqueue(j) PROVE Move(j, Waiting(Attempts))
  BY <1>1 DEF Enqueue, Move
<1>2. /\ Waiting(Attempts).pc = "waiting" /\ Waiting(job[j].attempts).pc = "waiting"
      /\ Idle.pc = "idle"
  BY DEF Waiting, Idle
<1>3. Move(j, Waiting(Attempts)) \/ Move(j, Waiting(job[j].attempts)) \/ Move(j, Idle) =>
        \E r : MovesAway(j, r)
  BY <1>2, GoesAway
<1>4. CASE Daily(j) \/ MemberSync(j)
  BY <1>1, <1>3, <1>4 DEF Daily, MemberSync, provider, stored, history
<1>5. CASE Relink(j)
  <2>1. PICK r : r = [pc |-> "relink", attempts |-> Attempts, todo |-> exposed]
    OBVIOUS
  <2>2. r.pc = "relink" /\ Move(j, r)
    BY <1>5, <2>1 DEF Relink
  <2>3. QED
    BY <1>5, <2>2, GoesAway DEF Relink, stored
<1>6. CASE RelinkItem(j)
  BY <1>6, KeepsAway DEF RelinkItem, provider, history
<1>7. CASE Upsert(j)
  BY <1>7, UpsertAway DEF Upsert, provider, history
<1>8. CASE EnqueueLinked(j) \/ RelinkFails(j)
  BY <1>3, <1>8 DEF EnqueueLinked, RelinkFails, provider, stored
<1>9. CASE Begin(j) \/ LoadAccounts(j)
  <2>1. UNCHANGED <<log, rows, cursor, lost>>
    BY <1>9 DEF Begin, Refused, LoadAccounts, provider, stored, history
  <2>2. QED
    BY <1>9, <2>1, StartAway
<1>10. CASE Fetch(j) /\ Refused(j)
  BY <1>10, ThrowAway DEF Refused, provider, stored
<1>11. CASE Insert(j) /\ rows[Change(j).txn] # Absent
  <2>1. Throw(j, "error") /\ UNCHANGED <<provider, rows, cursor, lost>>
    BY <1>11 DEF Insert
  <2>2. QED
    BY <2>1, ThrowAway DEF provider
<1>12. CASE Finish(j)
  BY <1>12, KeepsAway DEF Finish, provider, history
<1>13. CASE FinishAccounts(j)
  BY <1>3, <1>13 DEF FinishAccounts, provider
<1>14. CASE CallFails(j)
  BY <1>14, ThrowAway DEF CallFails, provider, stored
<1>15. CASE RecordSyncError(j) \/ RecordAccountErrors(j) \/ RecordAlert(j) \/ SwallowRecord(j)
  <2>1. Recording(j) /\ Move(j, AfterRecord(j)) /\ UNCHANGED <<log, rows, cursor, lost>>
    BY <1>15 DEF RecordSyncError, RecordAccountErrors, RecordAlert, SwallowRecord, Recording,
                 provider, stored, history
  <2>2. QED
    BY <2>1, RecordAway
<1>16. CASE Crash(j)
  BY <1>3, <1>16 DEF Crash, provider, stored
<1>17. QED
  BY <1>4, <1>5, <1>6, <1>7, <1>8, <1>9, <1>10, <1>11, <1>12, <1>13, <1>14, <1>15, <1>16 DEF Aways

\* Whether a row exists is found out, and nothing else changes.
Finds(j) == Look(j) /\ job'[j].pc = "insert"

\* One write of the page is dealt with.
Writes(j) ==
  \/ Look(j) /\ job'[j].pc = "apply"
  \/ Insert(j) /\ rows[Change(j).txn] = Absent
  \/ Modify(j) \/ SwallowModify(j)

LEMMA LookIs ==
  ASSUME Flow, SyncForm, NEW j \in Jobs, Look(j)
  PROVE  \/ Finds(j)
         \/ Look(j) /\ job'[j].pc = "apply"
<1>1. "pc" \in DOMAIN job[j]
  BY DEF SyncForm, JobForm
<1>2. PICK r : Move(j, r) /\ r \in {Applied(j), [job[j] EXCEPT !.pc = "insert"]}
  BY DEF Look
<1>3. r.pc \in {"apply", "insert"}
  BY <1>1, <1>2 DEF Applied
<1>4. QED
  BY <1>2, <1>3, Moves DEF Finds

LEMMA FindsIs ==
  ASSUME Flow, SyncForm, NEW j \in Jobs, Finds(j)
  PROVE  /\ PageSound(j)' /\ InPage(j) /\ InPage(j)' /\ (\E r : Move(j, r))
         /\ UNCHANGED <<log, rows, cursor, lost, overlapped>>
         /\ job'[j].writes = job[j].writes /\ job'[j].removed = job[j].removed
         /\ job'[j].next = job[j].next /\ job'[j].cursor = job[j].cursor
<1>1. /\ LogSound /\ job[j].pc = "apply" /\ job[j].writes # {} /\ Change(j).kind = "added"
      /\ UNCHANGED <<log, rows, cursor, overlapped>>
  BY DEF Flow, Finds, Look, Applying, provider, stored
<1>2. PageForm(j) /\ PageOrder(j) /\ PageRemovals(j)
  BY <1>1 DEF Flow, PageSound, InPage
<1>3. Move(j, [job[j] EXCEPT !.pc = "insert"]) /\ lost' = lost
  <2>1. ASSUME Move(j, Applied(j)) PROVE FALSE
    <3>1. job'[j] = Applied(j) /\ "pc" \in DOMAIN job[j]
      BY <1>2, <2>1, Moves DEF PageForm
    <3>2. job'[j].pc = "apply"
      BY <3>1 DEF Applied
    <3>3. QED
      BY <3>2 DEF Finds
  <2>2. PICK c : c = Change(j)
    OBVIOUS
  <2>3. /\ Move(j, IF c.account \notin job[j].known \/ rows[c.txn] # Absent THEN Applied(j)
                   ELSE [job[j] EXCEPT !.pc = "insert"])
        /\ lost' = IF c.account \notin job[j].known THEN lost \union {c.txn} ELSE lost
    BY <2>2 DEF Finds, Look
  <2>4. QED
    BY <2>1, <2>3
<1>4. job'[j] = [job[j] EXCEPT !.pc = "insert"]
  BY <1>3, Moves
<1>5. /\ job'[j].writes = job[j].writes /\ job'[j].removed = job[j].removed
      /\ job'[j].next = job[j].next /\ job'[j].cursor = job[j].cursor
      /\ DOMAIN job'[j] = DOMAIN job[j] /\ job'[j].pc = "insert"
  BY <1>2, <1>4 DEF PageForm
<1>6. Page(j)' = Page(j) /\ Change(j)' = Change(j)
  BY <1>1, <1>5 DEF Page, Change, NextWrite
<1>7. PageForm(j)'
  BY <1>1, <1>2, <1>5, <1>6 DEF PageForm
<1>8. PageOrder(j)' /\ PageRemovals(j)'
  BY <1>1, <1>2, <1>5, <1>6 DEF PageOrder, PageRemovals, Earlier
<1>9. QED
  BY <1>1, <1>3, <1>5, <1>7, <1>8 DEF PageSound, Ahead, InPage

\* A write makes of the row what the change says, or the transaction is left out.
LEMMA WriteIs ==
  ASSUME Flow, SyncForm, NEW j \in Jobs, Writes(j)
  PROVE  /\ InPage(j) /\ job[j].writes # {} /\ Move(j, Applied(j))
         /\ UNCHANGED <<log, cursor, overlapped>> /\ lost \subseteq lost'
         /\ \A u \in Txns : u # Change(j).txn => rows'[u] = rows[u]
         /\ \/ rows' = rows /\ Change(j).txn \in lost'
            \/ /\ rows'[Change(j).txn] = Stepped(rows[Change(j).txn], Change(j).txn, NextWrite(j))
               /\ DOMAIN rows' = Txns
<1>1. PICK n, c, t : n = NextWrite(j) /\ c = Change(j) /\ t = c.txn
  OBVIOUS
<1>2. LogSound /\ rows \in [Txns -> Nat \union {Absent}]
  BY DEF Flow
<1>3. ASSUME InPage(j), job[j].writes # {} PROVE n \in 1..Len(log) /\ c = log[n] /\ t \in Txns
  <2>1. PageForm(j)
    BY <1>3 DEF Flow, PageSound
  <2>2. n \in Page(j) /\ Len(log) \in Nat
    BY <1>1, <1>2, <1>3, <2>1, NextWriteIs, LogLength DEF PageForm
  <2>3. n \in 1..Len(log) /\ c = log[n]
    BY <1>1, <2>1, <2>2 DEF Page, PageForm, Change
  <2>4. QED
    BY <1>1, <1>2, <2>3, Entry
<1>4. CASE Look(j) /\ job'[j].pc = "apply"
  <2>1. /\ job[j].pc = "apply" /\ job[j].writes # {} /\ c.kind = "added"
        /\ UNCHANGED <<log, rows, cursor, overlapped>>
    BY <1>1, <1>4 DEF Look, Applying, provider, stored
  <2>2. InPage(j) /\ c = log[n] /\ t \in Txns
    BY <1>3, <2>1 DEF InPage
  <2>3. "pc" \in DOMAIN job[j]
    BY DEF SyncForm, JobForm
  <2>4. /\ Move(j, IF c.account \notin job[j].known \/ rows[c.txn] # Absent THEN Applied(j)
                   ELSE [job[j] EXCEPT !.pc = "insert"])
        /\ lost' = IF c.account \notin job[j].known THEN lost \union {c.txn} ELSE lost
    BY <1>1, <1>4 DEF Look
  <2>5. ASSUME Move(j, [job[j] EXCEPT !.pc = "insert"]) PROVE FALSE
    BY <1>4, <2>3, <2>5, Moves
  <2>6. Move(j, Applied(j)) /\ (rows[t] # Absent \/ t \in lost') /\ lost \subseteq lost'
    BY <1>1, <2>4, <2>5
  <2>7. rows[t] # Absent => Stepped(rows[t], t, n) = rows[t]
    BY <1>1, <2>1, <2>2 DEF Stepped, Redo
  <2>8. QED
    BY <1>1, <1>2, <2>1, <2>2, <2>6, <2>7
<1>5. CASE Insert(j) /\ rows[Change(j).txn] = Absent
  <2>1. /\ job[j].pc = "insert" /\ Move(j, Applied(j)) /\ rows[t] = Absent
        /\ rows' = [rows EXCEPT ![t] = c.amount]
        /\ UNCHANGED <<log, cursor, overlapped, lost>>
    <3>1. Throw(j, "error") => rows[Change(j).txn] = Absent
      BY <1>5
    <3>2. QED
      BY <1>1, <1>5 DEF Insert, provider
  <2>2. InPage(j) /\ job[j].writes # {} /\ c.kind = "added"
    BY <1>1, <2>1 DEF InPage, Flow, PageSound, PageForm
  <2>3. c = log[n] /\ t \in Txns
    BY <1>3, <2>2
  <2>4. Stepped(rows[t], t, n) = c.amount
    BY <1>1, <2>1, <2>2, <2>3 DEF Stepped, Redo
  <2>5. QED
    BY <1>1, <1>2, <2>1, <2>2, <2>3, <2>4
<1>6. CASE Modify(j)
  <2>1. /\ job[j].pc = "apply" /\ job[j].writes # {} /\ Move(j, Applied(j))
        /\ rows' = [rows EXCEPT ![t] = Redo(rows[t], c)]
        /\ UNCHANGED <<log, cursor, overlapped, lost>>
    BY <1>1, <1>6 DEF Modify, Applying, provider, history
  <2>2. InPage(j) /\ c = log[n] /\ t \in Txns
    BY <1>3, <2>1 DEF InPage
  <2>3. Stepped(rows[t], t, n) = Redo(rows[t], c)
    BY <1>1, <2>2 DEF Stepped
  <2>4. QED
    BY <1>1, <1>2, <2>1, <2>2, <2>3
<1>7. CASE SwallowModify(j)
  <2>1. /\ job[j].pc = "apply" /\ job[j].writes # {} /\ Move(j, Applied(j))
        /\ lost' = lost \union {t}
        /\ UNCHANGED <<log, rows, cursor, overlapped>>
    BY <1>1, <1>7 DEF SwallowModify, Applying, provider, stored
  <2>2. QED
    BY <1>1, <2>1 DEF InPage
<1>8. QED
  BY <1>4, <1>5, <1>6, <1>7 DEF Writes

LEMMA WriteOk ==
  ASSUME Flow, SyncForm, NEW j \in Jobs, Writes(j)
  PROVE  Flow' /\ rows' \in [Txns -> Nat \union {Absent}]
<1>1. /\ InPage(j) /\ job[j].writes # {} /\ Move(j, Applied(j))
      /\ UNCHANGED <<log, cursor>>
  BY WriteIs
<1>2. LogSound /\ PageSound(j) /\ rows \in [Txns -> Nat \union {Absent}] /\ cursor \in 0..Len(log)
  BY DEF Flow
<1>3. PageSound(j)'
  BY <1>1, <1>2, AppliedIs
<1>4. PICK n, t : n = NextWrite(j) /\ t = Change(j).txn
  OBVIOUS
<1>5. n \in 1..Len(log) /\ log[n].kind # "removed"
  BY <1>1, <1>2, <1>4, NextWriteIs, LogLength DEF PageSound, PageForm, Page
<1>6. t = log[n].txn /\ t \in Txns
  BY <1>2, <1>4, <1>5, Entry DEF Change
<1>7. Stepped(rows[t], t, n) \in Nat \union {Absent}
  BY <1>2, <1>5, <1>6, Entry DEF Stepped, Redo
<1>8. rows' \in [Txns -> Nat \union {Absent}]
  <2>1. \/ rows' = rows
        \/ /\ DOMAIN rows' = Txns /\ rows'[t] = Stepped(rows[t], t, n)
           /\ \A u \in Txns : u # t => rows'[u] = rows[u]
    BY <1>4, WriteIs
  <2>2. CASE rows' = rows
    BY <1>2, <2>2
  <2>3. CASE /\ DOMAIN rows' = Txns /\ rows'[t] = Stepped(rows[t], t, n)
             /\ \A u \in Txns : u # t => rows'[u] = rows[u]
    <3>1. \A u \in Txns : rows'[u] \in Nat \union {Absent}
      BY <1>2, <1>7, <2>3
    <3>2. rows' = [u \in Txns |-> rows'[u]]
      <4>1. CASE SwallowModify(j)
        BY <1>2, <4>1 DEF SwallowModify, stored
      <4>2. CASE ~SwallowModify(j)
        BY <1>2, <4>2 DEF Writes, Look, Insert, Modify, stored
      <4>3. QED
        BY <4>1, <4>2
    <3>3. QED
      BY <3>1, <3>2
  <2>4. QED
    BY <2>1, <2>2, <2>3
<1>9. Flow'
  BY <1>1, <1>2, <1>3, <1>8, FlowMoves
<1>10. QED
  BY <1>8, <1>9

LEMMA DeleteIs ==
  ASSUME Flow, SyncForm, NEW j \in Jobs, DeleteRemoved(j)
  PROVE  /\ InPage(j) /\ InPage(j)' /\ PageSound(j)' /\ (\E r : Move(j, r))
         /\ UNCHANGED <<log, cursor, lost, overlapped>>
         /\ job[j].writes = {} /\ job'[j].writes = {}
         /\ job'[j].next = job[j].next /\ job'[j].cursor = job[j].cursor
         /\ rows' = [t \in Txns |-> IF t \in job[j].removed THEN Absent ELSE rows[t]]
<1>1. /\ job[j].pc = "apply" /\ job[j].writes = {}
      /\ rows' = [t \in Txns |-> IF t \in job[j].removed THEN Absent ELSE rows[t]]
      /\ Move(j, [job[j] EXCEPT !.removed = {}])
      /\ UNCHANGED <<log, cursor, lost, overlapped>>
  BY DEF DeleteRemoved, provider, history
<1>2. PageForm(j) /\ PageOrder(j)
  BY <1>1 DEF Flow, PageSound, InPage
<1>3. job'[j] = [job[j] EXCEPT !.removed = {}]
  BY <1>1, Moves
<1>4. /\ job'[j].writes = {} /\ job'[j].removed = {} /\ job'[j].pc = "apply"
      /\ job'[j].next = job[j].next /\ job'[j].cursor = job[j].cursor
      /\ DOMAIN job'[j] = DOMAIN job[j]
  BY <1>1, <1>2, <1>3 DEF PageForm
<1>5. Page(j)' = Page(j)
  BY <1>4 DEF Page
<1>6. PageForm(j)' /\ PageOrder(j)' /\ PageRemovals(j)'
  BY <1>1, <1>2, <1>4, <1>5 DEF PageForm, PageOrder, PageRemovals
<1>7. QED
  BY <1>1, <1>4, <1>6 DEF PageSound, Ahead, InPage

LEMMA SaveIs ==
  ASSUME Flow, SyncForm, NEW j \in Jobs, SaveCursor(j)
  PROVE  /\ InPage(j) /\ PageForm(j) /\ job[j].writes = {} /\ job[j].removed = {}
         /\ cursor' = job[j].next /\ UNCHANGED <<log, rows, lost, overlapped>>
         /\ \E r : /\ Move(j, r) /\ r.pc \in {"fetch", "finish"}
                   /\ r.pc = "fetch" => "cursor" \in DOMAIN r /\ r.cursor = job[j].next
<1>1. /\ job[j].pc = "apply" /\ job[j].writes = {} /\ job[j].removed = {}
      /\ cursor' = job[j].next /\ UNCHANGED <<log, rows, lost, overlapped>>
  BY DEF SaveCursor, Reached, provider, history
<1>2. PageForm(j)
  BY <1>1 DEF Flow, PageSound, InPage
<1>3. \E r : /\ Move(j, r) /\ r.pc \in {"fetch", "finish"}
             /\ r.pc = "fetch" => "cursor" \in DOMAIN r /\ r.cursor = job[j].next
  BY DEF SaveCursor
<1>4. QED
  BY <1>1, <1>2, <1>3 DEF InPage

\* What a job does.
LEMMA JobSteps ==
  ASSUME Flow, SyncForm, NEW j \in Jobs,
         \/ Daily(j) \/ MemberSync(j) \/ Relink(j) \/ Step(j)
         \/ SwallowModify(j) \/ SwallowRecord(j) \/ CallFails(j) \/ RelinkFails(j) \/ Crash(j)
  PROVE  \/ Aways(j) \/ (Fetch(j) /\ ~Refused(j)) \/ Finds(j) \/ Writes(j)
         \/ DeleteRemoved(j) \/ SaveCursor(j)
BY LookIs DEF Step, Aways, Writes

LEMMA FlowJob ==
  ASSUME Flow, SyncForm, NEW j \in Jobs,
         \/ Aways(j) \/ (Fetch(j) /\ ~Refused(j)) \/ Finds(j) \/ Writes(j)
         \/ DeleteRemoved(j) \/ SaveCursor(j)
  PROVE  Flow'
<1>1. /\ LogSound /\ Len(log) \in Nat /\ rows \in [Txns -> Nat \union {Absent}]
      /\ cursor \in 0..Len(log)
  BY LogLength DEF Flow
<1>2. CASE Aways(j)
  <2>1. PICK r : MovesAway(j, r)
    BY <1>2, AwayIs
  <2>2. UNCHANGED <<log, rows, cursor>>
    BY <1>2, AwayIs
  <2>3. /\ Move(j, r) /\ r.pc \notin {"apply", "insert"}
        /\ r.pc \in {"refresh", "fetch"} => "cursor" \in DOMAIN r /\ r.cursor \in 0..Len(log)
    BY <1>1, <2>1 DEF MovesAway, Flow, PageSound
  <2>4. QED
    BY <1>1, <2>2, <2>3, FlowAway
<1>3. CASE Fetch(j) /\ ~Refused(j)
  <2>1. PageSound(j)' /\ (\E r : Move(j, r)) /\ UNCHANGED <<provider, stored>>
    BY <1>3, FetchIs
  <2>2. QED
    BY <1>1, <2>1, FlowMoves DEF provider, stored
<1>4. CASE Finds(j)
  <2>1. PageSound(j)' /\ (\E r : Move(j, r)) /\ UNCHANGED <<log, rows, cursor>>
    BY <1>4, FindsIs
  <2>2. QED
    BY <1>1, <2>1, FlowMoves
<1>5. CASE Writes(j)
  BY <1>5, WriteOk
<1>6. CASE DeleteRemoved(j)
  <2>1. /\ PageSound(j)' /\ (\E r : Move(j, r)) /\ UNCHANGED <<log, cursor>>
        /\ rows' = [t \in Txns |-> IF t \in job[j].removed THEN Absent ELSE rows[t]]
    BY <1>6, DeleteIs
  <2>2. rows' \in [Txns -> Nat \union {Absent}]
    BY <1>1, <2>1
  <2>3. QED
    BY <1>1, <2>1, <2>2, FlowMoves
<1>7. CASE SaveCursor(j)
  <2>1. /\ PageForm(j) /\ cursor' = job[j].next /\ UNCHANGED <<log, rows>>
        /\ \E r : /\ Move(j, r) /\ r.pc \in {"fetch", "finish"}
                  /\ r.pc = "fetch" => "cursor" \in DOMAIN r /\ r.cursor = job[j].next
    BY <1>7, SaveIs
  <2>2. job[j].next \in 0..Len(log)
    BY <1>1, <2>1 DEF PageForm
  <2>3. QED
    BY <1>1, <2>1, <2>2, FlowAway
<1>8. QED
  BY <1>2, <1>3, <1>4, <1>5, <1>6, <1>7

--------------------------------------------------------------------------------
(* Nothing is missing *)

\* A row goes only when its transaction was removed.
Lasting ==
  \A t \in Txns : rows[t] # Absent => rows'[t] # Absent \/ ~Kept(t, 0, Len(log))

LEMMA OwedOn ==
  ASSUME LogSound, Grown, Lasting, lost \subseteq lost', NEW i \in 1..Len(log), NEW P, Owed(i, P)
  PROVE  Owed(i, P)'
<1>1. Len(log) \in Nat /\ log'[i] = log[i] /\ log[i].txn \in Txns
  BY LogLength, Entry DEF Grown
<1>2. PICK t : t = log[i].txn
  OBVIOUS
<1>3. Kept(t, 0, Len(log))' => Kept(t, 0, Len(log))
  BY <1>1 DEF Kept, Grown
<1>4. SUFFICES ASSUME log[i].kind = "added", t \notin lost', Kept(t, 0, Len(log))'
               PROVE  rows'[t] # Absent \/ i \in P
  BY <1>1, <1>2 DEF Owed, Kept
<1>5. Kept(t, 0, Len(log)) /\ (rows[t] # Absent \/ i \in P)
  BY <1>2, <1>3, <1>4 DEF Owed
<1>6. QED
  BY <1>1, <1>2, <1>5 DEF Lasting

LEMMA HoldsOn ==
  ASSUME LogSound, Grown, Lasting, lost \subseteq lost', NEW c \in 0..Len(log), NEW P, Holds(c, P)
  PROVE  Holds(c, P)'
<1>1. \A i \in 1..c : i \in 1..Len(log)
  BY LogLength
<1>2. QED
  BY <1>1, OwedOn DEF Holds

\* What another job has read is written or still pending.
LEMMA HeldByOn ==
  ASSUME LogSound, Grown, Lasting, lost \subseteq lost', NEW k, PageSound(k), HeldBy(k),
         job'[k] = job[k]
  PROVE  HeldBy(k)'
<1>1. Len(log) \in Nat
  BY LogLength
<1>2. PICK c, n, W : c = job[k].cursor /\ n = job[k].next /\ W = job[k].writes
  OBVIOUS
<1>3. Ahead(k) => c \in 0..Len(log) /\ Holds(c, {})
  BY <1>2 DEF PageSound, HeldBy
<1>4. InPage(k) => n \in 0..Len(log) /\ Holds(n, W)
  BY <1>1, <1>2 DEF PageSound, PageForm, HeldBy
<1>5. (Ahead(k) => Holds(c, {})') /\ (InPage(k) => Holds(n, W)')
  BY <1>3, <1>4, HoldsOn
<1>6. QED
  BY <1>2, <1>5 DEF HeldBy, Ahead, InPage

LEMMA HeldMoves ==
  ASSUME Flow, SyncForm, Held, Lasting, lost \subseteq lost', NEW j \in Jobs, NEW r, Move(j, r),
         UNCHANGED log, Holds(cursor, {})', HeldBy(j)'
  PROVE  Held'
<1>1. LogSound /\ Len(log) \in Nat
  BY LogLength DEF Flow
<1>2. Grown
  BY <1>1 DEF Grown
<1>3. ASSUME NEW k \in Jobs, k # j PROVE HeldBy(k)'
  BY <1>1, <1>2, <1>3, Moves, HeldByOn DEF Held, Flow
<1>4. QED
  BY <1>3 DEF Held

LEMMA HeldGrows ==
  ASSUME Flow, Held, Grown, UNCHANGED <<rows, cursor, job, lost>>
  PROVE  Held'
<1>1. LogSound /\ Lasting /\ cursor \in 0..Len(log)
  BY DEF Flow, Lasting
<1>2. \A k \in Jobs : HeldBy(k)'
  BY <1>1, HeldByOn DEF Held, Flow
<1>3. PICK c : c = cursor
  OBVIOUS
<1>4. Holds(c, {})'
  BY <1>1, <1>3, HoldsOn DEF Held
<1>5. QED
  BY <1>2, <1>3, <1>4 DEF Held

\* A write dealt with is stored, or left out, or owed by nobody.
LEMMA WritesLast ==
  ASSUME Flow, SyncForm, NEW j \in Jobs, Writes(j)
  PROVE  Lasting /\ \A n : n = NextWrite(j) => Owed(n, {})'
<1>1. /\ InPage(j) /\ job[j].writes # {} /\ UNCHANGED <<log, cursor>>
      /\ LogSound /\ PageForm(j) /\ rows \in [Txns -> Nat \union {Absent}]
  BY WriteIs DEF Flow, PageSound
<1>2. PICK n, t : n = NextWrite(j) /\ t = Change(j).txn
  OBVIOUS
<1>3. n \in 1..Len(log) /\ log[n].kind # "removed"
  BY <1>1, <1>2, NextWriteIs, LogLength DEF PageForm, Page
<1>4. t = log[n].txn /\ t \in Txns
  BY <1>1, <1>2, <1>3, Entry DEF Change
<1>5. \/ rows' = rows /\ t \in lost'
      \/ rows'[t] = Stepped(rows[t], t, n) /\ \A u \in Txns : u # t => rows'[u] = rows[u]
  BY <1>2, WriteIs
<1>6. /\ rows[t] # Absent => Stepped(rows[t], t, n) # Absent
      /\ log[n].kind = "added" => Stepped(rows[t], t, n) # Absent
  <2>1. rows[t] \in Int /\ log[n].amount \in Nat
    BY <1>1, <1>3, <1>4, Entry DEF Absent
  <2>2. log[n].kind = "added" => Stepped(rows[t], t, n) = IF rows[t] = Absent THEN log[n].amount ELSE rows[t]
    BY <1>1, <1>3, <1>4, <2>1, SteppedIs
  <2>3. log[n].kind = "modified" => Stepped(rows[t], t, n) = IF rows[t] = Absent THEN Absent ELSE log[n].amount
    BY <1>1, <1>3, <1>4, <2>1, SteppedIs
  <2>4. QED
    BY <1>1, <1>3, <2>1, <2>2, <2>3, Entry DEF Absent
<1>7. Lasting
  BY <1>5, <1>6 DEF Lasting
<1>8. log[n].kind = "added" => rows'[t] # Absent \/ t \in lost'
  BY <1>5, <1>6
<1>9. Owed(n, {})'
  BY <1>1, <1>4, <1>8 DEF Owed
<1>10. QED
  BY <1>2, <1>7, <1>9

LEMMA HeldWrite ==
  ASSUME Flow, SyncForm, Held, NEW j \in Jobs, Writes(j)
  PROVE  Held'
<1>1. /\ InPage(j) /\ job[j].writes # {} /\ Move(j, Applied(j))
      /\ UNCHANGED <<log, cursor>> /\ lost \subseteq lost'
  BY WriteIs
<1>2. LogSound /\ PageSound(j) /\ Len(log) \in Nat /\ cursor \in 0..Len(log) /\ PageForm(j)
  BY <1>1, LogLength DEF Flow, PageSound
<1>3. PICK n, m, W, c : n = NextWrite(j) /\ m = job[j].next /\ W = job[j].writes /\ c = cursor
  OBVIOUS
<1>4. InPage(j)' /\ job'[j].pc = "apply" /\ job'[j].writes = W \ {n} /\ job'[j].next = m
  BY <1>1, <1>2, <1>3, AppliedIs
<1>5. Grown /\ Lasting /\ Owed(n, {})'
  BY <1>1, <1>2, <1>3, WritesLast DEF Grown
<1>6. m \in 0..Len(log) /\ Holds(m, W) /\ Holds(c, {})
  BY <1>1, <1>2, <1>3 DEF PageForm, Held, HeldBy
<1>7. Holds(m, W)' /\ Holds(c, {})'
  BY <1>1, <1>2, <1>3, <1>5, <1>6, HoldsOn
<1>8. Holds(m, W \ {n})'
  <2> SUFFICES ASSUME NEW i \in 1..m PROVE Owed(i, W \ {n})'
    BY DEF Holds
  <2>1. Owed(i, W)'
    BY <1>7 DEF Holds
  <2>2. QED
    BY <1>5, <2>1 DEF Owed
<1>9. HeldBy(j)'
  BY <1>4, <1>8 DEF HeldBy, Ahead, InPage
<1>10. Holds(cursor, {})'
  BY <1>1, <1>3, <1>7
<1>11. QED
  BY <1>1, <1>5, <1>9, <1>10, HeldMoves

\* What is added on a page read is pending.
LEMMA HeldFetch ==
  ASSUME Flow, SyncForm, Held, NEW j \in Jobs, Fetch(j), ~Refused(j)
  PROVE  Held'
<1>1. /\ InPage(j)' /\ (\E r : Move(j, r)) /\ UNCHANGED <<log, rows, cursor, lost>>
      /\ job[j].pc = "fetch" /\ job[j].cursor \in 0..Len(log)
      /\ job'[j].next \in job[j].cursor..Len(log)
      /\ \A i \in job[j].cursor + 1..job'[j].next :
           i \in job'[j].writes \/ (log[i].kind = "removed" /\ log[i].txn \in job'[j].removed)
  BY FetchIs DEF provider, stored, history
<1>2. LogSound /\ Len(log) \in Nat /\ cursor \in 0..Len(log)
  BY LogLength DEF Flow
<1>3. Grown /\ Lasting
  BY <1>1, <1>2 DEF Grown, Lasting
<1>4. PICK from, m, W, c : from = job[j].cursor /\ m = job'[j].next /\ W = job'[j].writes /\ c = cursor
  OBVIOUS
<1>5. Holds(from, {}) /\ Holds(c, {})
  BY <1>1, <1>4 DEF Held, HeldBy, Ahead
<1>6. Holds(from, {})' /\ Holds(c, {})'
  BY <1>1, <1>2, <1>3, <1>4, <1>5, HoldsOn
<1>7. Holds(m, W)'
  <2> SUFFICES ASSUME NEW i \in 1..m PROVE Owed(i, W)'
    BY DEF Holds
  <2>1. CASE i \in 1..from
    <3>1. Owed(i, {})'
      BY <1>6, <2>1 DEF Holds
    <3>2. QED
      BY <3>1 DEF Owed
  <2>2. CASE i \notin 1..from
    <3>1. i \in from + 1..m
      BY <1>1, <1>2, <1>4, <2>2
    <3>2. log[i].kind = "added" => i \in W
      BY <1>1, <1>4, <3>1
    <3>3. QED
      BY <1>1, <3>2 DEF Owed
  <2>3. QED
    BY <2>1, <2>2
<1>8. InPage(j)' /\ ~Ahead(j)' /\ HeldBy(j)'
  BY <1>1, <1>4, <1>7 DEF HeldBy, Ahead, InPage
<1>9. Holds(cursor, {})'
  BY <1>1, <1>4, <1>6
<1>10. QED
  BY <1>1, <1>3, <1>8, <1>9, HeldMoves

LEMMA HeldJob ==
  ASSUME Flow, SyncForm, Held, NEW j \in Jobs,
         \/ Aways(j) \/ (Fetch(j) /\ ~Refused(j)) \/ Finds(j) \/ Writes(j)
         \/ DeleteRemoved(j) \/ SaveCursor(j)
  PROVE  Held'
<1>1. LogSound /\ Len(log) \in Nat /\ cursor \in 0..Len(log) /\ PageSound(j)
  BY LogLength DEF Flow
<1>2. PICK c, d, m, W : c = cursor /\ d = job[j].cursor /\ m = job[j].next /\ W = job[j].writes
  OBVIOUS
<1>3. /\ Holds(c, {}) /\ (InPage(j) => m \in 0..Len(log) /\ Holds(m, W))
      /\ Ahead(j) => d \in 0..Len(log) /\ Holds(d, {})
  BY <1>1, <1>2 DEF Held, HeldBy, PageSound, PageForm
<1>4. ASSUME Lasting, UNCHANGED log, lost \subseteq lost'
      PROVE  /\ Holds(c, {})' /\ (InPage(j) => Holds(m, W)')
             /\ Ahead(j) => Holds(d, {})'
  <2>1. Grown
    BY <1>1, <1>4 DEF Grown
  <2>2. QED
    BY <1>1, <1>2, <1>3, <1>4, <2>1, HoldsOn
<1>5. rows' = rows => Lasting
  BY DEF Lasting
<1>6. CASE Aways(j)
  <2>1. PICK r : MovesAway(j, r)
    BY <1>6, AwayIs
  <2>2. UNCHANGED <<log, rows, cursor, lost>>
    BY <1>6, AwayIs
  <2>3. Move(j, r) /\ job'[j] = r /\ Holds(c, {})' /\ (Ahead(j) => Holds(d, {})') /\ Lasting
    BY <1>4, <1>5, <2>1, <2>2, Moves DEF MovesAway
  <2>4. HeldBy(j)'
    <3>1. ~InPage(j)'
      BY <2>1, <2>3 DEF InPage, MovesAway
    <3>2. Ahead(j)' => r.cursor = c \/ (Ahead(j) /\ r.cursor = d)
      BY <1>2, <2>1, <2>3 DEF Ahead, MovesAway
    <3>3. Ahead(j)' => Holds(r.cursor, {})'
      BY <2>3, <3>2
    <3>4. QED
      BY <2>3, <3>1, <3>3 DEF HeldBy
  <2>5. Holds(cursor, {})'
    BY <1>2, <2>2, <2>3
  <2>6. QED
    BY <2>2, <2>3, <2>4, <2>5, HeldMoves
<1>7. CASE Finds(j)
  <2>1. /\ InPage(j) /\ InPage(j)' /\ (\E r : Move(j, r)) /\ UNCHANGED <<log, rows, cursor, lost>>
        /\ job'[j].writes = W /\ job'[j].next = m
    BY <1>2, <1>7, FindsIs
  <2>2. Holds(c, {})' /\ Holds(m, W)' /\ Lasting
    BY <1>4, <1>5, <2>1
  <2>3. HeldBy(j)'
    BY <2>1, <2>2 DEF HeldBy, Ahead, InPage
  <2>4. Holds(cursor, {})'
    BY <1>2, <2>1, <2>2
  <2>5. QED
    BY <2>1, <2>2, <2>3, <2>4, HeldMoves
<1>8. CASE DeleteRemoved(j)
  <2>1. /\ InPage(j) /\ InPage(j)' /\ (\E r : Move(j, r)) /\ UNCHANGED <<log, cursor, lost>>
        /\ job'[j].writes = W /\ job'[j].next = m
        /\ rows' = [t \in Txns |-> IF t \in job[j].removed THEN Absent ELSE rows[t]]
    BY <1>2, <1>8, DeleteIs
  <2>2. Lasting
    <3>1. ASSUME NEW t \in job[j].removed PROVE ~Kept(t, 0, Len(log))
      <4>1. PageForm(j) /\ PageRemovals(j)
        BY <1>1, <2>1 DEF PageSound
      <4>2. PICK i \in Page(j) : log[i].txn = t /\ log[i].kind = "removed"
        BY <4>1 DEF PageRemovals
      <4>3. i \in 0 + 1..Len(log)
        BY <1>1, <4>1 DEF Page, PageForm
      <4>4. QED
        BY <4>2, <4>3 DEF Kept
    <3>2. QED
      BY <2>1, <3>1 DEF Lasting
  <2>3. Holds(c, {})' /\ Holds(m, W)'
    BY <1>4, <2>1, <2>2
  <2>4. HeldBy(j)'
    BY <2>1, <2>3 DEF HeldBy, Ahead, InPage
  <2>5. Holds(cursor, {})'
    BY <1>2, <2>1, <2>3
  <2>6. QED
    BY <2>1, <2>2, <2>4, <2>5, HeldMoves
<1>9. CASE SaveCursor(j)
  <2>1. /\ InPage(j) /\ W = {} /\ cursor' = m /\ UNCHANGED <<log, rows, lost>>
    BY <1>2, <1>9, SaveIs
  <2>2. PICK r : /\ Move(j, r) /\ r.pc \in {"fetch", "finish"}
                 /\ r.pc = "fetch" => r.cursor = m
    BY <1>2, <1>9, SaveIs
  <2>3. Holds(m, {})' /\ Lasting
    BY <1>4, <1>5, <2>1
  <2>4. job'[j] = r /\ HeldBy(j)'
    BY <2>2, <2>3, Moves DEF HeldBy, Ahead, InPage
  <2>5. Holds(cursor, {})'
    BY <2>1, <2>3
  <2>6. QED
    BY <2>1, <2>2, <2>3, <2>4, <2>5, HeldMoves
<1>10. QED
  BY <1>6, <1>7, <1>8, <1>9, HeldWrite, HeldFetch

--------------------------------------------------------------------------------
(* The rows follow the bank *)

\* What follows the next write in its transaction is pending behind it.
LEMMA Behind ==
  ASSUME LogSound, NEW j, PageForm(j), PageOrder(j), PageRemovals(j), job[j].writes # {},
         NEW n, n = NextWrite(j), NEW k \in n + 1..job[j].next, log[k].txn = log[n].txn
  PROVE  \/ k \in job[j].writes /\ k # n
         \/ log[k].kind = "removed" /\ log[k].txn \in job[j].removed
<1>1. n \in job[j].writes /\ Len(log) \in Nat
  BY NextWriteIs, LogLength
<1>2. n \in Page(j) /\ k \in Page(j) /\ n \in 1..Len(log) /\ k \in 1..Len(log) /\ n < k
  BY <1>1 DEF PageForm, Page
<1>3. log[n].kind # "removed" /\ log[k].kind # "added"
  BY <1>2 DEF LogSound
<1>4. CASE log[k].kind = "removed"
  BY <1>1, <1>2, <1>4 DEF PageRemovals
<1>5. CASE log[k].kind # "removed"
  <2>1. Earlier(n, k)
    BY <1>2, <1>3 DEF Earlier
  <2>2. QED
    BY <1>1, <1>2, <1>5, <2>1 DEF PageOrder
<1>6. QED
  BY <1>4, <1>5

\* A write that leaves the row as it is was in front of it.
LEMMA NoNews ==
  ASSUME LogSound, NEW j, InPage(j), PageForm(j), job[j].writes # {},
         NEW n, n = NextWrite(j), NEW t, t = log[n].txn, NEW p \in 0..Len(log), NEW row \in Int,
         Stands(row, t, p), Pending(j, t, p),
         \/ log[n].kind = "added" /\ row # Absent
         \/ log[n].kind = "modified" /\ row = Absent
  PROVE  n <= p
<1>1. n \in job[j].writes /\ Len(log) \in Nat
  BY NextWriteIs, LogLength
<1>2. n \in 1..Len(log) /\ n <= job[j].next /\ job[j].next \in Nat
  BY <1>1 DEF PageForm, Page
<1>3. CASE log[n].kind = "added" /\ row # Absent
  <2>1. PICK m \in 1..p : log[m].txn = t
    BY <1>3 DEF Stands
  <2>2. ~(m < n)
    BY <1>1, <1>2, <1>3, <2>1 DEF LogSound
  <2>3. QED
    BY <1>1, <1>2, <2>1, <2>2
<1>4. CASE log[n].kind = "modified" /\ row = Absent
  <2>1. SUFFICES ASSUME p < n PROVE FALSE
    BY <1>1, <1>2
  <2>2. PICK i \in 1..n - 1 : log[i].txn = t /\ log[i].kind = "added"
    BY <1>2, <1>4 DEF LogSound
  <2>3. CASE i <= p
    <3>1. ~Untold(t, 0, p)
      BY <1>1, <2>2, <2>3 DEF Untold
    <3>2. PICK m \in 1..p : log[m].txn = t /\ Leaves(m) = Absent
      BY <1>4, <3>1 DEF Stands
    <3>3. m \in 1..Len(log) /\ m < n
      BY <1>1, <1>2, <2>1, <3>2
    <3>4. log[m].kind # "removed"
      BY <1>2, <3>2, <3>3 DEF LogSound
    <3>5. QED
      BY <3>2, <3>3, <3>4, Entry DEF Leaves, Absent
  <2>4. CASE ~(i <= p)
    <3>1. i \in p + 1..job[j].next
      BY <1>1, <1>2, <2>2, <2>4
    <3>2. i \in job[j].writes
      BY <2>2, <3>1 DEF Pending
    <3>3. QED
      BY <1>4, <2>2, <3>2, NextWriteIs
  <2>5. QED
    BY <2>3, <2>4
<1>5. QED
  BY <1>3, <1>4

\* A write takes the row of its transaction to where the change is, or leaves it.
LEMMA WriteReflects ==
  ASSUME Flow, SyncForm, NEW j \in Jobs, Writes(j), NEW t \in Txns \ lost',
         NEW p \in cursor..Len(log), Stands(rows[t], t, p), Pending(j, t, p),
         job[j].cursor = cursor
  PROVE  \E q \in cursor..Len(log) : Stands(rows'[t], t, q) /\ Pending(j, t, q)'
<1>1. /\ InPage(j) /\ job[j].writes # {} /\ Move(j, Applied(j))
      /\ UNCHANGED <<log, cursor>>
  BY WriteIs
<1>2. /\ LogSound /\ PageSound(j) /\ Len(log) \in Nat /\ cursor \in 0..Len(log)
      /\ PageForm(j) /\ PageOrder(j) /\ PageRemovals(j)
      /\ rows \in [Txns -> Nat \union {Absent}]
  BY <1>1, LogLength DEF Flow, PageSound
<1>3. PICK n, u : n = NextWrite(j) /\ u = log[n].txn
  OBVIOUS
<1>4. /\ InPage(j)' /\ job'[j].writes = job[j].writes \ {n} /\ job'[j].next = job[j].next
      /\ job'[j].removed = job[j].removed /\ n \in job[j].writes
  BY <1>1, <1>2, <1>3, AppliedIs
<1>5. /\ n \in 1..Len(log) /\ n \in cursor + 1..job[j].next /\ job[j].next <= Len(log)
      /\ log[n].kind # "removed" /\ job[j].next \in Nat
  BY <1>2, <1>4 DEF PageForm, Page
<1>6. u = Change(j).txn /\ u \in Txns
  BY <1>2, <1>3, <1>5, Entry DEF Change
<1>7. p \in 0..Len(log) /\ rows[t] \in Int
  BY <1>2 DEF Absent
<1>8. CASE rows'[t] = rows[t] /\ (t # u \/ n <= p)
  <2>1. Pending(j, t, p)'
    BY <1>1, <1>2, <1>3, <1>4, <1>5, <1>7, <1>8 DEF Pending
  <2>2. QED
    BY <1>8, <2>1
<1>9. CASE rows'[t] = Leaves(n) /\ t = u
  <2>1. Stands(rows'[t], t, n)
    BY <1>2, <1>3, <1>5, <1>9 DEF Stands, Untold
  <2>2. ASSUME NEW k \in n + 1..job[j].next, log[k].txn = t
        PROVE  \/ k \in job[j].writes /\ k # n
               \/ log[k].kind = "removed" /\ t \in job[j].removed
    BY <1>1, <1>2, <1>3, <1>9, <2>2, Behind
  <2>3. Pending(j, t, n)'
    BY <1>1, <1>4, <2>2 DEF Pending
  <2>4. n \in cursor..Len(log)
    BY <1>2, <1>5
  <2>5. QED
    BY <2>1, <2>3, <2>4
<1>10. CASE t # u
  <2>1. rows'[t] = rows[t]
    BY <1>6, <1>10, WriteIs
  <2>2. QED
    BY <1>8, <1>10, <2>1
<1>11. CASE t = u
  <2>1. rows'[t] = Stepped(rows[t], t, n)
    BY <1>3, <1>6, <1>11, WriteIs
  <2>2. CASE log[n].kind = "added"
    <3>1. rows'[t] = IF rows[t] = Absent THEN log[n].amount ELSE rows[t]
      BY <1>2, <1>3, <1>5, <1>7, <1>11, <2>1, <2>2, SteppedIs
    <3>2. CASE rows[t] = Absent
      BY <1>9, <1>11, <2>2, <3>1, <3>2 DEF Leaves
    <3>3. CASE rows[t] # Absent
      <4>1. n <= p
        BY <1>1, <1>2, <1>3, <1>7, <1>11, <2>2, <3>3, NoNews
      <4>2. QED
        BY <1>8, <3>1, <3>3, <4>1
    <3>4. QED
      BY <3>2, <3>3
  <2>3. CASE log[n].kind = "modified"
    <3>1. rows'[t] = IF rows[t] = Absent THEN Absent ELSE log[n].amount
      BY <1>2, <1>3, <1>5, <1>7, <1>11, <2>1, <2>3, SteppedIs
    <3>2. CASE rows[t] # Absent
      BY <1>9, <1>11, <2>3, <3>1, <3>2 DEF Leaves
    <3>3. CASE rows[t] = Absent
      <4>1. n <= p
        BY <1>1, <1>2, <1>3, <1>7, <1>11, <2>3, <3>3, NoNews
      <4>2. QED
        BY <1>8, <3>1, <3>3, <4>1
    <3>4. QED
      BY <3>2, <3>3
  <2>4. QED
    BY <1>2, <1>5, <2>2, <2>3, Entry
<1>12. QED
  BY <1>10, <1>11

LEMMA SoloMoves ==
  ASSUME StatusInv, NEW j \in Jobs, NEW r, Move(j, r), ~overlapped, Running(j),
         AtCursor(j)',
         \A t \in Txns \ lost' : \E p \in cursor'..Len(log)' :
           Stands(rows[t], t, p)' /\ Pending(j, t, p)'
  PROVE  Solo'
<1>1. SyncForm /\ Alone
  BY DEF StatusInv
<1>2. \A k \in Jobs \ {j} : ~Running(k) /\ job'[k] = job[k]
  BY <1>1, Moves DEF Alone
<1>3. \A k \in Jobs \ {j} : AtCursor(k)' /\ ~InPage(k)'
  BY <1>2 DEF Running, AtCursor, Ahead, InPage
<1>4. \A k \in Jobs \ {j} : \A t, p : Pending(k, t, p)'
  BY <1>3 DEF Pending
<1>5. Followed'
  BY <1>3 DEF Followed
<1>6. Reflected'
  <2> SUFFICES ASSUME NEW t \in Txns \ lost'
               PROVE  \E p \in cursor'..Len(log)' : Reflects(t, p)'
    BY DEF Reflected
  <2>1. PICK p \in cursor'..Len(log)' : Stands(rows[t], t, p)' /\ Pending(j, t, p)'
    OBVIOUS
  <2>2. Reflects(t, p)'
    BY <1>4, <2>1 DEF Reflects
  <2>3. QED
    BY <2>2
<1>7. QED
  BY <1>5, <1>6 DEF Solo

\* The log grows and nothing is read of it.
LEMMA SoloGrows ==
  ASSUME Flow, Solo, Grown, lost \subseteq lost', UNCHANGED <<rows, cursor, job, overlapped>>
  PROVE  Solo'
<1>1. LogSound /\ Len(log) \in Nat /\ cursor \in 0..Len(log)
  BY LogLength DEF Flow
<1>2. SUFFICES ASSUME ~overlapped, Followed, Reflected PROVE Followed' /\ Reflected'
  BY DEF Solo
<1>3. Followed'
  BY <1>2 DEF Followed, AtCursor, Ahead, InPage
<1>4. Reflected'
  <2> SUFFICES ASSUME NEW t \in Txns \ lost
               PROVE  \E p \in cursor'..Len(log)' : Reflects(t, p)'
    BY DEF Reflected
  <2>1. PICK p \in cursor..Len(log) : Reflects(t, p)
    BY <1>2 DEF Reflected
  <2>2. p \in 0..Len(log) /\ p \in cursor'..Len(log)'
    BY <1>1 DEF Grown
  <2>3. PICK row : row = rows[t]
    OBVIOUS
  <2>4. Stands(row, t, p)'
    BY <1>1, <2>1, <2>2, <2>3, StandsGrows DEF Reflects
  <2>5. ASSUME NEW j \in Jobs PROVE Pending(j, t, p)'
    <3>1. Pending(j, t, p) /\ PageSound(j)
      BY <2>1 DEF Reflects, Flow
    <3>2. InPage(j) => \A i \in p + 1..job[j].next : i \in 1..Len(log) /\ log'[i] = log[i]
      BY <1>1, <2>2, <3>1 DEF PageSound, PageForm, Grown
    <3>3. QED
      BY <3>1, <3>2 DEF Pending, InPage
  <2>6. Reflects(t, p)'
    BY <2>2, <2>3, <2>4, <2>5 DEF Reflects
  <2>7. QED
    BY <2>2, <2>6
<1>5. QED
  BY <1>3, <1>4

\* Where each row stands, as far as job j is concerned.
LEMMA SoloAt ==
  ASSUME Solo, ~overlapped, NEW j \in Jobs, NEW t \in Txns \ lost
  PROVE  \E p \in cursor..Len(log) : Stands(rows[t], t, p) /\ Pending(j, t, p)
BY DEF Solo, Reflected, Reflects

\* The same log says the same.
LEMMA StandsStill ==
  ASSUME log' = log, NEW row, NEW t, NEW p, Stands(row, t, p)
  PROVE  Stands(row, t, p)'
BY DEF Stands, Untold, Leaves, Absent

\* A job outside its pages reads and writes no row.
LEMMA SoloAway ==
  ASSUME Flow, SyncForm, Solo, NEW j \in Jobs, Aways(j)
  PROVE  Solo'
<1>1. PICK r : MovesAway(j, r)
  BY AwayIs
<1>2. UNCHANGED <<log, rows, cursor, lost>>
  BY AwayIs
<1>3. overlapped => overlapped'
  <2>1. CASE Relink(j) \/ Begin(j)
    BY <2>1, Zenon DEF Relink, Begin
  <2>2. CASE ~Relink(j) /\ ~Begin(j)
    BY <2>2 DEF Aways, Daily, MemberSync, RelinkItem, Upsert, EnqueueLinked, RelinkFails,
                LoadAccounts, Fetch, Insert, Finish, FinishAccounts, CallFails, RecordSyncError,
                RecordAccountErrors, RecordAlert, SwallowRecord, Crash, history
  <2>3. QED
    BY <2>1, <2>2
<1>4. SUFFICES ASSUME ~overlapped, Followed, Reflected PROVE Followed' /\ Reflected'
  BY <1>3 DEF Solo
<1>5. job'[j] = r /\ \A k \in Jobs \ {j} : job'[k] = job[k]
  BY <1>1, Moves DEF MovesAway
<1>6. Followed'
  <2>1. AtCursor(j)'
    BY <1>1, <1>2, <1>4, <1>5 DEF Followed, AtCursor, Ahead, InPage, MovesAway
  <2>2. \A k \in Jobs \ {j} : AtCursor(k)'
    BY <1>2, <1>4, <1>5 DEF Followed, AtCursor, Ahead, InPage
  <2>3. QED
    BY <2>1, <2>2 DEF Followed
<1>7. Reflected'
  <2> SUFFICES ASSUME NEW t \in Txns \ lost, NEW p \in cursor..Len(log), Reflects(t, p)
               PROVE  Reflects(t, p)'
    BY <1>2, <1>4 DEF Reflected
  <2>1. PICK row : row = rows[t]
    OBVIOUS
  <2>2. Stands(row, t, p)'
    BY <1>2, <2>1, StandsStill DEF Reflects
  <2>3. \A k \in Jobs : Pending(k, t, p)'
    BY <1>1, <1>2, <1>5 DEF Reflects, Pending, InPage, MovesAway
  <2>4. QED
    BY <1>2, <2>1, <2>2, <2>3 DEF Reflects
<1>8. QED
  BY <1>6, <1>7

\* What a page read says of a transaction is all pending.
LEMMA SoloFetch ==
  ASSUME StatusInv, Flow, Solo, NEW j \in Jobs, Fetch(j), ~Refused(j)
  PROVE  Solo'
<1>1. SyncForm /\ LogSound /\ Len(log) \in Nat /\ cursor \in 0..Len(log)
  BY LogLength DEF StatusInv, Flow
<1>2. /\ InPage(j)' /\ UNCHANGED <<log, rows, cursor, lost, overlapped>>
      /\ job[j].pc = "fetch" /\ job[j].cursor \in 0..Len(log)
      /\ job'[j].cursor = job[j].cursor /\ job'[j].next \in job[j].cursor..Len(log)
      /\ \A i \in job[j].cursor + 1..job'[j].next :
           i \in job'[j].writes \/ (log[i].kind = "removed" /\ log[i].txn \in job'[j].removed)
  BY <1>1, FetchIs DEF provider, stored, history
<1>3. PICK r : Move(j, r)
  BY <1>1, FetchIs
<1>4. SUFFICES ASSUME ~overlapped PROVE Solo'
  BY <1>2 DEF Solo
<1>5. Running(j) /\ job[j].cursor = cursor
  BY <1>2, <1>4 DEF Running, Solo, Followed, AtCursor, Ahead
<1>6. AtCursor(j)'
  BY <1>2, <1>5 DEF AtCursor
<1>7. ASSUME NEW t \in Txns \ lost
      PROVE  \E p \in cursor'..Len(log)' : Stands(rows[t], t, p)' /\ Pending(j, t, p)'
  <2>1. PICK p \in cursor..Len(log) : Stands(rows[t], t, p)
    BY <1>4, SoloAt
  <2>2. PICK row : row = rows[t]
    OBVIOUS
  <2>3. Stands(row, t, p)'
    BY <1>2, <2>1, <2>2, StandsStill
  <2>4. Pending(j, t, p)'
    BY <1>1, <1>2, <1>5, <2>1 DEF Pending
  <2>5. QED
    BY <1>2, <2>1, <2>2, <2>3, <2>4
<1>8. QED
  BY <1>2, <1>3, <1>4, <1>5, <1>6, <1>7, SoloMoves

LEMMA SoloFinds ==
  ASSUME StatusInv, Flow, Solo, NEW j \in Jobs, Finds(j)
  PROVE  Solo'
<1>1. SyncForm
  BY DEF StatusInv
<1>2. /\ InPage(j) /\ InPage(j)' /\ UNCHANGED <<log, rows, cursor, lost, overlapped>>
      /\ job'[j].writes = job[j].writes /\ job'[j].removed = job[j].removed
      /\ job'[j].next = job[j].next /\ job'[j].cursor = job[j].cursor
  BY <1>1, FindsIs
<1>3. PICK r : Move(j, r)
  BY <1>1, FindsIs
<1>4. SUFFICES ASSUME ~overlapped PROVE Solo'
  BY <1>2 DEF Solo
<1>5. Running(j) /\ job[j].cursor = cursor
  BY <1>2, <1>4 DEF Running, InPage, Solo, Followed, AtCursor
<1>6. AtCursor(j)'
  BY <1>2, <1>5 DEF AtCursor
<1>7. ASSUME NEW t \in Txns \ lost
      PROVE  \E p \in cursor'..Len(log)' : Stands(rows[t], t, p)' /\ Pending(j, t, p)'
  <2>1. PICK p \in cursor..Len(log) : Stands(rows[t], t, p) /\ Pending(j, t, p)
    BY <1>4, SoloAt
  <2>2. PICK row : row = rows[t]
    OBVIOUS
  <2>3. Stands(row, t, p)'
    BY <1>2, <2>1, <2>2, StandsStill
  <2>4. Pending(j, t, p)'
    BY <1>2, <2>1 DEF Pending
  <2>5. QED
    BY <1>2, <2>1, <2>2, <2>3, <2>4
<1>8. QED
  BY <1>2, <1>3, <1>4, <1>5, <1>6, <1>7, SoloMoves

LEMMA SoloWrite ==
  ASSUME StatusInv, Flow, Solo, NEW j \in Jobs, Writes(j)
  PROVE  Solo'
<1>1. SyncForm /\ LogSound /\ PageSound(j)
  BY DEF StatusInv, Flow
<1>2. /\ InPage(j) /\ job[j].writes # {} /\ Move(j, Applied(j))
      /\ UNCHANGED <<log, cursor, overlapped>> /\ lost \subseteq lost'
  BY <1>1, WriteIs
<1>3. InPage(j)' /\ job'[j].cursor = job[j].cursor
  BY <1>1, <1>2, AppliedIs
<1>4. SUFFICES ASSUME ~overlapped PROVE Solo'
  BY <1>2 DEF Solo
<1>5. Running(j) /\ job[j].cursor = cursor
  BY <1>2, <1>4 DEF Running, InPage, Solo, Followed, AtCursor
<1>6. AtCursor(j)'
  BY <1>2, <1>3, <1>5 DEF AtCursor
<1>7. ASSUME NEW t \in Txns \ lost'
      PROVE  \E p \in cursor'..Len(log)' : Stands(rows[t], t, p)' /\ Pending(j, t, p)'
  <2>1. PICK p \in cursor..Len(log) : Stands(rows[t], t, p) /\ Pending(j, t, p)
    BY <1>2, <1>4, SoloAt
  <2>2. PICK q \in cursor..Len(log) : Stands(rows'[t], t, q) /\ Pending(j, t, q)'
    BY <1>1, <1>5, <2>1, WriteReflects
  <2>3. PICK row : row = rows'[t]
    OBVIOUS
  <2>4. Stands(row, t, q)'
    BY <1>2, <2>2, <2>3, StandsStill
  <2>5. QED
    BY <1>2, <2>2, <2>3, <2>4
<1>8. QED
  BY <1>2, <1>4, <1>5, <1>6, <1>7, SoloMoves

\* What was removed has no row, wherever it stood.
LEMMA SoloDelete ==
  ASSUME StatusInv, Flow, Solo, NEW j \in Jobs, DeleteRemoved(j)
  PROVE  Solo'
<1>1. SyncForm /\ LogSound /\ Len(log) \in Nat /\ cursor \in 0..Len(log) /\ PageSound(j)
  BY LogLength DEF StatusInv, Flow
<1>2. /\ InPage(j) /\ InPage(j)' /\ UNCHANGED <<log, cursor, lost, overlapped>>
      /\ job[j].writes = {} /\ job'[j].writes = {}
      /\ job'[j].next = job[j].next /\ job'[j].cursor = job[j].cursor
      /\ rows' = [t \in Txns |-> IF t \in job[j].removed THEN Absent ELSE rows[t]]
  BY <1>1, DeleteIs
<1>3. PICK r : Move(j, r)
  BY <1>1, DeleteIs
<1>4. SUFFICES ASSUME ~overlapped PROVE Solo'
  BY <1>2 DEF Solo
<1>5. Running(j) /\ job[j].cursor = cursor /\ PageForm(j) /\ PageRemovals(j)
  BY <1>1, <1>2, <1>4 DEF Running, InPage, Solo, Followed, AtCursor, PageSound
<1>6. AtCursor(j)'
  BY <1>2, <1>5 DEF AtCursor
<1>7. ASSUME NEW t \in Txns \ lost
      PROVE  \E p \in cursor'..Len(log)' : Stands(rows[t], t, p)' /\ Pending(j, t, p)'
  <2>1. PICK row : row = rows'[t]
    OBVIOUS
  <2>2. CASE t \in job[j].removed
    <3>1. PICK i \in Page(j) : log[i].txn = t /\ log[i].kind = "removed"
      BY <1>5, <2>2 DEF PageRemovals
    <3>2. i \in 1..Len(log) /\ i \in cursor..Len(log)
      BY <1>1, <1>5, <3>1 DEF Page, PageForm
    <3>3. Untold(t, i, Len(log))
      BY <1>1, <3>1, <3>2 DEF LogSound, Untold
    <3>4. Stands(row, t, i)
      BY <1>1, <1>2, <2>1, <2>2, <3>1, <3>2 DEF Stands, Leaves, Untold
    <3>5. Pending(j, t, i)'
      BY <1>1, <1>2, <1>5, <3>2, <3>3 DEF Pending, Untold, PageForm
    <3>6. Stands(row, t, i)'
      BY <1>2, <3>4, StandsStill
    <3>7. QED
      BY <1>2, <2>1, <3>2, <3>5, <3>6
  <2>3. CASE t \notin job[j].removed
    <3>1. PICK p \in cursor..Len(log) : Stands(rows[t], t, p) /\ Pending(j, t, p)
      BY <1>4, SoloAt
    <3>2. row = rows[t]
      BY <1>2, <2>1, <2>3
    <3>3. Stands(row, t, p)'
      BY <1>2, <3>1, <3>2, StandsStill
    <3>4. Pending(j, t, p)'
      BY <1>2, <2>3, <3>1 DEF Pending
    <3>5. QED
      BY <1>2, <2>1, <3>1, <3>3, <3>4
  <2>4. QED
    BY <2>2, <2>3
<1>8. QED
  BY <1>2, <1>3, <1>4, <1>5, <1>6, <1>7, SoloMoves

\* With the page written, every row stands where the cursor is saved, or later.
LEMMA SoloSave ==
  ASSUME StatusInv, Flow, Solo, NEW j \in Jobs, SaveCursor(j)
  PROVE  Solo'
<1>1. SyncForm /\ LogSound /\ Len(log) \in Nat /\ cursor \in 0..Len(log) /\ PageSound(j)
  BY LogLength DEF StatusInv, Flow
<1>2. /\ InPage(j) /\ PageForm(j) /\ job[j].writes = {} /\ job[j].removed = {}
      /\ cursor' = job[j].next /\ UNCHANGED <<log, rows, lost, overlapped>>
  BY <1>1, SaveIs
<1>3. PICK r : /\ Move(j, r) /\ r.pc \in {"fetch", "finish"}
               /\ r.pc = "fetch" => "cursor" \in DOMAIN r /\ r.cursor = job[j].next
  BY <1>1, SaveIs
<1>4. SUFFICES ASSUME ~overlapped PROVE Solo'
  BY <1>2 DEF Solo
<1>5. Running(j) /\ job'[j] = r
  BY <1>1, <1>2, <1>3, Moves DEF Running, InPage
<1>6. AtCursor(j)' /\ ~InPage(j)'
  BY <1>2, <1>3, <1>5 DEF AtCursor, Ahead, InPage
<1>7. ASSUME NEW t \in Txns \ lost
      PROVE  \E p \in cursor'..Len(log)' : Stands(rows[t], t, p)' /\ Pending(j, t, p)'
  <2>1. PICK p \in cursor..Len(log) : Stands(rows[t], t, p) /\ Pending(j, t, p)
    BY <1>4, SoloAt
  <2>2. PICK row, n : row = rows[t] /\ n = job[j].next
    OBVIOUS
  <2>3. n \in 0..Len(log) /\ p \in 0..Len(log)
    BY <1>1, <1>2, <2>2 DEF PageForm
  <2>4. CASE n <= p
    <3>1. Stands(row, t, p)'
      BY <1>2, <2>1, <2>2, StandsStill
    <3>2. p \in cursor'..Len(log)'
      BY <1>2, <2>2, <2>3, <2>4
    <3>3. QED
      BY <1>2, <1>6, <2>2, <3>1, <3>2 DEF Pending
  <2>5. CASE ~(n <= p)
    <3>1. Untold(t, p, n)
      BY <1>2, <2>1, <2>2 DEF Pending, Untold
    <3>2. Stands(row, t, n)
      BY <1>1, <2>1, <2>2, <2>3, <2>5, <3>1, StandsFurther
    <3>3. Stands(row, t, n)'
      BY <1>2, <3>2, StandsStill
    <3>4. n \in cursor'..Len(log)'
      BY <1>1, <1>2, <2>2, <2>3
    <3>5. QED
      BY <1>2, <1>6, <2>2, <3>3, <3>4 DEF Pending
  <2>6. QED
    BY <2>4, <2>5
<1>8. QED
  BY <1>2, <1>3, <1>4, <1>5, <1>6, <1>7, SoloMoves

--------------------------------------------------------------------------------
(* All of it *)

FlowInv == StatusInv /\ Flow /\ Held /\ Solo

LEMMA FlowInit == Init => Flow /\ Held /\ Solo
<1> SUFFICES ASSUME Init PROVE Flow /\ Held /\ Solo
  OBVIOUS
<1>1. /\ log = <<>> /\ Len(log) = 0 /\ cursor = 0 /\ rows = [t \in Txns |-> Absent]
      /\ \A j \in Jobs : job[j] = Idle
  BY DEF Init
<1>2. \A j \in Jobs : job[j].pc = "idle"
  BY <1>1 DEF Idle
<1>3. LogSound
  BY <1>1 DEF LogSound
<1>4. Flow
  BY <1>1, <1>2, <1>3 DEF Flow, PageSound, Ahead, InPage
<1>5. Held
  BY <1>1, <1>2 DEF Held, Holds, HeldBy, Ahead, InPage
<1>6. \A t \in Txns : Reflects(t, 0)
  BY <1>1, <1>2 DEF Reflects, Stands, Untold, Pending, InPage
<1>7. Solo
  BY <1>1, <1>2, <1>6 DEF Solo, Followed, AtCursor, Ahead, InPage, Reflected
<1>8. QED
  BY <1>4, <1>5, <1>7

LEMMA FlowStep == FlowInv /\ [Next]_vars => FlowInv'
<1> SUFFICES ASSUME FlowInv, [Next]_vars PROVE FlowInv'
  OBVIOUS
<1>1. StatusInv /\ SyncForm /\ Flow /\ Held /\ Solo /\ LogSound /\ Len(log) \in Nat
  BY LogLength DEF FlowInv, StatusInv, Flow
<1>2. StatusInv'
  BY <1>1, StatusStep
<1>3. ASSUME LogSound', Grown, UNCHANGED <<rows, cursor, job, lost, overlapped>>
      PROVE  Flow' /\ Held' /\ Solo'
  BY <1>1, <1>3, FlowGrows, HeldGrows, SoloGrows
<1>4. ASSUME NEW t \in Txns, Amend(t) \/ Retract(t) \/ \E a \in Accounts : Post(t, a)
      PROVE  Flow' /\ Held' /\ Solo'
  <2>1. LogSound' /\ Grown
    BY <1>1, <1>4, LogStep
  <2>2. UNCHANGED <<rows, cursor, job, lost, overlapped>>
    BY <1>4 DEF Amend, Retract, Post, Append1, stored, history
  <2>3. QED
    BY <1>3, <2>1, <2>2
<1>5. ASSUME (\E a \in Accounts : Expose(a)) \/ Expire \/ UNCHANGED vars
      PROVE  Flow' /\ Held' /\ Solo'
  <2>1. log' = log /\ UNCHANGED <<rows, cursor, job, lost, overlapped>>
    BY <1>5 DEF Expose, Expire, vars, provider, stored, history
  <2>2. LogSound' /\ Grown
    BY <1>1, <2>1 DEF LogSound, Grown
  <2>3. QED
    BY <1>3, <2>1, <2>2
<1>6. ASSUME NEW j \in Jobs,
             \/ Daily(j) \/ MemberSync(j) \/ Relink(j) \/ Step(j)
             \/ SwallowModify(j) \/ SwallowRecord(j) \/ CallFails(j) \/ RelinkFails(j) \/ Crash(j)
      PROVE  Flow' /\ Held' /\ Solo'
  <2>1. \/ Aways(j) \/ (Fetch(j) /\ ~Refused(j)) \/ Finds(j) \/ Writes(j)
        \/ DeleteRemoved(j) \/ SaveCursor(j)
    BY <1>1, <1>6, JobSteps
  <2>2. Flow' /\ Held'
    BY <1>1, <2>1, FlowJob, HeldJob
  <2>3. Solo'
    BY <1>1, <2>1, SoloAway, SoloFetch, SoloFinds, SoloWrite, SoloDelete, SoloSave
  <2>4. QED
    BY <2>2, <2>3
<1>7. Flow' /\ Held' /\ Solo'
  BY <1>4, <1>5, <1>6 DEF Next
<1>8. QED
  BY <1>2, <1>7 DEF FlowInv

LEMMA FlowHolds == Spec => []FlowInv
<1>1. Init => FlowInv
  BY StatusInit, FlowInit DEF FlowInv
<1>2. QED
  BY <1>1, FlowStep, PTL DEF Spec

\* However syncs of an item overlap, fail, are refused, crash and are run again,
\* the saved cursor never moves past a transaction the bank still holds and the
\* table does not (transaction-sync.service: the cursor is saved after the
\* page's writes).
THEOREM NothingIsMissing == Spec => []NothingMissing
<1>1. FlowInv => NothingMissing
  <2> SUFFICES ASSUME FlowInv, NEW t \in Txns \ lost, Truth(t) # Absent
               PROVE  Replay(rows[t], t, cursor) # Absent
    BY DEF NothingMissing
  <2>1. /\ LogSound /\ Len(log) \in Nat /\ cursor \in 0..Len(log)
        /\ rows \in [Txns -> Nat \union {Absent}] /\ Holds(cursor, {})
    BY LogLength DEF FlowInv, Flow, Held
  <2>2. PICK m \in 1..Len(log) : log[m].txn = t
    BY <2>1, TruthIsLast
  <2>3. PICK i \in 1..Len(log) : log[i].txn = t /\ log[i].kind = "added"
    BY <2>1, <2>2 DEF LogSound
  <2>4. Kept(t, 0, Len(log))
    BY <2>1, StandingIsKept DEF Kept
  <2>5. rows[t] # Absent \/ i \in cursor + 1..Len(log)
    BY <2>1, <2>3, <2>4 DEF Holds, Owed
  <2>6. PICK row, c : row = rows[t] /\ c = cursor
    OBVIOUS
  <2>7. /\ c \in 0..Len(log) /\ row \in Int
        /\ row # Absent \/ \E k \in c + 1..Len(log) : log[k].txn = t /\ log[k].kind = "added"
    BY <2>1, <2>3, <2>5, <2>6 DEF Absent
  <2>8. Replay(row, t, c) # Absent
    BY <2>1, <2>7, StaysPresent
  <2>9. QED
    BY <2>6, <2>8
<1>2. QED
  BY <1>1, FlowHolds, PTL

\* "a retry resumes exactly where it stopped and re-applied pages are no-ops"
\* (TransactionSyncService): as long as no two syncs of an item ran at once,
\* and wherever one is cut short and however often it is run again, replaying
\* the bank's changes from the saved cursor over the stored rows gives what the
\* bank holds.
THEOREM UndisturbedSyncCatchesUp == Spec => []UndisturbedCatchesUp
<1>1. FlowInv => UndisturbedCatchesUp
  <2> SUFFICES ASSUME FlowInv, ~overlapped, NEW t \in Txns \ lost
               PROVE  Replay(rows[t], t, cursor) = Truth(t)
    BY DEF UndisturbedCatchesUp, CatchesUp
  <2>1. /\ LogSound /\ cursor \in 0..Len(log) /\ rows \in [Txns -> Nat \union {Absent}]
    BY DEF FlowInv, Flow
  <2>2. PICK row, c : row = rows[t] /\ c = cursor
    OBVIOUS
  <2>3. PICK p \in c..Len(log) : Stands(row, t, p)
    BY <2>2 DEF FlowInv, Solo, Reflected, Reflects
  <2>4. c \in 0..Len(log) /\ row \in Int
    BY <2>1, <2>2 DEF Absent
  <2>5. Replay(row, t, c) = Truth(t)
    BY <2>1, <2>3, <2>4, CatchUp
  <2>6. QED
    BY <2>2, <2>5
<1>2. QED
  BY <1>1, FlowHolds, PTL

================================================================================
