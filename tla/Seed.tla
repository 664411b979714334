---------------------------------- MODULE Seed ----------------------------------
(***************************************************************************)
(* The seed of a development or staging database: merchants and staff are  *)
(* upserted, the demo members are deleted with everything they own, and    *)
(* both are written again, statement by statement and in no transaction.   *)
(* Seeds may be run again, at the same time, and die anywhere.             *)
(***************************************************************************)
EXTENDS Naturals, Sequences, SequencesExt, FiniteSets

CONSTANT Seeders   \* BOUND: the runs of the script

ASSUME SeedAssumption == Seeders \subseteq Nat \ {0}

VARIABLES
  at,      \* per run: the statement it is in, 0 before it starts
  left,    \* per run: rows of that statement still to be written
  shared,  \* merchants and staff accounts
  users,   \* per demo member: the run that made the account, 0 for none
  db       \* what the members own: the account (its run), the member, the row

seedVars == <<at, left, shared, users, db>>

DemoMembers == {"demo", "free"}

--------------------------------------------------------------------------------
(* The script *)

Upsert(row) == [do |-> "upsert", member |-> "none", rows |-> {row}]
DeleteDemo == [do |-> "delete", member |-> "none", rows |-> {}]
User(m, rows) == [do |-> "user", member |-> m, rows |-> rows]
\* Promise.all: each row is a statement, and they end in any order.
Each(m, rows) == [do |-> "each", member |-> m, rows |-> rows]
\* createMany, create, update: one statement.
Once(m, rows) == [do |-> "once", member |-> m, rows |-> rows]

MainHead ==
  << Upsert("streaming_plus"), Upsert("city_internet"), Upsert("agent"), Upsert("admin"),
     DeleteDemo >>

\* Of each list: the rows a case is about, and one that has none.
PremiumMember ==
  << User("demo", {"consents", "premium"}),
     Each("demo", {"gym", "cloud", "daily_ledger"}),
     Each("demo", {"internet", "mobile", "power"}),
     Once("demo", {"gym_case"}), Once("demo", {"gym_canceled"}),
     Once("demo", {"cloud_case"}), Once("demo", {"cloud_requested"}),
     Once("demo", {"internet_case"}), Once("demo", {"internet_repriced"}),
     Once("demo", {"mobile_case"}),
     Once("demo", {"gym_credit", "internet_credit", "manual_credit"}),
     Once("demo", {"price_alert", "bill_alert"}) >>

FreeMember ==
  << User("free", {"consents"}), Once("free", {"streaming", "music"}), Once("free", {"internet"}) >>

Script == MainHead \o PremiumMember \o FreeMember

\* These rows keep the subscription or bill they are about (ON DELETE RESTRICT).
Cases == {"gym_case", "cloud_case", "internet_case", "mobile_case"}
Credited == [row \in {"gym_credit", "internet_credit"} |->
              IF row = "gym_credit" THEN "gym_case" ELSE "internet_case"]

Died == Len(Script) + 2
Succeeded == Len(Script) + 1
Running(r) == at[r] \in 1..Len(Script)
Statement(r) == Script[at[r]]

--------------------------------------------------------------------------------
(* Its statements *)

Owned(r, m, rows) == [account : {r}, member : {m}, row : rows]

MoveOn(r) ==
  /\ at' = [at EXCEPT ![r] = @ + 1]
  /\ left' = [left EXCEPT ![r] = IF at[r] < Len(Script) THEN Script[at[r] + 1].rows ELSE {}]

Fail(r) == at' = [at EXCEPT ![r] = Died] /\ left' = [left EXCEPT ![r] = {}]

\* In production the script refuses to start.
Start(r) == at[r] = 0 /\ MoveOn(r) /\ UNCHANGED <<shared, users, db>>

UpsertShared(r) ==
  /\ Running(r) /\ Statement(r).do = "upsert"
  /\ shared' = shared \union Statement(r).rows
  /\ MoveOn(r) /\ UNCHANGED <<users, db>>

\* Everything the members own goes with them, but PostgreSQL cascades to their
\* subscriptions and bills before it does to the cases, which hold on to those.
HeldByCases == \E x \in db : x.row \in Cases

DeleteMembers(r) ==
  /\ Running(r) /\ Statement(r).do = "delete"
  /\ IF HeldByCases
       THEN Fail(r) /\ UNCHANGED <<users, db>>
       ELSE MoveOn(r) /\ users' = [m \in DemoMembers |-> 0] /\ db' = {}
  /\ UNCHANGED shared

\* users_email_key.
BugEmailIsFree(m) == TRUE
EmailIsFree(m) == users[m] = 0

CreateMember(r) ==
  /\ Running(r) /\ Statement(r).do = "user"
  /\ LET m == Statement(r).member
     IN  IF EmailIsFree(m)
           THEN /\ MoveOn(r) /\ users' = [users EXCEPT ![m] = r]
                /\ db' = db \union Owned(r, m, Statement(r).rows)
           ELSE Fail(r) /\ UNCHANGED <<users, db>>
  /\ UNCHANGED shared

\* A row of an account that is gone is refused.
AccountStands(r) == users[Statement(r).member] = r

CreateEach(r) ==
  /\ Running(r) /\ Statement(r).do = "each"
  /\ IF AccountStands(r)
       THEN \E row \in left[r] :
              /\ db' = db \union Owned(r, Statement(r).member, {row})
              /\ IF left[r] = {row} THEN MoveOn(r)
                 ELSE left' = [left EXCEPT ![r] = @ \ {row}] /\ UNCHANGED at
       ELSE Fail(r) /\ UNCHANGED db
  /\ UNCHANGED <<shared, users>>

CreateOnce(r) ==
  /\ Running(r) /\ Statement(r).do = "once"
  /\ IF AccountStands(r)
       THEN MoveOn(r) /\ db' = db \union Owned(r, Statement(r).member, Statement(r).rows)
       ELSE Fail(r) /\ UNCHANGED db
  /\ UNCHANGED <<shared, users>>

SeederDies(r) == Running(r) /\ Fail(r) /\ UNCHANGED <<shared, users, db>>

SeedInit ==
  /\ at = [r \in Seeders |-> 0] /\ left = [r \in Seeders |-> {}]
  /\ shared = {} /\ users = [m \in DemoMembers |-> 0] /\ db = {}

SeedNext == \E r \in Seeders :
  \/ Start(r) \/ UpsertShared(r) \/ DeleteMembers(r) \/ CreateMember(r)
  \/ CreateEach(r) \/ CreateOnce(r) \/ SeederDies(r)

SeedSpec == SeedInit /\ [][SeedNext]_seedVars

--------------------------------------------------------------------------------
(* Property *)

\* However runs overlap, repeat and die, no row is there twice or belongs to an
\* account that is gone; a credit has its case ("matching ledger entries", seed.ts);
\* and a run that reported success left both members complete, all from itself,
\* and no later run takes a part of that away.
SeedIsSound ==
  /\ \A x, y \in db : x.member = y.member /\ x.row = y.row => x = y
  /\ \A x \in db : x.account = users[x.member]
  /\ \A row \in DOMAIN Credited :
       (\E x \in db : x.row = row) => \E x \in db : x.row = Credited[row]
  /\ \A r \in Seeders : at[r] = Succeeded =>
       /\ {s.rows : s \in {t \in ToSet(Script) : t.do = "upsert"}} \subseteq {{x} : x \in shared}
       /\ \A s \in {t \in ToSet(Script) : t.member \in DemoMembers} :
            Owned(r, s.member, s.rows) \subseteq db
================================================================================
