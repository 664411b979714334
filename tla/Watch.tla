---------------------------------- MODULE Watch ----------------------------------
(***************************************************************************)
(* The standing alerts of a member over the days: low balances and large   *)
(* purchases (packages/core/src/alerts/rules.ts), evaluated after each     *)
(* sync by AlertService.evaluateUser.  Purchases may reach the table days  *)
(* after they were made, an evaluation may be lost, and evaluations look   *)
(* back seven days.  Evaluations that overlap are in Bills.                *)
(***************************************************************************)
EXTENDS Integers, Sequences, SequencesExt, FiniteSets

CONSTANTS NoBalance,        \* the bank does not say
          AccountTypes,     \* types the account may have
          Balances,         \* what it may hold, in cents
          PurchaseAmounts,  \* amounts of a purchase, in cents
          Ages,             \* days a purchase may take to reach the table
          MaxPurchases,     \* BOUND: purchases
          MaxDays,          \* BOUND: days watched
          MaxSkips          \* BOUND: days without an evaluation

ASSUME WatchAssumption ==
  /\ Balances \subseteq Int /\ PurchaseAmounts \subseteq Nat /\ Ages \subseteq Nat
  /\ MaxPurchases \in Nat /\ MaxDays \in Nat /\ MaxSkips \in Nat

VARIABLES
  account,    \* its type, and its balance or NoBalance
  purchases,  \* the member's purchases in the table: day made, day stored, amount
  raised,     \* the keys of the alerts, none of which is ever read
  watchDay,   \* the day
  evaluated,  \* what is stored today was evaluated
  skips       \* days that ended without

watchVars == <<account, purchases, raised, watchDay, evaluated, skips>>

LowBalanceThreshold == 5000
LargePurchaseThreshold == 25000
LookbackDays == 7

\* Cash accounts only; the key names the balance.
FindLowBalanceAccounts(accounts) ==
  {[type |-> "low_balance", about |-> a.balance] :
     a \in {x \in accounts : /\ x.type \in {"checking", "savings"}
                             /\ x.balance # NoBalance
                             /\ x.balance < LowBalanceThreshold}}

FindLargePurchases(ids) ==
  {[type |-> "large_purchase", about |-> i] :
     i \in {x \in ids : purchases[x].amount > LargePurchaseThreshold}}

\* Wrong variant: only what was bought on the day.
BugRecent(cut) == {i \in DOMAIN purchases : purchases[i].made >= cut + LookbackDays - 1}
\* Seven days back to the minute: of the seventh day, what was bought later that day.
Recent(cut) == {i \in DOMAIN purchases : purchases[i].made >= cut}

EvaluateUser ==
  /\ \E cut \in {watchDay - LookbackDays, watchDay - LookbackDays + 1} :
       LET drafts == FindLowBalanceAccounts({account}) \union FindLargePurchases(Recent(cut))
       IN raised' = raised \o SetToSeq({d \in drafts : d \notin ToSet(raised)})
  /\ evaluated' = TRUE
  /\ UNCHANGED <<account, purchases, watchDay, skips>>

\* A sync stores a purchase or refreshes the balance; an evaluation follows.
StorePurchase ==
  /\ Len(purchases) < MaxPurchases
  /\ \E age \in Ages, amount \in PurchaseAmounts :
       purchases' = Append(purchases, [made |-> watchDay - age, stored |-> watchDay, amount |-> amount])
  /\ evaluated' = FALSE
  /\ UNCHANGED <<account, raised, watchDay, skips>>

RefreshBalance ==
  /\ \E balance \in Balances \union {NoBalance} : account' = [account EXCEPT !.balance = balance]
  /\ evaluated' = FALSE
  /\ UNCHANGED <<purchases, raised, watchDay, skips>>

\* Jobs that used up their attempts leave a day without an evaluation.
DayEnds ==
  /\ watchDay < MaxDays
  /\ evaluated \/ skips < MaxSkips
  /\ skips' = IF evaluated THEN skips ELSE skips + 1
  /\ watchDay' = watchDay + 1 /\ evaluated' = FALSE
  /\ UNCHANGED <<account, purchases, raised>>

WatchInit ==
  /\ account \in [type : AccountTypes, balance : {NoBalance}]
  /\ purchases = <<>> /\ raised = <<>>
  /\ watchDay = 0 /\ evaluated = FALSE /\ skips = 0

WatchNext == EvaluateUser \/ StorePurchase \/ RefreshBalance \/ DayEnds

WatchSpec == WatchInit /\ [][WatchNext]_watchVars

--------------------------------------------------------------------------------
(* Property *)

\* However often the member is evaluated, no fact is announced twice; a large
\* purchase is announced although it came late and evaluations were lost, as long as
\* both together stay within the days looked back; and what the balance is when it was
\* last evaluated is announced when it is low, in a cash account only
\* (findLowBalanceAccounts, findLargePurchases, evaluateUser).
WatchIsKept ==
  LET keys == ToSet(raised) IN
  /\ Cardinality(keys) = Len(raised)
  /\ \A i \in DOMAIN purchases :
       LET p == purchases[i]
           key == [type |-> "large_purchase", about |-> i]
       IN /\ key \in keys => p.amount > LargePurchaseThreshold
          /\ /\ p.amount > LargePurchaseThreshold
             /\ p.stored - p.made + skips < LookbackDays
             /\ watchDay > p.stored + skips
             => key \in keys
  /\ evaluated /\ account.type = "checking" /\ account.balance # NoBalance =>
       (account.balance < LowBalanceThreshold
          <=> [type |-> "low_balance", about |-> account.balance] \in keys)
  /\ account.type = "credit_card" => \A k \in keys : k.type = "large_purchase"
================================================================================
