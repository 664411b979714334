--------------------------------- MODULE Linking ---------------------------------
(***************************************************************************)
(* The first link of a bank connection and its accounts:                   *)
(* PlaidLinkService.exchange (apps/api/src/modules/accounts), several      *)
(* exchanges at a time, by one member or by two who share a bank login.    *)
(* One external item; what its relink does to the sync is in               *)
(* TransactionSync.  A slot of Exchanges is a request, one statement a     *)
(* step.                                                                   *)
(***************************************************************************)
EXTENDS Integers, FiniteSets

CONSTANTS Exchanges,  \* requests in flight
          Owners,     \* members
          BankAccounts, \* accounts the bank may expose for the item
          MaxGrants   \* BOUND: access tokens granted

ASSUME LinkingAssumption == BankAccounts # {} /\ MaxGrants \in Nat

VARIABLES
  exposed,   \* accounts the bank exposes
  item,      \* the row of plaid_items: owner and access token, or NoItem
  accounts,  \* rows of connected_accounts: account -> owner
  exchanges,
  grants,    \* access tokens granted so far
  linkedAs,  \* history: accounts an exchange has answered with, by member
  firstOwner \* history: who the item was first linked to

linkingVars == <<exposed, item, accounts, exchanges, grants, linkedAs, firstOwner>>

NoItem == [owner |-> "none", token |-> 0]
NoExchange == [at |-> "idle"]
Atx(x, point) == exchanges[x].at = point
Puts(x, state) == exchanges' = [exchanges EXCEPT ![x] = state]

LinkingInit ==
  /\ exposed \in SUBSET BankAccounts \ {{}}
  /\ item = NoItem
  /\ accounts = [a \in {} |-> "none"]
  /\ exchanges = [x \in Exchanges |-> NoExchange]
  /\ grants = 0
  /\ linkedAs = {} /\ firstOwner = "none"

\* The public token is exchanged: the bank grants another access token.
BeginExchange(x, owner) ==
  /\ Atx(x, "idle") /\ grants < MaxGrants
  /\ grants' = grants + 1
  /\ Puts(x, [at |-> "find", owner |-> owner, token |-> grants + 1])
  /\ UNCHANGED <<exposed, item, accounts, linkedAs, firstOwner>>

\* Wrong variant: nobody asks whose the item is.
BugMayLink(owner, found) == TRUE
\* "This bank connection is already linked to another account".
MayLink(owner, found) == found = NoItem \/ found.owner = owner

FindItem(x) ==
  LET e == exchanges[x]
  IN /\ Atx(x, "find")
     /\ Puts(x, IF MayLink(e.owner, item)
                THEN [at |-> "accounts", owner |-> e.owner, token |-> e.token, found |-> item]
                ELSE NoExchange)
     /\ UNCHANGED <<exposed, item, accounts, grants, linkedAs, firstOwner>>

GetAccounts(x) ==
  LET e == exchanges[x]
  IN /\ Atx(x, "accounts")
     /\ Puts(x, [at |-> "item", owner |-> e.owner, token |-> e.token, found |-> e.found, view |-> exposed])
     /\ UNCHANGED <<exposed, item, accounts, grants, linkedAs, firstOwner>>

\* Update of the row found, which keeps its owner; or create, which the unique
\* index on the external id refuses where another exchange was faster.
WriteItem(x) ==
  LET e == exchanges[x]
      rest == [at |-> "upsert", owner |-> e.owner, view |-> e.view, left |-> e.view]
  IN /\ Atx(x, "item")
     /\ CASE e.found # NoItem -> item' = [item EXCEPT !.token = e.token] /\ Puts(x, rest)
          [] e.found = NoItem /\ item = NoItem ->
               item' = [owner |-> e.owner, token |-> e.token] /\ Puts(x, rest)
          [] OTHER -> UNCHANGED item /\ Puts(x, NoExchange)
     /\ firstOwner' = IF firstOwner = "none" THEN item'.owner ELSE firstOwner
     /\ UNCHANGED <<exposed, accounts, grants, linkedAs>>

\* One upsert per account of the view; an existing row keeps its owner.
UpsertAccount(x, a) ==
  LET e == exchanges[x]
  IN /\ Atx(x, "upsert") /\ a \in e.left
     /\ accounts' = [b \in DOMAIN accounts \union {a} |->
                       IF b \in DOMAIN accounts THEN accounts[b] ELSE e.owner]
     /\ Puts(x, [e EXCEPT !.left = @ \ {a}])
     /\ UNCHANGED <<exposed, item, grants, linkedAs, firstOwner>>

\* The accounts are answered, and the route starts the first sync.
AnswerExchange(x) ==
  LET e == exchanges[x]
  IN /\ Atx(x, "upsert") /\ e.left = {}
     /\ linkedAs' = linkedAs \union {<<a, e.owner>> : a \in e.view}
     /\ Puts(x, NoExchange)
     /\ UNCHANGED <<exposed, item, accounts, grants, firstOwner>>

\* A call fails or the process dies.
ExchangeBreaks(x) ==
  /\ ~Atx(x, "idle")
  /\ Puts(x, NoExchange)
  /\ UNCHANGED <<exposed, item, accounts, grants, linkedAs, firstOwner>>

\* refreshBalances creates what the item lacks, for the item's owner.
RefreshAccount(a) ==
  /\ item # NoItem /\ a \in exposed
  /\ accounts' = [b \in DOMAIN accounts \union {a} |->
                    IF b \in DOMAIN accounts THEN accounts[b] ELSE item.owner]
  /\ UNCHANGED <<exposed, item, exchanges, grants, linkedAs, firstOwner>>

BankExposes ==
  /\ exposed' \in SUBSET BankAccounts \ {exposed, {}}
  /\ UNCHANGED <<item, accounts, exchanges, grants, linkedAs, firstOwner>>

LinkingNext ==
  \/ BankExposes
  \/ \E a \in BankAccounts : RefreshAccount(a)
  \/ \E x \in Exchanges : \/ \E owner \in Owners : BeginExchange(x, owner)
                          \/ FindItem(x) \/ GetAccounts(x) \/ WriteItem(x)
                          \/ \E a \in BankAccounts : UpsertAccount(x, a)
                          \/ AnswerExchange(x) \/ ExchangeBreaks(x)

LinkingSpec == LinkingInit /\ [][LinkingNext]_linkingVars

--------------------------------------------------------------------------------
(* Properties *)

\* A bank connection belongs to the member who linked it first, whoever else
\* exchanges a token for it at the same time: its accounts are all theirs, and
\* what an exchange answered is stored under the member it answered.
LinkedToOneMember ==
  /\ item # NoItem => item.owner = firstOwner
  /\ \A a \in DOMAIN accounts : accounts[a] = item.owner
  /\ \A pair \in linkedAs : pair[1] \in DOMAIN accounts /\ accounts[pair[1]] = pair[2]
================================================================================
