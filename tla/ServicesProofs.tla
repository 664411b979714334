------------------------------ MODULE ServicesProofs ------------------------------
(***************************************************************************)
(* The services that share no state, each for every number of requests at  *)
(* a time: bank links, statements and their objects, the sessions of an    *)
(* account, the wizard of a device, the dashboard with the requests it     *)
(* gave up, and the advice about a subscription.                           *)
(***************************************************************************)
EXTENDS Linking, Statements, Sessions, Device, Dashboard, Advice, Induction,
        FiniteSetTheorems, SequenceTheorems, TLAPS

--------------------------------------------------------------------------------
(* Linking: the invariant *)

Tokens == Nat \ {0}
ItemRows == [owner : Owners, token : Tokens]

\* The forms an exchange takes, one per point it may be at.
ExchangeStates ==
  [at : {"idle"}]
    \union [at : {"find"}, owner : Owners, token : Tokens]
    \union [at : {"accounts"}, owner : Owners, token : Tokens, found : ItemRows \union {NoItem}]
    \union [at : {"item"}, owner : Owners, token : Tokens, found : ItemRows \union {NoItem},
            view : SUBSET BankAccounts]
    \union [at : {"upsert"}, owner : Owners, view : SUBSET BankAccounts,
            left : SUBSET BankAccounts]

LinkingType ==
  /\ exposed \subseteq BankAccounts
  /\ item \in ItemRows \union {NoItem}
  /\ accounts = [a \in DOMAIN accounts |-> accounts[a]]
  /\ exchanges \in [Exchanges -> ExchangeStates]
  /\ grants \in Nat

\* Nothing is linked before the item is.
Unlinked == item = NoItem => DOMAIN accounts = {} /\ linkedAs = {} /\ firstOwner = "none"

\* What an exchange has found is the owner's item, and has not been removed;
\* one that writes accounts writes them for the item's owner.
Sound(x) ==
  LET e == exchanges[x]
  IN /\ e.at \in {"accounts", "item"} =>
          (e.found # NoItem => item # NoItem /\ e.found.owner = e.owner /\ item.owner = e.owner)
     /\ e.at = "upsert" =>
          item # NoItem /\ item.owner = e.owner /\ e.view \ e.left \subseteq DOMAIN accounts

LinkingInv == LinkingType /\ Unlinked /\ LinkedToOneMember /\ \A x \in Exchanges : Sound(x)

--------------------------------------------------------------------------------
LEMMA NothingLinked == LinkingInit => LinkingInv
<1> SUFFICES ASSUME LinkingInit PROVE LinkingInv
  OBVIOUS
<1>1. LinkingType
  BY DEF LinkingInit, LinkingType, NoExchange, ExchangeStates
<1>2. Unlinked /\ LinkedToOneMember
  BY DEF LinkingInit, Unlinked, LinkedToOneMember
<1>3. \A x \in Exchanges : Sound(x)
  BY DEF LinkingInit, Sound, NoExchange
<1>4. QED
  BY <1>1, <1>2, <1>3 DEF LinkingInv

\* Tokens are never zero, so a row is never the absent one.
LEMMA RowIsNoItem == ASSUME NEW row \in ItemRows PROVE row # NoItem
BY DEF ItemRows, NoItem, Tokens

\* An exchange that moves on without a write: its new state has the right form
\* and claims only what is so.
LEMMA MoveOn ==
  ASSUME LinkingInv, NEW x \in Exchanges, NEW state \in ExchangeStates, Puts(x, state),
         UNCHANGED <<item, accounts, linkedAs, firstOwner>>,
         exposed' = exposed, grants' \in Nat, Sound(x)'
  PROVE  LinkingInv'
<1>1. LinkingType'
  BY DEF LinkingInv, LinkingType, Puts
<1>2. Unlinked' /\ LinkedToOneMember'
  BY DEF LinkingInv, Unlinked, LinkedToOneMember
<1>3. ASSUME NEW y \in Exchanges, y # x PROVE Sound(y)'
  BY <1>3 DEF LinkingInv, LinkingType, Puts, Sound
<1>4. QED
  BY <1>1, <1>2, <1>3 DEF LinkingInv

LEMMA IdleForm == NoExchange \in ExchangeStates
BY DEF NoExchange, ExchangeStates

LEMMA EndExchange ==
  ASSUME LinkingInv, NEW x \in Exchanges, Puts(x, NoExchange),
         UNCHANGED <<item, accounts, linkedAs, firstOwner, exposed, grants>>
  PROVE  LinkingInv'
<1>1. exchanges'[x] = NoExchange
  BY DEF Puts, LinkingInv, LinkingType
<1>2. Sound(x)'
  BY <1>1 DEF Sound, NoExchange
<1>3. QED
  BY <1>2, IdleForm, MoveOn DEF LinkingInv, LinkingType

LEMMA LinkBegins ==
  ASSUME LinkingInv, NEW x \in Exchanges, NEW owner \in Owners, BeginExchange(x, owner)
  PROVE  LinkingInv'
<1> DEFINE state == [at |-> "find", owner |-> owner, token |-> grants + 1]
<1>1. state \in ExchangeStates /\ grants' \in Nat
  BY DEF BeginExchange, LinkingInv, LinkingType, ExchangeStates, Tokens
<1>2. exchanges'[x] = state
  BY DEF BeginExchange, Puts, LinkingInv, LinkingType
<1>3. Sound(x)'
  BY <1>2 DEF Sound
<1>4. QED
  BY <1>1, <1>3, MoveOn DEF BeginExchange

LEMMA FindForm ==
  ASSUME LinkingType, NEW x \in Exchanges, Atx(x, "find")
  PROVE  exchanges[x] \in [at : {"find"}, owner : Owners, token : Tokens]
BY DEF LinkingType, ExchangeStates, Atx

LEMMA FindOk ==
  ASSUME LinkingInv, NEW x \in Exchanges, FindItem(x)
  PROVE  LinkingInv'
<1> DEFINE e == exchanges[x]
           state == [at |-> "accounts", owner |-> e.owner, token |-> e.token, found |-> item]
<1>1. CASE ~MayLink(e.owner, item)
  BY <1>1, EndExchange DEF FindItem
<1>2. CASE MayLink(e.owner, item)
  <2>1. e \in [at : {"find"}, owner : Owners, token : Tokens]
    BY FindForm DEF FindItem, LinkingInv
  <2>2. state \in ExchangeStates
    BY <2>1 DEF ExchangeStates, LinkingInv, LinkingType
  <2>3. Puts(x, state) /\ UNCHANGED <<exposed, item, accounts, grants, linkedAs, firstOwner>>
    BY <1>2 DEF FindItem
  <2>4. exchanges'[x] = state
    BY <2>3 DEF Puts, LinkingInv, LinkingType
  <2>5. Sound(x)'
    BY <1>2, <2>3, <2>4 DEF Sound, MayLink
  <2>6. QED
    BY <2>2, <2>3, <2>5, MoveOn DEF LinkingInv, LinkingType
<1>3. QED
  BY <1>1, <1>2

LEMMA GetAccountsOk ==
  ASSUME LinkingInv, NEW x \in Exchanges, GetAccounts(x)
  PROVE  LinkingInv'
<1> DEFINE e == exchanges[x]
           state == [at |-> "item", owner |-> e.owner, token |-> e.token,
                     found |-> e.found, view |-> exposed]
<1>1. e \in [at : {"accounts"}, owner : Owners, token : Tokens,
             found : ItemRows \union {NoItem}]
  BY DEF GetAccounts, Atx, LinkingInv, LinkingType, ExchangeStates
<1>2. state \in ExchangeStates
  BY <1>1 DEF ExchangeStates, LinkingInv, LinkingType
<1>3. Puts(x, state) /\ UNCHANGED <<exposed, item, accounts, grants, linkedAs, firstOwner>>
  BY DEF GetAccounts
<1>4. exchanges'[x] = state
  BY <1>3 DEF Puts, LinkingInv, LinkingType
<1>5. Sound(x)
  BY DEF LinkingInv
<1>6. Sound(x)'
  BY <1>1, <1>3, <1>4, <1>5 DEF Sound
<1>7. QED
  BY <1>2, <1>3, <1>6, MoveOn DEF LinkingInv, LinkingType

--------------------------------------------------------------------------------
\* The row is updated for the owner it has, created where there is none, or the
\* unique index refuses it.
LEMMA WriteItemOk ==
  ASSUME LinkingInv, NEW x \in Exchanges, WriteItem(x)
  PROVE  LinkingInv'
<1> DEFINE e == exchanges[x]
           rest == [at |-> "upsert", owner |-> e.owner, view |-> e.view, left |-> e.view]
<1>1. e \in [at : {"item"}, owner : Owners, token : Tokens,
             found : ItemRows \union {NoItem}, view : SUBSET BankAccounts]
  BY DEF WriteItem, Atx, LinkingInv, LinkingType, ExchangeStates
<1>2. rest \in ExchangeStates
  BY <1>1 DEF ExchangeStates
<1>3. Sound(x)
  BY DEF LinkingInv
<1>4. UNCHANGED <<exposed, accounts, grants, linkedAs>>
  BY DEF WriteItem
<1>5. firstOwner' = IF firstOwner = "none" THEN item'.owner ELSE firstOwner
  BY DEF WriteItem
<1>6. CASE /\ item' \in ItemRows /\ item'.owner = e.owner /\ Puts(x, rest)
           /\ item # NoItem => item'.owner = item.owner
  <2>0. item' # NoItem
    BY <1>6, RowIsNoItem
  <2>1. LinkingType'
    BY <1>2, <1>4, <1>6 DEF LinkingInv, LinkingType, Puts
  <2>2. Unlinked'
    BY <2>0 DEF Unlinked
  <2>3. item'.owner = firstOwner'
    BY <1>5, <1>6 DEF LinkingInv, Unlinked, LinkedToOneMember
  <2>4. LinkedToOneMember'
    BY <1>4, <1>6, <2>3 DEF LinkingInv, LinkedToOneMember, Unlinked
  <2>5. ASSUME NEW y \in Exchanges PROVE Sound(y)'
    <3>1. CASE y = x
      <4>1. exchanges'[y] = rest
        BY <1>6, <3>1 DEF Puts, LinkingInv, LinkingType
      <4>2. QED
        BY <1>6, <2>0, <4>1 DEF Sound
    <3>2. CASE y # x
      <4>1. exchanges'[y] = exchanges[y] /\ Sound(y)
        BY <1>6, <3>2 DEF Puts, LinkingInv, LinkingType
      <4>2. QED
        BY <1>4, <1>6, <2>0, <4>1 DEF Sound
    <3>3. QED
      BY <3>1, <3>2
  <2>6. QED
    BY <2>1, <2>2, <2>4, <2>5 DEF LinkingInv
<1>7. CASE e.found # NoItem
  <2>1. item \in ItemRows /\ item.owner = e.owner
    BY <1>1, <1>3, <1>7 DEF Sound, LinkingInv, LinkingType
  <2>2. item' = [item EXCEPT !.token = e.token] /\ Puts(x, rest)
    BY <1>7 DEF WriteItem
  <2>3. item' \in ItemRows /\ item'.owner = e.owner /\ item'.owner = item.owner
    BY <1>1, <2>1, <2>2 DEF ItemRows
  <2>4. QED
    BY <1>6, <2>2, <2>3
<1>8. CASE e.found = NoItem /\ item = NoItem
  <2>1. item' = [owner |-> e.owner, token |-> e.token] /\ Puts(x, rest)
    BY <1>8 DEF WriteItem
  <2>2. item' \in ItemRows /\ item'.owner = e.owner
    BY <1>1, <2>1 DEF ItemRows
  <2>3. QED
    BY <1>6, <1>8, <2>1, <2>2
<1>9. CASE e.found = NoItem /\ item # NoItem
  <2>1. item' = item /\ Puts(x, NoExchange)
    BY <1>9 DEF WriteItem
  <2>2. firstOwner' = firstOwner
    BY <1>5, <1>9, <2>1 DEF LinkingInv, LinkedToOneMember
  <2>3. QED
    BY <1>4, <2>1, <2>2, EndExchange
<1>10. QED
  BY <1>7, <1>8, <1>9

--------------------------------------------------------------------------------
\* A row is added for the item's owner, or was there.
LEMMA AddAccount ==
  ASSUME LinkingInv, NEW a \in BankAccounts, NEW owner, item # NoItem, owner = item.owner,
         accounts' = [b \in DOMAIN accounts \union {a} |->
                        IF b \in DOMAIN accounts THEN accounts[b] ELSE owner],
         UNCHANGED <<exposed, item, grants, linkedAs, firstOwner>>
  PROVE  /\ accounts' = [b \in DOMAIN accounts' |-> accounts'[b]]
         /\ Unlinked' /\ LinkedToOneMember'
         /\ DOMAIN accounts' = DOMAIN accounts \union {a}
<1>1. /\ DOMAIN accounts' = DOMAIN accounts \union {a}
      /\ accounts' = [b \in DOMAIN accounts' |-> accounts'[b]]
      /\ \A b \in DOMAIN accounts : accounts'[b] = accounts[b]
      /\ a \notin DOMAIN accounts => accounts'[a] = owner
  OBVIOUS
<1>2. Unlinked'
  BY DEF Unlinked
<1>3. LinkedToOneMember'
  BY <1>1 DEF LinkingInv, LinkedToOneMember
<1>4. QED
  BY <1>1, <1>2, <1>3

LEMMA UpsertOk ==
  ASSUME LinkingInv, NEW x \in Exchanges, NEW a \in BankAccounts, UpsertAccount(x, a)
  PROVE  LinkingInv'
<1> DEFINE e == exchanges[x]
           state == [e EXCEPT !.left = @ \ {a}]
<1>1. /\ e \in [at : {"upsert"}, owner : Owners, view : SUBSET BankAccounts,
                left : SUBSET BankAccounts]
      /\ Sound(x) /\ e.at = "upsert"
  BY DEF UpsertAccount, Atx, LinkingInv, LinkingType, ExchangeStates
<1>2. item # NoItem /\ item.owner = e.owner
  BY <1>1 DEF Sound
<1>3. /\ accounts' = [b \in DOMAIN accounts' |-> accounts'[b]]
      /\ Unlinked' /\ LinkedToOneMember'
      /\ DOMAIN accounts' = DOMAIN accounts \union {a}
  BY <1>2, AddAccount DEF UpsertAccount
<1>4. Puts(x, state) /\ UNCHANGED <<exposed, item, grants, linkedAs, firstOwner>>
  BY DEF UpsertAccount
<1>5. state \in [at : {"upsert"}, owner : Owners, view : SUBSET BankAccounts,
                 left : SUBSET BankAccounts]
  BY <1>1
<1>6. LinkingType'
  BY <1>3, <1>4, <1>5 DEF LinkingInv, LinkingType, Puts, ExchangeStates
<1>7. ASSUME NEW y \in Exchanges PROVE Sound(y)'
  <2>1. CASE y = x
    <3>1. exchanges'[y] = state
      BY <1>4, <2>1 DEF Puts, LinkingInv, LinkingType
    <3>2. state.at = "upsert" /\ state.owner = e.owner /\ state.view = e.view
          /\ state.left = e.left \ {a}
      BY <1>1
    <3>3. e.view \ (e.left \ {a}) \subseteq DOMAIN accounts'
      BY <1>1, <1>3 DEF Sound
    <3>4. QED
      BY <1>2, <1>4, <3>1, <3>2, <3>3 DEF Sound
  <2>2. CASE y # x
    <3>1. exchanges'[y] = exchanges[y] /\ Sound(y)
      BY <1>4, <2>2 DEF Puts, LinkingInv, LinkingType
    <3>2. QED
      BY <1>3, <1>4, <3>1 DEF Sound
  <2>3. QED
    BY <2>1, <2>2
<1>8. QED
  BY <1>3, <1>6, <1>7 DEF LinkingInv

LEMMA RefreshOk ==
  ASSUME LinkingInv, NEW a \in BankAccounts, RefreshAccount(a)
  PROVE  LinkingInv'
<1>1. /\ accounts' = [b \in DOMAIN accounts' |-> accounts'[b]]
      /\ Unlinked' /\ LinkedToOneMember'
      /\ DOMAIN accounts' = DOMAIN accounts \union {a}
  BY AddAccount DEF RefreshAccount
<1>2. LinkingType'
  BY <1>1 DEF RefreshAccount, LinkingInv, LinkingType
<1>3. \A y \in Exchanges : Sound(y)'
  BY <1>1 DEF RefreshAccount, LinkingInv, Sound
<1>4. QED
  BY <1>1, <1>2, <1>3 DEF LinkingInv

\* An exchange answers what it has stored under its member.
LEMMA AnswerOk ==
  ASSUME LinkingInv, NEW x \in Exchanges, AnswerExchange(x)
  PROVE  LinkingInv'
<1> DEFINE e == exchanges[x]
<1>1. /\ item # NoItem /\ item.owner = e.owner /\ e.view \subseteq DOMAIN accounts
  BY DEF AnswerExchange, Atx, LinkingInv, Sound
<1>2. /\ UNCHANGED <<exposed, item, accounts, grants, firstOwner>> /\ Puts(x, NoExchange)
      /\ linkedAs' = linkedAs \union {<<a, e.owner>> : a \in e.view}
  BY DEF AnswerExchange
<1>3. \A pair \in linkedAs' : pair[1] \in DOMAIN accounts /\ accounts[pair[1]] = pair[2]
  BY <1>1, <1>2 DEF LinkingInv, LinkedToOneMember
<1>4. LinkedToOneMember' /\ Unlinked'
  BY <1>1, <1>2, <1>3 DEF LinkingInv, LinkedToOneMember, Unlinked
<1>5. LinkingType'
  BY <1>2, IdleForm DEF LinkingInv, LinkingType, Puts
<1>6. ASSUME NEW y \in Exchanges PROVE Sound(y)'
  BY <1>2 DEF LinkingInv, LinkingType, Puts, Sound, NoExchange
<1>7. QED
  BY <1>4, <1>5, <1>6 DEF LinkingInv

LEMMA LinkingStep == LinkingInv /\ [LinkingNext]_linkingVars => LinkingInv'
<1> SUFFICES ASSUME LinkingInv, [LinkingNext]_linkingVars PROVE LinkingInv'
  OBVIOUS
<1>1. CASE UNCHANGED linkingVars
  BY <1>1 DEF linkingVars, LinkingInv, LinkingType, Unlinked, LinkedToOneMember, Sound
<1>2. CASE BankExposes
  BY <1>2 DEF BankExposes, LinkingInv, LinkingType, Unlinked, LinkedToOneMember, Sound
<1>3. ASSUME NEW x \in Exchanges, ExchangeBreaks(x) PROVE LinkingInv'
  BY <1>3, EndExchange DEF ExchangeBreaks
<1>4. QED
  BY <1>1, <1>2, <1>3, LinkBegins, FindOk, GetAccountsOk, WriteItemOk, UpsertOk, RefreshOk,
     AnswerOk DEF LinkingNext

\* However exchanges of one connection interleave, whoever made them, and
\* wherever they break off, its item and accounts are the first member's.
THEOREM OneMember == LinkingSpec => []LinkedToOneMember
<1>1. LinkingInv => LinkedToOneMember
  BY DEF LinkingInv
<1>2. QED
  BY <1>1, NothingLinked, LinkingStep, PTL DEF LinkingSpec

--------------------------------------------------------------------------------
(* Statements: the invariant *)

States == [at : {"idle", "put", "insert", "cleanup"}, key : Nat]
Used == 1..keys

\* Uploads have the form their point gives them; keys are handed out once.
StatementsType ==
  /\ caseOpen \in BOOLEAN
  /\ uploads \in [Uploads -> States] /\ keys \in Nat
  /\ rows \subseteq Used /\ objects \subseteq Used /\ stranded \subseteq Used
  /\ \A u \in Uploads : uploads[u].at # "idle" => uploads[u].key \in Used
  /\ \A u, v \in Underway : uploads[u].key = uploads[v].key => u = v

\* What an upload has done so far, and what is left if it breaks off.
Progress(u) ==
  LET k == uploads[u].key
  IN /\ uploads[u].at = "put" => k \notin rows /\ k \notin objects
     /\ uploads[u].at = "insert" => k \in objects /\ k \notin rows
     /\ uploads[u].at = "cleanup" => k \in objects /\ (k \in rows => k \in stranded)

Coming == {u \in Underway : uploads[u].key \notin rows}

StatementsInv ==
  /\ StatementsType
  /\ \A u \in Uploads : Progress(u)
  /\ CapHoldsPerUpload
  /\ RowsAndObjectsAgree

--------------------------------------------------------------------------------
(* Counting *)

LEMMA Counts ==
  ASSUME StatementsType
  PROVE  /\ IsFiniteSet(rows) /\ IsFiniteSet(Coming)
         /\ Cardinality(rows) \in Nat /\ Cardinality(Coming) \in Nat
         /\ Cardinality(Coming) <= Cardinality(Uploads) /\ Cardinality(Uploads) \in Nat
<1>1. IsFiniteSet(Uploads)
  BY StatementsAssumption
<1>2. IsFiniteSet(rows)
  <2>1. keys \in Int /\ rows \in SUBSET (1..keys)
    BY DEF StatementsType, Used
  <2>2. IsFiniteSet(1..keys)
    BY <2>1, FS_Interval
  <2>3. QED
    BY <2>1, <2>2, FS_Subset
<1>3. Coming \in SUBSET Uploads
  BY DEF Coming, Underway
<1>4. QED
  BY <1>1, <1>2, <1>3, FS_Subset, FS_CardinalityType

\* A step that adds no row and no upload keeps the cap.
LEMMA CapShrinks ==
  ASSUME StatementsType, CapHoldsPerUpload, rows' = rows, Coming' \subseteq Coming
  PROVE  CapHoldsPerUpload'
<1>1. Cardinality(Coming') <= Cardinality(Coming) /\ Cardinality(Coming') \in Nat
  BY Counts, FS_Subset, FS_CardinalityType
<1>2. Cardinality(rows) + Cardinality(Coming) < MaxPerCase + Cardinality(Uploads)
  BY DEF CapHoldsPerUpload, Coming
<1>3. Cardinality(rows) + Cardinality(Coming') < MaxPerCase + Cardinality(Uploads)
  BY <1>1, <1>2, Counts, StatementsAssumption
<1>4. QED
  BY <1>3 DEF CapHoldsPerUpload, Coming

\* A row that is added comes from an upload, which stops to count.
LEMMA CapMoves ==
  ASSUME StatementsType, CapHoldsPerUpload, NEW u \in Uploads,
         uploads[u].at # "idle", uploads[u].key \notin rows,
         rows' = rows \union {uploads[u].key}, Coming' \subseteq Coming \ {u}
  PROVE  CapHoldsPerUpload'
<1>1. u \in Coming
  BY DEF Coming, Underway
<1>2. /\ Cardinality(Coming \ {u}) = Cardinality(Coming) - 1 /\ IsFiniteSet(Coming \ {u})
      /\ Cardinality(rows') = Cardinality(rows) + 1
  BY <1>1, Counts, FS_RemoveElement, FS_AddElement
<1>3. Cardinality(Coming') <= Cardinality(Coming) - 1 /\ Cardinality(Coming') \in Nat
  BY <1>2, FS_Subset, FS_CardinalityType
<1>4. Cardinality(rows) + Cardinality(Coming) < MaxPerCase + Cardinality(Uploads)
  BY DEF CapHoldsPerUpload, Coming
<1>5. Cardinality(rows') + Cardinality(Coming') < MaxPerCase + Cardinality(Uploads)
  BY <1>2, <1>3, <1>4, Counts, StatementsAssumption
<1>6. QED
  BY <1>5 DEF CapHoldsPerUpload, Coming

--------------------------------------------------------------------------------
(* The steps *)

LEMMA Empty == StatementsInit => StatementsInv
<1> SUFFICES ASSUME StatementsInit PROVE StatementsInv
  OBVIOUS
<1>1. StatementsType /\ RowsAndObjectsAgree /\ \A u \in Uploads : Progress(u)
  BY DEF StatementsInit, StatementsType, States, Used, Underway, NoUpload, Progress,
     RowsAndObjectsAgree
<1>2. Coming = {} /\ rows = {}
  BY DEF StatementsInit, Coming, Underway, NoUpload
<1>3. Cardinality(Uploads) \in Nat \ {0}
  BY StatementsAssumption, FS_EmptySet, FS_CardinalityType
<1>4. CapHoldsPerUpload
  BY <1>2, <1>3, FS_EmptySet, StatementsAssumption DEF CapHoldsPerUpload, Coming
<1>5. QED
  BY <1>1, <1>4 DEF StatementsInv

\* A new upload takes a new key, and there was room for one more row.
LEMMA UploadBegins ==
  ASSUME StatementsInv, NEW u \in Uploads, BeginUpload(u)
  PROVE  StatementsInv'
<1>1. /\ uploads[u].at = "idle" /\ Cardinality(rows) < MaxPerCase /\ keys' = keys + 1
      /\ uploads' = [uploads EXCEPT ![u] = [at |-> "put", key |-> keys + 1]]
      /\ UNCHANGED <<caseOpen, rows, objects, stranded>>
  BY DEF BeginUpload, HasRoom
<1>2. StatementsType
  BY DEF StatementsInv
<1>3. Used' = Used \union {keys + 1} /\ keys + 1 \notin Used
  BY <1>1, <1>2 DEF StatementsType, Used
<1>4. /\ \A v \in Uploads \ {u} : uploads'[v] = uploads[v]
      /\ uploads'[u] = [at |-> "put", key |-> keys + 1]
  BY <1>1, <1>2 DEF StatementsType
<1>5. StatementsType'
  BY <1>1, <1>2, <1>3, <1>4 DEF StatementsType, States, Underway
<1>6. \A v \in Uploads : Progress(v)'
  BY <1>1, <1>2, <1>3, <1>4 DEF StatementsInv, Progress, StatementsType
<1>7. CapHoldsPerUpload'
  <2>1. /\ Cardinality(Coming') \in Nat /\ Cardinality(Coming') <= Cardinality(Uploads)
        /\ Cardinality(Uploads) \in Nat
    <3>1. Coming' \in SUBSET Uploads
      BY DEF Coming, Underway
    <3>2. QED
      BY <3>1, FS_Subset, FS_CardinalityType, StatementsAssumption
  <2>2. Cardinality(rows') + Cardinality(Coming') < MaxPerCase + Cardinality(Uploads)
    BY <1>1, <1>2, <2>1, Counts, StatementsAssumption
  <2>3. QED
    BY <2>2 DEF CapHoldsPerUpload, Coming
<1>8. RowsAndObjectsAgree'
  <2>1. KeysUnderway' = KeysUnderway \union {keys + 1}
    BY <1>1, <1>4 DEF KeysUnderway, Underway
  <2>2. keys + 1 \notin rows /\ keys + 1 \notin objects
    BY <1>2, <1>3 DEF StatementsType
  <2>3. QED
    BY <1>1, <2>1, <2>2 DEF StatementsInv, RowsAndObjectsAgree
<1>9. QED
  BY <1>5, <1>6, <1>7, <1>8 DEF StatementsInv

\* A step of an upload that goes on: its key stays, nothing settled moves.
LEMMA GoOn ==
  ASSUME StatementsInv, NEW u \in Uploads, uploads[u].at # "idle",
         NEW to \in {"insert", "cleanup"},
         uploads' = [uploads EXCEPT ![u].at = to],
         UNCHANGED <<caseOpen, keys>>,
         rows' \in {rows, rows \union {uploads[u].key}},
         objects' \in {objects, objects \union {uploads[u].key}},
         stranded' \in {stranded, stranded \union {uploads[u].key}},
         rows' = rows \/ uploads[u].key \notin rows,
         Progress(u)'
  PROVE  StatementsInv'
<1> DEFINE k == uploads[u].key
<1>1. StatementsType /\ k \in Used
  BY DEF StatementsInv, StatementsType
<1>2. /\ \A v \in Uploads \ {u} : uploads'[v] = uploads[v]
      /\ uploads'[u].at = to /\ uploads'[u].key = k /\ uploads'[u] \in States
  BY <1>1 DEF StatementsType, States
<1>3. Underway' = Underway /\ u \in Underway
  BY <1>2 DEF Underway
<1>4. \A v \in Uploads : uploads'[v].key = uploads[v].key
  BY <1>2
<1>5. StatementsType'
  <2>1. uploads' \in [Uploads -> States]
    BY <1>1, <1>2 DEF StatementsType
  <2>2. Used' = Used
    BY DEF Used
  <2>3. QED
    BY <1>1, <1>2, <1>3, <1>4, <2>1, <2>2 DEF StatementsType
<1>6. \A v \in Uploads : Progress(v)'
  <2> SUFFICES ASSUME NEW v \in Uploads, v # u PROVE Progress(v)'
    OBVIOUS
  <2>1. CASE uploads[v].at = "idle"
    BY <1>2, <2>1 DEF Progress
  <2>2. CASE uploads[v].at # "idle"
    <3>1. uploads[v].key # k
      BY <1>1, <1>3, <2>2 DEF StatementsType, Underway
    <3>2. QED
      BY <1>2, <3>1 DEF StatementsInv, Progress
  <2>3. QED
    BY <2>1, <2>2
<1>7. CapHoldsPerUpload'
  <2>1. CASE rows' = rows
    <3>1. Coming' = Coming
      BY <1>3, <1>4, <2>1 DEF Coming, Underway
    <3>2. QED
      BY <1>1, <2>1, <3>1, CapShrinks DEF StatementsInv
  <2>2. CASE rows' = rows \union {k} /\ k \notin rows
    <3>1. Coming' \subseteq Coming \ {u}
      BY <1>3, <1>4, <2>2 DEF Coming, Underway
    <3>2. QED
      BY <1>1, <2>2, <3>1, CapMoves DEF StatementsInv
  <2>3. QED
    BY <2>1, <2>2
<1>8. RowsAndObjectsAgree'
  <2>1. KeysUnderway' = KeysUnderway /\ k \in KeysUnderway
    BY <1>3, <1>4 DEF KeysUnderway, Underway
  <2>2. QED
    BY <2>1 DEF StatementsInv, RowsAndObjectsAgree
<1>9. QED
  BY <1>5, <1>6, <1>7, <1>8 DEF StatementsInv

\* A step that ends an upload: what it leaves behind agrees, or is stranded.
LEMMA EndsWell ==
  ASSUME StatementsInv, NEW u \in Uploads, uploads[u].at # "idle",
         uploads' = [uploads EXCEPT ![u] = NoUpload],
         UNCHANGED <<caseOpen, keys>>,
         rows' \in {rows, rows \union {uploads[u].key}},
         objects' \in {objects, objects \union {uploads[u].key}, objects \ {uploads[u].key}},
         stranded' \in {stranded, stranded \union {uploads[u].key}},
         rows' = rows \/ uploads[u].key \notin rows,
         uploads[u].key \in stranded' \/ (uploads[u].key \in rows' <=> uploads[u].key \in objects')
  PROVE  StatementsInv'
<1> DEFINE k == uploads[u].key
<1>1. StatementsType /\ k \in Used
  BY DEF StatementsInv, StatementsType
<1>2. (\A v \in Uploads \ {u} : uploads'[v] = uploads[v]) /\ uploads'[u] = NoUpload
  BY <1>1 DEF StatementsType
<1>3. Underway' = Underway \ {u} /\ u \in Underway
  BY <1>2 DEF Underway, NoUpload
<1>4. StatementsType'
  <2>1. uploads' \in [Uploads -> States] /\ Used' = Used
    BY <1>1 DEF StatementsType, States, NoUpload, Used
  <2>2. \A v \in Uploads : uploads'[v].at # "idle" => uploads'[v].key \in Used
    BY <1>1, <1>2 DEF StatementsType, NoUpload
  <2>3. \A v, w \in Underway' : uploads'[v].key = uploads'[w].key => v = w
    BY <1>1, <1>2, <1>3 DEF StatementsType, Underway
  <2>4. QED
    BY <1>1, <2>1, <2>2, <2>3 DEF StatementsType
<1>5. \A v \in Underway' : uploads[v].key # k
  BY <1>1, <1>3 DEF StatementsType
<1>6. \A v \in Uploads : Progress(v)'
  <2> SUFFICES ASSUME NEW v \in Uploads PROVE Progress(v)'
    OBVIOUS
  <2>1. CASE uploads'[v].at = "idle"
    BY <2>1 DEF Progress
  <2>2. CASE uploads'[v].at # "idle"
    <3>1. v # u /\ uploads[v].key # k
      BY <1>2, <1>5, <2>2 DEF Underway, NoUpload
    <3>2. QED
      BY <1>2, <3>1 DEF StatementsInv, Progress
  <2>3. QED
    BY <2>1, <2>2
<1>7. CapHoldsPerUpload'
  <2>1. CASE rows' = rows
    <3>1. Coming' \subseteq Coming
      BY <1>2, <1>3, <2>1 DEF Coming, Underway
    <3>2. QED
      BY <1>1, <2>1, <3>1, CapShrinks DEF StatementsInv
  <2>2. CASE rows' = rows \union {k} /\ k \notin rows
    <3>1. Coming' \subseteq Coming \ {u}
      BY <1>2, <1>3, <2>2 DEF Coming, Underway
    <3>2. QED
      BY <1>1, <2>2, <3>1, CapMoves DEF StatementsInv
  <2>3. QED
    BY <2>1, <2>2
<1>8. RowsAndObjectsAgree'
  <2>1. KeysUnderway = KeysUnderway' \union {k}
    BY <1>2, <1>3 DEF KeysUnderway, Underway
  <2>2. QED
    BY <2>1 DEF StatementsInv, RowsAndObjectsAgree
<1>9. QED
  BY <1>4, <1>6, <1>7, <1>8 DEF StatementsInv

LEMMA UploadStep ==
  ASSUME StatementsInv, NEW u \in Uploads,
         Put(u) \/ PutFails(u) \/ InsertRow(u) \/ InsertFails(u) \/ Cleanup(u) \/ Die(u)
  PROVE  StatementsInv'
<1> DEFINE k == uploads[u].key
<1>0. Progress(u) /\ StatementsType
  BY DEF StatementsInv
<1>a. ASSUME NEW to \in {"insert", "cleanup"}, uploads' = [uploads EXCEPT ![u].at = to]
      PROVE  uploads'[u].at = to /\ uploads'[u].key = k
  BY <1>0, <1>a DEF StatementsType, States
<1>1. CASE Put(u)
  <2>1. Progress(u)'
    BY <1>0, <1>1, <1>a DEF Put, Step, Progress
  <2>2. QED
    BY <1>1, <2>1, GoOn DEF Put, Step
<1>2. CASE InsertFails(u)
  <2>1. k \in objects /\ k \notin rows
    BY <1>0, <1>2 DEF InsertFails, Step, Progress
  <2>2. Progress(u)'
    BY <1>2, <1>a, <2>1 DEF InsertFails, Step, Progress
  <2>3. QED
    BY <1>2, <2>1, <2>2, GoOn DEF InsertFails, Step
<1>3. CASE PutFails(u)
  BY <1>3, EndsWell DEF PutFails, EndUpload
<1>4. CASE InsertRow(u)
  BY <1>0, <1>4, EndsWell DEF InsertRow, EndUpload, Progress
<1>5. CASE Cleanup(u)
  BY <1>0, <1>5, EndsWell DEF Cleanup, EndUpload, Progress, Without
<1>6. CASE Die(u)
  BY <1>6, EndsWell DEF Die, EndUpload
<1>7. QED
  BY <1>1, <1>2, <1>3, <1>4, <1>5, <1>6

LEMMA StatementsStep == StatementsInv /\ [StatementsNext]_statementsVars => StatementsInv'
<1> SUFFICES ASSUME StatementsInv, [StatementsNext]_statementsVars PROVE StatementsInv'
  OBVIOUS
<1>1. CASE ResolveCase \/ UNCHANGED statementsVars
  <2>1. UNCHANGED <<rows, objects, keys, uploads, stranded>> /\ caseOpen' \in BOOLEAN
    BY <1>1 DEF ResolveCase, statementsVars, StatementsInv, StatementsType
  <2>2. QED
    BY <2>1 DEF StatementsInv, StatementsType, Used, Underway, Progress, CapHoldsPerUpload,
       RowsAndObjectsAgree, KeysUnderway
<1>2. QED
  BY <1>1, UploadBegins, UploadStep DEF StatementsNext

LEMMA StatementsInvariance == StatementsSpec => []StatementsInv
BY Empty, StatementsStep, PTL DEF StatementsSpec

\* However many uploads count the documents at once, a case exceeds the limit by
\* less than their number; and rows and objects are the same documents, except of
\* uploads under way, broken off or unanswered.
THEOREM StatementsHold == StatementsSpec => []StatementsAreSound
<1>1. StatementsInv => StatementsAreSound
  BY DEF StatementsInv, StatementsAreSound
<1>2. QED
  BY <1>1, StatementsInvariance, PTL


--------------------------------------------------------------------------------
(* Sessions *)

TokenRows == [chain : Nat, revoked : BOOLEAN, expired : BOOLEAN, present : BOOLEAN]
CallPoints == {"idle", "register", "issue", "delete", "rotate", "revoke"}

SessionsForm ==
  /\ calls \in [Calls -> [at : CallPoints, token : Nat]]
  /\ tokens \in Seq(TokenRows)
  /\ registered \in BOOLEAN /\ scheduled \in BOOLEAN
  /\ \A t \in DOMAIN tokens : tokens[t].chain \in DOMAIN tokens
  /\ ended \subseteq DOMAIN tokens

\* What a call holds is a token that was issued, or none.
Held(r) ==
  /\ calls[r].at \in {"rotate", "revoke"} => calls[r].token \in DOMAIN tokens
  /\ calls[r].at = "issue" => calls[r].token \in DOMAIN tokens \union {0}
  /\ calls[r].at \in {"idle", "register", "delete"} => calls[r].token = 0
  /\ calls[r].at = "delete" => registered

\* The call is about to replace a token of that chain.
Replaces(r, c) ==
  /\ calls[r].at \in {"rotate", "issue"}
  /\ calls[r].token # 0 /\ tokens[calls[r].token].chain = c
Spent(c) == \A t \in DOMAIN tokens : tokens[t].chain = c => tokens[t].revoked

\* A chain has one token that is not revoked, or one call that replaces it, and
\* neither once its member has logged out.
ChainSound(c) ==
  /\ \A t, u \in DOMAIN tokens : tokens[t].chain = c /\ tokens[u].chain = c
                                 /\ ~tokens[t].revoked /\ ~tokens[u].revoked => t = u
  /\ \A q, r \in Calls : Replaces(q, c) /\ Replaces(r, c) => q = r
  /\ \A r \in Calls : Replaces(r, c) =>
       IF calls[r].at = "issue" THEN Spent(c)
       ELSE \A t \in DOMAIN tokens : tokens[t].chain = c /\ ~tokens[t].revoked
                                     => t = calls[r].token
  /\ c \in ended => Spent(c) /\ \A r \in Calls : ~Replaces(r, c)

\* Sessions on their way count as if they were given already.
Counted == late \in Nat /\ allowance \in Nat
             /\ IF scheduled THEN registered /\ late + Cardinality(Issuing) <= allowance
                             ELSE late = 0

SessionsInv ==
  /\ SessionsForm
  /\ \A r \in Calls : Held(r)
  /\ \A c \in Nat \ overlapped : ChainSound(c)
  /\ Counted

LEMMA SessionsBegin == SessionsInit => SessionsInv
<1> SUFFICES ASSUME SessionsInit PROVE SessionsInv
  OBVIOUS
<1>1. tokens = <<>> /\ DOMAIN tokens = {} /\ \A r \in Calls : calls[r] = Idle
  BY DEF SessionsInit
<1>2. SessionsForm
  <2>1. Idle \in [at : CallPoints, token : Nat]
    BY DEF Idle, CallPoints
  <2>2. calls \in [Calls -> [at : CallPoints, token : Nat]]
    BY <2>1 DEF SessionsInit
  <2>3. registered \in BOOLEAN /\ scheduled \in BOOLEAN
    BY Zenon DEF SessionsInit
  <2>4. tokens \in Seq(TokenRows)
    BY <1>1
  <2>5. QED
    BY <1>1, <2>2, <2>3, <2>4 DEF SessionsForm, SessionsInit
<1>3. \A r \in Calls : Held(r)
  BY <1>1 DEF Held, Idle
<1>4. \A c \in Nat \ overlapped : ChainSound(c)
  BY <1>1 DEF ChainSound, Replaces, Spent, Idle, SessionsInit
<1>5. Counted
  BY DEF Counted, SessionsInit
<1>6. QED
  BY <1>2, <1>3, <1>4, <1>5 DEF SessionsInv

\* Tokens keep their chain, and a revoked one stays revoked.
Aged ==
  /\ tokens' \in Seq(TokenRows) /\ DOMAIN tokens' = DOMAIN tokens
  /\ \A t \in DOMAIN tokens : /\ tokens'[t].chain = tokens[t].chain
                              /\ tokens[t].revoked => tokens'[t].revoked

LEMMA Kept == ASSUME SessionsForm, UNCHANGED tokens PROVE Aged
BY DEF Aged, SessionsForm

\* A table written over in place.
LEMMA Rewritten ==
  ASSUME SessionsForm, NEW f, tokens' = [t \in DOMAIN tokens |-> f[t]],
         \A t \in DOMAIN tokens : /\ f[t] \in TokenRows /\ f[t].chain = tokens[t].chain
                                  /\ tokens[t].revoked => f[t].revoked
  PROVE  Aged
<1>1. PICK n \in Nat : DOMAIN tokens = 1..n
  BY DEF SessionsForm
<1>2. tokens' \in [1..n -> TokenRows]
  BY <1>1
<1>3. QED
  BY <1>1, <1>2 DEF Aged

LEMMA TokenForm == ASSUME SessionsForm, NEW t \in DOMAIN tokens
                   PROVE  tokens[t] \in TokenRows /\ t \in Nat /\ t # 0
BY DEF SessionsForm

\* Steps that change calls only towards idle, or begin with no token.
Quieter ==
  /\ calls' \in [Calls -> [at : CallPoints, token : Nat]]
  /\ \A r \in Calls : \/ calls'[r] = calls[r]
                      \/ calls'[r].at \notin {"rotate", "issue"}
                      \/ calls'[r].token = 0

LEMMA ChainsStay ==
  ASSUME SessionsInv, Aged, Quieter, ended' = ended, overlapped \subseteq overlapped'
  PROVE  \A c \in Nat \ overlapped' : ChainSound(c)'
<1> SUFFICES ASSUME NEW c \in Nat \ overlapped' PROVE ChainSound(c)'
  OBVIOUS
<1>1. ChainSound(c)
  BY DEF SessionsInv
<1>2. \A r \in Calls : Replaces(r, c)' => Replaces(r, c) /\ calls'[r] = calls[r]
  BY DEF SessionsInv, Held, Quieter, Replaces, Aged
<1>3. Spent(c) => Spent(c)'
  BY DEF Aged, Spent
<1>4. \A t \in DOMAIN tokens' : /\ t \in DOMAIN tokens /\ tokens'[t].chain = tokens[t].chain
                                /\ ~tokens'[t].revoked => ~tokens[t].revoked
  BY DEF Aged
<1>5. QED
  BY <1>1, <1>2, <1>3, <1>4 DEF ChainSound

LEMMA FormStays ==
  ASSUME SessionsForm, Aged, Quieter, ended' \subseteq DOMAIN tokens,
         registered' \in BOOLEAN, scheduled' \in BOOLEAN
  PROVE  SessionsForm'
BY DEF SessionsForm, Aged, Quieter

\* Calls that may still be given a session.
LEMMA IssuingFinite ==
  ASSUME SessionsForm
  PROVE  IsFiniteSet(Issuing) /\ Cardinality(Issuing) \in Nat
<1>1. Issuing \subseteq Calls
  BY DEF Issuing
<1>2. QED
  BY <1>1, SessionsAssumption, FS_Subset, FS_CardinalityType

LEMMA CountStays ==
  ASSUME SessionsInv, SessionsForm', registered => registered', UNCHANGED <<scheduled, late, allowance>>,
         scheduled => Issuing' \subseteq Issuing
  PROVE  Counted'
<1>1. CASE scheduled
  <2>1. Issuing' \subseteq Issuing
    BY <1>1
  <2>2. Cardinality(Issuing') <= Cardinality(Issuing) /\ Cardinality(Issuing') \in Nat
        /\ Cardinality(Issuing) \in Nat
    BY <2>1, IssuingFinite, FS_Subset, FS_CardinalityType DEF SessionsInv
  <2>3. QED
    BY <1>1, <2>2 DEF SessionsInv, Counted
<1>2. CASE ~scheduled
  BY <1>2 DEF SessionsInv, Counted
<1>3. QED
  BY <1>1, <1>2


LEMMA CallForm ==
  ASSUME SessionsForm, NEW r \in Calls
  PROVE  /\ calls[r] \in [at : CallPoints, token : Nat]
         /\ Idle \in [at : CallPoints, token : Nat] /\ Idle.at = "idle" /\ Idle.token = 0
BY DEF SessionsForm, Idle, CallPoints

\* One call goes on to a point, with a token or none.
LEMMA Goes ==
  ASSUME SessionsForm, NEW r \in Calls, NEW point \in CallPoints, NEW t \in Nat, Goto(r, point, t)
  PROVE  /\ calls' \in [Calls -> [at : CallPoints, token : Nat]]
         /\ calls'[r].at = point /\ calls'[r].token = t
         /\ \A q \in Calls \ {r} : calls'[q] = calls[q]
<1>1. PICK c : c = [at |-> point, token |-> t]
  OBVIOUS
<1>2. c \in [at : CallPoints, token : Nat] /\ c.at = point /\ c.token = t
  BY <1>1
<1>3. calls' = [calls EXCEPT ![r] = c]
  BY <1>1 DEF Goto
<1>4. QED
  BY <1>2, <1>3 DEF SessionsForm

LEMMA Returns ==
  ASSUME SessionsForm, NEW r \in Calls, Return(r)
  PROVE  Goto(r, "idle", 0)
BY DEF Return, Goto, Idle

LEMMA HeldStays ==
  ASSUME SessionsInv, Aged, registered => registered', NEW q \in Calls, calls'[q] = calls[q]
  PROVE  Held(q)'
BY DEF SessionsInv, Held, Aged

\* A call that ends, or goes where no token is held.
LEMMA WithoutToken ==
  ASSUME SessionsInv, Aged, NEW r \in Calls,
         NEW point \in {"idle", "register", "delete", "issue"}, Goto(r, point, 0),
         point = "delete" => registered',
         registered => registered', registered' \in BOOLEAN,
         UNCHANGED <<scheduled, ended, overlapped, late, allowance>>,
         scheduled => point \in {"idle", "delete"}
  PROVE  SessionsInv'
<1>1. /\ calls' \in [Calls -> [at : CallPoints, token : Nat]]
      /\ calls'[r].at = point /\ calls'[r].token = 0
      /\ \A q \in Calls \ {r} : calls'[q] = calls[q]
  <2>1. point \in CallPoints /\ SessionsForm
    BY DEF CallPoints, SessionsInv
  <2>2. QED
    BY <2>1, Goes
<1>2. Quieter
  BY <1>1 DEF Quieter
<1>3. SessionsForm'
  BY <1>2, FormStays DEF SessionsInv, SessionsForm
<1>4. \A q \in Calls : Held(q)'
  <2>1. Held(r)'
    BY <1>1 DEF Held
  <2>2. \A q \in Calls \ {r} : Held(q)'
    BY <1>1, HeldStays
  <2>3. QED
    BY <2>1, <2>2
<1>5. scheduled => Issuing' \subseteq Issuing
  BY <1>1 DEF Issuing
<1>6. QED
  BY <1>2, <1>3, <1>4, <1>5, ChainsStay, CountStays DEF SessionsInv

LEMMA BeginsOk ==
  ASSUME SessionsInv, NEW r \in Calls,
         BeginRegister(r) \/ BeginLogin(r) \/ BeginDelete(r) \/ Break(r)
  PROVE  SessionsInv'
<1>1. Aged /\ SessionsForm /\ (scheduled => registered)
  BY Kept DEF SessionsInv, Counted, BeginRegister, BeginLogin, BeginDelete, Break
<1>2. CASE BeginRegister(r)
  BY <1>1, <1>2, WithoutToken DEF BeginRegister, SessionsForm
<1>3. CASE BeginLogin(r)
  BY <1>1, <1>3, WithoutToken DEF BeginLogin, SessionsForm
<1>4. CASE BeginDelete(r)
  BY <1>1, <1>4, WithoutToken DEF BeginDelete, SessionsForm
<1>5. CASE Break(r)
  BY <1>1, <1>5, Returns, WithoutToken DEF Break, SessionsForm
<1>6. QED
  BY <1>2, <1>3, <1>4, <1>5

LEMMA CommitRegisterOk ==
  ASSUME SessionsInv, NEW r \in Calls, CommitRegister(r) PROVE SessionsInv'
<1>1. Aged /\ SessionsForm /\ (scheduled => registered)
  BY Kept DEF SessionsInv, Counted, CommitRegister
<1>2. registered' = TRUE /\ registered' \in BOOLEAN
  BY Zenon DEF CommitRegister
<1>3. CASE registered
  <2>1. Goto(r, "idle", 0)
    BY <1>1, <1>3, Returns DEF CommitRegister
  <2>2. QED
    BY <1>1, <1>2, <2>1, WithoutToken DEF CommitRegister
<1>4. CASE ~registered
  <2>1. Goto(r, "issue", 0)
    BY <1>4 DEF CommitRegister
  <2>2. QED
    BY <1>1, <1>2, <1>4, <2>1, WithoutToken DEF CommitRegister
<1>5. QED
  BY <1>3, <1>4

LEMMA RejectDeletedOk ==
  ASSUME SessionsInv, NEW r \in Calls, RejectDeleted(r) PROVE SessionsInv'
<1>1. SessionsForm
  BY DEF SessionsInv
<1>2. Aged
  <2>1. PICK yes : yes = TRUE
    OBVIOUS
  <2>2. yes \in BOOLEAN
    BY <2>1, Zenon
  <2>3. PICK f : f = [t \in DOMAIN tokens |->
             IF t = calls[r].token THEN [tokens[t] EXCEPT !.revoked = yes] ELSE tokens[t]]
    OBVIOUS
  <2>4. tokens' = [t \in DOMAIN tokens |-> f[t]]
    BY <2>1, <2>3 DEF RejectDeleted
  <2>5. ASSUME NEW t \in DOMAIN tokens
        PROVE  /\ f[t] \in TokenRows /\ f[t].chain = tokens[t].chain
               /\ tokens[t].revoked => f[t].revoked
    <3>1. tokens[t] \in TokenRows
      BY <1>1, TokenForm
    <3>2. f[t] = IF t = calls[r].token THEN [tokens[t] EXCEPT !.revoked = yes] ELSE tokens[t]
      BY <2>3
    <3>3. QED
      BY <2>1, <2>2, <3>1, <3>2 DEF TokenRows
  <2>6. QED
    BY <1>1, <2>4, <2>5, Rewritten
<1>3. Goto(r, "idle", 0)
  BY <1>1, Returns DEF RejectDeleted
<1>4. QED
  BY <1>1, <1>2, <1>3, WithoutToken DEF RejectDeleted, SessionsForm

LEMMA ExpireOk ==
  ASSUME SessionsInv, NEW u \in DOMAIN tokens, Expire(u) PROVE SessionsInv'
<1>1. SessionsForm
  BY DEF SessionsInv
<1>2. Aged
  <2>1. PICK yes : yes = TRUE
    OBVIOUS
  <2>2. yes \in BOOLEAN
    BY <2>1, Zenon
  <2>3. PICK f : f = [t \in DOMAIN tokens |->
             IF t = u THEN [tokens[t] EXCEPT !.expired = yes] ELSE tokens[t]]
    OBVIOUS
  <2>4. tokens' = [t \in DOMAIN tokens |-> f[t]]
    BY <2>1, <2>3 DEF Expire
  <2>5. ASSUME NEW t \in DOMAIN tokens
        PROVE  /\ f[t] \in TokenRows /\ f[t].chain = tokens[t].chain
               /\ tokens[t].revoked => f[t].revoked
    <3>1. tokens[t] \in TokenRows
      BY <1>1, TokenForm
    <3>2. f[t] = IF t = u THEN [tokens[t] EXCEPT !.expired = yes] ELSE tokens[t]
      BY <2>3
    <3>3. QED
      BY <2>1, <2>2, <3>1, <3>2 DEF TokenRows
  <2>6. QED
    BY <1>1, <2>4, <2>5, Rewritten
<1>3. Quieter
  BY <1>1 DEF Expire, Quieter, SessionsForm
<1>4. SessionsForm' /\ Issuing' \subseteq Issuing
  BY <1>1, <1>2, <1>3, FormStays DEF Expire, SessionsForm, Issuing
<1>5. \A r \in Calls : Held(r)'
  BY <1>2, HeldStays DEF Expire
<1>6. QED
  BY <1>2, <1>3, <1>4, <1>5, ChainsStay, CountStays DEF SessionsInv, Expire

LEMMA CommitDeleteOk ==
  ASSUME SessionsInv, NEW r \in Calls, CommitDelete(r) PROVE SessionsInv'
<1>1. SessionsForm
  BY DEF SessionsInv
<1>2. Aged
  <2>1. PICK yes : yes = TRUE
    OBVIOUS
  <2>2. yes \in BOOLEAN
    BY <2>1, Zenon
  <2>3. PICK f : f = [t \in DOMAIN tokens |-> [tokens[t] EXCEPT !.revoked = yes]]
    OBVIOUS
  <2>4. tokens' = [t \in DOMAIN tokens |-> f[t]]
    BY <2>1, <2>3 DEF CommitDelete
  <2>5. ASSUME NEW t \in DOMAIN tokens
        PROVE  /\ f[t] \in TokenRows /\ f[t].chain = tokens[t].chain
               /\ tokens[t].revoked => f[t].revoked
    <3>1. tokens[t] \in TokenRows
      BY <1>1, TokenForm
    <3>2. f[t] = [tokens[t] EXCEPT !.revoked = yes]
      BY <2>3
    <3>3. QED
      BY <2>1, <2>2, <3>1, <3>2 DEF TokenRows
  <2>6. QED
    BY <1>1, <2>4, <2>5, Rewritten
<1>3. /\ calls' \in [Calls -> [at : CallPoints, token : Nat]]
      /\ calls'[r].at = "idle" /\ calls'[r].token = 0
      /\ \A q \in Calls \ {r} : calls'[q] = calls[q]
  BY <1>1, Returns, Goes DEF CommitDelete, CallPoints
<1>4. Quieter
  BY <1>3 DEF Quieter
<1>5. scheduled' \in BOOLEAN /\ registered
  BY Zenon DEF CommitDelete, SessionsInv, Held, At
<1>6. SessionsForm'
  BY <1>1, <1>2, <1>4, <1>5, FormStays DEF CommitDelete, SessionsForm
<1>7. \A q \in Calls : Held(q)'
  <2>1. Held(r)'
    BY <1>3 DEF Held
  <2>2. \A q \in Calls \ {r} : Held(q)'
    BY <1>2, <1>3, HeldStays DEF CommitDelete
  <2>3. QED
    BY <2>1, <2>2
<1>8. Counted'
  <2>1. Issuing' \subseteq Issuing
    BY <1>3 DEF Issuing
  <2>2. /\ Cardinality(Issuing') <= Cardinality(Issuing)
        /\ Cardinality(Issuing) \in Nat /\ Cardinality(Issuing') \in Nat
    BY <1>1, <2>1, IssuingFinite, FS_Subset, FS_CardinalityType
  <2>3. Counted
    BY DEF SessionsInv
  <2>4. scheduled' /\ registered' /\ late' = late
        /\ allowance' = IF scheduled THEN allowance ELSE Cardinality(Issuing)
    BY <1>5 DEF CommitDelete
  <2>5. QED
    BY <2>2, <2>3, <2>4 DEF Counted
<1>9. QED
  BY <1>2, <1>4, <1>6, <1>7, <1>8, ChainsStay DEF SessionsInv, CommitDelete


\* A refresh of a token nobody else uses; of one another call uses, its chain
\* counts as overlapped.
LEMMA BeginRefreshOk ==
  ASSUME SessionsInv, NEW r \in Calls, NEW u \in DOMAIN tokens, BeginRefresh(r, u)
  PROVE  SessionsInv'
<1>1. /\ SessionsForm /\ Aged /\ AfterRead \in {"rotate", "revoke"} /\ u \in Nat \ {0}
      /\ tokens[u].chain \in Nat
  BY Kept, TokenForm DEF SessionsInv, BeginRefresh, AfterRead, TokenRows
<1>2. /\ calls' \in [Calls -> [at : CallPoints, token : Nat]]
      /\ calls'[r].at = AfterRead /\ calls'[r].token = u
      /\ \A q \in Calls \ {r} : calls'[q] = calls[q]
  BY <1>1, Goes DEF BeginRefresh, CallPoints
<1>3. ~tokens[u].revoked /\ UNCHANGED <<registered, scheduled, tokens, ended, late, allowance>>
  BY DEF BeginRefresh, Live
<1>4. overlapped \subseteq overlapped'
      /\ (tokens[u].chain \notin overlapped' => \A q \in Calls : ~(calls[q].at \in {"rotate", "revoke"} /\ calls[q].token = u))
  BY DEF BeginRefresh, UsersOf
<1>5. SessionsForm'
  BY <1>1, <1>2, <1>3 DEF SessionsForm
<1>6. \A q \in Calls : Held(q)'
  <2>1. Held(r)'
    BY <1>1, <1>2, <1>3 DEF Held
  <2>2. \A q \in Calls \ {r} : Held(q)'
    BY <1>1, <1>2, <1>3, HeldStays
  <2>3. QED
    BY <2>1, <2>2
<1>7. Counted'
  <2>1. scheduled => Issuing' \subseteq Issuing
    BY <1>2 DEF Issuing, AfterRead
  <2>2. QED
    BY <1>3, <1>5, <2>1, CountStays
<1>8. ASSUME NEW c \in Nat \ overlapped' PROVE ChainSound(c)'
  <2>1. ChainSound(c)
    BY <1>4 DEF SessionsInv
  <2>2. \A q \in Calls \ {r} : Replaces(q, c)' <=> Replaces(q, c)
    BY <1>2, <1>3 DEF Replaces
  <2>3. Replaces(r, c)' => AfterRead = "rotate" /\ tokens[u].chain = c
    BY <1>1, <1>2, <1>3 DEF Replaces
  <2>4. Spent(c)' <=> Spent(c)
    BY <1>3 DEF Spent
  <2>5. CASE ~Replaces(r, c)'
    BY <1>2, <1>3, <2>1, <2>2, <2>4, <2>5 DEF ChainSound
  <2>6. CASE Replaces(r, c)'
    <3>1. tokens[u].chain = c /\ c \notin ended /\ ~Spent(c)
      BY <1>3, <2>1, <2>3, <2>6 DEF ChainSound, Spent
    <3>2. \A q \in Calls \ {r} : ~Replaces(q, c)
      <4> SUFFICES ASSUME NEW q \in Calls \ {r}, Replaces(q, c) PROVE FALSE
        OBVIOUS
      <4>1. calls[q].at # "issue"
        BY <2>1, <3>1 DEF ChainSound
      <4>2. calls[q].at = "rotate" /\ u = calls[q].token
        BY <1>3, <2>1, <3>1, <4>1 DEF ChainSound, Replaces
      <4>3. QED
        BY <1>4, <3>1, <4>2
    <3>3. calls'[r].at # "issue"
      BY <1>1, <1>2
    <3>4. \A t \in DOMAIN tokens : tokens[t].chain = c /\ ~tokens[t].revoked => t = u
      BY <1>3, <2>1, <3>1 DEF ChainSound
    <3>5. QED
      BY <1>2, <1>3, <2>1, <2>2, <3>1, <3>2, <3>3, <3>4 DEF ChainSound
  <2>7. QED
    BY <2>5, <2>6
<1>9. QED
  BY <1>5, <1>6, <1>7, <1>8 DEF SessionsInv

\* The presented token is spent before the next one is issued.
LEMMA RotateOk == ASSUME SessionsInv, NEW r \in Calls, Rotate(r) PROVE SessionsInv'
<1>1. PICK u : u = calls[r].token
  OBVIOUS
<1>2. /\ SessionsForm /\ calls[r].at = "rotate" /\ u \in DOMAIN tokens /\ u \in Nat \ {0}
      /\ UNCHANGED <<registered, scheduled, overlapped, ended, late, allowance>>
  BY <1>1, TokenForm DEF SessionsInv, Held, Rotate, At
<1>3. CASE ~Present(u)
  <2>1. tokens' = tokens /\ Goto(r, "idle", 0)
    BY <1>1, <1>2, <1>3, Returns DEF Rotate
  <2>2. QED
    BY <1>2, <2>1, Kept, WithoutToken DEF SessionsForm
<1>4. CASE Present(u)
  <2>1. tokens' = Rotated(u) /\ Goto(r, "issue", u)
    BY <1>1, <1>4 DEF Rotate
  <2>2. Aged /\ (\A t \in DOMAIN tokens : tokens'[t].revoked <=> (tokens[t].revoked \/ t = u))
    <3>1. PICK f : f = [t \in DOMAIN tokens |->
               [tokens[t] EXCEPT !.revoked = @ \/ t = u, !.present = @ /\ ~tokens[t].expired]]
      OBVIOUS
    <3>2. tokens' = [t \in DOMAIN tokens |-> f[t]]
      BY <2>1, <3>1 DEF Rotated
    <3>3. ASSUME NEW t \in DOMAIN tokens
          PROVE  /\ f[t] \in TokenRows /\ f[t].chain = tokens[t].chain
                 /\ f[t].revoked <=> (tokens[t].revoked \/ t = u)
      <4>1. tokens[t] \in TokenRows
        BY <1>2, TokenForm
      <4>2. PICK a \in BOOLEAN : a <=> (tokens[t].revoked \/ t = u)
        BY Zenon
      <4>3. PICK b \in BOOLEAN : b <=> (tokens[t].present /\ ~tokens[t].expired)
        BY Zenon
      <4>4. tokens[t].revoked \in BOOLEAN /\ tokens[t].present \in BOOLEAN
        BY <4>1 DEF TokenRows
      <4>5. f[t] = [tokens[t] EXCEPT !.revoked = a, !.present = b]
        BY <3>1, <4>2, <4>3, <4>4
      <4>6. QED
        BY <4>1, <4>2, <4>5 DEF TokenRows
    <3>4. Aged
      BY <1>2, <3>2, <3>3, Rewritten
    <3>5. QED
      BY <3>2, <3>3, <3>4
  <2>3. /\ calls' \in [Calls -> [at : CallPoints, token : Nat]]
        /\ calls'[r].at = "issue" /\ calls'[r].token = u
        /\ \A q \in Calls \ {r} : calls'[q] = calls[q]
    BY <1>2, <2>1, Goes DEF CallPoints
  <2>4. SessionsForm'
    BY <1>2, <2>2, <2>3 DEF SessionsForm, Aged
  <2>5. \A q \in Calls : Held(q)'
    <3>1. Held(r)'
      BY <1>2, <2>2, <2>3 DEF Held, Aged
    <3>2. \A q \in Calls \ {r} : Held(q)'
      BY <1>2, <2>2, <2>3, HeldStays
    <3>3. QED
      BY <3>1, <3>2
  <2>6. Counted'
    <3>1. Issuing' \subseteq Issuing
      BY <1>2, <2>3 DEF Issuing
    <3>2. QED
      BY <1>2, <2>4, <3>1, CountStays
  <2>7. ASSUME NEW c \in Nat \ overlapped' PROVE ChainSound(c)'
    <3>1. ChainSound(c)
      BY <1>2 DEF SessionsInv
    <3>2. \A q \in Calls : Replaces(q, c)' <=> Replaces(q, c)
      BY <1>1, <1>2, <2>2, <2>3 DEF Replaces, Aged, SessionsInv, Held
    <3>3. Spent(c) => Spent(c)'
      BY <2>2 DEF Aged, Spent
    <3>4. \A t \in DOMAIN tokens' : /\ t \in DOMAIN tokens /\ tokens'[t].chain = tokens[t].chain
                                    /\ ~tokens'[t].revoked => ~tokens[t].revoked /\ t # u
      BY <2>2 DEF Aged
    <3>5. Replaces(r, c) => Spent(c)'
      <4>1. Replaces(r, c) =>
              \A t \in DOMAIN tokens : tokens[t].chain = c /\ ~tokens[t].revoked => t = u
        BY <1>1, <1>2, <3>1 DEF ChainSound
      <4>2. QED
        BY <3>4, <4>1 DEF Spent
    <3>6. /\ \A t, v \in DOMAIN tokens' : tokens'[t].chain = c /\ tokens'[v].chain = c
                                         /\ ~tokens'[t].revoked /\ ~tokens'[v].revoked => t = v
          /\ \A q, s \in Calls : Replaces(q, c)' /\ Replaces(s, c)' => q = s
          /\ c \in ended' => Spent(c)' /\ \A q \in Calls : ~Replaces(q, c)'
      BY <1>2, <3>1, <3>2, <3>3, <3>4 DEF ChainSound
    <3>7. ASSUME NEW q \in Calls, Replaces(q, c)'
          PROVE  IF calls'[q].at = "issue" THEN Spent(c)'
                 ELSE \A t \in DOMAIN tokens' : tokens'[t].chain = c /\ ~tokens'[t].revoked
                                                => t = calls'[q].token
      <4>1. CASE q = r
        BY <2>3, <3>2, <3>5, <3>7, <4>1
      <4>2. CASE q # r
        BY <2>3, <3>1, <3>2, <3>3, <3>4, <3>7, <4>2 DEF ChainSound
      <4>3. QED
        BY <4>1, <4>2
    <3>8. QED
      BY <3>6, <3>7 DEF ChainSound
  <2>8. QED
    BY <2>4, <2>5, <2>6, <2>7 DEF SessionsInv
<1>5. QED
  BY <1>3, <1>4

\* The new token is the one head of its chain.
LEMMA IssueOk == ASSUME SessionsInv, NEW r \in Calls, Issue(r) PROVE SessionsInv'
<1>1. PICK n \in Nat : n = Len(tokens) /\ DOMAIN tokens = 1..n
  BY SMTT(30) DEF SessionsInv, SessionsForm
<1>2. PICK before : before = calls[r].token
  OBVIOUS
<1>3. PICK chain : chain = IF before = 0 THEN n + 1 ELSE tokens[before].chain
  OBVIOUS
<1>4. PICK row : row = [chain |-> chain, revoked |-> FALSE, expired |-> FALSE, present |-> TRUE]
  OBVIOUS
<1>5. /\ SessionsForm /\ calls[r].at = "issue" /\ tokens' = Append(tokens, row)
      /\ late' = IF scheduled THEN late + 1 ELSE late
      /\ Return(r) /\ UNCHANGED <<registered, scheduled, overlapped, ended, allowance>>
  BY <1>1, <1>2, <1>3, <1>4 DEF Issue, SessionsInv, At
<1>6. before \in 1..n \/ before = 0
  BY <1>1, <1>2, <1>5 DEF SessionsInv, Held
<1>7. chain \in 1..(n + 1) /\ (before # 0 => chain \in 1..n)
  BY <1>1, <1>3, <1>5, <1>6 DEF SessionsForm
<1>8. row \in TokenRows /\ row.chain = chain /\ ~row.revoked
  <2>1. PICK no : no = FALSE
    OBVIOUS
  <2>2. PICK yes : yes = TRUE
    OBVIOUS
  <2>3. no \in BOOLEAN /\ yes \in BOOLEAN
    BY <2>1, <2>2, Zenon
  <2>4. row = [chain |-> chain, revoked |-> no, expired |-> no, present |-> yes]
    BY <1>4, <2>1, <2>2
  <2>5. QED
    BY <1>7, <2>1, <2>3, <2>4 DEF TokenRows
<1>9. /\ tokens' \in Seq(TokenRows) /\ DOMAIN tokens' = 1..(n + 1) /\ tokens'[n + 1] = row
      /\ \A t \in 1..n : tokens'[t] = tokens[t]
  <2>1. tokens \in Seq(TokenRows)
    BY <1>5 DEF SessionsForm
  <2>2. QED
    BY <1>1, <1>5, <1>8, <2>1
<1>10. /\ calls' \in [Calls -> [at : CallPoints, token : Nat]]
       /\ calls'[r].at = "idle" /\ calls'[r].token = 0
       /\ \A q \in Calls \ {r} : calls'[q] = calls[q]
  BY <1>5, Returns, Goes DEF CallPoints
<1>11. SessionsForm'
  <2>1. \A t \in 1..(n + 1) : tokens'[t].chain \in 1..(n + 1)
    BY <1>1, <1>5, <1>7, <1>8, <1>9, SMTT(30) DEF SessionsForm
  <2>2. QED
    BY <1>1, <1>5, <1>9, <1>10, <2>1 DEF SessionsForm
<1>12. \A q \in Calls : Held(q)'
  BY <1>1, <1>5, <1>9, <1>10 DEF Held, SessionsInv
<1>13. Counted'
  <2>1. Issuing' = Issuing \ {r} /\ r \in Issuing
    BY <1>5, <1>10 DEF Issuing
  <2>2. Cardinality(Issuing') = Cardinality(Issuing) - 1 /\ Cardinality(Issuing) \in Nat
    BY <1>5, <2>1, IssuingFinite, FS_RemoveElement
  <2>3. QED
    BY <1>5, <2>2 DEF SessionsInv, Counted
<1>14. ASSUME NEW c \in Nat \ overlapped' PROVE ChainSound(c)'
  <2>1. ChainSound(c)
    BY <1>5 DEF SessionsInv
  <2>2. \A q \in Calls \ {r} : Replaces(q, c)' <=> Replaces(q, c)
    <3>1. ASSUME NEW q \in Calls \ {r}, calls[q].at \in {"rotate", "issue"}, calls[q].token # 0
          PROVE  calls[q].token \in 1..n
      BY <1>1, <3>1 DEF SessionsInv, Held
    <3>2. QED
      BY <1>9, <1>10, <3>1 DEF Replaces
  <2>3. ~Replaces(r, c)'
    BY <1>10 DEF Replaces
  <2>4. CASE c # chain
    <3>1. Spent(c) <=> Spent(c)'
      BY <1>1, <1>8, <1>9, <2>4 DEF Spent
    <3>2. \A t \in DOMAIN tokens' : tokens'[t].chain = c => t \in DOMAIN tokens /\ tokens'[t] = tokens[t]
      BY <1>1, <1>8, <1>9, <2>4
    <3>3. QED
      BY <1>5, <1>10, <2>1, <2>2, <2>3, <3>1, <3>2 DEF ChainSound
  <2>5. CASE c = chain
    <3>1. Spent(c) /\ c \notin ended /\ \A q \in Calls \ {r} : ~Replaces(q, c)
      <4>1. CASE before = 0
        <5>1. c = n + 1
          BY <1>3, <2>5, <4>1
        <5>2. c \notin ended /\ \A t \in DOMAIN tokens : tokens[t].chain # c
          BY <1>1, <1>5, <5>1 DEF SessionsForm
        <5>3. \A q \in Calls : ~Replaces(q, c)
          BY <1>1, <5>2 DEF Replaces, SessionsInv, Held
        <5>4. QED
          BY <5>2, <5>3 DEF Spent
      <4>2. CASE before # 0
        <5>1. Replaces(r, c)
          BY <1>2, <1>3, <1>5, <2>5, <4>2 DEF Replaces
        <5>2. QED
          BY <1>5, <2>1, <5>1 DEF ChainSound
      <4>3. QED
        BY <4>1, <4>2
    <3>2. \A t \in DOMAIN tokens' : tokens'[t].chain = c /\ ~tokens'[t].revoked => t = n + 1
      BY <1>1, <1>9, <3>1 DEF Spent
    <3>3. \A q \in Calls : ~Replaces(q, c)'
      BY <2>2, <2>3, <3>1
    <3>4. QED
      BY <1>5, <3>1, <3>2, <3>3 DEF ChainSound
  <2>6. QED
    BY <2>4, <2>5
<1>15. QED
  BY <1>11, <1>12, <1>13, <1>14 DEF SessionsInv

\* A chain ends when its one token is revoked and no call is on its way.
LEMMA LogoutOk == ASSUME SessionsInv, NEW u \in DOMAIN tokens, Logout(u) PROVE SessionsInv'
<1>1. SessionsForm /\ ~tokens[u].revoked
      /\ UNCHANGED <<registered, scheduled, calls, overlapped, late, allowance>>
  BY DEF SessionsInv, Logout
<1>2. PICK chain : chain = tokens[u].chain
  OBVIOUS
<1>3. /\ ended' \in {ended, ended \union {chain}} /\ chain \in DOMAIN tokens
      /\ ended' # ended => \A r \in Calls : calls[r].token \notin Chain(chain)
  BY <1>1, <1>2 DEF Logout, SessionsForm
<1>4. Aged /\ \A t \in DOMAIN tokens : ~tokens'[t].revoked => t # u /\ ~tokens[t].revoked
  <2>1. PICK yes : yes = TRUE
    OBVIOUS
  <2>2. yes \in BOOLEAN
    BY <2>1, Zenon
  <2>3. PICK f : f = [t \in DOMAIN tokens |->
             IF t = u THEN [tokens[t] EXCEPT !.revoked = yes] ELSE tokens[t]]
    OBVIOUS
  <2>4. tokens' = [t \in DOMAIN tokens |-> f[t]]
    BY <2>1, <2>3 DEF Logout
  <2>5. ASSUME NEW t \in DOMAIN tokens
        PROVE  /\ f[t] \in TokenRows /\ f[t].chain = tokens[t].chain
               /\ tokens[t].revoked => f[t].revoked
               /\ ~f[t].revoked => t # u /\ ~tokens[t].revoked
    <3>1. tokens[t] \in TokenRows
      BY <1>1, TokenForm
    <3>2. f[t] = IF t = u THEN [tokens[t] EXCEPT !.revoked = yes] ELSE tokens[t]
      BY <2>3
    <3>3. QED
      BY <2>1, <2>2, <3>1, <3>2 DEF TokenRows
  <2>6. QED
    BY <1>1, <2>4, <2>5, Rewritten
<1>5. Quieter
  BY <1>1 DEF Quieter, SessionsForm
<1>6. SessionsForm' /\ Issuing' \subseteq Issuing
  BY <1>1, <1>3, <1>4, <1>5, FormStays DEF SessionsForm, Issuing
<1>7. \A r \in Calls : Held(r)'
  BY <1>1, <1>4, HeldStays
<1>8. ASSUME NEW c \in Nat \ overlapped' PROVE ChainSound(c)'
  <2>1. ChainSound(c)
    BY <1>1 DEF SessionsInv
  <2>2. \A r \in Calls : Replaces(r, c)' => Replaces(r, c)
    BY <1>1, <1>4 DEF SessionsInv, Held, Replaces, Aged
  <2>3. Spent(c) => Spent(c)'
    BY <1>4 DEF Aged, Spent
  <2>4. \A t \in DOMAIN tokens' : /\ t \in DOMAIN tokens /\ tokens'[t].chain = tokens[t].chain
                                  /\ ~tokens'[t].revoked => ~tokens[t].revoked /\ t # u
    BY <1>4 DEF Aged
  <2>5. ASSUME c \in ended', c \notin ended PROVE Spent(c)' /\ \A r \in Calls : ~Replaces(r, c)'
    <3>1. c = tokens[u].chain /\ \A r \in Calls : calls[r].token \notin Chain(c)
      BY <1>2, <1>3, <2>5
    <3>2. Spent(c)'
      BY <1>1, <2>1, <2>4, <3>1 DEF ChainSound, Spent
    <3>3. \A r \in Calls : ~Replaces(r, c)
      BY <3>1 DEF Replaces, Chain, SessionsInv, Held
    <3>4. QED
      BY <2>2, <3>2, <3>3
  <2>6. QED
    BY <1>1, <2>1, <2>2, <2>3, <2>4, <2>5 DEF ChainSound
<1>9. QED
  BY <1>1, <1>4, <1>6, <1>7, <1>8, CountStays DEF SessionsInv

LEMMA SessionsStep == SessionsInv /\ [SessionsNext]_sessionsVars => SessionsInv'
<1> SUFFICES ASSUME SessionsInv, [SessionsNext]_sessionsVars PROVE SessionsInv'
  OBVIOUS
<1>1. ASSUME NEW r \in Calls, BeginRegister(r) \/ BeginLogin(r) \/ BeginDelete(r) \/ Break(r)
      PROVE  SessionsInv'
  BY <1>1, BeginsOk
<1>2. ASSUME NEW r \in Calls, CommitRegister(r) \/ RejectDeleted(r) \/ Rotate(r) \/ Issue(r) \/ CommitDelete(r)
      PROVE  SessionsInv'
  BY <1>2, CommitRegisterOk, RejectDeletedOk, RotateOk, IssueOk, CommitDeleteOk
<1>3. ASSUME NEW r \in Calls, NEW t \in DOMAIN tokens, BeginRefresh(r, t) PROVE SessionsInv'
  BY <1>3, BeginRefreshOk
<1>4. ASSUME NEW t \in DOMAIN tokens, Logout(t) \/ Expire(t) PROVE SessionsInv'
  BY <1>4, LogoutOk, ExpireOk
<1>5. CASE UNCHANGED sessionsVars
  BY <1>5 DEF sessionsVars, SessionsInv, SessionsForm, Held, ChainSound, Replaces, Spent, Counted,
              Issuing
<1>6. QED
  BY <1>1, <1>2, <1>3, <1>4, <1>5 DEF SessionsNext

\* However many requests log in, refresh, log out and delete the account at a
\* time: a chain whose tokens no two of them presented at once has one session,
\* none after its logout, and after the deletion only requests that had read the
\* account before are still given one each (auth/service.ts, users/service.ts).
THEOREM SessionsHold == SessionsSpec => []SessionsAreSound
<1>1. SessionsInv => SessionsAreSound
  <2> SUFFICES ASSUME SessionsInv PROVE OneHeadPerChain /\ StragglersOnly
    BY DEF SessionsAreSound
  <2>1. ASSUME NEW c \in DOMAIN tokens \ overlapped
        PROVE  Cardinality({t \in Chain(c) : Live(t)}) <= IF c \in ended THEN 0 ELSE 1
    <3>1. ChainSound(c)
      BY <2>1, TokenForm DEF SessionsInv
    <3>2. PICK heads : heads = {t \in Chain(c) : Live(t)}
      OBVIOUS
    <3>3. \A t \in heads : t \in DOMAIN tokens /\ tokens[t].chain = c /\ ~tokens[t].revoked
      BY <3>2 DEF Chain, Live
    <3>4. CASE heads = {}
      <4>1. Cardinality(heads) = 0
        BY <3>4, FS_EmptySet
      <4>2. QED
        BY <3>2, <4>1
    <3>5. CASE heads # {}
      <4>1. PICK t \in heads : TRUE
        BY <3>5
      <4>2. c \notin ended
        BY <3>1, <3>3, <4>1 DEF ChainSound, Spent
      <4>3. heads = {t}
        BY <3>1, <3>3, <4>1 DEF ChainSound
      <4>4. Cardinality(heads) = 1
        BY <4>3, FS_Singleton
      <4>5. QED
        BY <3>2, <4>2, <4>4
    <3>6. QED
      BY <3>4, <3>5
  <2>2. StragglersOnly
    BY IssuingFinite DEF SessionsInv, Counted, StragglersOnly
  <2>3. QED
    BY <2>1, <2>2 DEF OneHeadPerChain
<1>2. QED
  BY <1>1, SessionsBegin, SessionsStep, PTL DEF SessionsSpec


--------------------------------------------------------------------------------
(* The device *)

Steps == WelcomeStep..SummaryStep

\* A place of the wizard a member can have walked to.
Reachable(state) ==
  /\ state.step >= LinkStep => state.consent
  /\ state.linked # {} => state.consent
  /\ state.found => state.linked # {}
  /\ state.step = SummaryStep => state.found

WizardStates ==
  {state \in [step : Steps, consent : BOOLEAN, linked : SUBSET Institutions, found : BOOLEAN,
              owner : Members \union {Nobody}] : Reachable(state)}
Connections == [bank : Institutions, base : SUBSET Institutions]
TabStates ==
  [page : {"form", "wizard", "dashboard"}, state : WizardStates,
   connecting : SUBSET Connections, left : SUBSET WizardStates]

DeviceForm ==
  /\ session \in Members \union {Nobody} /\ complete \in BOOLEAN
  /\ stored \in WizardStates /\ tabs \in [Tabs -> TabStates]
  /\ mixed \in BOOLEAN /\ raced \in BOOLEAN

\* A connection is asked for in the wizard, with the consent.
Consented(t) ==
  tabs[t].connecting # {} => tabs[t].page = "wizard" /\ tabs[t].state.consent

\* One connection at a time answers to the banks its tab lists.
OneConnection ==
  ~raced => \A t, u \in Tabs : \A c \in tabs[t].connecting, d \in tabs[u].connecting :
              t = u /\ c = d /\ c.base = tabs[t].state.linked

\* With one tab at work at a time, what is stored and shown is the member's.
OwnPlace ==
  ~mixed =>
    /\ stored # NothingStored => stored.owner = session /\ session # Nobody
    /\ complete => session # Nobody
    /\ raced \/ confirmed \subseteq stored.linked
    /\ \A t \in Tabs : tabs[t].page # "form" => session # Nobody
    /\ \A t \in Tabs : tabs[t].page = "wizard" => tabs[t].state.owner = session

DeviceInv ==
  DeviceForm /\ (\A t \in Tabs : Consented(t)) /\ OneConnection /\ OwnPlace

LEMMA FreshStates ==
  ASSUME NEW owner \in Members \union {Nobody}
  PROVE  /\ Fresh0(owner) \in WizardStates /\ NothingStored \in WizardStates
         /\ Fresh0(owner).owner = owner /\ NothingStored.owner = Nobody
         /\ NothingStored.linked = {}
<1>1. ASSUME NEW o \in Members \union {Nobody}
      PROVE  Fresh0(o) \in WizardStates /\ Fresh0(o).owner = o /\ Fresh0(o).linked = {}
  <2>1. PICK no : no = FALSE
    OBVIOUS
  <2>2. no \in BOOLEAN
    BY <2>1, Zenon
  <2>3. PICK state : state = [step |-> 0, consent |-> no, linked |-> {}, found |-> no, owner |-> o]
    OBVIOUS
  <2>4. state = Fresh0(o)
    BY <2>1, <2>3 DEF Fresh0, WelcomeStep
  <2>5. state \in [step : Steps, consent : BOOLEAN, linked : SUBSET Institutions, found : BOOLEAN,
                   owner : Members \union {Nobody}]
    BY <2>2, <2>3 DEF Steps, WelcomeStep, SummaryStep
  <2>6. Reachable(state)
    BY <2>1, <2>3 DEF Reachable, LinkStep, SummaryStep
  <2>7. QED
    BY <2>3, <2>4, <2>5, <2>6 DEF WizardStates
<1>2. QED
  BY <1>1 DEF NothingStored

LEMMA DeviceBegins == DeviceInit => DeviceInv
<1> SUFFICES ASSUME DeviceInit PROVE DeviceInv
  OBVIOUS
<1>1. NothingStored \in WizardStates /\ NothingStored.owner = Nobody /\ NothingStored.linked = {}
  BY FreshStates
<1>2. PICK tab : tab = FormTab
  OBVIOUS
<1>3. tab \in TabStates /\ tab.page = "form" /\ tab.connecting = {} /\ tab.left = {}
  BY <1>1, <1>2 DEF FormTab, TabStates
<1>4. \A t \in Tabs : tabs[t] = tab
  BY <1>2 DEF DeviceInit
<1>5. complete \in BOOLEAN /\ mixed \in BOOLEAN /\ raced \in BOOLEAN
  BY Zenon DEF DeviceInit
<1>6. tabs \in [Tabs -> TabStates]
  BY <1>2, <1>3 DEF DeviceInit
<1>7. DeviceForm
  BY <1>1, <1>5, <1>6 DEF DeviceForm, DeviceInit
<1>8. \A t \in Tabs : Consented(t)
  BY <1>3, <1>4 DEF Consented
<1>9. OneConnection /\ OwnPlace
  BY <1>1, <1>3, <1>4 DEF OneConnection, OwnPlace, DeviceInit
<1>10. QED
  BY <1>7, <1>8, <1>9 DEF DeviceInv

\* What a state is made of.
LEMMA StateForm ==
  ASSUME NEW state \in WizardStates
  PROVE  /\ state \in [step : Steps, consent : BOOLEAN, linked : SUBSET Institutions,
                       found : BOOLEAN, owner : Members \union {Nobody}]
         /\ Reachable(state)
BY DEF WizardStates

LEMMA TabForm ==
  ASSUME DeviceForm, NEW t \in Tabs
  PROVE  /\ tabs[t] \in TabStates
         /\ tabs[t].state \in WizardStates /\ tabs[t].connecting \subseteq Connections
         /\ tabs[t].left \subseteq WizardStates
BY DEF DeviceForm, TabStates

\* An answer adds its bank to the banks that were listed.
LEMMA Answered ==
  ASSUME NEW state \in WizardStates, state.consent, NEW c \in Connections
  PROVE  /\ [state EXCEPT !.linked = LinkedAfter(c)] \in WizardStates
         /\ [state EXCEPT !.linked = LinkedAfter(c)].linked = LinkedAfter(c)
         /\ [state EXCEPT !.linked = LinkedAfter(c)].owner = state.owner
         /\ [state EXCEPT !.linked = LinkedAfter(c)].consent = state.consent
<1>1. PICK banks : banks = LinkedAfter(c)
  OBVIOUS
<1>2. banks \in SUBSET Institutions /\ banks # {}
  BY <1>1 DEF LinkedAfter, Connections
<1>3. PICK after : after = [state EXCEPT !.linked = banks]
  OBVIOUS
<1>4. state \in [step : Steps, consent : BOOLEAN, linked : SUBSET Institutions,
                 found : BOOLEAN, owner : Members \union {Nobody}]
  BY StateForm
<1>5. /\ after \in [step : Steps, consent : BOOLEAN, linked : SUBSET Institutions,
                    found : BOOLEAN, owner : Members \union {Nobody}]
      /\ after.linked = banks /\ after.owner = state.owner /\ after.consent = state.consent
      /\ after.step = state.step /\ after.found = state.found
  BY <1>2, <1>3, <1>4
<1>6. Reachable(after)
  BY <1>2, <1>5, StateForm DEF Reachable
<1>7. QED
  BY <1>1, <1>3, <1>5, <1>6 DEF WizardStates


Pages == {"form", "wizard", "dashboard"}

\* A tab that arrives at a page: nobody's is the form, the wizard's state is the
\* one stored, or a fresh one.
LEMMA Arrives ==
  ASSUME DeviceForm, NEW tab \in TabStates, tab.connecting # {} => tab.state.consent,
         NEW who \in Members \union {Nobody}, NEW done \in BOOLEAN, NEW page \in Pages,
         NEW new, new = Arrive(tab, who, done, stored, page)
  PROVE  /\ new \in TabStates /\ new.connecting = {}
         /\ new.page # "form" => who # Nobody
         /\ new.page = "wizard" => new.state = LoadState(who, stored)
<1>1. PICK shown : shown = Mount(who, done, page)
  OBVIOUS
<1>2. shown \in Pages /\ (shown # "form" => who # Nobody)
  BY <1>1 DEF Mount, Pages
<1>3. PICK state : state = IF shown = "wizard" THEN LoadState(who, stored) ELSE NothingStored
  OBVIOUS
<1>4. state \in WizardStates
  BY <1>3, FreshStates DEF LoadState, DeviceForm
<1>5. PICK left : left = tab.left \union LeftBehind(tab)
  OBVIOUS
<1>6. left \subseteq WizardStates
  <2>1. tab.left \subseteq WizardStates /\ tab.connecting \subseteq Connections /\ tab.state \in WizardStates
    BY DEF TabStates
  <2>2. ASSUME NEW c \in tab.connecting PROVE [tab.state EXCEPT !.linked = LinkedAfter(c)] \in WizardStates
    BY <2>1, Answered
  <2>3. LeftBehind(tab) \subseteq WizardStates
    BY <2>2 DEF LeftBehind
  <2>4. QED
    BY <1>5, <2>1, <2>3
<1>7. new = [page |-> shown, state |-> state, connecting |-> {}, left |-> left]
  BY <1>1, <1>3, <1>5 DEF Arrive
<1>8. QED
  BY <1>2, <1>3, <1>4, <1>6, <1>7 DEF TabStates, Pages

LEMMA LoadedOwn ==
  ASSUME NEW who \in Members, stored # NothingStored => stored.owner = who
  PROVE  LoadState(who, stored).owner = who
BY FreshStates DEF LoadState

\* One tab changes.
LEMMA OneTab ==
  ASSUME DeviceForm, NEW t \in Tabs, NEW new \in TabStates, tabs' = [tabs EXCEPT ![t] = new]
  PROVE  /\ tabs' \in [Tabs -> TabStates] /\ tabs'[t] = new
         /\ \A u \in Tabs \ {t} : tabs'[u] = tabs[u]
BY DEF DeviceForm

\* A tab without a connection of its own takes none from the others.
LEMMA NoneAdded ==
  ASSUME DeviceInv, NEW t \in Tabs, tabs'[t].connecting = {},
         \A u \in Tabs \ {t} : tabs'[u] = tabs[u], raced' = raced
  PROVE  (\A u \in Tabs : Consented(u)') /\ OneConnection'
<1>1. \A u \in Tabs : Consented(u)'
  BY DEF DeviceInv, Consented
<1>2. OneConnection'
  <2> SUFFICES ASSUME ~raced, NEW v \in Tabs, NEW u \in Tabs,
                      NEW c \in tabs'[v].connecting, NEW d \in tabs'[u].connecting
               PROVE  v = u /\ c = d /\ c.base = tabs'[v].state.linked
    BY DEF OneConnection
  <2>1. v # t /\ u # t
    OBVIOUS
  <2>2. tabs'[v] = tabs[v] /\ tabs'[u] = tabs[u]
    BY <2>1
  <2>3. QED
    BY <2>2 DEF DeviceInv, OneConnection
<1>3. QED
  BY <1>1, <1>2

LEMMA VisitOk ==
  ASSUME DeviceInv, NEW t \in Tabs, NEW page \in Pages, Navigate(t, page) \/ Reload(t, page)
  PROVE  DeviceInv'
<1>1. PICK tab : /\ tab \in {tabs[t], FormTab}
                 /\ tabs' = [tabs EXCEPT ![t] = Arrive(tab, session, complete, stored, page)]
  BY DEF Navigate, Reload, DeviceInv, DeviceForm
<1>2. /\ DeviceForm /\ session \in Members \union {Nobody} /\ complete \in BOOLEAN
      /\ UNCHANGED <<session, complete, stored, confirmed, mixed, raced>>
  BY DEF Navigate, Reload, DeviceInv, DeviceForm
<1>3. tab \in TabStates /\ (tab.connecting # {} => tab.state.consent)
  <2>1. FormTab \in TabStates /\ FormTab.connecting = {}
    BY FreshStates DEF FormTab, TabStates
  <2>2. tabs[t] \in TabStates /\ (tabs[t].connecting # {} => tabs[t].state.consent)
    BY <1>2, TabForm DEF DeviceInv, Consented
  <2>3. QED
    BY <1>1, <2>1, <2>2
<1>4. PICK new : new = Arrive(tab, session, complete, stored, page)
  OBVIOUS
<1>5. /\ new \in TabStates /\ new.connecting = {}
      /\ new.page # "form" => session # Nobody
      /\ new.page = "wizard" => new.state = LoadState(session, stored)
  BY <1>2, <1>3, <1>4, Arrives
<1>6. /\ tabs' \in [Tabs -> TabStates] /\ tabs'[t] = new
      /\ \A u \in Tabs \ {t} : tabs'[u] = tabs[u]
  BY <1>1, <1>2, <1>4, <1>5, OneTab
<1>7. DeviceForm'
  BY <1>2, <1>6 DEF DeviceForm
<1>8. (\A u \in Tabs : Consented(u)') /\ OneConnection'
  BY <1>2, <1>5, <1>6, NoneAdded
<1>9. OwnPlace'
  <2> SUFFICES ASSUME ~mixed PROVE OwnPlace'
    BY <1>2 DEF OwnPlace
  <2>1. OwnPlace
    BY DEF DeviceInv
  <2>2. new.page = "wizard" => new.state.owner = session
    BY <1>2, <1>5, <2>1, LoadedOwn DEF OwnPlace
  <2>3. \A u \in Tabs : /\ tabs'[u].page # "form" => session # Nobody
                        /\ tabs'[u].page = "wizard" => tabs'[u].state.owner = session
    BY <1>5, <1>6, <2>1, <2>2 DEF OwnPlace
  <2>4. QED
    BY <1>2, <2>1, <2>3 DEF OwnPlace
<1>10. QED
  BY <1>7, <1>8, <1>9 DEF DeviceInv

LEMMA SignInOk ==
  ASSUME DeviceInv, NEW t \in Tabs, NEW who \in Members, SignIn(t, who) PROVE DeviceInv'
<1>1. /\ DeviceForm /\ who # Nobody /\ complete \in BOOLEAN /\ tabs[t].page = "form"
      /\ session' = who /\ mixed' = (mixed \/ session # Nobody \/ Busy # {})
      /\ UNCHANGED <<complete, stored, confirmed, raced>>
  BY DeviceAssumption DEF SignIn, DeviceInv, DeviceForm
<1>2. PICK page \in Pages : tabs' = [tabs EXCEPT ![t] = Arrive(tabs[t], who, complete, stored, page)]
  BY DEF SignIn, Pages, DeviceInv, DeviceForm
<1>3. tabs[t] \in TabStates /\ (tabs[t].connecting # {} => tabs[t].state.consent)
  BY <1>1, TabForm DEF DeviceInv, Consented
<1>4. PICK new : new = Arrive(tabs[t], who, complete, stored, page)
  OBVIOUS
<1>5. /\ new \in TabStates /\ new.connecting = {}
      /\ new.page = "wizard" => new.state = LoadState(who, stored)
  BY <1>1, <1>3, <1>4, Arrives
<1>6. /\ tabs' \in [Tabs -> TabStates] /\ tabs'[t] = new
      /\ \A u \in Tabs \ {t} : tabs'[u] = tabs[u]
  BY <1>1, <1>2, <1>4, <1>5, OneTab
<1>7. DeviceForm'
  <2>1. mixed' \in BOOLEAN
    BY <1>1, Zenon
  <2>2. QED
    BY <1>1, <1>6, <2>1 DEF DeviceForm
<1>8. (\A u \in Tabs : Consented(u)') /\ OneConnection'
  BY <1>1, <1>5, <1>6, NoneAdded
<1>9. OwnPlace'
  <2> SUFFICES ASSUME ~mixed' PROVE OwnPlace'
    BY DEF OwnPlace
  <2>1. ~mixed /\ session = Nobody /\ Busy = {} /\ OwnPlace
    BY <1>1 DEF DeviceInv
  <2>2. stored = NothingStored /\ ~complete
    BY <2>1 DEF OwnPlace
  <2>3. new.page = "wizard" => new.state.owner = who
    BY <1>5, <2>2, LoadedOwn
  <2>4. \A u \in Tabs \ {t} : tabs[u].page = "form"
    BY <2>1 DEF Busy
  <2>5. \A u \in Tabs : tabs'[u].page = "wizard" => tabs'[u].state.owner = who
    BY <1>6, <2>3, <2>4
  <2>6. raced \/ confirmed \subseteq stored.linked
    BY <2>1 DEF OwnPlace
  <2>7. QED
    BY <1>1, <2>2, <2>5, <2>6 DEF OwnPlace
<1>10. QED
  BY <1>7, <1>8, <1>9 DEF DeviceInv

LEMMA SignOutOk == ASSUME DeviceInv, NEW t \in Tabs, SignOut(t) PROVE DeviceInv'
<1>1. /\ DeviceForm /\ session' = Nobody /\ complete' = FALSE /\ stored' = NothingStored
      /\ confirmed' = {} /\ raced' = raced /\ tabs[t].page = "dashboard"
      /\ tabs' = [tabs EXCEPT ![t].page = "form"]
      /\ mixed' = (mixed \/ Busy # {t} \/ tabs[t].left # {})
  BY DEF SignOut, DeviceInv, Forgotten
<1>2. PICK new : new = [tabs[t] EXCEPT !.page = "form"]
  OBVIOUS
<1>3. tabs[t] \in TabStates /\ tabs[t].connecting = {}
  BY <1>1, TabForm DEF DeviceInv, Consented
<1>4. new \in TabStates /\ new.page = "form" /\ new.connecting = {}
  BY <1>2, <1>3 DEF TabStates
<1>5. /\ tabs' \in [Tabs -> TabStates] /\ tabs'[t] = new
      /\ \A u \in Tabs \ {t} : tabs'[u] = tabs[u]
  <2>1. tabs' = [tabs EXCEPT ![t] = new]
    BY <1>1, <1>2 DEF DeviceForm
  <2>2. QED
    BY <1>1, <1>4, <2>1, OneTab
<1>6. DeviceForm'
  <2>1. mixed' \in BOOLEAN /\ complete' \in BOOLEAN
    BY <1>1, Zenon
  <2>2. QED
    BY <1>1, <1>5, <2>1, FreshStates DEF DeviceForm
<1>7. (\A u \in Tabs : Consented(u)') /\ OneConnection'
  BY <1>1, <1>4, <1>5, NoneAdded
<1>8. OwnPlace'
  <2> SUFFICES ASSUME ~mixed' PROVE OwnPlace'
    BY DEF OwnPlace
  <2>1. Busy = {t}
    BY <1>1
  <2>2. \A u \in Tabs : tabs'[u].page = "form"
    BY <1>4, <1>5, <2>1 DEF Busy
  <2>3. ~complete' /\ (raced' \/ confirmed' \subseteq stored'.linked)
    BY <1>1
  <2>4. QED
    BY <1>1, <2>2 DEF OwnPlace
<1>9. QED
  BY <1>6, <1>7, <1>8 DEF DeviceInv

\* The wizard's own changes: the state shown is changed and stored, its banks and
\* its owner stay.
LEMMA PatchOk ==
  ASSUME DeviceInv, NEW t \in Tabs, NEW state \in WizardStates, Patch(t, state),
         tabs[t].page = "wizard", state.linked = tabs[t].state.linked,
         state.owner = tabs[t].state.owner, tabs[t].state.consent => state.consent,
         UNCHANGED <<session, complete, confirmed, raced>>
  PROVE  DeviceInv'
<1>1. /\ DeviceForm /\ stored' = state /\ tabs' = [tabs EXCEPT ![t].state = state]
      /\ mixed' = (mixed \/ (stored # tabs[t].state /\ stored # NothingStored))
  BY DEF DeviceInv, Patch
<1>2. PICK new : new = [tabs[t] EXCEPT !.state = state]
  OBVIOUS
<1>3. tabs[t] \in TabStates
  BY <1>1, TabForm
<1>4. /\ new \in TabStates /\ new.page = "wizard" /\ new.state = state
      /\ new.connecting = tabs[t].connecting
  BY <1>2, <1>3 DEF TabStates
<1>5. /\ tabs' \in [Tabs -> TabStates] /\ tabs'[t] = new
      /\ \A u \in Tabs \ {t} : tabs'[u] = tabs[u]
  <2>1. tabs' = [tabs EXCEPT ![t] = new]
    BY <1>1, <1>2 DEF DeviceForm
  <2>2. QED
    BY <1>1, <1>4, <2>1, OneTab
<1>6. DeviceForm'
  <2>1. mixed' \in BOOLEAN
    BY <1>1, Zenon
  <2>2. QED
    BY <1>1, <1>5, <2>1 DEF DeviceForm
<1>7. \A u \in Tabs : Consented(u)'
  BY <1>4, <1>5 DEF DeviceInv, Consented
<1>8. \A u \in Tabs : /\ tabs'[u].connecting = tabs[u].connecting
                      /\ tabs'[u].state.linked = tabs[u].state.linked
                      /\ tabs'[u].page = tabs[u].page /\ tabs'[u].state.owner = tabs[u].state.owner
  BY <1>4, <1>5
<1>9. OneConnection'
  BY <1>8 DEF DeviceInv, OneConnection
<1>10. OwnPlace'
  <2> SUFFICES ASSUME ~mixed' PROVE OwnPlace'
    BY DEF OwnPlace
  <2>1. ~mixed /\ (stored = tabs[t].state \/ stored = NothingStored) /\ OwnPlace
    BY <1>1 DEF DeviceInv
  <2>2. state.owner = session /\ session # Nobody
    BY <2>1 DEF OwnPlace
  <2>3. raced \/ confirmed \subseteq state.linked
    BY <2>1, FreshStates DEF OwnPlace
  <2>4. QED
    BY <1>1, <1>8, <2>1, <2>2, <2>3 DEF OwnPlace
<1>11. QED
  BY <1>6, <1>7, <1>9, <1>10 DEF DeviceInv


\* Every step but the consent may be gone to from one that has it, or from before.
LEMMA GoToOk ==
  ASSUME DeviceInv, NEW t \in Tabs, NEW from \in Steps, NEW to \in Steps, GoTo(t, from, to),
         to # SummaryStep, to >= LinkStep => from >= LinkStep
  PROVE  DeviceInv'
<1>1. PICK old : old = tabs[t].state
  OBVIOUS
<1>2. PICK state : state = [old EXCEPT !.step = to]
  OBVIOUS
<1>3. /\ old \in WizardStates /\ tabs[t].page = "wizard" /\ old.step = from /\ Patch(t, state)
      /\ UNCHANGED <<session, complete, confirmed, raced>>
  BY <1>1, <1>2, TabForm DEF DeviceInv, GoTo, Showing
<1>4. /\ state \in [step : Steps, consent : BOOLEAN, linked : SUBSET Institutions,
                    found : BOOLEAN, owner : Members \union {Nobody}]
      /\ state.step = to /\ state.linked = old.linked /\ state.owner = old.owner
      /\ state.consent = old.consent /\ state.found = old.found
  BY <1>2, <1>3, StateForm
<1>5. Reachable(state)
  BY <1>3, <1>4, StateForm DEF Reachable, Steps, WelcomeStep, LinkStep, SummaryStep
<1>6. state \in WizardStates
  BY <1>4, <1>5 DEF WizardStates
<1>7. QED
  BY <1>1, <1>3, <1>4, <1>6, PatchOk

LEMMA WalksOk ==
  ASSUME DeviceInv, NEW t \in Tabs,
         Begin(t) \/ LeaveLink(t) \/ BackToLink(t) \/ BackStep(t)
  PROVE  DeviceInv'
<1>1. \/ GoTo(t, 0, 1) \/ GoTo(t, 2, 3) \/ GoTo(t, 3, 2)
      \/ GoTo(t, 1, 0) \/ GoTo(t, 2, 1) \/ GoTo(t, 4, 3)
  <2>1. CASE Begin(t)
    BY <2>1 DEF Begin, WelcomeStep, ConsentStep
  <2>2. CASE LeaveLink(t)
    BY <2>2 DEF LeaveLink, LinkStep, SyncStep
  <2>3. CASE BackToLink(t)
    BY <2>3 DEF BackToLink, LinkStep, SyncStep
  <2>4. CASE BackStep(t)
    <3>1. PICK step \in {1, 2, 4} : GoTo(t, step, step - 1)
      BY <2>4 DEF BackStep, ConsentStep, LinkStep, SummaryStep
    <3>2. /\ step = 1 => GoTo(t, 1, 0)
          /\ step = 2 => GoTo(t, 2, 1)
          /\ step = 4 => GoTo(t, 4, 3)
      BY <3>1, 1 - 1 = 0, 2 - 1 = 1, 4 - 1 = 3 DEF GoTo
    <3>3. QED
      BY <3>2
  <2>5. QED
    BY <2>1, <2>2, <2>3, <2>4
<1>2. Steps = 0..4 /\ LinkStep = 2 /\ SummaryStep = 4
  BY DEF Steps, WelcomeStep, LinkStep, SummaryStep
<1>3. 0 \in Steps /\ 1 \in Steps /\ 2 \in Steps /\ 3 \in Steps /\ 4 \in Steps
  BY <1>2
<1>4. /\ GoTo(t, 0, 1) => DeviceInv'
      /\ GoTo(t, 2, 3) => DeviceInv'
      /\ GoTo(t, 3, 2) => DeviceInv'
      /\ GoTo(t, 1, 0) => DeviceInv'
      /\ GoTo(t, 2, 1) => DeviceInv'
      /\ GoTo(t, 4, 3) => DeviceInv'
  BY <1>2, <1>3, GoToOk
<1>5. QED
  BY <1>1, <1>4

LEMMA AgreeOk == ASSUME DeviceInv, NEW t \in Tabs, Agree(t) PROVE DeviceInv'
<1>1. PICK old : old = tabs[t].state
  OBVIOUS
<1>2. PICK yes : yes = TRUE
  OBVIOUS
<1>3. PICK state : state = [[old EXCEPT !.consent = yes] EXCEPT !.step = LinkStep]
  OBVIOUS
<1>4. old \in WizardStates
  BY <1>1, TabForm DEF DeviceInv
<1>5. yes \in BOOLEAN /\ yes
  BY <1>2, Zenon
<1>6. LinkStep \in Steps
  BY DEF LinkStep, Steps, WelcomeStep, SummaryStep
<1>7. /\ tabs[t].page = "wizard" /\ Patch(t, state)
      /\ UNCHANGED <<session, complete, confirmed, raced>>
  BY <1>1, <1>2, <1>3, <1>4, StateForm DEF Agree, Showing
<1>8. /\ state \in [step : Steps, consent : BOOLEAN, linked : SUBSET Institutions,
                    found : BOOLEAN, owner : Members \union {Nobody}]
      /\ state.step = LinkStep /\ state.linked = old.linked /\ state.owner = old.owner
      /\ state.consent = yes /\ state.found = old.found
  BY <1>3, <1>4, <1>5, <1>6, StateForm
<1>9. Reachable(state)
  BY <1>4, <1>5, <1>8, StateForm DEF Reachable, LinkStep, SummaryStep
<1>10. state \in WizardStates
  BY <1>8, <1>9 DEF WizardStates
<1>11. QED
  BY <1>1, <1>5, <1>7, <1>8, <1>10, PatchOk

LEMMA ScanOk == ASSUME DeviceInv, NEW t \in Tabs, Scan(t) PROVE DeviceInv'
<1>1. PICK old : old = tabs[t].state
  OBVIOUS
<1>2. PICK yes : yes = TRUE
  OBVIOUS
<1>3. PICK state : state = [[old EXCEPT !.found = yes] EXCEPT !.step = SummaryStep]
  OBVIOUS
<1>4. old \in WizardStates
  BY <1>1, TabForm DEF DeviceInv
<1>5. yes \in BOOLEAN /\ yes
  BY <1>2, Zenon
<1>6. SummaryStep \in Steps
  BY DEF SummaryStep, Steps, WelcomeStep
<1>7. /\ tabs[t].page = "wizard" /\ Patch(t, state) /\ old.linked # {}
      /\ UNCHANGED <<session, complete, confirmed, raced>>
  BY <1>1, <1>2, <1>3, <1>4, StateForm DEF Scan, Showing, Scannable
<1>8. /\ state \in [step : Steps, consent : BOOLEAN, linked : SUBSET Institutions,
                    found : BOOLEAN, owner : Members \union {Nobody}]
      /\ state.step = SummaryStep /\ state.linked = old.linked /\ state.owner = old.owner
      /\ state.consent = old.consent /\ state.found = yes
  BY <1>3, <1>4, <1>5, <1>6, StateForm
<1>9. Reachable(state)
  BY <1>4, <1>5, <1>7, <1>8, StateForm DEF Reachable
<1>10. state \in WizardStates
  BY <1>8, <1>9 DEF WizardStates
<1>11. QED
  BY <1>1, <1>7, <1>8, <1>10, PatchOk

\* A connection begins with the banks its tab lists.
LEMMA ConnectOk ==
  ASSUME DeviceInv, NEW t \in Tabs, NEW bank \in Institutions, Connect(t, bank) PROVE DeviceInv'
<1>1. PICK c : c = [bank |-> bank, base |-> tabs[t].state.linked]
  OBVIOUS
<1>2. PICK new : new = [tabs[t] EXCEPT !.connecting = tabs[t].connecting \union {c}]
  OBVIOUS
<1>3. /\ DeviceForm /\ tabs[t] \in TabStates /\ tabs[t].state \in WizardStates
      /\ tabs[t].page = "wizard" /\ tabs[t].state.step = LinkStep
      /\ tabs[t].connecting \subseteq Connections
      /\ raced' = (raced \/ \E o \in Tabs : tabs[o].connecting # {})
      /\ UNCHANGED <<session, complete, stored, confirmed, mixed>>
  BY TabForm DEF DeviceInv, Connect, Showing
<1>4. tabs[t].state.consent /\ tabs[t].state.linked \subseteq Institutions
  BY <1>3, StateForm DEF Reachable, LinkStep
<1>5. c \in Connections /\ c.base = tabs[t].state.linked
  BY <1>1, <1>4 DEF Connections
<1>6. /\ new \in TabStates /\ new.page = "wizard" /\ new.state = tabs[t].state
      /\ new.connecting = tabs[t].connecting \union {c}
  BY <1>2, <1>3, <1>5 DEF TabStates
<1>7. /\ tabs' \in [Tabs -> TabStates] /\ tabs'[t] = new
      /\ \A u \in Tabs \ {t} : tabs'[u] = tabs[u]
  <2>1. tabs' = [tabs EXCEPT ![t] = new]
    BY <1>1, <1>2, <1>3 DEF Connect, DeviceForm
  <2>2. QED
    BY <1>3, <1>6, <2>1, OneTab
<1>8. DeviceForm'
  <2>1. raced' \in BOOLEAN
    BY <1>3, Zenon
  <2>2. QED
    BY <1>3, <1>7, <2>1 DEF DeviceForm
<1>9. \A u \in Tabs : Consented(u)'
  BY <1>4, <1>6, <1>7 DEF DeviceInv, Consented
<1>10. OneConnection'
  <2> SUFFICES ASSUME ~raced', NEW v \in Tabs, NEW u \in Tabs,
                      NEW x \in tabs'[v].connecting, NEW d \in tabs'[u].connecting
               PROVE  v = u /\ x = d /\ x.base = tabs'[v].state.linked
    BY DEF OneConnection
  <2>1. \A o \in Tabs : tabs[o].connecting = {}
    BY <1>3
  <2>2. v = t /\ u = t
    BY <1>7, <2>1
  <2>3. x = c /\ d = c
    BY <1>6, <1>7, <2>1, <2>2
  <2>4. QED
    BY <1>5, <1>6, <1>7, <2>2, <2>3
<1>11. OwnPlace'
  BY <1>3, <1>6, <1>7 DEF DeviceInv, OwnPlace
<1>12. QED
  BY <1>8, <1>9, <1>10, <1>11 DEF DeviceInv

\* Its answer is added to the banks listed when it began - which are the ones
\* stored, unless connections raced or tabs mixed.
LEMMA ConnectedOk ==
  ASSUME DeviceInv, NEW t \in Tabs, NEW c \in tabs[t].connecting, Connected(t, c)
  PROVE  DeviceInv'
<1>1. PICK old : old = tabs[t].state
  OBVIOUS
<1>2. PICK state : state = [old EXCEPT !.linked = LinkedAfter(c)]
  OBVIOUS
<1>3. PICK new : new = [[tabs[t] EXCEPT !.connecting = tabs[t].connecting \ {c}] EXCEPT !.state = state]
  OBVIOUS
<1>4. /\ DeviceForm /\ tabs[t] \in TabStates /\ old \in WizardStates
      /\ tabs[t].connecting \subseteq Connections /\ c \in Connections
      /\ tabs[t].page = "wizard" /\ old.consent
  BY <1>1, TabForm DEF DeviceInv, Consented
<1>5. /\ stored' = state
      /\ mixed' = (mixed \/ (stored # old /\ stored # NothingStored))
      /\ confirmed' = IF mixed' THEN {} ELSE confirmed \union {c.bank}
      /\ UNCHANGED <<session, complete, raced>>
  BY <1>1, <1>2 DEF Connected
<1>6. /\ state \in WizardStates /\ state.linked = LinkedAfter(c) /\ state.owner = old.owner
      /\ state.consent = old.consent
  BY <1>2, <1>4, Answered
<1>7. /\ new \in TabStates /\ new.page = "wizard" /\ new.state = state
      /\ new.connecting = tabs[t].connecting \ {c}
  BY <1>3, <1>4, <1>6 DEF TabStates
<1>8. /\ tabs' \in [Tabs -> TabStates] /\ tabs'[t] = new
      /\ \A u \in Tabs \ {t} : tabs'[u] = tabs[u]
  <2>1. tabs' = [tabs EXCEPT ![t] = new]
    BY <1>1, <1>2, <1>3, <1>4 DEF Connected, DeviceForm
  <2>2. QED
    BY <1>4, <1>7, <2>1, OneTab
<1>9. DeviceForm'
  <2>1. mixed' \in BOOLEAN
    BY <1>5, Zenon
  <2>2. QED
    BY <1>4, <1>5, <1>6, <1>8, <2>1 DEF DeviceForm
<1>10. \A u \in Tabs : Consented(u)'
  BY <1>4, <1>6, <1>7, <1>8 DEF DeviceInv, Consented
<1>11. OneConnection'
  <2> SUFFICES ASSUME ~raced, NEW v \in Tabs, NEW u \in Tabs,
                      NEW x \in tabs'[v].connecting, NEW d \in tabs'[u].connecting
               PROVE  v = u /\ x = d /\ x.base = tabs'[v].state.linked
    BY <1>5 DEF OneConnection
  <2>1. x \in tabs[v].connecting
    BY <1>7, <1>8
  <2>2. v = t /\ x = c
    BY <2>1 DEF DeviceInv, OneConnection
  <2>3. QED
    BY <1>7, <1>8, <2>2
<1>12. OwnPlace'
  <2> SUFFICES ASSUME ~mixed' PROVE OwnPlace'
    BY DEF OwnPlace
  <2>1. ~mixed /\ (stored = old \/ stored = NothingStored) /\ OwnPlace
    BY <1>5 DEF DeviceInv
  <2>2. state.owner = session /\ session # Nobody
    BY <1>1, <1>4, <1>6, <2>1 DEF OwnPlace
  <2>3. raced \/ confirmed' \subseteq state.linked
    <3> SUFFICES ASSUME ~raced PROVE confirmed' \subseteq state.linked
      OBVIOUS
    <3>1. c.base = old.linked
      BY <1>1 DEF DeviceInv, OneConnection
    <3>2. confirmed \subseteq old.linked
      BY <2>1, FreshStates DEF OwnPlace
    <3>3. QED
      BY <1>5, <1>6, <3>1, <3>2 DEF LinkedAfter
  <2>4. \A u \in Tabs : /\ tabs'[u].page = tabs[u].page
                        /\ tabs'[u].state.owner = tabs[u].state.owner
    BY <1>1, <1>4, <1>6, <1>7, <1>8
  <2>5. QED
    BY <1>5, <2>1, <2>2, <2>3, <2>4 DEF OwnPlace
<1>13. QED
  BY <1>9, <1>10, <1>11, <1>12 DEF DeviceInv

LEMMA ConnectedLateOk ==
  ASSUME DeviceInv, NEW t \in Tabs, NEW state \in tabs[t].left, ConnectedLate(t, state)
  PROVE  DeviceInv'
<1>1. PICK new : new = [tabs[t] EXCEPT !.left = tabs[t].left \ {state}]
  OBVIOUS
<1>2. /\ DeviceForm /\ tabs[t] \in TabStates /\ state \in WizardStates
      /\ UNCHANGED <<session, complete, confirmed, raced>>
      /\ (mixed' = TRUE /\ stored' = state) \/ (mixed' = mixed /\ stored' = stored)
  BY TabForm DEF DeviceInv, ConnectedLate
<1>3. /\ new \in TabStates /\ new.page = tabs[t].page /\ new.state = tabs[t].state
      /\ new.connecting = tabs[t].connecting
  BY <1>1, <1>2 DEF TabStates
<1>4. /\ tabs' \in [Tabs -> TabStates] /\ tabs'[t] = new
      /\ \A u \in Tabs \ {t} : tabs'[u] = tabs[u]
  <2>1. tabs' = [tabs EXCEPT ![t] = new]
    BY <1>1, <1>2 DEF ConnectedLate, DeviceForm
  <2>2. QED
    BY <1>2, <1>3, <2>1, OneTab
<1>5. DeviceForm'
  <2>1. mixed' \in BOOLEAN /\ stored' \in WizardStates
    <3>1. mixed \in BOOLEAN /\ stored \in WizardStates
      BY <1>2 DEF DeviceForm
    <3>2. QED
      BY <1>2, <3>1, Zenon
  <2>2. QED
    BY <1>2, <1>4, <2>1 DEF DeviceForm
<1>6. \A u \in Tabs : /\ tabs'[u].page = tabs[u].page /\ tabs'[u].state = tabs[u].state
                      /\ tabs'[u].connecting = tabs[u].connecting
  BY <1>3, <1>4
<1>7. (\A u \in Tabs : Consented(u)') /\ OneConnection'
  BY <1>2, <1>6 DEF DeviceInv, Consented, OneConnection
<1>8. OwnPlace'
  BY <1>2, <1>6 DEF DeviceInv, OwnPlace
<1>9. QED
  BY <1>5, <1>7, <1>8 DEF DeviceInv

LEMMA FinishOk == ASSUME DeviceInv, NEW t \in Tabs, Finish(t) PROVE DeviceInv'
<1>1. PICK yes \in BOOLEAN : yes = TRUE
  BY Zenon
<1>2. PICK page \in Pages : page = "dashboard"
  BY DEF Pages
<1>3. /\ DeviceForm /\ session \in Members \union {Nobody} /\ complete' = yes
      /\ tabs' = [tabs EXCEPT ![t] = Arrive(tabs[t], session, yes, stored, page)]
      /\ tabs[t].page = "wizard"
      /\ UNCHANGED <<session, stored, confirmed, mixed, raced>>
  BY <1>1, <1>2 DEF Finish, Showing, DeviceInv, DeviceForm
<1>4. tabs[t] \in TabStates /\ (tabs[t].connecting # {} => tabs[t].state.consent)
  BY <1>3, TabForm DEF DeviceInv, Consented
<1>5. PICK tab, new : tab = tabs[t] /\ new = Arrive(tab, session, yes, stored, page)
  OBVIOUS
<1>6. /\ new \in TabStates /\ new.connecting = {}
      /\ new.page # "form" => session # Nobody
      /\ new.page = "wizard" => new.state = LoadState(session, stored)
  <2>1. DeviceForm /\ session \in Members \union {Nobody}
    BY <1>3
  <2>2. yes \in BOOLEAN /\ page \in Pages
    BY <1>1, <1>2
  <2>3. /\ tab \in TabStates /\ (tab.connecting # {} => tab.state.consent)
        /\ new = Arrive(tab, session, yes, stored, page)
    BY <1>4, <1>5
  <2>4. QED
    BY <2>1, <2>2, <2>3, Arrives
<1>7. /\ tabs' \in [Tabs -> TabStates] /\ tabs'[t] = new
      /\ \A u \in Tabs \ {t} : tabs'[u] = tabs[u]
  BY <1>3, <1>5, <1>6, OneTab
<1>8. DeviceForm'
  BY <1>1, <1>3, <1>7 DEF DeviceForm
<1>9. (\A u \in Tabs : Consented(u)') /\ OneConnection'
  BY <1>3, <1>6, <1>7, NoneAdded
<1>10. OwnPlace'
  <2> SUFFICES ASSUME ~mixed PROVE OwnPlace'
    BY <1>3 DEF OwnPlace
  <2>1. OwnPlace /\ session # Nobody /\ session \in Members
    BY <1>3 DEF DeviceInv, OwnPlace
  <2>2. new.page = "wizard" => new.state.owner = session
    BY <1>6, <2>1, LoadedOwn DEF OwnPlace
  <2>3. \A u \in Tabs : tabs'[u].page = "wizard" => tabs'[u].state.owner = session
    BY <1>7, <2>1, <2>2 DEF OwnPlace
  <2>4. QED
    BY <1>3, <2>1, <2>3 DEF OwnPlace
<1>11. QED
  BY <1>8, <1>9, <1>10 DEF DeviceInv

LEMMA DeviceStep == DeviceInv /\ [DeviceNext]_deviceVars => DeviceInv'
<1> SUFFICES ASSUME DeviceInv, [DeviceNext]_deviceVars PROVE DeviceInv'
  OBVIOUS
<1>1. ASSUME NEW t \in Tabs, NEW page \in Pages, Navigate(t, page) \/ Reload(t, page)
      PROVE  DeviceInv'
  BY <1>1, VisitOk
<1>2. ASSUME NEW t \in Tabs, NEW who \in Members, SignIn(t, who) PROVE DeviceInv'
  BY <1>2, SignInOk
<1>3. ASSUME NEW t \in Tabs,
             SignOut(t) \/ Begin(t) \/ Agree(t) \/ LeaveLink(t) \/ Scan(t)
               \/ BackToLink(t) \/ BackStep(t) \/ Finish(t)
      PROVE  DeviceInv'
  BY <1>3, SignOutOk, WalksOk, AgreeOk, ScanOk, FinishOk
<1>4. ASSUME NEW t \in Tabs, NEW bank \in Institutions, Connect(t, bank) PROVE DeviceInv'
  BY <1>4, ConnectOk
<1>5. ASSUME NEW t \in Tabs, NEW c \in tabs[t].connecting, Connected(t, c) PROVE DeviceInv'
  BY <1>5, ConnectedOk
<1>6. ASSUME NEW t \in Tabs, NEW state \in tabs[t].left, ConnectedLate(t, state) PROVE DeviceInv'
  BY <1>6, ConnectedLateOk
<1>7. CASE UNCHANGED deviceVars
  BY <1>7 DEF deviceVars, DeviceInv, DeviceForm, Consented, OneConnection, OwnPlace
<1>8. QED
  BY <1>1, <1>2, <1>3, <1>4, <1>5, <1>6, <1>7 DEF DeviceNext, Pages

\* For any number of tabs, members and banks: what is stored is a place a member
\* can have walked to, whatever tabs write over each other; and with one tab at
\* work at a time it is the member's own, with every bank reported connected
\* (the onboarding wizard and the session guard of apps/web).
THEOREM WizardHolds == DeviceSpec => []WizardIsSound
<1>1. DeviceInv => WizardIsSound
  <2> SUFFICES ASSUME DeviceInv PROVE WizardIsSound
    OBVIOUS
  <2>1. PlaceIsReachable
    BY StateForm DEF DeviceInv, DeviceForm, PlaceIsReachable, Reachable
  <2>2. ~mixed => stored.owner \in {session, Nobody}
    BY FreshStates DEF DeviceInv, OwnPlace
  <2>3. QED
    BY <2>1, <2>2 DEF DeviceInv, OwnPlace, WizardIsSound
<1>2. QED
  BY <1>1, DeviceBegins, DeviceStep, PTL DEF DeviceSpec

--------------------------------------------------------------------------------
(* Dashboard: the invariant *)

\* A request, however its button was rendered.
Request(q) ==
  /\ {"state", "row", "to", "mounted"} \subseteq DOMAIN q
  /\ q.state \in {"none", "sent", "served", "given_up"}
  /\ IF q.state = "none" THEN q.row = "none" ELSE q.row \in Rows /\ q.to \in Statuses
SameRequest(p, q) == p.state = q.state /\ p.row = q.row /\ p.to = q.to

Shown(v) == IsFiniteSet(DOMAIN v.rows) /\ \A r \in DOMAIN v.rows : v.rows[r] \in Statuses

DashboardForm ==
  /\ saved \in [Rows -> Statuses \union {"none"}]
  /\ told \in [Tracked -> Statuses \union {"nothing"}] /\ muddled \subseteq Tracked
  /\ DOMAIN click = Clicks /\ (\A c \in Clicks : Request(click[c]))
  /\ DOMAIN view = Screens /\ (\A s \in Screens : Shown(view[s]))
  /\ adds \in [answered : Nat, unsure : Nat]

\* A press alone on its row: nothing told since, and what is answered is saved.
Lonely(c) ==
  click[c].row \in Tracked \ muddled =>
    /\ told[click[c].row] = "nothing" /\ click[c].state # "given_up"
    /\ \A d \in Clicks : click[d].row = click[c].row => d = c
    /\ click[c].state = "served" => saved[click[c].row] = click[c].to

TellsTruth == \A r \in Tracked \ muddled : told[r] # "nothing" => saved[r] = told[r]

\* A form's row is its own, and is there once it is carried out.
FormsRow(c) ==
  click[c].row \in FormRows =>
    /\ \A d \in Clicks : click[d].row = click[c].row => d = c
    /\ saved[click[c].row] = "none" <=> click[c].state \in {"sent", "given_up"}

Made == {r \in FormRows : saved[r] # "none"}
FormsAt(state) == {c \in Clicks : click[c].state = state /\ click[c].row \in FormRows}

\* Every row that was added is answered, about to be, or one the form is not
\* sure of; and it is not sure of those it gave up and may still be carried out.
RowsCounted ==
  /\ adds.answered + Cardinality(FormsAt("served")) <= Cardinality(Made)
  /\ Cardinality(Made) + Cardinality(FormsAt("given_up"))
       <= adds.answered + Cardinality(FormsAt("served")) + adds.unsure

DashboardInv ==
  /\ DashboardForm /\ TellsTruth /\ RowsCounted
  /\ \A c \in Clicks : Lonely(c) /\ FormsRow(c)

--------------------------------------------------------------------------------
(* Dashboard: pages *)

LEMMA DisjointUnion ==
  ASSUME NEW S, IsFiniteSet(S), NEW T, IsFiniteSet(T), S \intersect T = {}
  PROVE  IsFiniteSet(S \union T) /\ Cardinality(S \union T) = Cardinality(S) + Cardinality(T)
<1>1. Cardinality(S \intersect T) = 0
  BY FS_EmptySet
<1>2. Cardinality(S) \in Nat /\ Cardinality(T) \in Nat
  BY FS_CardinalityType
<1>3. /\ IsFiniteSet(S \union T)
      /\ Cardinality(S \union T) = Cardinality(S) + Cardinality(T) - Cardinality(S \intersect T)
  BY FS_Union
<1>4. QED
  BY <1>1, <1>2, <1>3

\* A page counts each of its rows under one status.
LEMMA CountsAddUp ==
  ASSUME NEW v, Shown(v)
  PROVE  Cardinality(Visible(v, "all")) =
           CountOf(v, "active") + CountOf(v, "paused")
             + CountOf(v, "cancel_requested") + CountOf(v, "canceled")
<1> DEFINE Of(status) == {r \in DOMAIN v.rows : v.rows[r] = status}
<1>1. IsFiniteSet(DOMAIN v.rows)
  BY DEF Shown
<1>2. Visible(v, "all") = DOMAIN v.rows
  BY DEF Visible
<1>3. PICK A, P, R, C : A = Of("active") /\ P = Of("paused") /\ R = Of("cancel_requested")
                        /\ C = Of("canceled")
  OBVIOUS
<1>4. IsFiniteSet(A) /\ IsFiniteSet(P) /\ IsFiniteSet(R) /\ IsFiniteSet(C)
  BY <1>1, <1>3, FS_Subset
<1>5. A \intersect P = {} /\ (A \union P) \intersect R = {} /\ ((A \union P) \union R) \intersect C = {}
  BY <1>3
<1>6. ((A \union P) \union R) \union C = DOMAIN v.rows
  BY <1>3 DEF Shown, Statuses
<1>7. IsFiniteSet(A \union P) /\ Cardinality(A \union P) = Cardinality(A) + Cardinality(P)
  BY <1>4, <1>5, DisjointUnion
<1>8. /\ IsFiniteSet((A \union P) \union R)
      /\ Cardinality((A \union P) \union R) = Cardinality(A \union P) + Cardinality(R)
  BY <1>4, <1>5, <1>7, DisjointUnion
<1>9. Cardinality(DOMAIN v.rows) = Cardinality((A \union P) \union R) + Cardinality(C)
  BY <1>4, <1>5, <1>6, <1>8, DisjointUnion
<1>10. /\ Cardinality(A) = CountOf(v, "active") /\ Cardinality(P) = CountOf(v, "paused")
       /\ Cardinality(R) = CountOf(v, "cancel_requested") /\ Cardinality(C) = CountOf(v, "canceled")
  BY <1>3 DEF CountOf
<1>11. QED
  BY <1>2, <1>4, <1>7, <1>8, <1>9, <1>10, FS_CardinalityType

LEMMA LoadedIsShown ==
  ASSUME NEW table \in [Rows -> Statuses \union {"none"}],
         NEW v \in {[source |-> "live", rows |-> [r \in {x \in Rows : table[x] # "none"} |-> table[r]]],
                    [source |-> "demo", rows |-> DemoSubscriptions]}
  PROVE Shown(v)
<1>1. CASE v = [source |-> "demo", rows |-> DemoSubscriptions]
  BY <1>1, FS_Singleton DEF Shown, DemoSubscriptions, Statuses
<1>2. CASE v = [source |-> "live", rows |-> [r \in {x \in Rows : table[x] # "none"} |-> table[r]]]
  <2>1. IsFiniteSet(Rows)
    BY DashboardAssumption, FS_Union DEF Rows
  <2>2. DOMAIN v.rows \in SUBSET Rows /\ \A r \in DOMAIN v.rows : v.rows[r] \in Statuses
    BY <1>2
  <2>3. QED
    BY <2>1, <2>2, FS_Subset DEF Shown
<1>3. QED
  BY <1>1, <1>2

\* Rendering a page again changes what its buttons look like, and nothing of the
\* requests that are on their way.
LEMMA Refreshes ==
  ASSUME DashboardForm, saved' \in [Rows -> Statuses \union {"none"}], NEW s, NEW clicks,
         DOMAIN clicks = Clicks, \A c \in Clicks : Request(clicks[c]),
         Refresh(s, clicks)
  PROVE  /\ DOMAIN view' = Screens /\ \A u \in Screens : Shown(view'[u])
         /\ DOMAIN click' = Clicks
         /\ \A c \in Clicks : Request(click'[c]) /\ SameRequest(click'[c], clicks[c])
<1>1. PICK v \in LoadSubscriptions' :
        /\ view' = [view EXCEPT ![s] = v]
        /\ click' = [c \in Clicks |->
             IF clicks[c].screen = s /\ clicks[c].row \in Tracked
             THEN [clicks[c] EXCEPT !.mounted =
                     /\ @ /\ clicks[c].row \in DOMAIN v.rows
                     /\ Button(v.rows[clicks[c].row]) = clicks[c].to]
             ELSE clicks[c]]
  BY DEF Refresh
<1>2. Shown(v)
  BY <1>1, LoadedIsShown DEF LoadSubscriptions
<1>3. DOMAIN view' = Screens /\ \A u \in Screens : Shown(view'[u])
  BY <1>1, <1>2 DEF DashboardForm
<1>4. DOMAIN click' = Clicks
  BY <1>1
<1>5. ASSUME NEW c \in Clicks PROVE Request(click'[c]) /\ SameRequest(click'[c], clicks[c])
  <2>1. PICK mounted : click'[c] \in {clicks[c], [clicks[c] EXCEPT !.mounted = mounted]}
    BY <1>1
  <2>2. Request(clicks[c])
    OBVIOUS
  <2>3. QED
    BY <2>1, <2>2 DEF Request, SameRequest
<1>6. QED
  BY <1>3, <1>4, <1>5

--------------------------------------------------------------------------------
(* Dashboard: requests *)

Weight(state, q) == IF q.state = state /\ q.row \in FormRows THEN 1 ELSE 0

\* Every request but that of one slot stays what it is.
OnlyMoves(c) ==
  DOMAIN click' = Clicks /\ \A d \in Clicks \ {c} : Request(click'[d]) /\ SameRequest(click'[d], click[d])

LEMMA WithAndWithout ==
  ASSUME NEW S, IsFiniteSet(S), NEW c, NEW k, k = (IF c \in S THEN 1 ELSE 0)
  PROVE  Cardinality(S) \in Nat /\ Cardinality(S \ {c}) \in Nat
         /\ Cardinality(S) = Cardinality(S \ {c}) + k
<1>1. Cardinality(S) \in Nat
  BY FS_CardinalityType
<1>2. CASE c \in S
  <2>1. IsFiniteSet(S \ {c}) /\ Cardinality(S \ {c}) = Cardinality(S) - 1
    BY <1>2, FS_RemoveElement
  <2>2. Cardinality(S \ {c}) \in Nat
    BY <2>1, FS_CardinalityType
  <2>3. QED
    BY <1>1, <1>2, <2>1, <2>2
<1>3. CASE c \notin S
  <2>1. S \ {c} = S
    BY <1>3
  <2>2. QED
    BY <1>1, <1>3, <2>1
<1>4. QED
  BY <1>2, <1>3

LEMMA FormsCounted ==
  ASSUME DashboardForm, NEW c \in Clicks, OnlyMoves(c), NEW state,
         NEW m, m = Weight(state, click[c]), NEW n, n = Weight(state, click'[c])
  PROVE  /\ Cardinality(FormsAt(state)) \in Nat /\ Cardinality(FormsAt(state)') \in Nat
         /\ m \in {0, 1} /\ n \in {0, 1}
         /\ Cardinality(FormsAt(state)') + m = Cardinality(FormsAt(state)) + n
<1>1. PICK S, T : S = FormsAt(state) /\ T = FormsAt(state)'
  OBVIOUS
<1>2. IsFiniteSet(S) /\ IsFiniteSet(T)
  BY <1>1, DashboardAssumption, FS_Subset DEF FormsAt
<1>3. S \ {c} = T \ {c}
  BY <1>1 DEF FormsAt, OnlyMoves, SameRequest
<1>4. m = (IF c \in S THEN 1 ELSE 0) /\ n = (IF c \in T THEN 1 ELSE 0)
  BY <1>1 DEF FormsAt, Weight
<1>5. /\ Cardinality(S) \in Nat /\ Cardinality(S \ {c}) \in Nat
      /\ Cardinality(S) = Cardinality(S \ {c}) + m
  BY <1>2, <1>4, WithAndWithout
<1>6. /\ Cardinality(T) \in Nat /\ Cardinality(T \ {c}) \in Nat
      /\ Cardinality(T) = Cardinality(T \ {c}) + n
  BY <1>2, <1>4, WithAndWithout
<1>7. m \in {0, 1} /\ n \in {0, 1}
  BY <1>4
<1>8. Cardinality(T) + m = Cardinality(S) + n
  <2>1. PICK i, j, k : i = Cardinality(S) /\ j = Cardinality(T) /\ k = Cardinality(S \ {c})
    OBVIOUS
  <2>2. i \in Nat /\ j \in Nat /\ k \in Nat /\ m \in Nat /\ n \in Nat
    BY <1>5, <1>6, <1>7, <2>1
  <2>3. i = k + m /\ j = k + n
    BY <1>3, <1>5, <1>6, <2>1
  <2>4. QED
    BY <2>1, <2>2, <2>3
<1>9. QED
  BY <1>1, <1>5, <1>6, <1>7, <1>8

LEMMA MadeCounted ==
  ASSUME DashboardForm PROVE IsFiniteSet(Made) /\ Cardinality(Made) \in Nat
<1>1. IsFiniteSet(Made)
  BY DashboardAssumption, FS_Subset DEF Made
<1>2. QED
  BY <1>1, FS_CardinalityType

LEMMA Tallies ==
  ASSUME NEW M1 \in Int, NEW M2 \in Int, NEW S1 \in Int, NEW S2 \in Int, NEW G1 \in Int, NEW G2 \in Int,
         NEW A1 \in Int, NEW U1 \in Int, NEW k \in Int, NEW a \in Int, NEW u \in Int,
         NEW s1 \in Int, NEW s2 \in Int, NEW g1 \in Int, NEW g2 \in Int,
         S2 + s1 = S1 + s2, G2 + g1 = G1 + g2, M2 = M1 + k,
         a + s2 <= s1 + k, k + g2 + s1 <= g1 + a + s2 + u,
         A1 + S1 <= M1, M1 + G1 <= A1 + S1 + U1
  PROVE  (A1 + a) + S2 <= M2 /\ M2 + G2 <= (A1 + a) + S2 + (U1 + u)
  OBVIOUS

LEMMA BitIsInt == \A x \in {0, 1} : x \in Int
OBVIOUS

\* What a step may do to the counts: s and g are what its request weighs among the
\* served and the given up, k the rows it adds, a and u what the form notes.
LEMMA CountsHold ==
  ASSUME DashboardForm, RowsCounted, NEW c \in Clicks, OnlyMoves(c),
         NEW s1, s1 = Weight("served", click[c]), NEW s2, s2 = Weight("served", click'[c]),
         NEW g1, g1 = Weight("given_up", click[c]), NEW g2, g2 = Weight("given_up", click'[c]),
         NEW k \in {0, 1}, Cardinality(Made') = Cardinality(Made) + k,
         NEW a \in {0, 1}, NEW u \in {0, 1},
         adds' = [answered |-> adds.answered + a, unsure |-> adds.unsure + u],
         a + s2 <= s1 + k, k + g2 + s1 <= g1 + a + s2 + u
  PROVE  RowsCounted' /\ adds' \in [answered : Nat, unsure : Nat]
<1>1. adds.answered \in Nat /\ adds.unsure \in Nat
  BY DEF DashboardForm
<1>2. /\ Cardinality(FormsAt("served")) \in Nat /\ Cardinality(FormsAt("served")') \in Nat
      /\ s1 \in {0, 1} /\ s2 \in {0, 1}
      /\ Cardinality(FormsAt("served")') + s1 = Cardinality(FormsAt("served")) + s2
  BY FormsCounted
<1>3. /\ Cardinality(FormsAt("given_up")) \in Nat /\ Cardinality(FormsAt("given_up")') \in Nat
      /\ g1 \in {0, 1} /\ g2 \in {0, 1}
      /\ Cardinality(FormsAt("given_up")') + g1 = Cardinality(FormsAt("given_up")) + g2
  BY FormsCounted
<1>4. Cardinality(Made) \in Nat
  BY MadeCounted
<1>5. adds'.answered = adds.answered + a /\ adds'.unsure = adds.unsure + u
  OBVIOUS
<1>6. adds' \in [answered : Nat, unsure : Nat]
  BY <1>1
<1>7. PICK M1, M2, S1, S2, G1, G2 :
        /\ M1 = Cardinality(Made) /\ M2 = Cardinality(Made)'
        /\ S1 = Cardinality(FormsAt("served")) /\ S2 = Cardinality(FormsAt("served"))'
        /\ G1 = Cardinality(FormsAt("given_up")) /\ G2 = Cardinality(FormsAt("given_up"))'
  OBVIOUS
<1>8. PICK A1, U1 : A1 = adds.answered /\ U1 = adds.unsure
  OBVIOUS
<1>9. /\ M1 \in Nat /\ S1 \in Nat /\ S2 \in Nat /\ G1 \in Nat /\ G2 \in Nat /\ A1 \in Nat /\ U1 \in Nat
      /\ M2 = M1 + k /\ S2 + s1 = S1 + s2 /\ G2 + g1 = G1 + g2
  BY <1>1, <1>2, <1>3, <1>4, <1>7, <1>8
<1>10. A1 + S1 <= M1 /\ M1 + G1 <= A1 + S1 + U1
  BY <1>7, <1>8 DEF RowsCounted
<1>11. (A1 + a) + S2 <= M2 /\ M2 + G2 <= (A1 + a) + S2 + (U1 + u)
  <2>1. /\ k \in Int /\ a \in Int /\ u \in Int
        /\ s1 \in Int /\ s2 \in Int /\ g1 \in Int /\ g2 \in Int
    BY <1>2, <1>3, BitIsInt, Zenon
  <2>2. M2 \in Int
    BY <1>9, <2>1
  <2>3. S2 + s1 = S1 + s2 /\ G2 + g1 = G1 + g2 /\ M2 = M1 + k
    BY <1>9
  <2>4. a + s2 <= s1 + k /\ k + g2 + s1 <= g1 + a + s2 + u
    OBVIOUS
  <2>5. QED
    BY <1>9, <1>10, <2>1, <2>2, <2>3, <2>4, Tallies
<1>12. RowsCounted'
  BY <1>5, <1>7, <1>8, <1>11 DEF RowsCounted
<1>13. QED
  BY <1>6, <1>12

--------------------------------------------------------------------------------
(* Dashboard: the steps *)

\* A page is opened or rendered again, and no request moves.
LEMMA Looks ==
  ASSUME DashboardInv, UNCHANGED <<saved, told, muddled, adds>>,
         DOMAIN click' = Clicks,
         \A c \in Clicks : Request(click'[c]) /\ SameRequest(click'[c], click[c]),
         DOMAIN view' = Screens, \A s \in Screens : Shown(view'[s])
  PROVE  DashboardInv'
<1>1. DashboardForm'
  BY DEF DashboardInv, DashboardForm
<1>2. Made' = Made /\ \A state : FormsAt(state)' = FormsAt(state)
  BY DEF Made, FormsAt, SameRequest
<1>3. RowsCounted'
  BY <1>2 DEF DashboardInv, RowsCounted
<1>4. TellsTruth'
  BY DEF DashboardInv, TellsTruth
<1>5. ASSUME NEW c \in Clicks PROVE Lonely(c)'
  <2>1. Lonely(c) /\ SameRequest(click'[c], click[c])
    BY DEF DashboardInv
  <2>2. \A d \in Clicks : click'[d].row = click[d].row
    BY DEF SameRequest
  <2>3. QED
    BY <2>1, <2>2 DEF Lonely, SameRequest
<1>6. ASSUME NEW c \in Clicks PROVE FormsRow(c)'
  <2>1. FormsRow(c) /\ SameRequest(click'[c], click[c])
    BY DEF DashboardInv
  <2>2. \A d \in Clicks : click'[d].row = click[d].row
    BY DEF SameRequest
  <2>3. QED
    BY <2>1, <2>2 DEF FormsRow, SameRequest
<1>7. QED
  BY <1>1, <1>3, <1>4, <1>5, <1>6 DEF DashboardInv

LEMMA OpenPageOk ==
  ASSUME DashboardInv, NEW s \in Screens, OpenPage(s) PROVE DashboardInv'
<1>1. DashboardForm
  BY DEF DashboardInv
<1>2. saved \in [Rows -> Statuses \union {"none"}]
  BY <1>1 DEF DashboardForm
<1>3. PICK v : Shown(v) /\ view' = [view EXCEPT ![s] = v]
  <2>1. \A v \in LoadSubscriptions : Shown(v)
    BY <1>2, LoadedIsShown DEF LoadSubscriptions
  <2>2. \E v \in LoadSubscriptions : view' = [view EXCEPT ![s] = v]
    BY DEF OpenPage
  <2>3. QED
    BY <2>1, <2>2
<1>4. DOMAIN view' = Screens /\ \A u \in Screens : Shown(view'[u])
  BY <1>1, <1>3 DEF DashboardForm
<1>5. DOMAIN click' = Clicks
  BY DEF OpenPage
<1>6. ASSUME NEW c \in Clicks PROVE Request(click'[c]) /\ SameRequest(click'[c], click[c])
  <2>1. Request(click[c])
    BY <1>1 DEF DashboardForm
  <2>2. click'[c] = click[c] \/ click'[c] = [click[c] EXCEPT !.mounted = FALSE]
    BY DEF OpenPage
  <2>3. PICK q, p : q = click[c] /\ p = click'[c]
    OBVIOUS
  <2>4. CASE p = [q EXCEPT !.mounted = FALSE]
    BY <2>1, <2>3, <2>4 DEF Request, SameRequest
  <2>5. QED
    BY <2>1, <2>2, <2>3, <2>4 DEF SameRequest
<1>7. UNCHANGED <<saved, told, muddled, adds>>
  BY DEF OpenPage
<1>8. QED
  BY <1>4, <1>5, <1>6, <1>7, Looks

LEMMA PretendOk ==
  ASSUME DashboardInv, NEW s \in Screens, Pretend(s) PROVE DashboardInv'
<1>1. DashboardForm
  BY DEF DashboardInv
<1>2. UNCHANGED <<saved, told, muddled, adds>> /\ Refresh(s, click)
  BY DEF Pretend
<1>3. saved' \in [Rows -> Statuses \union {"none"}]
  BY <1>1, <1>2 DEF DashboardForm
<1>4. DOMAIN click = Clicks /\ \A c \in Clicks : Request(click[c])
  BY <1>1 DEF DashboardForm
<1>5. /\ DOMAIN view' = Screens /\ \A u \in Screens : Shown(view'[u])
      /\ DOMAIN click' = Clicks
      /\ \A c \in Clicks : Request(click'[c]) /\ SameRequest(click'[c], click[c])
  BY <1>1, <1>2, <1>3, <1>4, Refreshes
<1>6. QED
  BY <1>2, <1>5, Looks

\* One slot moves: what is still to be shown of the rest.
LEMMA Moves ==
  ASSUME DashboardForm, NEW c \in Clicks, OnlyMoves(c), Request(click'[c]),
         saved' \in [Rows -> Statuses \union {"none"}],
         told' \in [Tracked -> Statuses \union {"nothing"}], muddled' \subseteq Tracked,
         adds' \in [answered : Nat, unsure : Nat],
         DOMAIN view' = Screens, \A s \in Screens : Shown(view'[s])
  PROVE  DashboardForm'
BY DEF DashboardForm, OnlyMoves

LEMMA Sends ==
  ASSUME DashboardForm, NEW c \in Clicks, NEW s \in Screens, NEW r \in Rows,
         NEW to \in Statuses, Send(c, s, r, to)
  PROVE  /\ click[c] = NoClick
         /\ click' = [click EXCEPT ![c] =
              [state |-> "sent", screen |-> s, row |-> r, to |-> to, mounted |-> TRUE]]
         /\ OnlyMoves(c) /\ Request(click'[c])
         /\ click'[c].row = r /\ click'[c].state = "sent"
         /\ saved' = saved /\ view' = view /\ adds' = adds
         /\ adds' = [answered |-> adds.answered + 0, unsure |-> adds.unsure + 0]
         /\ Made' = Made
         /\ \A state \in {"served", "given_up"} :
              Weight(state, click[c]) = 0 /\ Weight(state, click'[c]) = 0
<1>1. /\ click[c] = NoClick /\ saved' = saved /\ view' = view /\ adds' = adds
      /\ click' = [click EXCEPT ![c] =
           [state |-> "sent", screen |-> s, row |-> r, to |-> to, mounted |-> TRUE]]
  BY DEF Send
<1>2. /\ click'[c] = [state |-> "sent", screen |-> s, row |-> r, to |-> to, mounted |-> TRUE]
      /\ DOMAIN click' = Clicks /\ \A d \in Clicks \ {c} : click'[d] = click[d]
  BY <1>1 DEF DashboardForm
<1>3. OnlyMoves(c)
  BY <1>2 DEF OnlyMoves, DashboardForm, SameRequest
<1>4. click'[c].row = r /\ click'[c].state = "sent" /\ Request(click'[c])
  BY <1>2 DEF Request
<1>5. Made' = Made
  BY <1>1 DEF Made
<1>6. \A state \in {"served", "given_up"} :
        Weight(state, click[c]) = 0 /\ Weight(state, click'[c]) = 0
  BY <1>1, <1>4 DEF Weight, NoClick
<1>7. adds' = [answered |-> adds.answered + 0, unsure |-> adds.unsure + 0]
  BY <1>1 DEF DashboardForm
<1>8. QED
  BY <1>1, <1>3, <1>4, <1>5, <1>6, <1>7

\* A request that was just sent weighs nothing yet.
LEMMA SendsCount ==
  ASSUME DashboardForm, RowsCounted, NEW c \in Clicks, OnlyMoves(c), Made' = Made,
         adds' = [answered |-> adds.answered + 0, unsure |-> adds.unsure + 0],
         \A state \in {"served", "given_up"} :
           Weight(state, click[c]) = 0 /\ Weight(state, click'[c]) = 0
  PROVE  RowsCounted' /\ adds' \in [answered : Nat, unsure : Nat]
<1>1. PICK z : z = 0
  OBVIOUS
<1>2. z \in {0, 1} /\ z + z <= z + z /\ z + z + z <= z + z + z + z
  BY <1>1
<1>3. /\ z = Weight("served", click[c]) /\ z = Weight("served", click'[c])
      /\ z = Weight("given_up", click[c]) /\ z = Weight("given_up", click'[c])
  BY <1>1
<1>4. Cardinality(Made') = Cardinality(Made) + z
  <2>1. Cardinality(Made) \in Nat
    BY MadeCounted
  <2>2. QED
    BY <1>1, <2>1
<1>5. adds' = [answered |-> adds.answered + z, unsure |-> adds.unsure + z]
  BY <1>1
<1>6. QED
  BY <1>2, <1>3, <1>4, <1>5, CountsHold

LEMMA SetStatusOk ==
  ASSUME DashboardInv, NEW c \in Clicks, NEW s \in Screens, NEW r \in Rows, SetStatus(c, s, r)
  PROVE  DashboardInv'
<1>1. PICK to : to = Button(view[s].rows[r])
  OBVIOUS
<1>2. /\ r \in Tracked /\ to \in Statuses /\ Send(c, s, r, to)
      /\ told' = [told EXCEPT ![r] = "nothing"]
      /\ muddled' = IF \E d \in Clicks : click[d].row = r THEN muddled \union {r} ELSE muddled \ {r}
  BY <1>1 DEF SetStatus, Button, Statuses
<1>3. DashboardForm /\ TellsTruth /\ RowsCounted /\ \A d \in Clicks : Lonely(d) /\ FormsRow(d)
  BY DEF DashboardInv
<1>4. /\ click[c] = NoClick /\ OnlyMoves(c) /\ Request(click'[c])
      /\ click'[c].row = r /\ click'[c].state = "sent"
      /\ saved' = saved /\ view' = view
      /\ adds' = [answered |-> adds.answered + 0, unsure |-> adds.unsure + 0]
      /\ Made' = Made
      /\ \A state \in {"served", "given_up"} :
           Weight(state, click[c]) = 0 /\ Weight(state, click'[c]) = 0
      /\ \A d \in Clicks \ {c} : click'[d] = click[d]
  BY <1>2, <1>3, Sends DEF DashboardForm
<1>5. RowsCounted' /\ adds' \in [answered : Nat, unsure : Nat]
  BY <1>3, <1>4, SendsCount
<1>6. told' \in [Tracked -> Statuses \union {"nothing"}] /\ muddled' \subseteq Tracked
  BY <1>2, <1>3 DEF DashboardForm
<1>7. DashboardForm'
  BY <1>3, <1>4, <1>5, <1>6, Moves DEF DashboardForm
<1>8. /\ told'[r] = "nothing"
      /\ \A x \in Tracked \ {r} : told'[x] = told[x] /\ (x \in muddled' <=> x \in muddled)
      /\ \A d \in Clicks : click[d].row = r => r \in muddled'
  BY <1>2, <1>3 DEF DashboardForm
<1>9. TellsTruth'
  BY <1>2, <1>3, <1>4, <1>8 DEF TellsTruth
<1>10. r \notin FormRows /\ "none" \notin Rows
  BY <1>2, DashboardAssumption DEF Rows
<1>11. Lonely(c)'
  BY <1>4, <1>8 DEF Lonely
<1>12. ASSUME NEW d \in Clicks \ {c} PROVE Lonely(d)'
  <2>1. Lonely(d) /\ click'[d] = click[d]
    BY <1>3, <1>4
  <2>2. CASE click[d].row = r
    BY <1>8, <2>1, <2>2 DEF Lonely
  <2>3. CASE click[d].row \in Tracked \ {r}
    BY <1>4, <1>8, <2>1, <2>3 DEF Lonely
  <2>4. QED
    BY <2>1, <2>2, <2>3 DEF Lonely
<1>13. ASSUME NEW d \in Clicks PROVE FormsRow(d)'
  BY <1>3, <1>4, <1>10 DEF FormsRow
<1>14. QED
  BY <1>5, <1>7, <1>9, <1>11, <1>12, <1>13 DEF DashboardInv

LEMMA AddSubscriptionOk ==
  ASSUME DashboardInv, NEW c \in Clicks, NEW s \in Screens, NEW r \in Rows, AddSubscription(c, s, r)
  PROVE  DashboardInv'
<1>1. /\ r \in FormRows /\ saved[r] = "none" /\ (\A d \in Clicks : click[d].row # r)
      /\ "active" \in Statuses /\ Send(c, s, r, "active") /\ told' = told /\ muddled' = muddled
  BY DEF AddSubscription, Statuses
<1>2. PICK to : to = "active"
  OBVIOUS
<1>3. DashboardForm /\ TellsTruth /\ RowsCounted /\ \A d \in Clicks : Lonely(d) /\ FormsRow(d)
  BY DEF DashboardInv
<1>4. /\ click[c] = NoClick /\ OnlyMoves(c) /\ Request(click'[c])
      /\ click'[c].row = r /\ click'[c].state = "sent"
      /\ saved' = saved /\ view' = view
      /\ adds' = [answered |-> adds.answered + 0, unsure |-> adds.unsure + 0]
      /\ Made' = Made
      /\ \A state \in {"served", "given_up"} :
           Weight(state, click[c]) = 0 /\ Weight(state, click'[c]) = 0
      /\ \A d \in Clicks \ {c} : click'[d] = click[d]
  <2>1. to \in Statuses /\ Send(c, s, r, to)
    BY <1>1, <1>2
  <2>2. QED
    BY <1>3, <2>1, Sends DEF DashboardForm
<1>5. RowsCounted' /\ adds' \in [answered : Nat, unsure : Nat]
  BY <1>3, <1>4, SendsCount
<1>6. DashboardForm'
  BY <1>1, <1>3, <1>4, <1>5, Moves DEF DashboardForm
<1>7. TellsTruth'
  BY <1>1, <1>3, <1>4 DEF TellsTruth
<1>8. r \notin Tracked
  BY <1>1, DashboardAssumption
<1>9. ASSUME NEW d \in Clicks PROVE Lonely(d)'
  <2>1. CASE d = c
    BY <1>4, <1>8, <2>1 DEF Lonely
  <2>2. CASE d # c
    BY <1>1, <1>3, <1>4, <1>8, <2>2 DEF Lonely
  <2>3. QED
    BY <2>1, <2>2
<1>10. ASSUME NEW d \in Clicks PROVE FormsRow(d)'
  BY <1>1, <1>3, <1>4 DEF FormsRow
<1>11. QED
  BY <1>5, <1>6, <1>7, <1>9, <1>10 DEF DashboardInv

\* The rows and requests that one request does not concern.
LEMMA OthersStay ==
  ASSUME DashboardInv, NEW c \in Clicks, OnlyMoves(c), muddled \subseteq muddled',
         click'[c].row \in {click[c].row, "none"},
         \A r \in Rows \ {click[c].row} : saved'[r] = saved[r],
         \A r \in Tracked \ {click[c].row} : told'[r] = told[r],
         NEW d \in Clicks \ {c}
  PROVE  Lonely(d)' /\ FormsRow(d)'
<1>1. Lonely(d) /\ FormsRow(d) /\ SameRequest(click'[d], click[d])
  BY DEF DashboardInv, OnlyMoves
<1>2. \A e \in Clicks : click'[e].row = click[e].row \/ click'[e].row = "none"
  BY DEF OnlyMoves, SameRequest
<1>3. "none" \notin Rows /\ Tracked \subseteq Rows /\ FormRows \subseteq Rows
  BY DashboardAssumption DEF Rows
<1>4. Lonely(d)'
  <2>1. SUFFICES ASSUME click'[d].row \in Tracked \ muddled' PROVE Lonely(d)'
    BY DEF Lonely
  <2>2. click[d].row \in Tracked \ muddled /\ click'[d].row = click[d].row
    BY <1>1, <2>1 DEF SameRequest
  <2>3. /\ told[click[d].row] = "nothing" /\ click[d].state # "given_up"
        /\ \A e \in Clicks : click[e].row = click[d].row => e = d
        /\ click[d].state = "served" => saved[click[d].row] = click[d].to
    BY <1>1, <2>2 DEF Lonely
  <2>4. click[c].row # click[d].row
    BY <2>3
  <2>5. told'[click[d].row] = told[click[d].row] /\ saved'[click[d].row] = saved[click[d].row]
    BY <1>3, <2>2, <2>4
  <2>6. \A e \in Clicks : click'[e].row = click[d].row => e = d
    BY <1>2, <1>3, <2>2, <2>3
  <2>7. QED
    BY <1>1, <2>2, <2>3, <2>5, <2>6 DEF Lonely, SameRequest
<1>5. FormsRow(d)'
  <2>1. SUFFICES ASSUME click'[d].row \in FormRows PROVE FormsRow(d)'
    BY DEF FormsRow
  <2>2. click[d].row \in FormRows /\ click'[d].row = click[d].row
    BY <1>1, <2>1 DEF SameRequest
  <2>3. /\ \A e \in Clicks : click[e].row = click[d].row => e = d
        /\ saved[click[d].row] = "none" <=> click[d].state \in {"sent", "given_up"}
    BY <1>1, <2>2 DEF FormsRow
  <2>4. saved'[click[d].row] = saved[click[d].row]
    BY <1>3, <2>2, <2>3
  <2>5. \A e \in Clicks : click'[e].row = click[d].row => e = d
    BY <1>2, <1>3, <2>2, <2>3
  <2>6. QED
    BY <1>1, <2>2, <2>3, <2>4, <2>5 DEF FormsRow, SameRequest
<1>6. QED
  BY <1>4, <1>5

\* A slot that is free again.
LEMMA FreeSlot ==
  ASSUME NEW c, SameRequest(click'[c], NoClick)
  PROVE  /\ click'[c].row = "none" /\ click'[c].state = "none" /\ Lonely(c)' /\ FormsRow(c)'
         /\ \A state : Weight(state, click'[c]) = 0
<1>1. click'[c].row = "none" /\ click'[c].state = "none"
  BY DEF SameRequest, NoClick
<1>2. "none" \notin Tracked /\ "none" \notin FormRows
  BY DashboardAssumption
<1>3. QED
  BY <1>1, <1>2 DEF Lonely, FormsRow, Weight

\* The counts, when no row is added.
LEMMA CountsStay ==
  ASSUME DashboardForm, RowsCounted, NEW c \in Clicks, OnlyMoves(c), Made' = Made,
         NEW s1 \in Int, s1 = Weight("served", click[c]), NEW s2 \in Int, s2 = Weight("served", click'[c]),
         NEW g1 \in Int, g1 = Weight("given_up", click[c]), NEW g2 \in Int, g2 = Weight("given_up", click'[c]),
         NEW a \in {0, 1}, NEW u \in {0, 1},
         adds' = [answered |-> adds.answered + a, unsure |-> adds.unsure + u],
         a + s2 <= s1, g2 + s1 <= g1 + a + s2 + u
  PROVE  RowsCounted' /\ adds' \in [answered : Nat, unsure : Nat]
<1>1. PICK k : k = 0
  OBVIOUS
<1>2. a + s2 <= s1 + k /\ k + g2 + s1 <= g1 + a + s2 + u
  <2>1. a \in Int /\ u \in Int
    OBVIOUS
  <2>2. QED
    BY <1>1, <2>1
<1>3. Cardinality(Made') = Cardinality(Made) + k
  <2>1. Cardinality(Made) \in Nat
    BY MadeCounted
  <2>2. QED
    BY <1>1, <2>1
<1>4. k \in {0, 1}
  BY <1>1
<1>5. QED
  BY <1>2, <1>3, <1>4, CountsHold

LEMMA RefuseOk ==
  ASSUME DashboardInv, NEW c \in Clicks, Refuse(c) PROVE DashboardInv'
<1>1. /\ click[c].state \in {"sent", "given_up"} /\ click' = [click EXCEPT ![c] = NoClick]
      /\ saved' = saved /\ view' = view /\ told' = told /\ muddled' = muddled /\ adds' = adds
  BY DEF Refuse
<1>2. DashboardForm /\ TellsTruth /\ RowsCounted
  BY DEF DashboardInv
<1>3. click'[c] = NoClick /\ DOMAIN click' = Clicks /\ \A d \in Clicks \ {c} : click'[d] = click[d]
  BY <1>1, <1>2 DEF DashboardForm
<1>4. OnlyMoves(c)
  BY <1>2, <1>3 DEF OnlyMoves, DashboardForm, SameRequest
<1>5. /\ click'[c].row = "none" /\ Lonely(c)' /\ FormsRow(c)' /\ Request(click'[c])
      /\ \A state : Weight(state, click'[c]) = 0
  <2>1. SameRequest(click'[c], NoClick) /\ Request(click'[c])
    BY <1>3 DEF SameRequest, Request, NoClick
  <2>2. QED
    BY <2>1, FreeSlot
<1>6. DashboardForm'
  BY <1>1, <1>2, <1>4, <1>5, Moves DEF DashboardForm
<1>7. ASSUME NEW d \in Clicks \ {c} PROVE Lonely(d)' /\ FormsRow(d)'
  <2>1. /\ muddled \subseteq muddled' /\ click'[c].row \in {click[c].row, "none"}
        /\ \A r \in Rows \ {click[c].row} : saved'[r] = saved[r]
        /\ \A r \in Tracked \ {click[c].row} : told'[r] = told[r]
    BY <1>1, <1>5
  <2>2. QED
    BY <1>4, <2>1, OthersStay
<1>8. RowsCounted'
  <2>1. PICK z, g : z = 0 /\ g = Weight("given_up", click[c])
    OBVIOUS
  <2>2. z = Weight("served", click[c])
    BY <1>1, <2>1 DEF Weight
  <2>3. z = Weight("served", click'[c]) /\ z = Weight("given_up", click'[c])
    BY <1>5, <2>1
  <2>4. g \in {0, 1}
    BY <2>1 DEF Weight
  <2>5. /\ z \in Int /\ g \in Int /\ z \in {0, 1} /\ z + z <= z /\ z + z <= g + z + z + z
    BY <2>1, <2>4
  <2>6. adds' = [answered |-> adds.answered + z, unsure |-> adds.unsure + z]
    BY <1>1, <1>2, <2>1 DEF DashboardForm
  <2>7. Made' = Made
    BY <1>1 DEF Made
  <2>8. g = Weight("given_up", click[c])
    BY <2>1
  <2>9. QED
    BY <1>2, <1>4, <2>2, <2>3, <2>5, <2>6, <2>7, <2>8, CountsStay
<1>9. TellsTruth'
  BY <1>1, <1>2 DEF TellsTruth
<1>10. QED
  BY <1>5, <1>6, <1>7, <1>8, <1>9 DEF DashboardInv

LEMMA GiveUpOk ==
  ASSUME DashboardInv, NEW c \in Clicks, GiveUp(c) PROVE DashboardInv'
<1>1. PICK q, p : q = click[c] /\ p = click'[c]
  OBVIOUS
<1>2. DashboardForm /\ TellsTruth /\ RowsCounted /\ Lonely(c) /\ FormsRow(c)
  BY DEF DashboardInv
<1>3. /\ q.state \in {"sent", "served"} /\ saved' = saved /\ view' = view /\ told' = told
      /\ click' = [click EXCEPT ![c] = IF q.state = "served" THEN NoClick
                                       ELSE [q EXCEPT !.state = "given_up", !.mounted = FALSE]]
      /\ IF q.row \in Tracked
         THEN muddled' = muddled \union {q.row} /\ adds' = adds
         ELSE adds' = [adds EXCEPT !.unsure = @ + 1] /\ muddled' = muddled
  BY <1>1 DEF GiveUp
<1>4. /\ p = (IF q.state = "served" THEN NoClick ELSE [q EXCEPT !.state = "given_up", !.mounted = FALSE])
      /\ DOMAIN click' = Clicks /\ \A d \in Clicks \ {c} : click'[d] = click[d]
  BY <1>1, <1>2, <1>3 DEF DashboardForm
<1>5. OnlyMoves(c)
  BY <1>2, <1>4 DEF OnlyMoves, DashboardForm, SameRequest
<1>6. Request(q) /\ q.row \in Rows
  <2>1. Request(q)
    BY <1>1, <1>2 DEF DashboardForm
  <2>2. QED
    BY <1>3, <2>1 DEF Request
<1>7. /\ Request(p)
      /\ \/ p = NoClick /\ q.state = "served"
         \/ p.state = "given_up" /\ p.row = q.row /\ p.to = q.to /\ q.state = "sent"
  BY <1>3, <1>4, <1>6 DEF Request, NoClick
<1>8. p.row \in {q.row, "none"}
  BY <1>7 DEF NoClick
<1>9. muddled' \subseteq Tracked /\ muddled \subseteq muddled'
  BY <1>2, <1>3 DEF DashboardForm
<1>10. ASSUME NEW d \in Clicks \ {c} PROVE Lonely(d)' /\ FormsRow(d)'
  <2>1. /\ click'[c].row \in {click[c].row, "none"}
        /\ \A r \in Rows \ {click[c].row} : saved'[r] = saved[r]
        /\ \A r \in Tracked \ {click[c].row} : told'[r] = told[r]
    BY <1>1, <1>3, <1>8
  <2>2. QED
    BY <1>5, <1>9, <2>1, OthersStay
<1>11. Lonely(c)' /\ FormsRow(c)'
  <2>1. CASE p = NoClick
    BY <1>1, <2>1, FreeSlot DEF SameRequest
  <2>2. CASE p.state = "given_up" /\ p.row = q.row /\ q.state = "sent"
    <3>1. Lonely(c)'
      BY <1>1, <1>3, <2>2 DEF Lonely
    <3>2. FormsRow(c)'
      BY <1>1, <1>2, <1>3, <1>4, <2>2 DEF FormsRow
    <3>3. QED
      BY <3>1, <3>2
  <2>3. QED
    BY <1>7, <2>1, <2>2
<1>12. RowsCounted' /\ adds' \in [answered : Nat, unsure : Nat]
  <2>1. PICK s1, s2, g1, g2 :
          /\ s1 = Weight("served", click[c]) /\ s2 = Weight("served", click'[c])
          /\ g1 = Weight("given_up", click[c]) /\ g2 = Weight("given_up", click'[c])
    OBVIOUS
  <2>2. PICK z, u : z = 0 /\ u = (IF q.row \in FormRows THEN 1 ELSE 0)
    OBVIOUS
  <2>3. adds' = [answered |-> adds.answered + z, unsure |-> adds.unsure + u]
    <3>1. q.row \in FormRows <=> q.row \notin Tracked
      BY <1>6, DashboardAssumption DEF Rows
    <3>2. QED
      BY <1>2, <1>3, <2>2, <3>1 DEF DashboardForm
  <2>4. /\ s1 \in {0, 1} /\ s2 = 0 /\ g1 = 0 /\ g2 \in {0, 1} /\ g2 + s1 <= u
    BY <1>1, <1>3, <1>7, <2>1, <2>2 DEF Weight, NoClick
  <2>5. /\ s1 \in Int /\ s2 \in Int /\ g1 \in Int /\ g2 \in Int /\ z \in {0, 1} /\ u \in {0, 1}
        /\ z + s2 <= s1 /\ g2 + s1 <= g1 + z + s2 + u
    BY <2>2, <2>4
  <2>6. Made' = Made
    BY <1>3 DEF Made
  <2>7. QED
    BY <1>2, <1>5, <2>1, <2>3, <2>5, <2>6, CountsStay
<1>13. DashboardForm'
  BY <1>1, <1>2, <1>3, <1>5, <1>7, <1>9, <1>12, Moves DEF DashboardForm
<1>14. TellsTruth'
  BY <1>2, <1>3, <1>9 DEF TellsTruth
<1>15. QED
  BY <1>10, <1>11, <1>12, <1>13, <1>14 DEF DashboardInv

LEMMA CarryOutOk ==
  ASSUME DashboardInv, NEW c \in Clicks, CarryOut(c) PROVE DashboardInv'
<1>1. PICK q, p : q = click[c] /\ p = click'[c]
  OBVIOUS
<1>2. DashboardForm /\ TellsTruth /\ RowsCounted /\ Lonely(c) /\ FormsRow(c)
  BY DEF DashboardInv
<1>3. /\ q.state \in {"sent", "given_up"} /\ saved' = [saved EXCEPT ![q.row] = q.to]
      /\ click' = [click EXCEPT ![c] = IF q.state = "sent" THEN [q EXCEPT !.state = "served"] ELSE NoClick]
      /\ view' = view /\ told' = told /\ muddled' = muddled /\ adds' = adds
  BY <1>1 DEF CarryOut
<1>4. /\ p = (IF q.state = "sent" THEN [q EXCEPT !.state = "served"] ELSE NoClick)
      /\ DOMAIN click' = Clicks /\ \A d \in Clicks \ {c} : click'[d] = click[d]
  BY <1>1, <1>2, <1>3 DEF DashboardForm
<1>5. OnlyMoves(c)
  BY <1>2, <1>4 DEF OnlyMoves, DashboardForm, SameRequest
<1>6. Request(q) /\ q.row \in Rows /\ q.to \in Statuses
  <2>1. Request(q)
    BY <1>1, <1>2 DEF DashboardForm
  <2>2. QED
    BY <1>3, <2>1 DEF Request
<1>7. /\ Request(p)
      /\ \/ p = NoClick /\ q.state = "given_up"
         \/ p.state = "served" /\ p.row = q.row /\ p.to = q.to /\ q.state = "sent"
  BY <1>3, <1>4, <1>6 DEF Request, NoClick
<1>8. /\ saved' \in [Rows -> Statuses \union {"none"}] /\ saved'[q.row] = q.to /\ q.to # "none"
      /\ \A r \in Rows \ {q.row} : saved'[r] = saved[r]
  BY <1>2, <1>3, <1>6 DEF DashboardForm, Statuses
<1>9. ASSUME NEW d \in Clicks \ {c} PROVE Lonely(d)' /\ FormsRow(d)'
  <2>1. /\ click'[c].row \in {click[c].row, "none"} /\ muddled \subseteq muddled'
        /\ \A r \in Rows \ {click[c].row} : saved'[r] = saved[r]
        /\ \A r \in Tracked \ {click[c].row} : told'[r] = told[r]
    BY <1>1, <1>3, <1>7, <1>8 DEF NoClick
  <2>2. QED
    BY <1>5, <2>1, OthersStay
<1>10. Lonely(c)' /\ FormsRow(c)'
  <2>1. CASE p = NoClick
    BY <1>1, <2>1, FreeSlot DEF SameRequest
  <2>2. CASE p.state = "served" /\ p.row = q.row /\ p.to = q.to /\ q.state = "sent"
    <3>1. Lonely(c)'
      BY <1>1, <1>2, <1>3, <1>4, <1>8, <2>2 DEF Lonely
    <3>2. FormsRow(c)'
      BY <1>1, <1>2, <1>3, <1>4, <1>8, <2>2 DEF FormsRow
    <3>3. QED
      BY <3>1, <3>2
  <2>3. QED
    BY <1>7, <2>1, <2>2
<1>11. RowsCounted' /\ adds' \in [answered : Nat, unsure : Nat]
  <2>1. PICK s1, s2, g1, g2 :
          /\ s1 = Weight("served", click[c]) /\ s2 = Weight("served", click'[c])
          /\ g1 = Weight("given_up", click[c]) /\ g2 = Weight("given_up", click'[c])
    OBVIOUS
  <2>2. PICK z, k : z = 0 /\ k = (IF q.row \in FormRows THEN 1 ELSE 0)
    OBVIOUS
  <2>3. adds' = [answered |-> adds.answered + z, unsure |-> adds.unsure + z]
    BY <1>2, <1>3, <2>2 DEF DashboardForm
  <2>4. /\ s1 = 0 /\ s2 \in {0, 1} /\ g1 \in {0, 1} /\ g2 = 0 /\ s2 + g1 = k
    BY <1>1, <1>3, <1>7, <2>1, <2>2 DEF Weight, NoClick
  <2>5. /\ k \in {0, 1} /\ z \in {0, 1}
        /\ z + s2 <= s1 + k /\ k + g2 + s1 <= g1 + z + s2 + z
    BY <2>2, <2>4
  <2>6. Cardinality(Made') = Cardinality(Made) + k
    <3>1. IsFiniteSet(Made) /\ Cardinality(Made) \in Nat
      BY <1>2, MadeCounted
    <3>2. CASE q.row \in FormRows
      <4>1. saved[q.row] = "none"
        BY <1>1, <1>2, <1>3, <3>2 DEF FormsRow
      <4>2. q.row \notin Made /\ Made' = Made \union {q.row}
        BY <1>8, <3>2, <4>1, DashboardAssumption DEF Made, Rows
      <4>3. Cardinality(Made \union {q.row}) = Cardinality(Made) + 1
        BY <3>1, <4>2, FS_AddElement
      <4>4. QED
        BY <2>2, <3>2, <4>2, <4>3
    <3>3. CASE q.row \notin FormRows
      <4>1. Made' = Made
        BY <1>8, <3>3 DEF Made, Rows
      <4>2. QED
        BY <2>2, <3>1, <3>3, <4>1
    <3>4. QED
      BY <3>2, <3>3
  <2>7. QED
    BY <1>2, <1>5, <2>1, <2>3, <2>5, <2>6, CountsHold
<1>12. DashboardForm'
  BY <1>1, <1>2, <1>3, <1>5, <1>7, <1>8, <1>11, Moves DEF DashboardForm
<1>13. TellsTruth'
  <2>1. q.row \in Tracked \ muddled => told[q.row] = "nothing"
    BY <1>1, <1>2 DEF Lonely
  <2>2. Tracked \subseteq Rows
    BY DEF Rows
  <2>3. QED
    BY <1>2, <1>3, <1>8, <2>1, <2>2 DEF TellsTruth
<1>14. QED
  BY <1>9, <1>10, <1>11, <1>12, <1>13 DEF DashboardInv

LEMMA AnsweredOk ==
  ASSUME DashboardInv, NEW c \in Clicks, Answer(c) PROVE DashboardInv'
<1>1. PICK q, clicks : q = click[c] /\ clicks = [click EXCEPT ![c] = NoClick]
  OBVIOUS
<1>2. DashboardForm /\ TellsTruth /\ RowsCounted /\ Lonely(c) /\ FormsRow(c)
  BY DEF DashboardInv
<1>3. /\ q.state = "served" /\ saved' = saved /\ muddled' = muddled
      /\ told' = IF q.row \in Tracked THEN [told EXCEPT ![q.row] = q.to] ELSE told
      /\ adds' = IF q.row \in FormRows THEN [adds EXCEPT !.answered = @ + 1] ELSE adds
      /\ Refresh(q.screen, clicks)
  BY <1>1 DEF Answer, Accepted
<1>4. Request(q) /\ q.row \in Rows /\ q.to \in Statuses
  <2>1. Request(q)
    BY <1>1, <1>2 DEF DashboardForm
  <2>2. QED
    BY <1>3, <2>1 DEF Request
<1>5. /\ DOMAIN clicks = Clicks /\ \A d \in Clicks : Request(clicks[d])
      /\ clicks[c] = NoClick /\ \A d \in Clicks \ {c} : clicks[d] = click[d]
  BY <1>1, <1>2 DEF DashboardForm, Request, NoClick
<1>6. saved' \in [Rows -> Statuses \union {"none"}]
  BY <1>2, <1>3 DEF DashboardForm
<1>7. /\ DOMAIN view' = Screens /\ \A u \in Screens : Shown(view'[u])
      /\ DOMAIN click' = Clicks
      /\ \A d \in Clicks : Request(click'[d]) /\ SameRequest(click'[d], clicks[d])
  <2>1. PICK s : s = q.screen
    OBVIOUS
  <2>2. Refresh(s, clicks)
    BY <1>3, <2>1
  <2>3. QED
    BY <1>2, <1>5, <1>6, <2>2, Refreshes
<1>8. OnlyMoves(c)
  BY <1>5, <1>7 DEF OnlyMoves
<1>9. /\ click'[c].row = "none" /\ Lonely(c)' /\ FormsRow(c)'
      /\ \A state : Weight(state, click'[c]) = 0
  <2>1. SameRequest(click'[c], NoClick)
    BY <1>5, <1>7
  <2>2. QED
    BY <2>1, FreeSlot
<1>10. told' \in [Tracked -> Statuses \union {"nothing"}] /\ \A r \in Tracked \ {q.row} : told'[r] = told[r]
  BY <1>2, <1>3, <1>4 DEF DashboardForm
<1>11. ASSUME NEW d \in Clicks \ {c} PROVE Lonely(d)' /\ FormsRow(d)'
  <2>1. /\ click'[c].row \in {click[c].row, "none"} /\ muddled \subseteq muddled'
        /\ \A r \in Rows \ {click[c].row} : saved'[r] = saved[r]
        /\ \A r \in Tracked \ {click[c].row} : told'[r] = told[r]
    BY <1>1, <1>3, <1>9, <1>10
  <2>2. QED
    BY <1>8, <2>1, OthersStay
<1>12. RowsCounted' /\ adds' \in [answered : Nat, unsure : Nat]
  <2>1. PICK s1, s2, g1, g2 :
          /\ s1 = Weight("served", click[c]) /\ s2 = Weight("served", click'[c])
          /\ g1 = Weight("given_up", click[c]) /\ g2 = Weight("given_up", click'[c])
    OBVIOUS
  <2>2. PICK z, a : z = 0 /\ a = (IF q.row \in FormRows THEN 1 ELSE 0)
    OBVIOUS
  <2>3. adds' = [answered |-> adds.answered + a, unsure |-> adds.unsure + z]
    BY <1>2, <1>3, <2>2 DEF DashboardForm
  <2>4. s1 = a /\ s2 = 0 /\ g1 = 0 /\ g2 = 0
    BY <1>1, <1>3, <1>9, <2>1, <2>2 DEF Weight
  <2>5. /\ s1 \in Int /\ s2 \in Int /\ g1 \in Int /\ g2 \in Int /\ a \in {0, 1} /\ z \in {0, 1}
        /\ a + s2 <= s1 /\ g2 + s1 <= g1 + a + s2 + z
    BY <2>2, <2>4
  <2>6. Made' = Made
    BY <1>3 DEF Made
  <2>7. QED
    BY <1>2, <1>8, <2>1, <2>3, <2>5, <2>6, CountsStay
<1>13. DashboardForm'
  BY <1>2, <1>3, <1>6, <1>7, <1>8, <1>10, <1>12, Moves DEF DashboardForm
<1>14. TellsTruth'
  <2>1. q.row \in Tracked \ muddled => saved[q.row] = q.to
    BY <1>1, <1>2, <1>3 DEF Lonely
  <2>2. q.row \in Tracked => told'[q.row] = q.to
    BY <1>2, <1>3 DEF DashboardForm
  <2>3. QED
    BY <1>2, <1>3, <1>10, <2>1, <2>2 DEF TellsTruth
<1>15. QED
  BY <1>9, <1>11, <1>12, <1>13, <1>14 DEF DashboardInv

LEMMA ElsewhereOk ==
  ASSUME DashboardInv, NEW r \in Tracked, Elsewhere(r) PROVE DashboardInv'
<1>1. PICK status \in Statuses \union {"none"} : saved' = [saved EXCEPT ![r] = status]
  BY DEF Elsewhere
<1>2. /\ muddled' = muddled \union {r}
      /\ view' = view /\ click' = click /\ told' = told /\ adds' = adds
  BY DEF Elsewhere
<1>3. DashboardForm /\ TellsTruth /\ RowsCounted /\ \A c \in Clicks : Lonely(c) /\ FormsRow(c)
  BY DEF DashboardInv
<1>4. /\ saved' \in [Rows -> Statuses \union {"none"}] /\ muddled' \subseteq Tracked
      /\ \A x \in Rows \ {r} : saved'[x] = saved[x]
  BY <1>1, <1>2, <1>3 DEF DashboardForm
<1>5. DashboardForm'
  BY <1>2, <1>3, <1>4 DEF DashboardForm
<1>6. Tracked \subseteq Rows /\ FormRows \subseteq Rows \ {r}
  BY DashboardAssumption DEF Rows
<1>7. TellsTruth'
  BY <1>2, <1>3, <1>4, <1>6 DEF TellsTruth
<1>8. Made' = Made /\ FormsAt("served")' = FormsAt("served") /\ FormsAt("given_up")' = FormsAt("given_up")
  BY <1>2, <1>4, <1>6 DEF Made, FormsAt
<1>9. RowsCounted'
  BY <1>2, <1>3, <1>8 DEF RowsCounted
<1>10. ASSUME NEW c \in Clicks PROVE Lonely(c)'
  BY <1>2, <1>3, <1>4, <1>6 DEF Lonely
<1>11. ASSUME NEW c \in Clicks PROVE FormsRow(c)'
  BY <1>2, <1>3, <1>4, <1>6 DEF FormsRow
<1>12. QED
  BY <1>5, <1>7, <1>9, <1>10, <1>11 DEF DashboardInv

LEMMA DashboardStart == DashboardInit => DashboardInv
<1> SUFFICES ASSUME DashboardInit PROVE DashboardInv
  OBVIOUS
<1>1. DashboardForm
  <2>1. \A s \in Screens : Shown(view[s])
    BY FS_Singleton DEF DashboardInit, Shown, DemoSubscriptions, Statuses
  <2>2. \A c \in Clicks : Request(click[c])
    BY DEF DashboardInit, Request, NoClick
  <2>3. saved \in [Rows -> Statuses \union {"none"}]
    BY DEF DashboardInit, Statuses
  <2>4. QED
    BY <2>1, <2>2, <2>3 DEF DashboardInit, DashboardForm
<1>2. TellsTruth
  BY DEF DashboardInit, TellsTruth
<1>3. \A c \in Clicks : Lonely(c) /\ FormsRow(c)
  BY DashboardAssumption DEF DashboardInit, Lonely, FormsRow, NoClick
<1>4. RowsCounted
  <2>1. Made = {} /\ FormsAt("served") = {} /\ FormsAt("given_up") = {}
    BY DashboardAssumption DEF DashboardInit, Made, FormsAt, NoClick, Rows
  <2>2. Cardinality({}) = 0
    BY FS_EmptySet
  <2>3. adds.answered = 0 /\ adds.unsure = 0
    BY DEF DashboardInit
  <2>4. QED
    BY <2>1, <2>2, <2>3 DEF RowsCounted
<1>5. QED
  BY <1>1, <1>2, <1>3, <1>4 DEF DashboardInv

LEMMA DashboardSteps == DashboardInv /\ [DashboardNext]_dashboardVars => DashboardInv'
<1> SUFFICES ASSUME DashboardInv, [DashboardNext]_dashboardVars PROVE DashboardInv'
  OBVIOUS
<1>1. ASSUME NEW s \in Screens, OpenPage(s) PROVE DashboardInv'
  BY <1>1, OpenPageOk
<1>2. ASSUME NEW s \in Screens, Pretend(s) PROVE DashboardInv'
  BY <1>2, PretendOk
<1>3. ASSUME NEW c \in Clicks, NEW s \in Screens, NEW r \in Rows, SetStatus(c, s, r) PROVE DashboardInv'
  BY <1>3, SetStatusOk
<1>4. ASSUME NEW c \in Clicks, NEW s \in Screens, NEW r \in Rows, AddSubscription(c, s, r)
      PROVE  DashboardInv'
  BY <1>4, AddSubscriptionOk
<1>5. ASSUME NEW c \in Clicks, CarryOut(c) PROVE DashboardInv'
  BY <1>5, CarryOutOk
<1>6. ASSUME NEW c \in Clicks, Answer(c) PROVE DashboardInv'
  BY <1>6, AnsweredOk
<1>7. ASSUME NEW c \in Clicks, Refuse(c) PROVE DashboardInv'
  BY <1>7, RefuseOk
<1>8. ASSUME NEW c \in Clicks, GiveUp(c) PROVE DashboardInv'
  BY <1>8, GiveUpOk
<1>9. ASSUME NEW r \in Tracked, Elsewhere(r) PROVE DashboardInv'
  BY <1>9, ElsewhereOk
<1>10. CASE UNCHANGED dashboardVars
  <2>1. /\ UNCHANGED <<saved, told, muddled, adds>> /\ click' = click /\ view' = view
    BY <1>10 DEF dashboardVars
  <2>2. /\ DOMAIN click' = Clicks
        /\ (\A c \in Clicks : Request(click'[c]) /\ SameRequest(click'[c], click[c]))
        /\ DOMAIN view' = Screens /\ (\A s \in Screens : Shown(view'[s]))
    BY <2>1 DEF DashboardInv, DashboardForm, SameRequest
  <2>3. QED
    BY <2>1, <2>2, Looks
<1>11. QED
  BY <1>1, <1>2, <1>3, <1>4, <1>5, <1>6, <1>7, <1>8, <1>9, <1>10 DEF DashboardNext

\* However many tabs and requests there are: the member is told what is so unless
\* they were told to doubt it, the form leaves no row unaccounted for, and a page's
\* counts add up (setStatus, createSubscription, apiFetch).
THEOREM DashboardHolds == DashboardSpec => []DashboardIsHonest
<1>1. DashboardInv => DashboardIsHonest
  <2> SUFFICES ASSUME DashboardInv PROVE DashboardIsHonest
    OBVIOUS
  <2>1. DashboardForm /\ TellsTruth /\ RowsCounted
    BY DEF DashboardInv
  <2>2. \A r \in Tracked : r \notin muddled /\ told[r] # "nothing" => saved[r] = told[r]
    BY <2>1 DEF TellsTruth
  <2>3. /\ adds.answered + Cardinality(FormsAt("served")) <= Cardinality(Made)
        /\ Cardinality(Made) <= adds.answered + Cardinality(FormsAt("served")) + adds.unsure
    <3>1. PICK m, g, o : m = Cardinality(Made) /\ g = Cardinality(FormsAt("given_up"))
                         /\ o = Cardinality(FormsAt("served"))
      OBVIOUS
    <3>2. PICK a, u : a = adds.answered /\ u = adds.unsure
      OBVIOUS
    <3>3. IsFiniteSet(FormsAt("given_up")) /\ IsFiniteSet(FormsAt("served"))
      BY DashboardAssumption, FS_Subset DEF FormsAt
    <3>4. m \in Nat /\ g \in Nat /\ o \in Nat /\ a \in Nat /\ u \in Nat
      BY <2>1, <3>1, <3>2, <3>3, MadeCounted, FS_CardinalityType DEF DashboardForm
    <3>5. a + o <= m /\ m + g <= a + o + u
      BY <2>1, <3>1, <3>2 DEF RowsCounted
    <3>6. a + o <= m /\ m <= a + o + u
      BY <3>4, <3>5
    <3>7. QED
      BY <3>1, <3>2, <3>6
  <2>4. ASSUME NEW s \in Screens
        PROVE  Cardinality(Visible(view[s], "all")) =
                 CountOf(view[s], "active") + CountOf(view[s], "paused")
                   + CountOf(view[s], "cancel_requested") + CountOf(view[s], "canceled")
    <3>1. PICK v : v = view[s]
      OBVIOUS
    <3>2. Shown(v)
      BY <2>1, <3>1 DEF DashboardForm
    <3>3. Cardinality(Visible(v, "all")) =
            CountOf(v, "active") + CountOf(v, "paused")
              + CountOf(v, "cancel_requested") + CountOf(v, "canceled")
      BY <3>2, CountsAddUp
    <3>4. QED
      BY <3>1, <3>3
  <2>5. QED
    BY <2>2, <2>3, <2>4 DEF DashboardIsHonest, Made, FormsAt
<1>2. QED
  BY <1>1, DashboardStart, DashboardSteps, PTL DEF DashboardSpec

--------------------------------------------------------------------------------
(* Advice: what an answer becomes *)

GoodPicks(picks, price) ==
  /\ picks \in Seq(Options) /\ Len(picks) <= MaxPicks
  /\ \A i \in 1..Len(picks) : Worthwhile(picks[i], price)
  /\ \A i, j \in 1..Len(picks) : picks[i] = picks[j] => i = j

\* Whatever the model names next, good picks stay good.
LEMMA PickIsGood ==
  ASSUME NEW price \in Nat, NEW picks, GoodPicks(picks, price), NEW o
  PROVE  GoodPicks(Pick(picks, o, price), price)
<1> USE AdviceAssumption
<1>1. CASE Worthwhile(o, price) /\ ~Contains(picks, o) /\ Len(picks) < MaxPicks
  <2>1. PICK q : q = Append(picks, o)
    OBVIOUS
  <2>2. Pick(picks, o, price) = q
    BY <1>1, <2>1 DEF Pick
  <2>3. picks \in Seq(Options) /\ o \in Options /\ Len(picks) \in Nat
    BY <1>1 DEF Worthwhile, GoodPicks
  <2>4. /\ q \in Seq(Options) /\ Len(q) = Len(picks) + 1 /\ q[Len(picks) + 1] = o
        /\ \A i \in 1..Len(picks) : q[i] = picks[i]
    BY <2>1, <2>3
  <2>5. \A i \in 1..Len(picks) : picks[i] # o
    BY <1>1 DEF Contains
  <2>6. \A i \in 1..Len(q) : Worthwhile(q[i], price)
    <3> SUFFICES ASSUME NEW i \in 1..Len(q) PROVE Worthwhile(q[i], price)
      OBVIOUS
    <3>1. i \in 1..Len(picks) \/ i = Len(picks) + 1
      BY <2>3, <2>4
    <3>2. CASE i \in 1..Len(picks)
      BY <2>4, <3>2 DEF GoodPicks
    <3>3. CASE i = Len(picks) + 1
      BY <1>1, <2>4, <3>3
    <3>4. QED
      BY <3>1, <3>2, <3>3
  <2>7. \A i, j \in 1..Len(q) : q[i] = q[j] => i = j
    <3> SUFFICES ASSUME NEW i \in 1..Len(q), NEW j \in 1..Len(q), q[i] = q[j] PROVE i = j
      OBVIOUS
    <3>1. /\ i \in 1..Len(picks) \/ i = Len(picks) + 1
          /\ j \in 1..Len(picks) \/ j = Len(picks) + 1
      BY <2>3, <2>4
    <3>2. CASE i \in 1..Len(picks) /\ j \in 1..Len(picks)
      BY <2>4, <3>2 DEF GoodPicks
    <3>3. QED
      BY <2>4, <2>5, <3>1, <3>2
  <2>8. Len(q) <= MaxPicks
    BY <1>1, <2>3, <2>4
  <2>9. QED
    BY <2>2, <2>4, <2>6, <2>7, <2>8 DEF GoodPicks
<1>2. CASE ~(Worthwhile(o, price) /\ ~Contains(picks, o) /\ Len(picks) < MaxPicks)
  BY <1>2 DEF Pick
<1>3. QED
  BY <1>1, <1>2

LEMMA NoPicksAreGood == ASSUME NEW price PROVE GoodPicks(<<>>, price)
BY AdviceAssumption DEF GoodPicks

IsContent(f, answer, price) ==
  f = [n \in 0..Len(answer) |-> IF n = 0 THEN <<>> ELSE Pick(f[n - 1], answer[n], price)]

LEMMA ContentExists ==
  ASSUME NEW price \in Nat, NEW answer, Len(answer) \in Nat
  PROVE  \E f : IsContent(f, answer, price)
<1>1. PICK V, n : V = {s \in Seq(Options) : GoodPicks(s, price)} /\ n = Len(answer)
  OBVIOUS
<1>2. PICK F : F = [i \in Nat |-> [s \in V |-> Pick(s, answer[i], price)]]
  OBVIOUS
<1>3. F \in [Nat -> [V -> V]]
  <2>1. ASSUME NEW s \in V, NEW o PROVE Pick(s, o, price) \in V
    <3>1. GoodPicks(s, price)
      BY <1>1
    <3>2. GoodPicks(Pick(s, o, price), price)
      BY <3>1, PickIsGood, Zenon
    <3>3. QED
      BY <1>1, <3>2 DEF GoodPicks
  <2>2. QED
    BY <1>2, <2>1
<1>4. <<>> \in V
  BY <1>1, NoPicksAreGood
<1>5. \E h \in [0..n -> V] : Computes(h, <<>>, F, 0, n)
  <2>1. PICK a, first : a = 0 /\ first = <<>>
    OBVIOUS
  <2>2. first \in V /\ a \in Nat /\ n \in Nat /\ a <= n
    BY <1>1, <1>4, <2>1
  <2>3. \E h \in [a..n -> V] : Computes(h, first, F, a, n)
    BY <1>3, <2>2, Recursion
  <2>4. QED
    BY <2>1, <2>3
<1>6. PICK h \in [0..n -> V] : h[0] = <<>> /\ \A i \in 1..n : h[i] = F[i][h[i - 1]]
  <2>1. 0 + 1 = 1
    OBVIOUS
  <2>2. QED
    BY <1>5, <2>1 DEF Computes
<1>7. ASSUME NEW i \in 0..n
      PROVE  h[i] = IF i = 0 THEN <<>> ELSE Pick(h[i - 1], answer[i], price)
  <2>1. CASE i = 0
    BY <1>6, <2>1
  <2>2. CASE i # 0
    <3>1. i \in 1..n /\ i \in Nat /\ i - 1 \in 0..n
      BY <1>1, <2>2
    <3>2. h[i - 1] \in V /\ h[i] = F[i][h[i - 1]]
      BY <1>6, <3>1
    <3>3. F[i] = [s \in V |-> Pick(s, answer[i], price)]
      BY <1>2, <3>1
    <3>4. QED
      BY <2>2, <3>2, <3>3
  <2>3. QED
    BY <2>1, <2>2
<1>8. h = [i \in 0..n |-> IF i = 0 THEN <<>> ELSE Pick(h[i - 1], answer[i], price)]
  BY <1>6, <1>7
<1>9. QED
  BY <1>1, <1>8, Zenon DEF IsContent

LEMMA ContentIsGood ==
  ASSUME NEW price \in Nat, NEW answer, Len(answer) \in Nat
  PROVE  GoodPicks(BuildContent(answer, price), price)
<1>1. PICK f : f = CHOOSE g : IsContent(g, answer, price)
  OBVIOUS
<1>2. IsContent(f, answer, price)
  BY <1>1, ContentExists
<1>3. BuildContent(answer, price) = f[Len(answer)]
  BY <1>1 DEF BuildContent, IsContent
<1>4. /\ f[0] = <<>>
      /\ \A i \in 1..Len(answer) : f[i] = Pick(f[i - 1], answer[i], price)
  <2>1. ASSUME NEW i \in 0..Len(answer)
        PROVE  f[i] = IF i = 0 THEN <<>> ELSE Pick(f[i - 1], answer[i], price)
    BY <1>2, Zenon DEF IsContent
  <2>2. 0 \in 0..Len(answer) /\ \A i \in 1..Len(answer) : i \in 0..Len(answer) /\ i # 0
    OBVIOUS
  <2>3. QED
    BY <2>1, <2>2
<1>5. PICK S : S = {i \in 0..Len(answer) : GoodPicks(f[i], price)}
  OBVIOUS
<1>6. 0 \in S
  BY <1>4, <1>5, NoPicksAreGood
<1>7. ASSUME NEW i \in 1..Len(answer), i - 1 \in S PROVE i \in S
  <2>1. GoodPicks(f[i - 1], price)
    BY <1>5, <1>7
  <2>2. GoodPicks(Pick(f[i - 1], answer[i], price), price)
    BY <2>1, PickIsGood, Zenon
  <2>3. f[i] = Pick(f[i - 1], answer[i], price) /\ i \in 0..Len(answer)
    BY <1>4
  <2>4. QED
    BY <1>5, <2>2, <2>3
<1>8. \A i \in 0..Len(answer) : i \in S
  <2>1. PICK a, n : a = 0 /\ n = Len(answer)
    OBVIOUS
  <2>2. a \in Nat /\ n \in Nat /\ a \in S /\ a + 1 = 1
    BY <1>6, <2>1
  <2>3. \A i \in a + 1..n : i - 1 \in S => i \in S
    BY <1>7, <2>1, <2>2
  <2>4. \A i \in a..n : i \in S
    BY <2>2, <2>3, Climb
  <2>5. QED
    BY <2>1, <2>4
<1>9. Len(answer) \in S
  BY <1>8
<1>10. QED
  BY <1>3, <1>5, <1>9

--------------------------------------------------------------------------------
(* Advice: the invariant *)

AdviceType ==
  /\ member \in [status : {"gone", "active", "paused", "canceled"}, price : Nat]
  /\ generation = [w \in AdviceJobs |-> generation[w]]
  /\ \A w \in AdviceJobs : generation[w].price \in Nat
  /\ removing \in BOOLEAN /\ wasRead \in BOOLEAN

\* What is shown, or about to be, are good picks for the price it was made for.
PicksGood ==
  /\ GoodPicks(advice.picks, advice.price)
  /\ \A w \in AdviceJobs :
       generation[w].at = "write" => GoodPicks(generation[w].picks, generation[w].price)

\* Without a subscription only those go on that had read it.
GoneIsGone ==
  /\ removing => member = Gone
  /\ member = Gone /\ (\E w \in AdviceJobs : generation[w].at # "idle") => wasRead
  /\ member = Gone /\ ~removing /\ ~wasRead => advice = NoAdvice

AdviceInv == AdviceType /\ PicksGood /\ GoneIsGone

LEMMA NothingAdvised == AdviceInit => AdviceInv
<1> SUFFICES ASSUME AdviceInit PROVE AdviceInv
  OBVIOUS
<1>1. AdviceType
  BY AdviceAssumption DEF AdviceInit, AdviceType, Waiting
<1>2. PicksGood
  BY NoPicksAreGood DEF AdviceInit, PicksGood, NoAdvice, Waiting
<1>3. GoneIsGone
  BY DEF AdviceInit, GoneIsGone, Gone, Waiting
<1>4. QED
  BY <1>1, <1>2, <1>3 DEF AdviceInv

LEMMA AdviceJobStep ==
  ASSUME AdviceInv, NEW w \in AdviceJobs,
         Generate(w) \/ ModelAnswers(w) \/ ModelFails(w) \/ Upsert(w)
  PROVE  AdviceInv'
<1> USE DEF AdviceInv, AdviceType
<1>1. CASE Generate(w)
  <2>1. CASE member = Gone
    <3>1. UNCHANGED <<member, generation, advice, removing, wasRead>>
      BY <1>1, <2>1 DEF Generate
    <3>2. QED
      BY <3>1 DEF PicksGood, GoneIsGone
  <2>2. CASE member # Gone
    <3>1. generation' = [generation EXCEPT ![w] = [at |-> "model", price |-> member.price, picks |-> <<>>]]
          /\ UNCHANGED <<member, advice, removing, wasRead>>
      BY <1>1, <2>2 DEF Generate
    <3>2. AdviceType'
      BY <3>1
    <3>3. PicksGood'
      BY <3>1 DEF PicksGood
    <3>4. GoneIsGone'
      BY <2>2, <3>1 DEF GoneIsGone
    <3>5. QED
      BY <3>2, <3>3, <3>4
  <2>3. QED
    BY <2>1, <2>2
<1>2. CASE ModelAnswers(w)
  <2>1. PICK answer \in Answers :
          LET picks == BuildContent(answer, generation[w].price)
          IN generation' = [generation EXCEPT ![w] =
               IF picks = <<>> THEN Waiting ELSE [@ EXCEPT !.at = "write", !.picks = picks]]
    BY <1>2 DEF ModelAnswers
  <2>2. PICK picks : picks = BuildContent(answer, generation[w].price)
    OBVIOUS
  <2>3. PICK g : g = IF picks = <<>> THEN Waiting
                     ELSE [generation[w] EXCEPT !.at = "write", !.picks = picks]
    OBVIOUS
  <2>4. generation' = [generation EXCEPT ![w] = g]
    BY <2>1, <2>2, <2>3
  <2>5. Len(answer) \in Nat
    <3>1. PICK n \in 0..MaxAnswer : answer \in [1..n -> Options \union {OffCatalog}]
      BY DEF Answers
    <3>2. answer \in Seq(Options \union {OffCatalog})
      BY <3>1, AdviceAssumption
    <3>3. QED
      BY <3>2
  <2>6. GoodPicks(picks, generation[w].price)
    BY <2>2, <2>5, ContentIsGood
  <2>7. g.price \in Nat /\ (g.at = "write" => GoodPicks(g.picks, g.price))
    BY <2>3, <2>6 DEF Waiting
  <2>8. generation[w].at = "model" /\ UNCHANGED <<member, advice, removing, wasRead>>
    BY <1>2 DEF ModelAnswers
  <2>9. AdviceType'
    BY <2>4, <2>7, <2>8
  <2>10. PicksGood'
    BY <2>4, <2>7, <2>8 DEF PicksGood
  <2>11. GoneIsGone'
    BY <2>4, <2>8 DEF GoneIsGone
  <2>12. QED
    BY <2>9, <2>10, <2>11
<1>3. CASE ModelFails(w)
  <2>1. generation' = [generation EXCEPT ![w] = Waiting] /\ generation[w].at = "model"
        /\ UNCHANGED <<member, advice, removing, wasRead>>
    BY <1>3 DEF ModelFails
  <2>2. QED
    BY <2>1 DEF PicksGood, GoneIsGone, Waiting
<1>4. CASE Upsert(w)
  <2>1. advice' = [picks |-> generation[w].picks, price |-> generation[w].price]
        /\ generation' = [generation EXCEPT ![w] = Waiting] /\ generation[w].at = "write"
        /\ UNCHANGED <<member, removing, wasRead>>
    BY <1>4 DEF Upsert
  <2>2. AdviceType'
    BY <2>1 DEF Waiting
  <2>3. PicksGood'
    BY <2>1 DEF PicksGood, Waiting
  <2>4. GoneIsGone'
    BY <2>1 DEF GoneIsGone, Waiting
  <2>5. QED
    BY <2>2, <2>3, <2>4
<1>5. QED
  BY <1>1, <1>2, <1>3, <1>4

LEMMA AdviceStep == ASSUME AdviceInv, [AdviceNext]_adviceVars PROVE AdviceInv'
<1> USE DEF AdviceInv, AdviceType
<1>1. CASE EnqueueForUser \/ UNCHANGED adviceVars
  <2>1. UNCHANGED <<member, advice, generation, removing, wasRead>>
    BY <1>1 DEF EnqueueForUser, adviceVars
  <2>2. QED
    BY <2>1 DEF PicksGood, GoneIsGone
<1>2. CASE ChangeSubscription
  <2>1. member' \in [status : {"active", "paused", "canceled"}, price : MemberPrices]
        /\ member # Gone /\ UNCHANGED <<advice, generation, removing, wasRead>>
    BY <1>2 DEF ChangeSubscription
  <2>2. member' # Gone
    BY <2>1 DEF Gone
  <2>3. QED
    BY <2>1, <2>2, AdviceAssumption DEF PicksGood, GoneIsGone
<1>3. CASE RemoveSubscription
  <2>1. member' = Gone /\ advice' = advice /\ removing' = TRUE /\ generation' = generation
        /\ wasRead' = (\E w \in AdviceJobs : generation[w].at # "idle")
    BY <1>3 DEF RemoveSubscription, DeleteFirst
  <2>2. AdviceType' /\ PicksGood'
    BY <2>1 DEF PicksGood, Gone
  <2>3. GoneIsGone'
    BY <2>1 DEF GoneIsGone
  <2>4. QED
    BY <2>2, <2>3
<1>4. CASE RemoveAdvice
  <2>1. member = Gone /\ member' = Gone /\ advice' = NoAdvice
        /\ UNCHANGED <<generation, wasRead>> /\ removing' = FALSE
    BY <1>4 DEF RemoveAdvice, GoneIsGone
  <2>2. AdviceType' /\ GoneIsGone'
    BY <2>1 DEF GoneIsGone
  <2>3. PicksGood'
    BY <2>1, NoPicksAreGood DEF PicksGood, NoAdvice
  <2>4. QED
    BY <2>2, <2>3
<1>5. QED
  BY <1>1, <1>2, <1>3, <1>4, AdviceJobStep DEF AdviceNext

\* THEOREM. For any number of workers and picks, and whatever the model answers: the
\* member is shown at most MAX_PICKS different options of the catalog, each cheaper
\* than a price the subscription had, and advice outlives its subscription only where
\* a job that had read it was under way.
THEOREM AdviceHolds == AdviceSpec => []AdviceIsSound
<1>1. AdviceInit => AdviceInv
  BY NothingAdvised
<1>2. AdviceInv /\ [AdviceNext]_adviceVars => AdviceInv'
  BY AdviceStep
<1>3. AdviceInv => AdviceIsSound
  <2> SUFFICES ASSUME AdviceInv PROVE AdviceIsSound
    OBVIOUS
  <2>1. PICK s : s = advice.picks
    OBVIOUS
  <2>2. GoodPicks(s, advice.price)
    BY <2>1 DEF AdviceInv, PicksGood
  <2>3. DOMAIN s = 1..Len(s)
    BY <2>2 DEF GoodPicks
  <2>4. PicksAreSavings
    BY <2>1, <2>2, <2>3 DEF PicksAreSavings, GoodPicks, IsInjective
  <2>5. QED
    BY <2>4 DEF AdviceInv, GoneIsGone, AdviceIsSound
<1>4. QED
  BY <1>1, <1>2, <1>3, PTL DEF AdviceSpec
================================================================================
