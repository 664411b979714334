---------------------------------- MODULE Staff ----------------------------------
(***************************************************************************)
(* The merchants that staff curate and detection reads:                    *)
(* AdminMerchantService behind requireCapability (plugins/auth.ts), with   *)
(* the best-effort trail of AuditService, beside the upserts of            *)
(* MerchantNormalizationService and a demotion made in the database.       *)
(* A merchant is its key and one trait that stands for the curated fields. *)
(***************************************************************************)
EXTENDS Integers, Sequences, FiniteSets

CONSTANTS Desks,      \* staff requests in flight
          Keys,       \* normalized keys, unique among merchants
          Traits,     \* values of the curated fields
          CatalogTrait, \* what a merchant is created with by detection
          MaxChanges    \* BOUND: requests that change one

ASSUME StaffAssumption ==
  /\ IsFiniteSet(Desks) /\ CatalogTrait \in Traits /\ MaxChanges \in Nat

VARIABLES
  role,       \* of the staff account, or "inactive"
  tokenRole,  \* the role its token was signed with, or "none"
  merchants,  \* rows in order of creation
  trail,      \* audit entries of updates, in order
  desks,
  changes,    \* bound
  untracked,  \* history: merchants two updates of which overlapped, or one
              \* without its entry
  outlived, grace \* history: changes since the demotion, and requests past
                  \* the guard at that time

staffVars == <<role, tokenRole, merchants, trail, desks, changes, untracked, outlived, grace>>

MerchantIds == 1..Len(merchants)
AtDesk(d, point) == desks[d].at = point
Clear == [at |-> "idle"]
Takes(d, state) == desks' = [desks EXCEPT ![d] = state]
KeyFree(key, id) == \A m \in MerchantIds \ {id} : merchants[m].key # key

\* ROLE_CAPABILITIES, for merchants.write.
Curators == {"finance_ops", "admin"}
MayStillWrite == {d \in Desks : desks[d].at \in {"create", "read", "update"}}

StaffInit ==
  /\ role \in {"agent", "admin"} /\ tokenRole = "none"
  /\ merchants = <<>> /\ trail = <<>>
  /\ desks = [d \in Desks |-> Clear]
  /\ changes = 0 /\ untracked = {}
  /\ outlived = 0 /\ grace = 0

\* login, and me for a token that is still valid: a token of the present role.
SignToken ==
  /\ role # "inactive" /\ tokenRole' = role
  /\ UNCHANGED <<role, merchants, trail, desks, changes, untracked, outlived, grace>>

\* In the database; no route changes an account.
ChangeRole(to) ==
  /\ to # role
  /\ role' = to
  /\ grace' = IF to \in Curators THEN 0 ELSE IF role \in Curators THEN Cardinality(MayStillWrite) ELSE grace
  /\ outlived' = IF to \in Curators \/ role \in Curators THEN 0 ELSE outlived
  /\ UNCHANGED <<tokenRole, merchants, trail, desks, changes, untracked>>

\* Wrong variant: the role the token carries is believed.
BugMayWrite == role # "inactive" /\ tokenRole \in Curators
\* requireCapability: the account is read again, and its role decides.
MayWrite == role # "inactive" /\ role \in Curators

Admitted(d) ==
  /\ AtDesk(d, "idle") /\ tokenRole # "none"
  /\ changes < MaxChanges
  /\ MayWrite

BeginNewMerchant(d) ==
  /\ Admitted(d)
  /\ \E key \in Keys, trait \in Traits :
       Takes(d, [at |-> "create", row |-> [key |-> key, trait |-> trait]])
  /\ changes' = changes + 1
  /\ UNCHANGED <<role, tokenRole, merchants, trail, untracked, outlived, grace>>

Outlives == outlived' = IF role \in Curators THEN outlived ELSE outlived + 1

\* The unique index refuses a key that is taken; the entry of a creation names no
\* earlier row and is left out.
NewMerchant(d) ==
  /\ AtDesk(d, "create")
  /\ IF KeyFree(desks[d].row.key, 0)
     THEN merchants' = Append(merchants, desks[d].row) /\ Outlives
     ELSE UNCHANGED <<merchants, outlived>>
  /\ Takes(d, Clear)
  /\ UNCHANGED <<role, tokenRole, trail, changes, untracked, grace>>

BeginUpdate(d) ==
  /\ Admitted(d)
  /\ \E m \in MerchantIds : Takes(d, [at |-> "read", merchant |-> m])
  /\ changes' = changes + 1
  /\ UNCHANGED <<role, tokenRole, merchants, trail, untracked, outlived, grace>>

\* findUnique: the row the entry will give as the one before.
ReadMerchant(d) ==
  LET m == desks[d].merchant
      others == {o \in Desks \ {d} : desks[o].at \in {"update", "audit"} /\ desks[o].merchant = m}
  IN /\ AtDesk(d, "read")
     /\ Takes(d, [at |-> "update", merchant |-> m, before |-> merchants[m]])
     /\ untracked' = IF others = {} THEN untracked ELSE untracked \union {m}
     /\ UNCHANGED <<role, tokenRole, merchants, trail, changes, outlived, grace>>

\* The fields of the patch, by id; a key of another merchant is refused.
UpdateMerchant(d) ==
  LET m == desks[d].merchant
  IN /\ AtDesk(d, "update")
     /\ \/ \E key \in Keys, trait \in Traits :
             LET after == [key |-> key, trait |-> trait]
             IN /\ KeyFree(key, m)
                /\ key = merchants[m].key \/ trait = merchants[m].trait
                /\ merchants' = [merchants EXCEPT ![m] = after]
                /\ Takes(d, [at |-> "audit", merchant |-> m, before |-> desks[d].before, after |-> after])
                /\ Outlives
        \/ (\E key \in Keys : ~KeyFree(key, m)) /\ Takes(d, Clear) /\ UNCHANGED <<merchants, outlived>>
     /\ UNCHANGED <<role, tokenRole, trail, changes, untracked, grace>>

\* record: a failure is logged and swallowed.
Audit(d) ==
  LET entry == [merchant |-> desks[d].merchant, before |-> desks[d].before, after |-> desks[d].after]
  IN /\ AtDesk(d, "audit")
     /\ \/ trail' = Append(trail, entry) /\ UNCHANGED untracked
        \/ untracked' = untracked \union {desks[d].merchant} /\ UNCHANGED trail
     /\ Takes(d, Clear)
     /\ UNCHANGED <<role, tokenRole, merchants, changes, outlived, grace>>

\* The process dies between two statements.
DeskDies(d) ==
  /\ ~AtDesk(d, "idle")
  /\ untracked' = IF AtDesk(d, "audit") THEN untracked \union {desks[d].merchant} ELSE untracked
  /\ Takes(d, Clear)
  /\ UNCHANGED <<role, tokenRole, merchants, trail, changes, outlived, grace>>

\* Wrong variant: the catalog's trait is written over the row.
BugUpserted(key) ==
  IF KeyFree(key, 0) THEN Append(merchants, [key |-> key, trait |-> CatalogTrait])
  ELSE [m \in MerchantIds |-> IF merchants[m].key = key THEN [merchants[m] EXCEPT !.trait = CatalogTrait]
                              ELSE merchants[m]]
\* resolveKey: one upsert that updates nothing ("never clobber it").
Upserted(key) ==
  IF KeyFree(key, 0) THEN Append(merchants, [key |-> key, trait |-> CatalogTrait]) ELSE merchants

Normalize(key) ==
  /\ merchants' = Upserted(key)
  /\ UNCHANGED <<role, tokenRole, trail, desks, changes, untracked, outlived, grace>>

StaffNext ==
  \/ SignToken
  \/ \E to \in {"agent", "admin", "inactive"} : ChangeRole(to)
  \/ \E key \in Keys : Normalize(key)
  \/ \E d \in Desks : \/ BeginNewMerchant(d) \/ NewMerchant(d) \/ BeginUpdate(d) \/ ReadMerchant(d)
                      \/ UpdateMerchant(d) \/ Audit(d) \/ DeskDies(d)

StaffSpec == StaffInit /\ [][StaffNext]_staffVars

--------------------------------------------------------------------------------
(* Properties *)

EntriesOf(m) == {i \in DOMAIN trail : trail[i].merchant = m}

\* The trail explains every merchant ("Record the change, not just that a change
\* happened", console.service.ts:211-212): the entries of one follow on from each
\* other and the last of them is the row - unless updates overlapped or an entry
\* was lost - whatever detection upserts meanwhile.  Keys stay unique.
TrailExplains ==
  /\ \A m, n \in MerchantIds : merchants[m].key = merchants[n].key => m = n
  /\ \A m \in MerchantIds \ untracked :
       LET entries == EntriesOf(m)
           underway == \E d \in Desks : AtDesk(d, "audit") /\ desks[d].merchant = m
       IN /\ \A i, j \in entries :
               i < j /\ (\A k \in entries : k <= i \/ j <= k) => trail[j].before = trail[i].after
          /\ \A i \in entries :
               (\A k \in entries : k <= i) /\ ~underway => trail[i].after = merchants[m]

\* After a demotion or deactivation only requests already past the guard still
\* change a merchant, although tokens of the old role stay valid ("a demotion
\* applies to tokens already in the wild", plugins/auth.ts:77-78).
DemotionBites == role \notin Curators => outlived <= grace

\* Both, for what staff do to merchants (admin/console.service.ts).
StaffIsAccountable == TrailExplains /\ DemotionBites
================================================================================
