------------------------------- MODULE Statements -------------------------------
(***************************************************************************)
(* The statements a member uploads to one negotiation case:                *)
(* NegotiationDocumentService over the table of documents and the object   *)
(* store.  An upload checks the case, writes the object, then its row, and *)
(* removes the object when the row is refused.                             *)
(* The content checks (type, size, name) are on the request alone and      *)
(* refuse it before anything is written.                                   *)
(***************************************************************************)
EXTENDS Integers, FiniteSets

CONSTANTS Uploads,    \* request slots
          MaxPerCase, \* STATEMENT_MAX_PER_CASE
          MaxKeys     \* BOUND: storage keys ever generated

ASSUME StatementsAssumption ==
  /\ IsFiniteSet(Uploads) /\ Uploads # {}
  /\ MaxPerCase \in Nat \ {0} /\ MaxKeys \in Nat

VARIABLES
  caseOpen,
  rows,      \* storage keys of the documents' rows
  objects,   \* keys with bytes in the store
  keys,      \* keys generated so far (randomUUID)
  uploads,
  stranded   \* history: keys whose upload broke off, or lost an answer

statementsVars == <<caseOpen, rows, objects, keys, uploads, stranded>>

NoUpload == [at |-> "idle", key |-> 0]
Step(u, from, to) == /\ uploads[u].at = from
                     /\ uploads' = [uploads EXCEPT ![u].at = to]
EndUpload(u, from) == /\ uploads[u].at = from
                      /\ uploads' = [uploads EXCEPT ![u] = NoUpload]

StatementsInit ==
  /\ caseOpen = TRUE
  /\ rows = {} /\ objects = {} /\ keys = 0
  /\ uploads = [u \in Uploads |-> NoUpload]
  /\ stranded = {}

\* Wrong variant: off by one.
BugHasRoom == Cardinality(rows) <= MaxPerCase
HasRoom == Cardinality(rows) < MaxPerCase

\* The case and the count of its documents are read; a key is generated.
BeginUpload(u) ==
  /\ uploads[u].at = "idle" /\ keys < MaxKeys
  /\ caseOpen /\ HasRoom
  /\ keys' = keys + 1
  /\ uploads' = [uploads EXCEPT ![u] = [at |-> "put", key |-> keys + 1]]
  /\ UNCHANGED <<caseOpen, rows, objects, stranded>>

\* "Bytes first, metadata second."
Put(u) ==
  /\ Step(u, "put", "insert")
  /\ objects' = objects \union {uploads[u].key}
  /\ UNCHANGED <<caseOpen, rows, keys, stranded>>

\* A failed write ends the upload, and may leave part of the object.
PutFails(u) ==
  /\ EndUpload(u, "put")
  /\ objects' \in {objects, objects \union {uploads[u].key}}
  /\ stranded' = stranded \union {uploads[u].key}
  /\ UNCHANGED <<caseOpen, rows, keys>>

InsertRow(u) ==
  /\ EndUpload(u, "insert")
  /\ rows' = rows \union {uploads[u].key}
  /\ UNCHANGED <<caseOpen, objects, keys, stranded>>

\* The insert fails - or succeeds, and its answer is lost.
InsertFails(u) ==
  /\ Step(u, "insert", "cleanup")
  /\ \/ UNCHANGED <<rows, stranded>>
     \/ /\ rows' = rows \union {uploads[u].key}
        /\ stranded' = stranded \union {uploads[u].key}
  /\ UNCHANGED <<caseOpen, objects, keys>>

\* Wrong variant: the object is kept.
BugWithout(key) == objects
Without(key) == objects \ {key}

\* The deletion is best effort: its own failure is swallowed.
Cleanup(u) ==
  /\ EndUpload(u, "cleanup")
  /\ \/ objects' = Without(uploads[u].key) /\ UNCHANGED stranded
     \/ stranded' = stranded \union {uploads[u].key} /\ UNCHANGED objects
  /\ UNCHANGED <<caseOpen, rows, keys>>

\* The process dies: nothing resumes an upload.
Die(u) ==
  /\ uploads[u].at # "idle"
  /\ EndUpload(u, uploads[u].at)
  /\ stranded' = stranded \union {uploads[u].key}
  /\ UNCHANGED <<caseOpen, rows, objects, keys>>

\* The case service resolves the case.
ResolveCase == caseOpen /\ caseOpen' = FALSE /\ UNCHANGED <<rows, objects, keys, uploads, stranded>>

StatementsNext ==
  \/ ResolveCase
  \/ \E u \in Uploads : \/ BeginUpload(u) \/ Put(u) \/ PutFails(u) \/ InsertRow(u)
                        \/ InsertFails(u) \/ Cleanup(u) \/ Die(u)

StatementsSpec == StatementsInit /\ [][StatementsNext]_statementsVars

--------------------------------------------------------------------------------
(* Properties *)

Underway == {u \in Uploads : uploads[u].at # "idle"}
KeysUnderway == {uploads[u].key : u \in Underway}

\* A case holds as many statements as the limit allows and, since the count is
\* taken before the upload, one more for each upload beside the first: what is
\* stored and what is on its way stay below that together.
CapHoldsPerUpload ==
  Cardinality(rows) + Cardinality({u \in Underway : uploads[u].key \notin rows})
    < MaxPerCase + Cardinality(Uploads)

\* Where no upload broke off or lost an answer, and none is under way, rows and
\* objects are the same documents: no row points at nothing ("which reads as
\* data loss", document.service.ts:117-119), no bytes stay that nothing names.
RowsAndObjectsAgree ==
  rows \ (stranded \union KeysUnderway) = objects \ (stranded \union KeysUnderway)

\* Both, for the documents of a case (negotiations/document.service.ts).
StatementsAreSound == CapHoldsPerUpload /\ RowsAndObjectsAgree
================================================================================
