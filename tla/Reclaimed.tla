-------------------------------- MODULE Reclaimed --------------------------------
(***************************************************************************)
(* What is read of the ledger of reclaimed money while it grows: a summary *)
(* put together from three reads, and a list read page by page, newest     *)
(* first, by offset.                                                       *)
(***************************************************************************)
EXTENDS Integers, Sequences, FiniteSets, FiniteSetsExt

CONSTANTS Days,        \* dates a saving may have, in order
          MonthStart,  \* the first day of this month
          SavedAmounts,     \* amounts of an event
          ListSize,    \* events of a page
          MaxEvents    \* BOUND: events in the ledger

ASSUME ReclaimedAssumption ==
  ListSize \in Nat \ {0} /\ MonthStart \in Nat /\ Days \subseteq Nat /\ SavedAmounts \subseteq Nat

VARIABLES
  ledger,   \* the events as they were recorded
  summary,  \* how many there were when it was asked for, and the reads that came back
  page,     \* the page to be read next, 0 when no list is read
  fetched,  \* the rows of that page, before they are counted
  listed,   \* the events of the pages before
  begun     \* history: how many events there were when the list was begun

reclaimedVars == <<ledger, summary, page, fetched, listed, begun>>

NoSummary == [from |-> 0, reads |-> <<>>, asked |-> FALSE]
NothingYet == <<[id |-> 0]>>

--------------------------------------------------------------------------------
(* Writing *)

Kinds == {"subscription_canceled", "manual_adjustment"}

\* A case succeeds today, or the member records a saving of any day themselves.
RecordEvent ==
  /\ Len(ledger) < MaxEvents
  /\ \E day \in Days, kind \in Kinds, amount \in SavedAmounts :
       /\ kind = "subscription_canceled" => day = Max(Days)
       /\ ledger' = Append(ledger, [day |-> day, kind |-> kind, amount |-> amount,
                                    id |-> Len(ledger) + 1])
  /\ UNCHANGED <<summary, page, fetched, listed, begun>>

--------------------------------------------------------------------------------
(* The summary *)

\* What the first n events of these kinds, from that day on, add up to.
SumOf(n, kinds, day) ==
  LET sum[i \in 0..n] ==
        IF i = 0 THEN 0
        ELSE IF ledger[i].kind \in kinds /\ ledger[i].day >= day
             THEN sum[i - 1] + ledger[i].amount ELSE sum[i - 1]
  IN sum[n]
ByKind(n) == [kind \in Kinds |-> SumOf(n, {kind}, 0)]
ThisMonth(n) == SumOf(n, Kinds, MonthStart)

AskSummary ==
  /\ summary' = [from |-> Len(ledger), reads |-> <<>>, asked |-> TRUE]
  /\ UNCHANGED <<ledger, page, fetched, listed, begun>>

Reads == {"eventCount", "byKind", "thisMonth"}
Answer(r, n) == CASE r = "eventCount" -> n
                  [] r = "byKind" -> ByKind(n)
                  [] r = "thisMonth" -> ThisMonth(n)

\* Three statements at once, which come back in any order.
ReadSummary(r) ==
  /\ summary.asked /\ r \notin DOMAIN summary.reads
  /\ summary' = [summary EXCEPT !.reads =
       [x \in DOMAIN @ \union {r} |-> IF x = r THEN Answer(r, Len(ledger)) ELSE @[x]]]
  /\ UNCHANGED <<ledger, page, fetched, listed, begun>>

TotalReclaimed == summary.reads["byKind"]["subscription_canceled"]
                    + summary.reads["byKind"]["manual_adjustment"]

--------------------------------------------------------------------------------
(* The list *)

\* occurredAt desc, createdAt desc.
Newer(e, f) == e.day > f.day \/ (e.day = f.day /\ e.id > f.id)
NewerThan(i) == {j \in DOMAIN ledger : Newer(ledger[j], ledger[i])}
NewestFirst ==
  [k \in DOMAIN ledger |->
     ledger[CHOOSE i \in DOMAIN ledger : Cardinality(NewerThan(i)) = k - 1]]

BeginList ==
  /\ page = 0 /\ page' = 1 /\ begun' = Len(ledger) /\ listed' = <<>>
  /\ UNCHANGED <<ledger, summary, fetched>>

FindMany ==
  /\ page > 0 /\ fetched = NothingYet
  /\ LET skip == (page - 1) * ListSize
     IN  fetched' = SubSeq(NewestFirst, skip + 1, Min({skip + ListSize, Len(ledger)}))
  /\ UNCHANGED <<ledger, summary, page, listed, begun>>

BugTotalPages == IF Len(ledger) < ListSize THEN 1 ELSE Len(ledger) \div ListSize
TotalPages == Max({1, (Len(ledger) + ListSize - 1) \div ListSize})

\* The rows are counted in the same transaction, which shows each statement what was
\* committed before it; a reader goes on to the last page there is.
CountRows ==
  /\ fetched # NothingYet /\ fetched' = NothingYet
  /\ listed' = listed \o fetched
  /\ page' = IF page < TotalPages THEN page + 1 ELSE 0
  /\ UNCHANGED <<ledger, summary, begun>>

ReclaimedInit ==
  /\ ledger = <<>> /\ summary = NoSummary
  /\ page = 0 /\ fetched = NothingYet /\ listed = <<>> /\ begun = 0

SummaryNext == RecordEvent \/ AskSummary \/ \E r \in Reads : ReadSummary(r)
ListNext == RecordEvent \/ BeginList \/ FindMany \/ CountRows

--------------------------------------------------------------------------------
(* Property *)

\* A summary shows no more than was reclaimed when it is complete and no less than
\* when it was asked for, each of its numbers, and if nothing was recorded meanwhile
\* they agree; a list that was read to its end misses no event there was at its
\* beginning, and has none twice if nothing was recorded meanwhile (summary, list).
LedgerIsReadWhole ==
  /\ DOMAIN summary.reads = Reads =>
       LET month == summary.reads["thisMonth"]
           all(n) == SumOf(n, Kinds, 0)
       IN  /\ summary.reads["eventCount"] \in summary.from..Len(ledger)
           /\ TotalReclaimed \in all(summary.from)..all(Len(ledger))
           /\ month \in ThisMonth(summary.from)..ThisMonth(Len(ledger))
           /\ summary.from = Len(ledger) => month <= TotalReclaimed
  /\ page = 0 /\ begun > 0 =>
       /\ \A i \in 1..begun : \E j \in DOMAIN listed : listed[j].id = i
       /\ begun = Len(ledger) => Len(listed) = begun
================================================================================
