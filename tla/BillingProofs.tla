------------------------------- MODULE BillingProofs -------------------------------
(***************************************************************************)
(* Billing, for every number of handlers, members, subscriptions and       *)
(* events: however events are delivered and handlers interleave or die, no *)
(* event is written twice, and nobody is let in for a period that none of  *)
(* their subscriptions was paid for.  In order, and one request at a time, *)
(* the mirror is exact once everything has been handled.                   *)
(***************************************************************************)
EXTENDS Billing, TLAPS, SequenceTheorems, FiniteSetTheorems

--------------------------------------------------------------------------------
(* The invariant *)

\* Some subscription of m was paid for until d.
Covered(m, d) ==
  \E s \in Subs : Started(s) /\ provider[s].owner = m /\ provider[s].end >= d

\* A subscription that has started was paid for, and its customer is an id given
\* to a subscription of the same member.
ProviderSound ==
  \A s \in Subs : provider[s] # Unused =>
    /\ Started(s) => provider[s].end \in Nat
    /\ provider[provider[s].customer] # Unused
    /\ provider[provider[s].customer].owner = provider[s].owner

\* What an event says of dates was paid for.
EventSound(e) ==
  /\ Started(e.sub)
  /\ IF e.type \in {"checkout_completed", "payment_failed"}
     THEN e.end = NoDate
     ELSE e.end \in Nat /\ e.end <= provider[e.sub].end
  /\ e.type = "checkout_completed" => ~e.priced /\ e.status = "active"

EventsSound == Len(sent) <= MaxEvents /\ \A i \in DOMAIN sent : EventSound(sent[i])

\* A row names a subscription and a customer of its member, and a date that was
\* paid for.
RowSound(m, row) ==
  /\ Started(row.sub) /\ provider[row.sub].owner = m
  /\ provider[row.customer] # Unused /\ provider[row.customer].owner = m
  /\ row.end \in Nat /\ Covered(m, row.end)

MirrorSound == \A m \in Members : HasRow(m) => RowSound(m, mirror[m])

\* What a request is about to write is about its member; the completion of a
\* checkout, which carries no date, only ever meets a row.
WriteSound(q) ==
  /\ q.op = "intent" => HasRow(q.member) /\ (q.end = NoDate \/ Covered(q.member, q.end))
  /\ q.op = "handle" =>
       /\ q.event \in claimed
       /\ q.member = provider[sent[q.event].sub].owner
       /\ sent[q.event].type = "checkout_completed" => HasRow(q.member)

RequestsSound == \A h \in Handlers : req[h] # Idle => WriteSound(req[h])

\* An event is claimed before it is written, and has one handler.
WrittenOnce ==
  /\ \A i \in 1..MaxEvents : applied[i] <= 1 /\ (i \notin claimed => applied[i] = 0)
  /\ \A h \in Handlers : req[h].op = "handle" => applied[req[h].event] = 0
  /\ \A g, h \in Handlers : req[g].op = "handle" /\ req[h].op = "handle"
                            /\ req[g].event = req[h].event => g = h

IInv ==
  TypeOK /\ ProviderSound /\ EventsSound /\ MirrorSound /\ RequestsSound /\ WrittenOnce

--------------------------------------------------------------------------------
(* What steps leave standing *)

\* Subscriptions are never taken back, moved to another member or refunded.
Grows ==
  /\ provider' \in [Subs -> ProviderRows \union {Unused}]
  /\ \A s \in Subs : provider[s] # Unused =>
       /\ provider'[s] # Unused
       /\ provider'[s].owner = provider[s].owner
       /\ provider'[s].customer = provider[s].customer
       /\ Started(s) => Started(s)' /\ provider'[s].end >= provider[s].end
                        /\ provider'[s].end \in Nat

\* Events are only added, and rows never go.
Extends ==
  /\ sent' \in Seq(Events)
  /\ \A i \in DOMAIN sent : i \in DOMAIN sent' /\ sent'[i] = sent[i]
  /\ claimed \subseteq claimed'
  /\ \A m \in Members : HasRow(m) => HasRow(m)'

LEMMA StartedUsed ==
  ASSUME TypeOK, NEW s \in Subs, Started(s)
  PROVE  provider[s] # Unused /\ provider[s] \in ProviderRows
BY DEF TypeOK, Started, Unused

LEMMA CoverStays ==
  ASSUME IInv, Grows, NEW m \in Members, NEW d \in Nat, Covered(m, d)
  PROVE  Covered(m, d)'
<1>1. PICK s \in Subs : Started(s) /\ provider[s].owner = m /\ provider[s].end >= d
  BY DEF Covered
<1>2. provider[s] # Unused
  BY <1>1, StartedUsed DEF IInv
<1>3. provider[s].end \in Nat
  BY <1>1, <1>2 DEF IInv, ProviderSound
<1>4. Started(s)' /\ provider'[s].owner = m /\ provider'[s].end >= d
  BY <1>1, <1>2, <1>3 DEF Grows
<1>5. QED
  BY <1>4 DEF Covered

LEMMA CustomerStays ==
  ASSUME IInv, Grows, NEW s \in Subs, provider[s] # Unused
  PROVE  /\ provider'[provider'[s].customer] # Unused
         /\ provider'[provider'[s].customer].owner = provider'[s].owner
<1>1. provider[s].customer \in Subs
  BY DEF IInv, TypeOK, ProviderRows
<1>2. QED
  BY <1>1 DEF IInv, ProviderSound, Grows

LEMMA EventStays ==
  ASSUME IInv, Grows, NEW e \in Events, EventSound(e)
  PROVE  EventSound(e)'
<1>1. e.sub \in Subs /\ provider[e.sub] # Unused
  BY StartedUsed DEF IInv, EventSound, Events
<1>2. Started(e.sub)' /\ provider'[e.sub].end \in Nat /\ provider'[e.sub].end >= provider[e.sub].end
  BY <1>1 DEF Grows, EventSound
<1>3. provider[e.sub].end \in Nat
  BY <1>1 DEF IInv, ProviderSound, EventSound
<1>4. QED
  BY <1>2, <1>3 DEF EventSound

LEMMA RowStays ==
  ASSUME IInv, Grows, NEW m \in Members, NEW row \in MirrorRows, RowSound(m, row)
  PROVE  RowSound(m, row)'
<1>1. row.sub \in Subs /\ row.customer \in Subs
  BY DEF MirrorRows
<1>2. provider[row.sub] # Unused
  BY <1>1, StartedUsed DEF IInv, RowSound
<1>3. Covered(m, row.end)'
  BY CoverStays DEF RowSound
<1>4. QED
  BY <1>1, <1>2, <1>3 DEF RowSound, Grows

LEMMA WriteStays ==
  ASSUME IInv, Grows, Extends, NEW q \in Writes, WriteSound(q)
  PROVE  WriteSound(q)'
<1>1. CASE q.op = "intent"
  <2>1. q.member \in Members /\ q.end \in Nat \union {NoDate}
    BY <1>1 DEF Writes
  <2>2. HasRow(q.member)'
    BY <1>1, <2>1 DEF WriteSound, Extends
  <2>3. q.end = NoDate \/ Covered(q.member, q.end)'
    BY <1>1, <2>1, CoverStays DEF WriteSound
  <2>4. QED
    BY <1>1, <2>2, <2>3 DEF WriteSound
<1>2. CASE q.op = "handle"
  <2>1. q.event \in claimed /\ q.member \in Members
    BY <1>2 DEF WriteSound, Writes
  <2>2. q.event \in DOMAIN sent
    BY <2>1 DEF IInv, TypeOK
  <2>3. sent[q.event] \in Events /\ EventSound(sent[q.event])
    BY <2>2 DEF IInv, TypeOK, EventsSound
  <2>4. sent[q.event].sub \in Subs /\ provider[sent[q.event].sub] # Unused
    BY <2>3, StartedUsed DEF IInv, EventSound, Events
  <2>5. sent'[q.event] = sent[q.event] /\ q.event \in claimed'
    BY <2>1, <2>2 DEF Extends
  <2>6. provider'[sent[q.event].sub].owner = q.member
    BY <1>2, <2>4 DEF Grows, WriteSound
  <2>7. QED
    BY <1>2, <2>1, <2>5, <2>6 DEF WriteSound, Extends
<1>3. QED
  BY <1>1, <1>2 DEF Writes

--------------------------------------------------------------------------------
(* The conjuncts that a step of the provider or the member can disturb *)

\* The provider moves on and tells what it did.
LEMMA EmitSound ==
  ASSUME IInv, Grows, NEW events \in Seq(Events), Emit(events),
         \A i \in DOMAIN events : EventSound(events[i])',
         claimed' = claimed, mirror' = mirror
  PROVE  Extends /\ EventsSound'
<1>1. sent \in Seq(Events) /\ sent' = sent \o events
  BY DEF IInv, TypeOK, Emit
<1>2. sent' \in Seq(Events) /\ Len(sent') = Len(sent) + Len(events)
  BY <1>1, ConcatProperties
<1>3. \A i \in 1..Len(sent) : sent'[i] = sent[i] /\ sent[i] \in Events
  BY <1>1, ConcatProperties
<1>4. \A i \in (Len(sent) + 1)..Len(sent') : sent'[i] = events[i - Len(sent)]
                                             /\ i - Len(sent) \in DOMAIN events
  BY <1>1, <1>2, ConcatProperties
<1>5. Extends
  BY <1>1, <1>2, <1>3 DEF Extends, HasRow
<1>6. ASSUME NEW i \in DOMAIN sent'
      PROVE  EventSound(sent[i])'
  <2>1. CASE i \in 1..Len(sent)
    <3>1. EventSound(sent[i]) /\ sent[i] \in Events
      BY <1>3, <2>1, <1>1 DEF IInv, EventsSound
    <3> DEFINE e == sent[i]
    <3>2. QED
      BY <3>1, <1>3, <2>1, EventStays DEF EventSound
  <2>2. CASE i \in (Len(sent) + 1)..Len(sent')
    BY <1>4, <2>2 DEF EventSound
  <2>3. QED
    BY <1>2, <2>1, <2>2, <1>1
<1>7. Len(sent') <= MaxEvents
  BY <1>2 DEF Emit
<1>8. QED
  BY <1>5, <1>6, <1>7 DEF EventsSound

\* One subscription is bought or moves on.
LEMMA PutSubscription ==
  ASSUME IInv, NEW s \in Subs, NEW row \in ProviderRows,
         provider' = [provider EXCEPT ![s] = row],
         row.status # "open" => row.end \in Nat,
         \/ /\ provider[s] = Unused
            /\ row.customer # s => /\ provider[row.customer] # Unused
                                  /\ provider[row.customer].owner = row.owner
         \/ /\ provider[s] # Unused
            /\ row.owner = provider[s].owner /\ row.customer = provider[s].customer
            /\ Started(s) => row.status # "open" /\ row.end >= provider[s].end
  PROVE  Grows /\ ProviderSound'
<1>1. row # Unused /\ row.status # "unused" /\ row.customer \in Subs
  BY DEF ProviderRows, Unused, Alive
<1>2. provider' \in [Subs -> ProviderRows \union {Unused}] /\ provider'[s] = row
  BY DEF IInv, TypeOK
<1>3. \A t \in Subs \ {s} : provider'[t] = provider[t]
  BY DEF IInv, TypeOK
<1>4. Grows
  <2>1. ASSUME NEW t \in Subs, provider[t] # Unused, t # s
        PROVE  /\ provider'[t] = provider[t]
               /\ Started(t) => Started(t)' /\ provider'[t].end >= provider[t].end
                                /\ provider'[t].end \in Nat
    BY <1>3, <2>1 DEF Started, IInv, ProviderSound
  <2>2. ASSUME provider[s] # Unused
        PROVE  /\ row.owner = provider[s].owner /\ row.customer = provider[s].customer
               /\ Started(s) => Started(s)' /\ row.end >= provider[s].end /\ row.end \in Nat
    BY <1>1, <1>2, <2>2 DEF Started
  <2>3. QED
    BY <1>1, <1>2, <2>1, <2>2 DEF Grows
<1>5. ASSUME NEW t \in Subs, provider'[t] # Unused
      PROVE  /\ Started(t)' => provider'[t].end \in Nat
             /\ provider'[provider'[t].customer] # Unused
             /\ provider'[provider'[t].customer].owner = provider'[t].owner
  <2>1. CASE t # s
    <3>1. provider[t] # Unused /\ provider'[t] = provider[t]
      BY <1>3, <1>5, <2>1
    <3>2. QED
      BY <1>4, <3>1, CustomerStays DEF Started, IInv, ProviderSound
  <2>2. CASE t = s /\ provider[s] # Unused
    BY <1>2, <1>4, <2>2, CustomerStays DEF Started
  <2>3. CASE t = s /\ provider[s] = Unused
    <3>1. CASE row.customer = s
      BY <1>1, <1>2, <2>3, <3>1 DEF Started
    <3>2. CASE row.customer # s
      BY <1>1, <1>2, <1>3, <2>3, <3>2 DEF Started
    <3>3. QED
      BY <3>1, <3>2
  <2>4. QED
    BY <2>1, <2>2, <2>3
<1>6. QED
  BY <1>4, <1>5 DEF ProviderSound

\* The provider stays as it is.
LEMMA SameProvider ==
  ASSUME IInv, provider' = provider
  PROVE  Grows /\ ProviderSound'
<1>1. ASSUME NEW s \in Subs, Started(s)
      PROVE  provider[s].end \in Nat /\ provider[s].end >= provider[s].end
  BY <1>1, StartedUsed DEF IInv, ProviderSound
<1>2. Grows
  BY <1>1 DEF Grows, IInv, TypeOK, Started
<1>3. QED
  BY <1>2 DEF IInv, ProviderSound, Started

\* Nothing is emitted.
LEMMA SameSent ==
  ASSUME IInv, Grows, sent' = sent, claimed \subseteq claimed',
         \A m \in Members : HasRow(m) => HasRow(m)'
  PROVE  Extends /\ EventsSound'
<1>1. Extends
  BY DEF Extends, IInv, TypeOK
<1>2. ASSUME NEW i \in DOMAIN sent
      PROVE  EventSound(sent[i])'
  <2>1. sent[i] \in Events /\ EventSound(sent[i])
    BY DEF IInv, TypeOK, EventsSound
  <2>2. QED
    BY <2>1, EventStays DEF EventSound
<1>3. QED
  BY <1>1, <1>2 DEF IInv, EventsSound

\* One request begins or ends, and the others go on.
LEMMA PutRequest ==
  ASSUME IInv, Grows, Extends, NEW h \in Handlers, NEW q \in Writes \union {Idle},
         req' = [req EXCEPT ![h] = q], q # Idle => WriteSound(q)'
  PROVE  /\ req' \in [Handlers -> Writes \union {Idle}]
         /\ RequestsSound'
<1>1. ASSUME NEW g \in Handlers, req'[g] # Idle
      PROVE  WriteSound(req[g])'
  <2>1. CASE g = h
    BY <1>1, <2>1 DEF IInv, TypeOK, WriteSound
  <2>2. CASE g # h
    <3>1. req'[g] = req[g] /\ req[g] \in Writes
      BY <1>1, <2>2 DEF IInv, TypeOK
    <3>2. WriteSound(req[g])
      BY <1>1, <3>1 DEF IInv, RequestsSound
    <3>3. QED
      BY <3>1, <3>2, WriteStays DEF WriteSound
  <2>3. QED
    BY <2>1, <2>2
<1>2. QED
  BY <1>1 DEF RequestsSound, IInv, TypeOK

\* The rows stay as they are.
LEMMA SameMirror ==
  ASSUME IInv, Grows, mirror' = mirror
  PROVE  MirrorSound'
<1>1. ASSUME NEW m \in Members, HasRow(m)
      PROVE  RowSound(m, mirror[m])'
  <2>1. mirror[m] \in MirrorRows /\ RowSound(m, mirror[m])
    BY <1>1 DEF IInv, TypeOK, HasRow, MirrorSound
  <2>2. QED
    BY <2>1, RowStays DEF RowSound
<1>2. QED
  BY <1>1 DEF MirrorSound, HasRow

--------------------------------------------------------------------------------
(* Steps that write no row and claim no event *)

LEMMA SameRequests ==
  ASSUME IInv, Grows, Extends, req' = req
  PROVE  RequestsSound'
<1>1. ASSUME NEW g \in Handlers, req[g] # Idle
      PROVE  WriteSound(req[g])'
  <2>1. req[g] \in Writes /\ WriteSound(req[g])
    BY <1>1 DEF IInv, TypeOK, RequestsSound
  <2>2. QED
    BY <2>1, WriteStays DEF WriteSound
<1>2. QED
  BY <1>1 DEF RequestsSound

\* A request that does not handle an event begins or ends, or none does.
LEMMA QuietStep ==
  ASSUME IInv, Grows, ProviderSound', Extends, EventsSound',
         claimed' = claimed, mirror' = mirror, applied' = applied,
         now' \in 0..MaxNow, orderly' \in BOOLEAN, crossed' \in BOOLEAN,
         \/ req' = req
         \/ \E h \in Handlers, q \in Writes \union {Idle} :
              /\ q.op # "handle"
              /\ req' = [req EXCEPT ![h] = q]
              /\ q # Idle => WriteSound(q)'
  PROVE  IInv'
<1>1. req' \in [Handlers -> Writes \union {Idle}] /\ RequestsSound'
  <2>1. CASE req' = req
    BY <2>1, SameRequests DEF IInv, TypeOK
  <2>2. CASE req' # req
    BY <2>2, PutRequest
  <2>3. QED
    BY <2>1, <2>2
<1>2. \A h \in Handlers : req'[h].op = "handle" => req'[h] = req[h]
  BY DEF IInv, TypeOK
<1>3. MirrorSound'
  BY SameMirror
<1>4. \A i \in DOMAIN sent : i \in DOMAIN sent'
  BY DEF Extends
<1>5. TypeOK'
  <2>1. claimed' \subseteq DOMAIN sent'
    BY <1>4 DEF IInv, TypeOK
  <2>2. \A h \in Handlers : req'[h].op = "handle" => req'[h].event \in claimed'
    BY <1>2 DEF IInv, TypeOK
  <2>3. provider' \in [Subs -> ProviderRows \union {Unused}] /\ sent' \in Seq(Events)
    BY DEF Grows, Extends
  <2>4. mirror' \in [Members -> MirrorRows \union {NoRow}] /\ applied' \in [1..MaxEvents -> Nat]
    BY DEF IInv, TypeOK
  <2>5. QED
    BY <1>1, <2>1, <2>2, <2>3, <2>4 DEF TypeOK
<1>6. WrittenOnce'
  <2>1. \A i \in 1..MaxEvents : applied'[i] <= 1 /\ (i \notin claimed' => applied'[i] = 0)
    BY DEF IInv, WrittenOnce
  <2>2. \A h \in Handlers : req'[h].op = "handle" => applied'[req'[h].event] = 0
    BY <1>2 DEF IInv, WrittenOnce
  <2>3. \A g, h \in Handlers : req'[g].op = "handle" /\ req'[h].op = "handle"
                               /\ req'[g].event = req'[h].event => g = h
    BY <1>2 DEF IInv, WrittenOnce
  <2>4. QED
    BY <2>1, <2>2, <2>3 DEF WrittenOnce
<1>7. QED
  BY <1>1, <1>3, <1>5, <1>6 DEF IInv

LEMMA PremiumStatus ==
  ASSUME NEW status
  PROVE  ToPremiumStatus(status) \in PremiumStatuses
BY DEF ToPremiumStatus, PremiumStatuses

\* What the provider says of a subscription as row describes it.
LEMMA SnapshotSound ==
  ASSUME NEW s \in Subs, NEW row \in ProviderRows, NEW meta \in BOOLEAN,
         NEW type \in {"subscription_updated", "subscription_deleted"},
         provider'[s] = row, row.status # "open", row.end \in Nat
  PROVE  Snapshot(type, s, row, meta) \in Events /\ EventSound(Snapshot(type, s, row, meta))'
<1>1. ToPremiumStatus(row.status) \in PremiumStatuses
  BY PremiumStatus
<1>2. Snapshot(type, s, row, meta) \in Events
  BY <1>1 DEF Snapshot, Events, ProviderRows
<1>3. row.status # "unused"
  BY DEF ProviderRows, Alive
<1>4. QED
  BY <1>2, <1>3 DEF Snapshot, EventSound, Started

LEMMA PaymentFailedSound ==
  ASSUME NEW s \in Subs, Started(s)'
  PROVE  PaymentFailed(s) \in Events /\ EventSound(PaymentFailed(s))'
BY DEF PaymentFailed, Events, PremiumStatuses, EventSound, Started

LEMMA CompletedSound ==
  ASSUME NEW s \in Subs, Started(s)'
  PROVE  Completed(s) \in Events /\ EventSound(Completed(s))'
BY DEF Completed, Events, PremiumStatuses, EventSound, Started

LEMMA EmitOne ==
  ASSUME IInv, Grows, NEW a \in Events, Emit(<<a>>), EventSound(a)',
         claimed' = claimed, mirror' = mirror
  PROVE  Extends /\ EventsSound'
<1> DEFINE events == <<a>>
<1>1. events \in Seq(Events)
  OBVIOUS
<1>2. \A i \in DOMAIN events : events[i] = a
  OBVIOUS
<1>3. \A i \in DOMAIN events : EventSound(events[i])'
  BY <1>2
<1> HIDE DEF events
<1>4. QED
  BY <1>1, <1>3, EmitSound DEF events

LEMMA EmitTwo ==
  ASSUME IInv, Grows, NEW a \in Events, NEW b \in Events, Emit(<<a, b>>),
         EventSound(a)', EventSound(b)', claimed' = claimed, mirror' = mirror
  PROVE  Extends /\ EventsSound'
<1> DEFINE events == <<a, b>>
<1>1. events \in Seq(Events)
  OBVIOUS
<1>2. \A i \in DOMAIN events : events[i] \in {a, b}
  OBVIOUS
<1>3. \A i \in DOMAIN events : EventSound(events[i])'
  BY <1>2
<1> HIDE DEF events
<1>4. QED
  BY <1>1, <1>3, EmitSound DEF events

--------------------------------------------------------------------------------
(* The provider *)

LEMMA CompleteStep ==
  ASSUME IInv, NEW s \in Subs, Complete(s)
  PROVE  IInv' /\ Grows /\ Extends
<1>1. provider[s] # Unused /\ provider[s] \in ProviderRows /\ now \in Nat
  BY DEF IInv, TypeOK, Complete, Unused
<1>2. PICK status \in {"trialing", "active"} :
        status = IF provider[s].trial THEN "trialing" ELSE "active"
  OBVIOUS
<1>3. PICK end \in Nat : end = now + 1
  BY <1>1
<1>4. PICK row : row = [provider[s] EXCEPT !.status = status, !.end = end]
  OBVIOUS
<1>5. /\ row \in ProviderRows /\ row.status = status /\ row.end = end
      /\ row.owner = provider[s].owner /\ row.customer = provider[s].customer
  <2>1. PICK moved : moved = [provider[s] EXCEPT !.status = status]
    OBVIOUS
  <2>2. moved \in ProviderRows /\ moved.status = status
    BY <1>1, <1>2, <2>1 DEF ProviderRows, Alive
  <2>3. moved.owner = provider[s].owner /\ moved.customer = provider[s].customer
    BY <1>1, <2>1 DEF ProviderRows
  <2>4. row = [moved EXCEPT !.end = end]
    BY <2>1, <1>4
  <2>5. QED
    BY <1>3, <2>2, <2>3, <2>4 DEF ProviderRows
<1>6. /\ provider' = [provider EXCEPT ![s] = row] /\ provider[s].status = "open"
      /\ Emit(<<Completed(s), Snapshot("subscription_updated", s, row, TRUE)>>)
  BY <1>2, <1>3, <1>4 DEF Complete
<1>7. row.end \in Nat /\ row.status # "open" /\ ~Started(s)
  BY <1>1, <1>5, <1>6 DEF Started
<1>8. Grows /\ ProviderSound'
  BY <1>1, <1>5, <1>6, <1>7, PutSubscription
<1>9. provider'[s] = row /\ Started(s)'
  BY <1>5, <1>6 DEF IInv, TypeOK, Started
<1>10. /\ Completed(s) \in Events /\ EventSound(Completed(s))'
      /\ Snapshot("subscription_updated", s, row, TRUE) \in Events
      /\ EventSound(Snapshot("subscription_updated", s, row, TRUE))'
  BY <1>5, <1>7, <1>9, SnapshotSound, CompletedSound
<1>11. claimed' = claimed /\ mirror' = mirror /\ req' = req /\ applied' = applied
  BY DEF Complete
<1>12. Extends /\ EventsSound'
  BY <1>6, <1>8, <1>10, <1>11, EmitTwo
<1>13. crossed' \in BOOLEAN /\ orderly' \in BOOLEAN /\ now' \in 0..MaxNow
  BY DEF Complete, IInv, TypeOK
<1>14. QED
  BY <1>8, <1>11, <1>12, <1>13, QuietStep

\* A living subscription that goes on, is renewed or ends.
LEMMA MoveOn ==
  ASSUME IInv, NEW s \in Subs, NEW row \in ProviderRows, IsAlive(s),
         provider' = [provider EXCEPT ![s] = row],
         row.owner = provider[s].owner, row.customer = provider[s].customer,
         row.status # "open", row.end \in Nat, row.end >= provider[s].end
  PROVE  Grows /\ ProviderSound' /\ provider'[s] = row /\ Started(s)'
<1>1. provider[s] # Unused
  BY DEF IsAlive, Alive, Unused
<1>2. Grows /\ ProviderSound'
  BY <1>1, PutSubscription
<1>3. provider'[s] = row
  BY DEF IInv, TypeOK
<1>4. row.status # "unused"
  BY DEF ProviderRows, Alive
<1>5. QED
  BY <1>2, <1>3, <1>4 DEF Started

LEMMA AliveRow ==
  ASSUME IInv, NEW s \in Subs, IsAlive(s)
  PROVE  provider[s] \in ProviderRows /\ provider[s].end \in Nat
<1>1. Started(s) /\ provider[s] # Unused
  BY DEF IsAlive, Alive, Started, Unused
<1>2. QED
  BY <1>1 DEF IInv, TypeOK, ProviderSound

LEMMA RenewStep ==
  ASSUME IInv, NEW s \in Subs, NEW meta \in MetaKept, Renew(s, meta)
  PROVE  IInv' /\ Grows /\ Extends
<1>1. now \in Nat /\ meta \in BOOLEAN
  BY BillingBounds DEF IInv, TypeOK
<1>2. PICK end \in Nat : end = now + 1
  BY <1>1
<1>3. PICK row : row = [provider[s] EXCEPT !.status = "active", !.end = end]
  OBVIOUS
<1>4. /\ IsAlive(s) /\ provider[s].end <= now
      /\ Change(s, row, <<Snapshot("subscription_updated", s, row, meta)>>)
  BY <1>2, <1>3 DEF Renew
<1>5. provider[s] \in ProviderRows /\ provider[s].end \in Nat
  BY <1>4, AliveRow
<1>6. /\ row \in ProviderRows /\ row.status = "active" /\ row.end = end
      /\ row.owner = provider[s].owner /\ row.customer = provider[s].customer
  <2>1. PICK moved : moved = [provider[s] EXCEPT !.status = "active"]
    OBVIOUS
  <2>2. moved \in ProviderRows /\ moved.status = "active"
    BY <1>5, <2>1 DEF ProviderRows, Alive
  <2>3. moved.owner = provider[s].owner /\ moved.customer = provider[s].customer
    BY <1>5, <2>1 DEF ProviderRows
  <2>4. row = [moved EXCEPT !.end = end]
    BY <2>1, <1>3
  <2>5. QED
    BY <1>2, <2>2, <2>3, <2>4 DEF ProviderRows
<1>7. Grows /\ ProviderSound' /\ provider'[s] = row /\ Started(s)'
  <2>1. row.status # "open" /\ row.end \in Nat /\ row.end >= provider[s].end
    BY <1>1, <1>2, <1>4, <1>5, <1>6
  <2>2. provider' = [provider EXCEPT ![s] = row]
    BY <1>4 DEF Change
  <2>3. QED
    BY <1>4, <1>6, <2>1, <2>2, MoveOn
<1>8. /\ Snapshot("subscription_updated", s, row, meta) \in Events
      /\ EventSound(Snapshot("subscription_updated", s, row, meta))'
  BY <1>1, <1>6, <1>7, SnapshotSound
<1>9. Extends /\ EventsSound'
  BY <1>4, <1>7, <1>8, EmitOne DEF Change
<1>10. crossed' \in BOOLEAN /\ orderly' \in BOOLEAN /\ now' \in 0..MaxNow
  BY <1>4 DEF Change, IInv, TypeOK
<1>11. QED
  BY <1>4, <1>7, <1>9, <1>10, QuietStep DEF Change

LEMMA DunStep ==
  ASSUME IInv, NEW s \in Subs, NEW status \in {"past_due", "unpaid"},
         NEW meta \in MetaKept, Dun(s, status, meta)
  PROVE  IInv' /\ Grows /\ Extends
<1>1. PICK row : row = [provider[s] EXCEPT !.status = status]
  OBVIOUS
<1>2. /\ IsAlive(s)
      /\ Change(s, row, <<PaymentFailed(s), Snapshot("subscription_updated", s, row, meta)>>)
  BY <1>1 DEF Dun
<1>3. meta \in BOOLEAN
  BY BillingBounds
<1>4. provider[s] \in ProviderRows /\ provider[s].end \in Nat
  BY <1>2, AliveRow
<1>5. /\ row \in ProviderRows /\ row.status = status /\ row.end = provider[s].end
      /\ row.owner = provider[s].owner /\ row.customer = provider[s].customer
  BY <1>1, <1>4 DEF ProviderRows, Alive
<1>6. Grows /\ ProviderSound' /\ provider'[s] = row /\ Started(s)'
  <2>1. row.status # "open" /\ row.end \in Nat /\ row.end >= provider[s].end
    BY <1>4, <1>5
  <2>2. provider' = [provider EXCEPT ![s] = row]
    BY <1>2 DEF Change
  <2>3. QED
    BY <1>2, <1>5, <2>1, <2>2, MoveOn
<1>7. /\ Snapshot("subscription_updated", s, row, meta) \in Events
      /\ EventSound(Snapshot("subscription_updated", s, row, meta))'
      /\ PaymentFailed(s) \in Events /\ EventSound(PaymentFailed(s))'
  BY <1>3, <1>4, <1>5, <1>6, SnapshotSound, PaymentFailedSound
<1>8. Extends /\ EventsSound'
  BY <1>2, <1>6, <1>7, EmitTwo DEF Change
<1>9. crossed' \in BOOLEAN /\ orderly' \in BOOLEAN /\ now' \in 0..MaxNow
  BY <1>2 DEF Change, IInv, TypeOK
<1>10. QED
  BY <1>2, <1>6, <1>8, <1>9, QuietStep DEF Change

LEMMA EndStep ==
  ASSUME IInv, NEW s \in Subs, NEW meta \in MetaKept, End(s, meta)
  PROVE  IInv' /\ Grows /\ Extends
<1>1. PICK row : row = [provider[s] EXCEPT !.status = "canceled"]
  OBVIOUS
<1>2. /\ IsAlive(s)
      /\ Change(s, row, <<Snapshot("subscription_deleted", s, row, meta)>>)
  BY <1>1 DEF End
<1>3. meta \in BOOLEAN
  BY BillingBounds
<1>4. provider[s] \in ProviderRows /\ provider[s].end \in Nat
  BY <1>2, AliveRow
<1>5. /\ row \in ProviderRows /\ row.status = "canceled" /\ row.end = provider[s].end
      /\ row.owner = provider[s].owner /\ row.customer = provider[s].customer
  BY <1>1, <1>4 DEF ProviderRows
<1>6. Grows /\ ProviderSound' /\ provider'[s] = row /\ Started(s)'
  <2>1. row.status # "open" /\ row.end \in Nat /\ row.end >= provider[s].end
    BY <1>4, <1>5
  <2>2. provider' = [provider EXCEPT ![s] = row]
    BY <1>2 DEF Change
  <2>3. QED
    BY <1>2, <1>5, <2>1, <2>2, MoveOn
<1>7. /\ Snapshot("subscription_deleted", s, row, meta) \in Events
      /\ EventSound(Snapshot("subscription_deleted", s, row, meta))'
  BY <1>3, <1>4, <1>5, <1>6, SnapshotSound
<1>8. Extends /\ EventsSound'
  BY <1>2, <1>6, <1>7, EmitOne DEF Change
<1>9. crossed' \in BOOLEAN /\ orderly' \in BOOLEAN /\ now' \in 0..MaxNow
  BY <1>2 DEF Change, IInv, TypeOK
<1>10. QED
  BY <1>2, <1>6, <1>8, <1>9, QuietStep DEF Change

LEMMA FinalInvoiceStep ==
  ASSUME IInv, NEW s \in Subs, FinalInvoiceFails(s)
  PROVE  IInv' /\ Grows /\ Extends
<1>1. Grows /\ ProviderSound' /\ Started(s)'
  BY SameProvider DEF FinalInvoiceFails, Started
<1>2. Extends /\ EventsSound'
  BY <1>1, PaymentFailedSound, EmitOne DEF FinalInvoiceFails
<1>3. crossed' \in BOOLEAN /\ orderly' \in BOOLEAN /\ now' \in 0..MaxNow
  BY DEF FinalInvoiceFails, IInv, TypeOK
<1>4. QED
  BY <1>1, <1>2, <1>3, QuietStep DEF FinalInvoiceFails

LEMMA TickStep ==
  ASSUME IInv, Tick
  PROVE  IInv' /\ Grows /\ Extends
<1>1. Grows /\ ProviderSound'
  BY SameProvider DEF Tick
<1>2. Extends /\ EventsSound'
  BY <1>1, SameSent DEF Tick, HasRow
<1>3. crossed' \in BOOLEAN /\ orderly' \in BOOLEAN /\ now' \in 0..MaxNow
  BY BillingBounds DEF Tick, IInv, TypeOK
<1>4. QED
  BY <1>1, <1>2, <1>3, QuietStep DEF Tick

--------------------------------------------------------------------------------
(* The member *)

LEMMA UpgradeStep ==
  ASSUME IInv, NEW m \in Members, NEW s \in Subs, NEW startTrial \in BOOLEAN,
         Upgrade(m, s, startTrial)
  PROVE  IInv' /\ Grows /\ Extends
<1>1. PICK customer : customer = IF HasRow(m) THEN mirror[m].customer ELSE s
  OBVIOUS
<1>2. PICK trial \in BOOLEAN : trial = (startTrial /\ ~HasRow(m))
  OBVIOUS
<1>3. PICK row : row = [status |-> "open", owner |-> m, ending |-> FALSE, end |-> NoDate,
                        customer |-> customer, trial |-> trial]
  OBVIOUS
<1>4. provider[s] = Unused /\ provider' = [provider EXCEPT ![s] = row]
  BY <1>1, <1>2, <1>3 DEF Upgrade
<1>5. customer \in Subs
  BY <1>1 DEF IInv, TypeOK, HasRow, MirrorRows
<1>6. customer # s => provider[customer] # Unused /\ provider[customer].owner = m
  BY <1>1 DEF IInv, MirrorSound, RowSound
<1>7. row \in ProviderRows
  BY <1>2, <1>3, <1>5 DEF ProviderRows
<1>8. Grows /\ ProviderSound'
  BY <1>3, <1>4, <1>6, <1>7, PutSubscription
<1>9. Extends /\ EventsSound'
  BY <1>8, SameSent DEF Upgrade, HasRow
<1>10. crossed' \in BOOLEAN /\ orderly' \in BOOLEAN /\ now' \in 0..MaxNow
  BY DEF Upgrade, IInv, TypeOK
<1>11. QED
  BY <1>8, <1>9, <1>10, QuietStep DEF Upgrade

LEMMA SetEndingStep ==
  ASSUME IInv, NEW h \in Handlers, NEW m \in Members, NEW ending \in BOOLEAN,
         SetEnding(h, m, ending)
  PROVE  IInv' /\ Grows /\ Extends
<1>1. PICK s : s = mirror[m].sub
  OBVIOUS
<1>2. PICK row : row = [provider[s] EXCEPT !.ending = ending]
  OBVIOUS
<1>3. PICK end : end = IF ending THEN row.end ELSE NoDate
  OBVIOUS
<1>4. PICK q : q = [op |-> "intent", member |-> m, ending |-> ending, end |-> end]
  OBVIOUS
<1>5. /\ HasRow(m) /\ IsAlive(s) /\ provider' = [provider EXCEPT ![s] = row]
      /\ Emit(<<Snapshot("subscription_updated", s, row, TRUE)>>)
      /\ Begin(h, q, TRUE) /\ UNCHANGED <<claimed, mirror, now, applied, crossed>>
  BY <1>1, <1>2, <1>3, <1>4 DEF SetEnding
<1>6. s \in Subs /\ provider[s].owner = m
  BY <1>1, <1>5 DEF IInv, TypeOK, HasRow, MirrorRows, MirrorSound, RowSound
<1>7. provider[s] \in ProviderRows /\ provider[s].end \in Nat
  BY <1>5, <1>6, AliveRow
<1>8. /\ row \in ProviderRows /\ row.status = provider[s].status
      /\ row.end = provider[s].end /\ row.owner = m /\ row.customer = provider[s].customer
  BY <1>2, <1>6, <1>7 DEF ProviderRows
<1>9. row.status # "open"
  BY <1>5, <1>8 DEF IsAlive, Alive
<1>10. Grows /\ ProviderSound' /\ provider'[s] = row /\ Started(s)'
  <2>1. row.end \in Nat /\ row.end >= provider[s].end
    BY <1>7, <1>8
  <2>2. row.owner = provider[s].owner
    BY <1>6, <1>8
  <2>3. QED
    BY <1>5, <1>6, <1>8, <1>9, <2>1, <2>2, MoveOn
<1>11. /\ Snapshot("subscription_updated", s, row, TRUE) \in Events
       /\ EventSound(Snapshot("subscription_updated", s, row, TRUE))'
  BY <1>6, <1>7, <1>8, <1>9, <1>10, SnapshotSound
<1>12. Extends /\ EventsSound'
  BY <1>5, <1>10, <1>11, EmitOne
<1>13. end \in Nat \union {NoDate} /\ q \in Writes /\ q.op = "intent"
  BY <1>3, <1>4, <1>7, <1>8 DEF Writes
<1>14. WriteSound(q)'
  <2>1. HasRow(m)'
    BY <1>5 DEF HasRow
  <2>2. end = NoDate \/ Covered(m, end)'
    BY <1>3, <1>6, <1>7, <1>8, <1>10 DEF Covered
  <2>3. QED
    BY <1>4, <2>1, <2>2 DEF WriteSound
<1>15. req' = [req EXCEPT ![h] = q] /\ orderly' \in BOOLEAN
  BY <1>5 DEF Begin, IInv, TypeOK
<1>16. crossed' \in BOOLEAN /\ now' \in 0..MaxNow
  BY <1>5 DEF IInv, TypeOK
<1>17. QED
  BY <1>5, <1>10, <1>12, <1>13, <1>14, <1>15, <1>16, QuietStep

--------------------------------------------------------------------------------
(* Requests that write, and those that die *)

\* A request that handled no event has ended, having written the row of its
\* member or nothing.
LEMMA Ended ==
  ASSUME IInv, NEW h \in Handlers, req' = [req EXCEPT ![h] = Idle],
         provider' = provider, sent' = sent, claimed' = claimed, now' = now,
         orderly' \in BOOLEAN, crossed' = crossed,
         mirror' \in [Members -> MirrorRows \union {NoRow}], MirrorSound',
         \A m \in Members : HasRow(m) => HasRow(m)',
         \/ applied' = applied
         \/ /\ req[h].op = "handle" /\ req[h].event \in 1..MaxEvents
            /\ applied' = [applied EXCEPT ![req[h].event] = @ + 1]
  PROVE  IInv' /\ Grows /\ Extends
<1>1. Grows /\ ProviderSound'
  BY SameProvider
<1>2. Extends /\ EventsSound'
  BY <1>1, SameSent
<1>3. req' \in [Handlers -> Writes \union {Idle}] /\ RequestsSound'
  BY <1>1, <1>2, PutRequest
<1>4. /\ req'[h].op # "handle"
      /\ \A g \in Handlers : g # h => req'[g] = req[g]
  BY DEF IInv, TypeOK, Idle
<1>5. TypeOK'
  <2>1. applied' \in [1..MaxEvents -> Nat]
    BY SMTT(30) DEF IInv, TypeOK
  <2>2. \A g \in Handlers : req'[g].op = "handle" => req'[g].event \in claimed'
    BY <1>4 DEF IInv, TypeOK
  <2>3. provider' \in [Subs -> ProviderRows \union {Unused}] /\ sent' \in Seq(Events)
        /\ claimed' \subseteq DOMAIN sent' /\ now' \in 0..MaxNow /\ crossed' \in BOOLEAN
    BY DEF IInv, TypeOK
  <2>4. QED
    BY <1>3, <2>1, <2>2, <2>3 DEF TypeOK
<1>6. WrittenOnce'
  <2>1. CASE applied' = applied
    <3>1. \A i \in 1..MaxEvents : applied'[i] <= 1 /\ (i \notin claimed' => applied'[i] = 0)
      BY <2>1 DEF IInv, WrittenOnce
    <3>2. \A g \in Handlers : req'[g].op = "handle" => applied'[req'[g].event] = 0
      BY <1>4, <2>1 DEF IInv, WrittenOnce
    <3>3. \A f, g \in Handlers : req'[f].op = "handle" /\ req'[g].op = "handle"
                                 /\ req'[f].event = req'[g].event => f = g
      BY <1>4 DEF IInv, WrittenOnce
    <3>4. QED
      BY <3>1, <3>2, <3>3 DEF WrittenOnce
  <2>2. CASE /\ req[h].op = "handle" /\ req[h].event \in 1..MaxEvents
             /\ applied' = [applied EXCEPT ![req[h].event] = @ + 1]
    <3>1. req[h].event \in claimed /\ applied[req[h].event] = 0
      BY <2>2 DEF IInv, TypeOK, WrittenOnce
    <3>2. \A i \in 1..MaxEvents : applied'[i] = IF i = req[h].event THEN 1 ELSE applied[i]
      BY <2>2, <3>1 DEF IInv, TypeOK
    <3>3. \A i \in 1..MaxEvents : applied'[i] <= 1 /\ (i \notin claimed' => applied'[i] = 0)
      BY <3>1, <3>2 DEF IInv, WrittenOnce
    <3>4. ASSUME NEW g \in Handlers, req'[g].op = "handle"
          PROVE  applied'[req'[g].event] = 0
      <4>1. g # h /\ req'[g] = req[g] /\ req[g].op = "handle"
        BY <1>4, <3>4
      <4>2. req[g].event # req[h].event /\ applied[req[g].event] = 0
        BY <2>2, <4>1 DEF IInv, WrittenOnce
      <4>3. req[g].event \in 1..MaxEvents
        BY <4>1 DEF IInv, TypeOK, Writes, Idle
      <4>4. QED
        BY <3>2, <4>1, <4>2, <4>3
    <3>5. \A f, g \in Handlers : req'[f].op = "handle" /\ req'[g].op = "handle"
                                 /\ req'[f].event = req'[g].event => f = g
      BY <1>4 DEF IInv, WrittenOnce
    <3>6. QED
      BY <3>3, <3>4, <3>5 DEF WrittenOnce
  <2>3. QED
    BY <2>1, <2>2
<1>7. QED
  BY <1>1, <1>2, <1>3, <1>5, <1>6 DEF IInv

\* The row of m is written.
LEMMA PutRow ==
  ASSUME IInv, NEW m \in Members, NEW row \in MirrorRows, RowSound(m, row),
         provider' = provider, mirror' = [mirror EXCEPT ![m] = row]
  PROVE  /\ mirror' \in [Members -> MirrorRows \union {NoRow}]
         /\ MirrorSound'
         /\ \A n \in Members : HasRow(n) => HasRow(n)'
<1>1. row # NoRow
  BY DEF MirrorRows, NoRow, PremiumStatuses
<1>2. Grows
  BY SameProvider
<1>3. ASSUME NEW n \in Members, HasRow(n)'
      PROVE  RowSound(n, mirror[n])'
  <2>1. CASE n = m
    <3>1. RowSound(m, row)'
      BY <1>2, RowStays
    <3>2. QED
      BY <2>1, <3>1 DEF IInv, TypeOK, RowSound
  <2>2. CASE n # m
    <3>1. mirror'[n] = mirror[n] /\ mirror[n] \in MirrorRows /\ RowSound(n, mirror[n])
      BY <1>3, <2>2 DEF IInv, TypeOK, HasRow, MirrorSound
    <3>2. QED
      BY <1>2, <3>1, RowStays DEF RowSound
  <2>3. QED
    BY <2>1, <2>2
<1>4. QED
  BY <1>1, <1>3 DEF IInv, TypeOK, MirrorSound, HasRow

LEMMA CrashStep ==
  ASSUME IInv, NEW h \in Handlers, Crash(h)
  PROVE  IInv' /\ Grows /\ Extends
<1>1. MirrorSound'
  BY SameProvider, SameMirror DEF Crash
<1>2. QED
  BY <1>1, Ended DEF Crash, Finish, IInv, TypeOK, HasRow

LEMMA WriteIntentStep ==
  ASSUME IInv, NEW h \in Handlers, WriteIntent(h)
  PROVE  IInv' /\ Grows /\ Extends
<1>1. PICK q \in Writes : q = req[h] /\ q.op = "intent"
  BY DEF WriteIntent, IInv, TypeOK, Idle
<1>2. PICK m \in Members : m = q.member
  BY <1>1 DEF Writes
<1>3. PICK old \in MirrorRows : old = mirror[m] /\ RowSound(m, old)
  BY <1>1, <1>2 DEF IInv, TypeOK, RequestsSound, WriteSound, Idle, HasRow, MirrorSound
<1>4. PICK end : end = Keep(q.end, old.end)
  OBVIOUS
<1>5. end \in Nat /\ Covered(m, end)
  <2>1. q.end \in Nat \union {NoDate} /\ (q.end = NoDate \/ Covered(m, q.end))
    BY <1>1, <1>2 DEF IInv, RequestsSound, WriteSound, Idle, Writes
  <2>2. QED
    BY <1>3, <1>4, <2>1 DEF Keep, RowSound
<1>6. PICK row : row = [old EXCEPT !.ending = q.ending, !.end = end]
  OBVIOUS
<1>7. row \in MirrorRows /\ RowSound(m, row)
  <2>1. q.ending \in BOOLEAN
    BY <1>1 DEF Writes
  <2>2. row \in MirrorRows
    BY <1>5, <1>6, <2>1 DEF MirrorRows
  <2>3. row.sub = old.sub /\ row.customer = old.customer /\ row.end = end
    BY <1>6 DEF MirrorRows
  <2>4. QED
    BY <1>3, <1>5, <2>2, <2>3 DEF RowSound
<1>8. mirror' = [mirror EXCEPT ![m] = row]
  BY <1>1, <1>2, <1>3, <1>4, <1>6 DEF WriteIntent, IInv, TypeOK
<1>9. /\ provider' = provider /\ sent' = sent /\ claimed' = claimed /\ now' = now
      /\ applied' = applied /\ orderly' \in BOOLEAN /\ crossed' = crossed
      /\ req' = [req EXCEPT ![h] = Idle]
  BY DEF WriteIntent, Finish, IInv, TypeOK
<1>10. QED
  BY <1>7, <1>8, <1>9, PutRow, Ended

--------------------------------------------------------------------------------
(* Handling an event *)

\* Whom an event concerns: the member who owns its subscription.
LEMMA TargetsSound ==
  ASSUME IInv, NEW i \in DOMAIN sent, NEW m \in Targets(sent[i])
  PROVE  /\ m \in Members /\ m = provider[sent[i].sub].owner
         /\ sent[i].type = "checkout_completed" => HasRow(m)
<1>1. PICK e \in Events : e = sent[i] /\ EventSound(e)
  BY DEF IInv, TypeOK, EventsSound
<1>2. PICK s \in Subs : s = e.sub /\ Started(s)
  BY <1>1 DEF Events, EventSound
<1>3. provider[s] # Unused /\ provider[s] \in ProviderRows
  BY <1>2, StartedUsed DEF IInv
<1>4. ASSUME NEW n \in FindMirror(s)
      PROVE  n \in Members /\ n = provider[s].owner
  <2>1. n \in Members /\ HasRow(n)
        /\ (mirror[n].sub = s \/ mirror[n].customer = provider[s].customer)
    BY <1>4 DEF FindMirror
  <2>2. RowSound(n, mirror[n])
    BY <2>1 DEF IInv, MirrorSound
  <2>3. provider[provider[s].customer].owner = provider[s].owner
    BY <1>3 DEF IInv, ProviderSound
  <2>4. QED
    BY <2>1, <2>2, <2>3 DEF RowSound
<1>5. ASSUME NEW n \in ResolveUser(e)
      PROVE  n \in Members /\ n = provider[s].owner
  BY <1>2, <1>3, <1>4, <1>5 DEF ResolveUser, ProviderRows
<1>6. CASE e.type = "payment_failed"
  BY <1>1, <1>2, <1>4, <1>6 DEF Targets
<1>7. CASE e.type = "subscription_deleted"
  BY <1>1, <1>2, <1>5, <1>7 DEF Targets
<1>8. CASE e.type \notin {"payment_failed", "subscription_deleted"}
  <2>1. m \in ResolveUser(e) /\ (e.priced \/ HasRow(m))
    BY <1>1, <1>8 DEF Targets
  <2>2. e.type = "checkout_completed" => ~e.priced
    BY <1>1 DEF EventSound
  <2>3. QED
    BY <1>1, <1>2, <1>5, <2>1, <2>2
<1>9. QED
  BY <1>6, <1>7, <1>8

LEMMA ReceiveStep ==
  ASSUME IInv, NEW h \in Handlers, NEW i \in 1..MaxEvents, Receive(h, i)
  PROVE  IInv' /\ Grows /\ Extends
<1>1. PICK q : q = IF Targets(sent[i]) = {} THEN Idle
                   ELSE [op |-> "handle", event |-> i,
                         member |-> CHOOSE m \in Targets(sent[i]) : TRUE]
  OBVIOUS
<1>2. /\ i \in DOMAIN sent /\ i \notin claimed /\ claimed' = claimed \union {i}
      /\ req[h] = Idle /\ req' = [req EXCEPT ![h] = q] /\ orderly' \in BOOLEAN
      /\ UNCHANGED <<provider, sent, mirror, now, applied, crossed>>
  BY <1>1 DEF Receive, Begin, Unclaimed, IInv, TypeOK
<1>3. Grows /\ ProviderSound'
  BY <1>2, SameProvider
<1>4. Extends /\ EventsSound'
  BY <1>2, <1>3, SameSent DEF HasRow
<1>5. /\ q \in Writes \union {Idle} /\ (q # Idle => WriteSound(q)')
      /\ q # Idle => q.op = "handle" /\ q.event = i
      /\ q = Idle => q.op # "handle"
  <2>1. CASE Targets(sent[i]) = {}
    BY <1>1, <2>1 DEF Idle
  <2>2. CASE Targets(sent[i]) # {}
    <3>1. PICK m \in Targets(sent[i]) : m = CHOOSE n \in Targets(sent[i]) : TRUE
      BY <2>2
    <3>2. q = [op |-> "handle", event |-> i, member |-> m]
      BY <1>1, <2>2, <3>1
    <3>3. /\ m \in Members /\ m = provider[sent[i].sub].owner
          /\ sent[i].type = "checkout_completed" => HasRow(m)
      BY <1>2, TargetsSound
    <3>4. WriteSound(q)'
      BY <1>2, <3>2, <3>3 DEF WriteSound, HasRow
    <3>5. QED
      BY <3>2, <3>3, <3>4 DEF Writes, Idle
  <2>3. QED
    BY <2>1, <2>2
<1>6. req' \in [Handlers -> Writes \union {Idle}] /\ RequestsSound'
  BY <1>2, <1>3, <1>4, <1>5, PutRequest
<1>7. MirrorSound'
  BY <1>2, <1>3, SameMirror
<1>8. req'[h] = q /\ \A g \in Handlers : g # h => req'[g] = req[g]
  BY <1>2 DEF IInv, TypeOK
<1>9. \A g \in Handlers : req[g].op = "handle" => req[g].event # i
  BY <1>2 DEF IInv, TypeOK
<1>10. TypeOK'
  <2>1. claimed' \subseteq DOMAIN sent'
    BY <1>2 DEF IInv, TypeOK
  <2>2. \A g \in Handlers : req'[g].op = "handle" => req'[g].event \in claimed'
    BY <1>2, <1>5, <1>8 DEF IInv, TypeOK
  <2>3. /\ provider' \in [Subs -> ProviderRows \union {Unused}] /\ sent' \in Seq(Events)
        /\ mirror' \in [Members -> MirrorRows \union {NoRow}] /\ now' \in 0..MaxNow
        /\ applied' \in [1..MaxEvents -> Nat] /\ orderly' \in BOOLEAN /\ crossed' \in BOOLEAN
    BY <1>2 DEF IInv, TypeOK
  <2>4. QED
    BY <1>6, <2>1, <2>2, <2>3 DEF TypeOK
<1>11. WrittenOnce'
  <2>1. applied[i] = 0
    BY <1>2 DEF IInv, WrittenOnce
  <2>2. \A j \in 1..MaxEvents : applied'[j] <= 1 /\ (j \notin claimed' => applied'[j] = 0)
    BY <1>2 DEF IInv, WrittenOnce
  <2>3. \A g \in Handlers : req'[g].op = "handle" => applied'[req'[g].event] = 0
    BY <1>2, <1>5, <1>8, <2>1 DEF IInv, WrittenOnce
  <2>4. \A f, g \in Handlers : req'[f].op = "handle" /\ req'[g].op = "handle"
                               /\ req'[f].event = req'[g].event => f = g
    BY <1>5, <1>8, <1>9 DEF IInv, WrittenOnce
  <2>5. QED
    BY <2>2, <2>3, <2>4 DEF WrittenOnce
<1>12. QED
  BY <1>3, <1>4, <1>6, <1>7, <1>10, <1>11 DEF IInv

\* What an event writes is a row of its member, with a date that was paid for.
LEMMA WrittenSound ==
  ASSUME IInv, NEW i \in DOMAIN sent, NEW m \in Members,
         m = provider[sent[i].sub].owner,
         sent[i].type = "checkout_completed" => HasRow(m),
         HasRow(m) \/ sent[i].type \in {"checkout_completed", "subscription_updated"}
  PROVE  Written(sent[i], mirror[m]) \in MirrorRows /\ RowSound(m, Written(sent[i], mirror[m]))
<1>1. PICK e \in Events : e = sent[i] /\ EventSound(e)
  BY DEF IInv, TypeOK, EventsSound
<1>2. PICK s \in Subs : s = e.sub /\ Started(s) /\ provider[s].owner = m
  BY <1>1 DEF Events, EventSound
<1>3. /\ provider[s] # Unused /\ provider[s] \in ProviderRows /\ provider[s].end \in Nat
      /\ provider[s].customer \in Subs /\ provider[provider[s].customer] # Unused
      /\ provider[provider[s].customer].owner = m
  BY <1>2, StartedUsed DEF IInv, ProviderSound, ProviderRows
<1>4. HasRow(m) => mirror[m] \in MirrorRows /\ RowSound(m, mirror[m])
  BY DEF IInv, TypeOK, HasRow, MirrorSound
<1>5. PICK end : end = Keep(e.end, mirror[m].end)
  OBVIOUS
<1>6. HasRow(m) => end \in Nat /\ Covered(m, end)
  <2>1. CASE e.end = NoDate
    BY <1>4, <1>5, <2>1 DEF Keep, RowSound
  <2>2. CASE e.end # NoDate
    <3>1. end = e.end /\ e.end \in Nat /\ provider[s].end >= e.end
      BY <1>1, <1>2, <1>3, <1>5, <2>2 DEF Keep, EventSound
    <3>2. QED
      BY <1>2, <3>1 DEF Covered
  <2>3. QED
    BY <2>1, <2>2
<1>7. CASE e.type = "payment_failed"
  <2>1. PICK row : row = [mirror[m] EXCEPT !.status = "past_due"]
    OBVIOUS
  <2>2. Written(e, mirror[m]) = row
    BY <1>7, <2>1 DEF Written
  <2>3. mirror[m] \in MirrorRows /\ RowSound(m, mirror[m])
    BY <1>1, <1>4, <1>7
  <2>4. row \in MirrorRows /\ row.sub = mirror[m].sub /\ row.customer = mirror[m].customer
        /\ row.end = mirror[m].end
    BY <2>1, <2>3 DEF MirrorRows, PremiumStatuses
  <2>5. QED
    BY <1>1, <2>2, <2>3, <2>4 DEF RowSound
<1>8. CASE e.type = "subscription_deleted"
  <2>1. PICK closed : closed = [mirror[m] EXCEPT !.status = "canceled", !.ending = FALSE]
    OBVIOUS
  <2>2. PICK row : row = [closed EXCEPT !.end = end]
    OBVIOUS
  <2>3. Written(e, mirror[m]) = row
    BY <1>5, <1>8, <2>1, <2>2 DEF Written
  <2>4. mirror[m] \in MirrorRows /\ RowSound(m, mirror[m]) /\ end \in Nat /\ Covered(m, end)
    BY <1>1, <1>4, <1>6, <1>8
  <2>5. closed \in MirrorRows /\ closed.sub = mirror[m].sub
        /\ closed.customer = mirror[m].customer
    BY <2>1, <2>4 DEF MirrorRows, PremiumStatuses
  <2>6. row \in MirrorRows /\ row.sub = closed.sub /\ row.customer = closed.customer
        /\ row.end = end
    BY <2>2, <2>4, <2>5 DEF MirrorRows
  <2>7. QED
    BY <1>1, <2>3, <2>4, <2>5, <2>6 DEF RowSound
<1>9. CASE e.type \in {"checkout_completed", "subscription_updated"}
  <2>1. PICK last : last = IF mirror[m] = NoRow THEN e.end ELSE end
    OBVIOUS
  <2>2. Written(e, mirror[m]) =
          [status |-> e.status, sub |-> s, customer |-> provider[s].customer,
           ending |-> e.ending, end |-> last]
    BY <1>2, <1>5, <1>9, <2>1 DEF Written
  <2>3. last \in Nat /\ Covered(m, last)
    <3>1. CASE HasRow(m)
      BY <1>6, <2>1, <3>1 DEF HasRow
    <3>2. CASE ~HasRow(m)
      <4>1. e.type = "subscription_updated"
        BY <1>1, <1>9, <3>2
      <4>2. last = e.end /\ e.end \in Nat /\ provider[s].end >= e.end
        BY <1>1, <1>2, <1>3, <2>1, <3>2, <4>1 DEF HasRow, EventSound
      <4>3. QED
        BY <1>2, <4>2 DEF Covered
    <3>3. QED
      BY <3>1, <3>2
  <2>4. Written(e, mirror[m]) \in MirrorRows
    BY <1>3, <2>2, <2>3 DEF MirrorRows, Events
  <2>5. QED
    BY <1>1, <1>2, <1>3, <2>2, <2>3, <2>4 DEF RowSound
<1>10. QED
  BY <1>1, <1>7, <1>8, <1>9 DEF Events

LEMMA ApplyStep ==
  ASSUME IInv, NEW h \in Handlers, Apply(h)
  PROVE  IInv' /\ Grows /\ Extends
<1>1. PICK q \in Writes : q = req[h] /\ q.op = "handle" /\ WriteSound(q)
  BY DEF Apply, IInv, TypeOK, RequestsSound, Idle
<1>2. PICK i \in 1..MaxEvents : i = q.event /\ i \in DOMAIN sent
  BY <1>1 DEF Writes, WriteSound, IInv, TypeOK
<1>3. PICK m \in Members : /\ m = q.member /\ m = provider[sent[i].sub].owner
                           /\ sent[i].type = "checkout_completed" => HasRow(m)
  BY <1>1, <1>2 DEF Writes, WriteSound
<1>4. /\ provider' = provider /\ sent' = sent /\ claimed' = claimed /\ now' = now
      /\ orderly' \in BOOLEAN /\ crossed' = crossed /\ req' = [req EXCEPT ![h] = Idle]
  BY DEF Apply, Finish, IInv, TypeOK
<1>5. CASE HasRow(m) \/ sent[i].type \in {"checkout_completed", "subscription_updated"}
  <2>1. PICK row : row = Written(sent[i], mirror[m])
    OBVIOUS
  <2>2. row \in MirrorRows /\ RowSound(m, row)
    BY <1>2, <1>3, <1>5, <2>1, WrittenSound
  <2>3. mirror' = [mirror EXCEPT ![m] = row] /\ applied' = [applied EXCEPT ![i] = @ + 1]
    BY <1>1, <1>2, <1>3, <1>5, <2>1 DEF Apply
  <2>4. /\ mirror' \in [Members -> MirrorRows \union {NoRow}] /\ MirrorSound'
        /\ \A n \in Members : HasRow(n) => HasRow(n)'
    BY <1>4, <2>2, <2>3, PutRow
  <2>5. QED
    BY <1>1, <1>2, <1>4, <2>3, <2>4, Ended
<1>6. CASE ~(HasRow(m) \/ sent[i].type \in {"checkout_completed", "subscription_updated"})
  <2>1. mirror' = mirror /\ applied' = applied
    BY <1>1, <1>2, <1>3, <1>6 DEF Apply
  <2>2. MirrorSound'
    BY <1>4, <2>1, SameProvider, SameMirror
  <2>3. QED
    BY <1>4, <2>1, <2>2, Ended DEF IInv, TypeOK, HasRow
<1>7. QED
  BY <1>5, <1>6

--------------------------------------------------------------------------------
(* The invariant is one *)

LEMMA InitIInv == Init => IInv
<1> SUFFICES ASSUME Init PROVE IInv
  OBVIOUS
<1>1. TypeOK
  <2>1. sent \in Seq(Events) /\ claimed \subseteq DOMAIN sent
    BY DEF Init
  <2>2. \A h \in Handlers : req[h].op # "handle"
    BY DEF Init, Idle
  <2>3. /\ provider \in [Subs -> ProviderRows \union {Unused}]
        /\ mirror \in [Members -> MirrorRows \union {NoRow}]
        /\ req \in [Handlers -> Writes \union {Idle}]
    BY DEF Init
  <2>4. applied \in [1..MaxEvents -> Nat]
    BY DEF Init
  <2>5. now \in 0..MaxNow
    BY BillingBounds DEF Init
  <2>6. orderly \in BOOLEAN /\ crossed \in BOOLEAN
    BY DEF Init
  <2>7. QED
    BY <2>1, <2>2, <2>3, <2>4, <2>5, <2>6 DEF TypeOK
<1>2. ProviderSound /\ EventsSound /\ MirrorSound /\ RequestsSound
  BY BillingBounds DEF Init, ProviderSound, EventsSound, MirrorSound, RequestsSound, HasRow
<1>3. WrittenOnce
  BY DEF Init, WrittenOnce, Idle
<1>4. QED
  BY <1>1, <1>2, <1>3 DEF IInv

LEMMA NextIInv == IInv /\ [Next]_vars => IInv' /\ Grows /\ Extends
<1> SUFFICES ASSUME IInv, [Next]_vars PROVE IInv' /\ Grows /\ Extends
  OBVIOUS
<1>1. CASE Provider
  BY <1>1, CompleteStep, FinalInvoiceStep, RenewStep, DunStep, EndStep, TickStep DEF Provider
<1>2. ASSUME NEW m \in Members, NEW s \in Subs, NEW startTrial \in BOOLEAN,
             Upgrade(m, s, startTrial)
      PROVE  IInv' /\ Grows /\ Extends
  BY <1>2, UpgradeStep
<1>3. ASSUME NEW h \in Handlers, Service(h)
      PROVE  IInv' /\ Grows /\ Extends
  BY <1>3, SetEndingStep, WriteIntentStep, ReceiveStep, ApplyStep, CrashStep
     DEF Service, Cancel, Resume
<1>4. CASE UNCHANGED vars
  <2>1. Grows /\ ProviderSound'
    BY <1>4, SameProvider DEF vars
  <2>2. Extends /\ EventsSound'
    BY <1>4, <2>1, SameSent DEF vars, HasRow
  <2>3. QED
    BY <1>4, <2>1, <2>2, QuietStep DEF vars, IInv, TypeOK
<1>5. QED
  BY <1>1, <1>2, <1>3, <1>4 DEF Next

--------------------------------------------------------------------------------
(* The mirror, while things are in order *)

OneAtATime == \A g, h \in Handlers : req[g] # Idle /\ req[h] # Idle => g = h

InOrder ==
  /\ claimed = 1..Cardinality(claimed)
  /\ \A h \in Handlers : req[h].op = "handle" => req[h].event = Cardinality(claimed)

Over(m) == mirror[m].status \in {"canceled", "expired"}

\* A failed invoice about to be written has found a row that has not ended.
SparesEnded ==
  \A h \in Handlers :
    req[h].op = "handle" /\ sent[req[h].event].type = "payment_failed" => ~Over(req[h].member)

OrderInv == orderly => OneAtATime /\ InOrder /\ SparesEnded

Owner(i) == provider[sent[i].sub].owner

Handled(i) == i \in claimed /\ \A h \in Handlers : req[h].op = "handle" => req[h].event # i

\* Event i tells all there is to tell of s.
Tells(i, s) ==
  /\ sent[i].type = "subscription_updated" /\ sent[i].sub = s
  /\ sent[i].status = ToPremiumStatus(provider[s].status)
  /\ sent[i].ending = provider[s].ending
  /\ sent[i].end = provider[s].end
  /\ sent[i].user => sent[i].priced

Shows(m, s) ==
  /\ HasRow(m)
  /\ mirror[m].sub = s
  /\ mirror[m].status = ToPremiumStatus(provider[s].status)
  /\ mirror[m].ending = provider[s].ending
  /\ mirror[m].end = provider[s].end

\* The events of a living subscription: from j on, where the member and the
\* price are named, no other subscription of the member has any; after l, which
\* tells how it is, there is none.  When j has been handled the row is about s,
\* and when l has it is exact.
LivingTold(s, j, l) ==
  LET m == provider[s].owner
  IN /\ j <= l
     /\ sent[j].type = "subscription_updated" /\ sent[j].sub = s
     /\ sent[j].user /\ sent[j].priced
     /\ Tells(l, s)
     /\ \A i \in DOMAIN sent : i > j /\ Owner(i) = m => sent[i].sub = s
     /\ \A i \in DOMAIN sent : i > l => Owner(i) # m
     /\ Handled(j) => HasRow(m) /\ mirror[m].sub = s
     /\ Handled(l) => Shows(m, s)
     /\ \A h \in Handlers : req[h].op = "intent" /\ req[h].member = m => l \notin claimed

\* The deletion of a subscription is the last of its events but for failed
\* invoices; once it has been handled, a row that is still about s has ended.
EndTold(s, d) ==
  LET m == provider[s].owner
  IN /\ sent[d].type = "subscription_deleted" /\ sent[d].sub = s
     /\ \A i \in DOMAIN sent : i > d /\ sent[i].sub = s => sent[i].type = "payment_failed"
     /\ Handled(d) /\ HasRow(m) /\ mirror[m].sub = s => mirror[m].status = "canceled"

OneLiving ==
  \A s, t \in Subs : IsAlive(s) /\ IsAlive(t) /\ provider[s].owner = provider[t].owner => s = t

FollowInv ==
  orderly /\ ~crossed =>
    /\ OneLiving
    /\ \A s \in Subs : IsAlive(s) => \E j, l \in DOMAIN sent : LivingTold(s, j, l)
    /\ \A s \in Subs : provider[s].status = "canceled" => \E d \in DOMAIN sent : EndTold(s, d)

FInv == OrderInv /\ FollowInv

\* Rows and requests in flight, one request in flight at a time.
LEMMA OneBusy ==
  ASSUME IInv, OrderInv, orderly, NEW h \in Handlers, req[h] # Idle
  PROVE  \A g \in Handlers \ {h} : req[g] = Idle
BY DEF OrderInv, OneAtATime

\* An event that has been emitted.
LEMMA EventForm ==
  ASSUME IInv, NEW i \in DOMAIN sent
  PROVE  /\ i \in 1..Len(sent) /\ i \in Nat /\ Len(sent) \in Nat
         /\ sent[i] \in Events /\ sent[i].sub \in Subs
         /\ Started(sent[i].sub) /\ provider[sent[i].sub] # Unused
<1>1. sent \in Seq(Events)
  BY DEF IInv, TypeOK
<1>2. i \in 1..Len(sent) /\ sent[i] \in Events /\ Len(sent) \in Nat
  BY <1>1
<1>3. sent[i].sub \in Subs /\ Started(sent[i].sub)
  BY <1>2 DEF Events, IInv, EventsSound, EventSound
<1>4. QED
  BY <1>2, <1>3, StartedUsed DEF IInv

\* An event keeps its place and its member.
LEMMA OwnerStays ==
  ASSUME IInv, Grows, Extends, NEW i \in DOMAIN sent
  PROVE  i \in DOMAIN sent' /\ sent'[i] = sent[i] /\ Owner(i)' = Owner(i)
<1>1. i \in DOMAIN sent' /\ sent'[i] = sent[i]
  BY DEF Extends
<1>2. sent[i].sub \in Subs /\ provider[sent[i].sub] # Unused
  BY EventForm
<1>3. QED
  BY <1>1, <1>2 DEF Grows, Owner

--------------------------------------------------------------------------------
(* Order *)

\* A step that begins, handles and writes nothing.
LEMMA OrderStays ==
  ASSUME IInv, OrderInv, Extends, UNCHANGED <<claimed, mirror, req>>, orderly' => orderly
  PROVE  OrderInv'
<1> SUFFICES ASSUME orderly' PROVE OneAtATime' /\ InOrder' /\ SparesEnded'
  BY DEF OrderInv
<1>1. OneAtATime /\ InOrder /\ SparesEnded
  BY DEF OrderInv
<1>2. \A h \in Handlers : req[h].op = "handle" => sent'[req[h].event] = sent[req[h].event]
  BY DEF IInv, TypeOK, Extends
<1>3. QED
  BY <1>1, <1>2 DEF OneAtATime, InOrder, SparesEnded, Over

\* The one request ends.
LEMMA OrderEnds ==
  ASSUME IInv, OrderInv, NEW h \in Handlers, req[h] # Idle, Finish(h),
         claimed' = claimed, orderly' => orderly
  PROVE  OrderInv'
<1> SUFFICES ASSUME orderly' PROVE OneAtATime' /\ InOrder' /\ SparesEnded'
  BY DEF OrderInv
<1>1. \A g \in Handlers : req'[g] = Idle
  BY OneBusy DEF Finish, IInv, TypeOK
<1>2. InOrder
  BY DEF OrderInv
<1>3. \A g \in Handlers : req'[g].op # "handle"
  BY <1>1 DEF Idle
<1>4. QED
  BY <1>1, <1>2, <1>3 DEF OneAtATime, InOrder, SparesEnded

\* A request begins, and if things stay orderly alone.
LEMMA BeginAlone ==
  ASSUME IInv, NEW h \in Handlers, NEW q, NEW inOrder, Begin(h, q, inOrder), orderly'
  PROVE  /\ orderly /\ inOrder /\ \A g \in Handlers : req[g] = Idle
         /\ req'[h] = q /\ \A g \in Handlers \ {h} : req'[g] = Idle
BY DEF Begin, IInv, TypeOK

LEMMA OrderIntent ==
  ASSUME IInv, OrderInv, Extends, NEW h \in Handlers, NEW q, q.op = "intent",
         Begin(h, q, TRUE), UNCHANGED <<claimed, mirror>>
  PROVE  OrderInv'
<1> SUFFICES ASSUME orderly' PROVE OneAtATime' /\ InOrder' /\ SparesEnded'
  BY DEF OrderInv
<1>1. /\ orderly /\ req'[h] = q
      /\ \A g \in Handlers \ {h} : req'[g] = Idle
  BY BeginAlone
<1>2. InOrder
  BY <1>1 DEF OrderInv
<1>3. \A g \in Handlers : req'[g].op # "handle"
  BY <1>1 DEF Idle
<1>4. QED
  BY <1>1, <1>2, <1>3 DEF OneAtATime, InOrder, SparesEnded

\* An event is received: in order it is the next, and all before it have been
\* handled.
LEMMA OrderReceive ==
  ASSUME IInv, OrderInv, NEW h \in Handlers, NEW i \in 1..MaxEvents, Receive(h, i), orderly'
  PROVE  /\ OrderInv' /\ orderly
         /\ claimed = 1..(i - 1) /\ claimed' = 1..i /\ i \in DOMAIN sent
         /\ \A k \in 1..(i - 1) : Handled(k)
<1> DEFINE q == IF Targets(sent[i]) = {} THEN Idle
                ELSE [op |-> "handle", event |-> i,
                      member |-> CHOOSE m \in Targets(sent[i]) : TRUE]
<1>1. /\ i \in DOMAIN sent /\ i \notin claimed /\ claimed' = claimed \union {i}
      /\ UNCHANGED <<provider, sent, mirror>>
      /\ Begin(h, q, i = Cardinality(claimed) + 1)
  BY DEF Receive, Unclaimed
<1> HIDE DEF q
<1>2. /\ orderly /\ i = Cardinality(claimed) + 1
      /\ \A g \in Handlers : req[g] = Idle
      /\ req'[h] = q /\ \A g \in Handlers \ {h} : req'[g] = Idle
  BY <1>1, BeginAlone
<1>3. claimed = 1..Cardinality(claimed)
  BY <1>2 DEF OrderInv, InOrder
<1>4. Cardinality(claimed) = i - 1
  <2>1. IsFiniteSet(1..Len(sent)) /\ claimed \subseteq 1..Len(sent)
    <3>1. sent \in Seq(Events) /\ claimed \subseteq DOMAIN sent
      BY DEF IInv, TypeOK
    <3>2. QED
      BY <3>1, FS_Interval
  <2>2. Cardinality(claimed) \in Nat
    BY <2>1, FS_Subset, FS_CardinalityType
  <2>3. QED
    BY <1>2, <2>2
<1>5. claimed = 1..(i - 1) /\ claimed' = 1..i
  BY <1>1, <1>3, <1>4
<1>6. Cardinality(claimed') = i
  <2>1. Cardinality(1..i) = i
    BY FS_Interval
  <2>2. QED
    BY <1>5, <2>1
<1>7. q # Idle => /\ q.op = "handle" /\ q.event = i
                  /\ q.member \in Targets(sent[i])
  BY DEF q
<1>8. SparesEnded'
  <2> SUFFICES ASSUME NEW g \in Handlers, req'[g].op = "handle",
                      sent'[req'[g].event].type = "payment_failed"
               PROVE  ~Over(req[g].member)'
    BY DEF SparesEnded
  <2>1. g = h /\ req'[g] = q /\ q # Idle
    BY <1>2 DEF Idle
  <2>2. sent[i].type = "payment_failed"
    BY <1>1, <1>7, <2>1
  <2>3. ~Over(q.member)
    BY <1>7, <2>1, <2>2 DEF Targets, Over
  <2>4. QED
    BY <1>1, <2>1, <2>3 DEF Over
<1>9. InOrder'
  <2>1. \A g \in Handlers : req'[g].op = "handle" => req'[g].event = i
    <3>1. \A g \in Handlers : req'[g] \in {q, Idle}
      BY <1>2
    <3>2. Idle.op # "handle"
      BY DEF Idle
    <3>3. QED
      BY <1>7, <3>1, <3>2
  <2>2. claimed' = 1..Cardinality(claimed')
    BY <1>5, <1>6
  <2>3. QED
    BY <1>6, <2>1, <2>2 DEF InOrder
<1>10. OneAtATime'
  BY <1>2 DEF OneAtATime
<1>11. \A k \in 1..(i - 1) : Handled(k)
  <2>1. \A g \in Handlers : req[g].op # "handle"
    BY <1>2 DEF Idle
  <2>2. \A k \in 1..(i - 1) : k \in claimed
    BY <1>5
  <2>3. QED
    BY <2>1, <2>2 DEF Handled
<1>12. QED
  BY <1>1, <1>2, <1>5, <1>8, <1>9, <1>10, <1>11 DEF OrderInv

\* A step that emits and begins nothing, or has the one request end.
LEMMA OrderStep == IInv /\ OrderInv /\ [Next]_vars => OrderInv'
<1> SUFFICES ASSUME IInv, OrderInv, [Next]_vars PROVE OrderInv'
  OBVIOUS
<1>1. IInv' /\ Grows /\ Extends
  BY NextIInv
<1>2. CASE Provider
  <2>1. UNCHANGED <<claimed, mirror, req, orderly>>
    BY <1>2 DEF Provider, Complete, FinalInvoiceFails, Renew, Dun, End, Tick, Change
  <2>2. QED
    BY <1>1, <2>1, OrderStays
<1>3. CASE \E m \in Members, s \in Subs, startTrial \in BOOLEAN : Upgrade(m, s, startTrial)
  <2>1. UNCHANGED <<claimed, mirror, req, orderly>>
    BY <1>3 DEF Upgrade
  <2>2. QED
    BY <1>1, <2>1, OrderStays
<1>4. ASSUME NEW h \in Handlers, Service(h) PROVE OrderInv'
  <2>1. ASSUME NEW m \in Members, Cancel(h, m) \/ Resume(h, m) PROVE OrderInv'
    <3>1. PICK ending \in BOOLEAN : SetEnding(h, m, ending)
      BY <2>1 DEF Cancel, Resume
    <3>2. PICK end : Begin(h, [op |-> "intent", member |-> m, ending |-> ending,
                               end |-> end], TRUE)
      BY <3>1 DEF SetEnding
    <3>3. UNCHANGED <<claimed, mirror>>
      BY <3>1 DEF SetEnding
    <3>4. QED
      BY <1>1, <3>2, <3>3, OrderIntent
  <2>2. CASE WriteIntent(h) \/ Apply(h) \/ Crash(h)
    <3>1. req[h] # Idle /\ Finish(h) /\ claimed' = claimed /\ (orderly' => orderly)
      BY <2>2 DEF WriteIntent, Apply, Crash, Idle
    <3>2. QED
      BY <3>1, OrderEnds
  <2>3. ASSUME NEW i \in 1..MaxEvents, Receive(h, i) PROVE OrderInv'
    <3>1. CASE orderly'
      BY <2>3, <3>1, OrderReceive
    <3>2. CASE ~orderly'
      BY <3>2 DEF OrderInv
    <3>3. QED
      BY <3>1, <3>2
  <2>4. QED
    BY <1>4, <2>1, <2>2, <2>3 DEF Service
<1>5. CASE UNCHANGED vars
  BY <1>1, <1>5, OrderStays DEF vars
<1>6. QED
  BY <1>2, <1>3, <1>4, <1>5 DEF Next

--------------------------------------------------------------------------------
(* What an event writes *)

LEMMA WrittenForm ==
  ASSUME IInv, NEW i \in DOMAIN sent, NEW m \in Members,
         HasRow(m) \/ sent[i].type \in {"checkout_completed", "subscription_updated"}
  PROVE  LET row == Written(sent[i], mirror[m])
         IN CASE sent[i].type = "payment_failed" ->
                   row.sub = mirror[m].sub /\ row.status = "past_due"
              [] sent[i].type = "subscription_deleted" ->
                   row.sub = mirror[m].sub /\ row.status = "canceled"
              [] OTHER ->
                   /\ row.sub = sent[i].sub /\ row.status = sent[i].status
                   /\ row.ending = sent[i].ending
                   /\ sent[i].end \in Nat => row.end = sent[i].end
<1>1. HasRow(m) => mirror[m] \in MirrorRows
  BY DEF IInv, TypeOK, HasRow
<1>2. CASE sent[i].type = "payment_failed"
  <2>1. Written(sent[i], mirror[m]) = [mirror[m] EXCEPT !.status = "past_due"]
    BY <1>2 DEF Written
  <2>2. QED
    BY <1>1, <1>2, <2>1 DEF MirrorRows
<1>3. CASE sent[i].type = "subscription_deleted"
  <2>1. PICK end : Written(sent[i], mirror[m]) =
               [mirror[m] EXCEPT !.status = "canceled", !.ending = FALSE, !.end = end]
    BY <1>3 DEF Written
  <2>2. QED
    BY <1>1, <1>3, <2>1 DEF MirrorRows
<1>4. CASE sent[i].type \notin {"payment_failed", "subscription_deleted"}
  <2>1. PICK end : Written(sent[i], mirror[m]) =
               [status |-> sent[i].status, sub |-> sent[i].sub,
                customer |-> provider[sent[i].sub].customer, ending |-> sent[i].ending,
                end |-> end]
        /\ (sent[i].end # NoDate => end = sent[i].end)
    BY <1>4 DEF Written, Keep
  <2>2. sent[i].end \in Nat => sent[i].end # NoDate
    BY DEF NoDate
  <2>3. QED
    BY <1>4, <2>1, <2>2
<1>5. QED
  BY <1>2, <1>3, <1>4

--------------------------------------------------------------------------------
(* The mirror follows: steps of the provider *)

\* The step leaves u alone, and what it says is not about u's member.
LEMMA LivingStays ==
  ASSUME IInv, Grows, Extends, NEW u \in Subs, IsAlive(u), provider'[u] = provider[u],
         UNCHANGED <<claimed, mirror>>,
         \A i \in DOMAIN sent' : i \notin DOMAIN sent => Owner(i)' # provider[u].owner,
         \A h \in Handlers : \/ req'[h] = req[h]
                             \/ /\ req[h].op # "handle"
                                /\ req'[h].op = "intent" => req'[h].member # provider[u].owner,
         NEW j \in DOMAIN sent, NEW l \in DOMAIN sent, LivingTold(u, j, l)
  PROVE  LivingTold(u, j, l)'
<1>1. \A i \in DOMAIN sent : /\ i \in DOMAIN sent' /\ sent'[i] = sent[i]
                             /\ Owner(i)' = Owner(i)
  BY OwnerStays
<1>2. Tells(l, u)'
  BY <1>1 DEF LivingTold, Tells
<1>3. \A i \in DOMAIN sent' : i > j /\ Owner(i)' = provider[u].owner => sent'[i].sub = u
  BY <1>1 DEF LivingTold
<1>4. \A i \in DOMAIN sent' : i > l => Owner(i)' # provider[u].owner
  BY <1>1 DEF LivingTold
<1>5. ASSUME NEW k, Handled(k)' PROVE Handled(k)
  <2>1. ASSUME NEW h \in Handlers, req[h].op = "handle" PROVE req[h].event # k
    BY <1>5, <2>1 DEF Handled
  <2>2. QED
    BY <1>5, <2>1 DEF Handled
<1>6. Handled(j)' => HasRow(provider[u].owner)' /\ mirror'[provider[u].owner].sub = u
  BY <1>5 DEF LivingTold, HasRow
<1>7. Handled(l)' => Shows(provider[u].owner, u)'
  BY <1>5 DEF LivingTold, Shows, HasRow
<1>8. \A h \in Handlers : req'[h].op = "intent" /\ req'[h].member = provider[u].owner
                          => l \notin claimed'
  BY DEF LivingTold
<1>9. QED
  BY <1>1, <1>2, <1>3, <1>4, <1>6, <1>7, <1>8 DEF LivingTold

LEMMA EndStays ==
  ASSUME IInv, Grows, Extends, NEW u \in Subs, provider'[u] = provider[u],
         UNCHANGED <<claimed, mirror>>,
         \A i \in DOMAIN sent' : i \notin DOMAIN sent =>
            sent'[i].sub # u \/ sent'[i].type = "payment_failed",
         \A h \in Handlers : req'[h] = req[h] \/ req[h].op # "handle",
         NEW d \in DOMAIN sent, EndTold(u, d)
  PROVE  EndTold(u, d)'
<1>1. \A i \in DOMAIN sent : i \in DOMAIN sent' /\ sent'[i] = sent[i]
  BY OwnerStays
<1>2. \A i \in DOMAIN sent' : i > d /\ sent'[i].sub = u => sent'[i].type = "payment_failed"
  BY <1>1 DEF EndTold
<1>3. Handled(d)' => Handled(d)
  <2>1. ASSUME Handled(d)', NEW h \in Handlers, req[h].op = "handle" PROVE req[h].event # d
    BY <2>1 DEF Handled
  <2>2. QED
    BY <2>1 DEF Handled
<1>4. QED
  BY <1>1, <1>2, <1>3 DEF EndTold, HasRow

\* The provider appends one event or two about s, of which e is the last.
LEMMA Appended ==
  ASSUME IInv, NEW s \in Subs, NEW e, e.sub = s,
         \/ Emit(<<e>>)
         \/ \E a : a.sub = s /\ Emit(<<a, e>>)
  PROVE  /\ Len(sent') \in DOMAIN sent' /\ Len(sent') \notin DOMAIN sent
         /\ sent'[Len(sent')] = e
         /\ \A i \in DOMAIN sent' : i <= Len(sent')
         /\ \A i \in DOMAIN sent : i < Len(sent')
         /\ \A i \in DOMAIN sent' : i \notin DOMAIN sent => sent'[i].sub = s
<1>0. sent \in Seq(Events) /\ Len(sent) \in Nat
  BY DEF IInv, TypeOK
<1>1. ASSUME NEW T, NEW b \in Seq(T), sent' = sent \o b, Len(b) \in Nat \ {0},
             b[Len(b)] = e, \A i \in 1..Len(b) : b[i].sub = s
      PROVE  /\ Len(sent') \in DOMAIN sent' /\ Len(sent') \notin DOMAIN sent
             /\ sent'[Len(sent')] = e
             /\ \A i \in DOMAIN sent' : i <= Len(sent')
             /\ \A i \in DOMAIN sent : i < Len(sent')
             /\ \A i \in DOMAIN sent' : i \notin DOMAIN sent => sent'[i].sub = s
  <2>1. sent \in Seq(Events \union T) /\ b \in Seq(Events \union T)
    BY <1>0, <1>1
  <2>2. /\ sent' \in Seq(Events \union T) /\ Len(sent') = Len(sent) + Len(b)
        /\ \A i \in 1..Len(sent') : sent'[i] = IF i <= Len(sent) THEN sent[i]
                                               ELSE b[i - Len(sent)]
    BY <1>1, <2>1, ConcatProperties
  <2>3. DOMAIN sent' = 1..Len(sent') /\ DOMAIN sent = 1..Len(sent)
    BY <1>0, <2>2
  <2>4. QED
    BY <1>0, <1>1, <2>2, <2>3
<1>2. CASE Emit(<<e>>)
  <2>1. <<e>> \in Seq({e}) /\ Len(<<e>>) = 1 /\ <<e>>[1] = e
    OBVIOUS
  <2>2. QED
    BY <1>1, <1>2, <2>1 DEF Emit
<1>3. ASSUME NEW a, a.sub = s, Emit(<<a, e>>)
      PROVE  /\ Len(sent') \in DOMAIN sent' /\ Len(sent') \notin DOMAIN sent
             /\ sent'[Len(sent')] = e
             /\ \A i \in DOMAIN sent' : i <= Len(sent')
             /\ \A i \in DOMAIN sent : i < Len(sent')
             /\ \A i \in DOMAIN sent' : i \notin DOMAIN sent => sent'[i].sub = s
  <2>1. <<a, e>> \in Seq({a, e}) /\ Len(<<a, e>>) = 2 /\ <<a, e>>[1] = a /\ <<a, e>>[2] = e
    OBVIOUS
  <2>2. PICK b : b = <<a, e>>
    OBVIOUS
  <2>3. b \in Seq({a, e}) /\ Len(b) = 2 /\ b[Len(b)] = e /\ \A i \in 1..Len(b) : b[i].sub = s
    <3>1. \A i \in 1..2 : i = 1 \/ i = 2
      OBVIOUS
    <3>2. QED
      BY <1>3, <2>1, <2>2, <3>1
  <2>4. sent' = sent \o b
    BY <1>3, <2>2 DEF Emit
  <2>5. QED
    BY <1>1, <2>3, <2>4, SMTT(60)
<1>4. QED
  BY <1>2, <1>3

\* Everyone but s, when what happens is about s and no other subscription of
\* its member lives.
LEMMA Others ==
  ASSUME IInv, Grows, Extends, FollowInv, orderly, ~crossed, NEW s \in Subs,
         \A u \in Subs \ {s} : provider'[u] = provider[u],
         UNCHANGED <<claimed, mirror>>,
         \A i \in DOMAIN sent' : i \notin DOMAIN sent => sent'[i].sub = s,
         \A u \in Subs \ {s} : IsAlive(u) => provider[u].owner # provider'[s].owner,
         \A h \in Handlers : \/ req'[h] = req[h]
                             \/ /\ req[h].op # "handle"
                                /\ req'[h].op = "intent" => req'[h].member = provider'[s].owner,
         NEW u \in Subs \ {s}
  PROVE  /\ IsAlive(u)' => \E j, l \in DOMAIN sent' : LivingTold(u, j, l)'
         /\ provider'[u].status = "canceled" => \E d \in DOMAIN sent' : EndTold(u, d)'
<1>1. ASSUME IsAlive(u)' PROVE \E j, l \in DOMAIN sent' : LivingTold(u, j, l)'
  <2>1. IsAlive(u)
    BY <1>1 DEF IsAlive
  <2>2. PICK j \in DOMAIN sent, l \in DOMAIN sent : LivingTold(u, j, l)
    BY <2>1 DEF FollowInv
  <2>3. \A i \in DOMAIN sent' : i \notin DOMAIN sent => Owner(i)' # provider[u].owner
    BY <2>1 DEF Owner
  <2>4. \A h \in Handlers : \/ req'[h] = req[h]
                            \/ /\ req[h].op # "handle"
                               /\ req'[h].op = "intent" => req'[h].member # provider[u].owner
    BY <2>1
  <2>5. LivingTold(u, j, l)'
    BY <2>1, <2>2, <2>3, <2>4, LivingStays
  <2>6. j \in DOMAIN sent' /\ l \in DOMAIN sent'
    BY OwnerStays
  <2>7. QED
    BY <2>5, <2>6
<1>2. ASSUME provider'[u].status = "canceled" PROVE \E d \in DOMAIN sent' : EndTold(u, d)'
  <2>1. PICK d \in DOMAIN sent : EndTold(u, d)
    BY <1>2 DEF FollowInv
  <2>2. \A i \in DOMAIN sent' : i \notin DOMAIN sent =>
           sent'[i].sub # u \/ sent'[i].type = "payment_failed"
    OBVIOUS
  <2>3. \A h \in Handlers : req'[h] = req[h] \/ req[h].op # "handle"
    OBVIOUS
  <2>4. EndTold(u, d)'
    BY <2>1, <2>2, <2>3, EndStays
  <2>5. d \in DOMAIN sent'
    BY OwnerStays
  <2>6. QED
    BY <2>4, <2>5
<1>3. QED
  BY <1>1, <1>2

\* What has just been told has not been handled.
LEMMA NotYet ==
  ASSUME IInv, NEW n, n \notin DOMAIN sent, claimed' = claimed
  PROVE  n \notin claimed' /\ ~Handled(n)'
BY DEF IInv, TypeOK, Handled

\* A step about s: the rest of its member's subscriptions do not live.
LEMMA AboutOne ==
  ASSUME IInv, Grows, Extends, FollowInv, orderly, ~crossed, NEW s \in Subs,
         provider[s] # Unused,
         \A u \in Subs \ {s} : provider'[u] = provider[u],
         UNCHANGED <<claimed, mirror>>,
         \A i \in DOMAIN sent' : i \notin DOMAIN sent => sent'[i].sub = s,
         \A u \in Subs \ {s} : IsAlive(u) => provider[u].owner # provider[s].owner,
         \A h \in Handlers : \/ req'[h] = req[h]
                             \/ /\ req[h].op # "handle"
                                /\ req'[h].op = "intent" => req'[h].member = provider[s].owner,
         IsAlive(s)' => \E j, l \in DOMAIN sent' : LivingTold(s, j, l)',
         provider'[s].status = "canceled" => \E d \in DOMAIN sent' : EndTold(s, d)'
  PROVE  FollowInv'
<1>1. provider'[s].owner = provider[s].owner
  BY DEF Grows
<1>2. \A u \in Subs \ {s} :
         /\ IsAlive(u)' => \E j, l \in DOMAIN sent' : LivingTold(u, j, l)'
         /\ provider'[u].status = "canceled" => \E d \in DOMAIN sent' : EndTold(u, d)'
  BY <1>1, Others
<1>3. OneLiving'
  <2>1. OneLiving
    BY DEF FollowInv
  <2>2. \A u \in Subs \ {s} : IsAlive(u)' => IsAlive(u) /\ provider'[u] = provider[u]
    BY DEF IsAlive
  <2>3. QED
    BY <1>1, <2>1, <2>2 DEF OneLiving
<1>4. QED
  BY <1>2, <1>3 DEF FollowInv

\* A step that tells nothing and moves no subscription that has started.
LEMMA AboutNone ==
  ASSUME IInv, Grows, Extends, FollowInv, orderly, ~crossed,
         UNCHANGED <<sent, claimed, mirror, req>>,
         \A u \in Subs : provider'[u] = provider[u] \/ ~Started(u)'
  PROVE  FollowInv'
<1>1. \A u \in Subs : IsAlive(u)' \/ provider'[u].status = "canceled"
                        => provider'[u] = provider[u]
  BY DEF IsAlive, Alive, Started
<1>2. OneLiving'
  <2>1. \A u \in Subs : IsAlive(u)' => IsAlive(u) /\ provider'[u] = provider[u]
    BY <1>1 DEF IsAlive
  <2>2. QED
    BY <2>1 DEF FollowInv, OneLiving
<1>3. ASSUME NEW u \in Subs, IsAlive(u)' PROVE \E j, l \in DOMAIN sent' : LivingTold(u, j, l)'
  <2>1. IsAlive(u) /\ provider'[u] = provider[u]
    BY <1>1, <1>3 DEF IsAlive
  <2>2. PICK j \in DOMAIN sent, l \in DOMAIN sent : LivingTold(u, j, l)
    BY <2>1 DEF FollowInv
  <2>3. LivingTold(u, j, l)'
    BY <2>1, <2>2, LivingStays
  <2>4. QED
    BY <2>3
<1>4. ASSUME NEW u \in Subs, provider'[u].status = "canceled"
      PROVE  \E d \in DOMAIN sent' : EndTold(u, d)'
  <2>1. provider'[u] = provider[u]
    BY <1>1, <1>4
  <2>2. PICK d \in DOMAIN sent : EndTold(u, d)
    BY <1>4, <2>1 DEF FollowInv
  <2>3. EndTold(u, d)'
    BY <2>1, <2>2, EndStays
  <2>4. QED
    BY <2>3
<1>5. QED
  BY <1>2, <1>3, <1>4 DEF FollowInv

\* The last event of the step tells how s now is.
LEMMA Retold ==
  ASSUME IInv, Grows, Extends, NEW s \in Subs, IsAlive(s), UNCHANGED <<claimed, mirror>>,
         NEW n \in DOMAIN sent', n \notin DOMAIN sent, Tells(n, s)',
         \A i \in DOMAIN sent' : i <= n, \A i \in DOMAIN sent : i < n,
         \A i \in DOMAIN sent' : i \notin DOMAIN sent => sent'[i].sub = s,
         \A h \in Handlers : req'[h] = req[h] \/ req[h].op # "handle",
         NEW j \in DOMAIN sent, NEW l \in DOMAIN sent, LivingTold(s, j, l)
  PROVE  LivingTold(s, j, n)'
<1>1. provider'[s].owner = provider[s].owner
  BY DEF Grows, IsAlive, Alive, Unused
<1>2. \A i \in DOMAIN sent : /\ i \in DOMAIN sent' /\ sent'[i] = sent[i]
                             /\ Owner(i)' = Owner(i)
  BY OwnerStays
<1>3. /\ j <= n
      /\ sent'[j].type = "subscription_updated" /\ sent'[j].sub = s
      /\ sent'[j].user /\ sent'[j].priced
  <2>1. j < n
    OBVIOUS
  <2>2. j \in Nat /\ n \in Nat
    <3>1. sent \in Seq(Events) /\ sent' \in Seq(Events)
      BY DEF IInv, TypeOK, Extends
    <3>2. QED
      BY <3>1
  <2>3. QED
    BY <1>2, <2>1, <2>2 DEF LivingTold
<1>4. \A i \in DOMAIN sent' : i > j /\ Owner(i)' = provider[s].owner => sent'[i].sub = s
  BY <1>2 DEF LivingTold
<1>5. \A i \in DOMAIN sent' : ~(i > n)
  <2>1. sent' \in Seq(Events)
    BY DEF Extends
  <2>2. QED
    BY <2>1
<1>6. n \notin claimed' /\ ~Handled(n)'
  BY NotYet
<1>7. Handled(j)' => HasRow(provider[s].owner)' /\ mirror'[provider[s].owner].sub = s
  <2>1. ASSUME Handled(j)' PROVE Handled(j)
    <3>1. ASSUME NEW h \in Handlers, req[h].op = "handle" PROVE req[h].event # j
      BY <2>1, <3>1 DEF Handled
    <3>2. QED
      BY <2>1, <3>1 DEF Handled
  <2>2. QED
    BY <1>1, <2>1 DEF LivingTold, HasRow
<1>8. QED
  BY <1>1, <1>3, <1>4, <1>5, <1>6, <1>7 DEF LivingTold

\* A subscription begins to live; its event names the member and the price.
LEMMA FirstTold ==
  ASSUME IInv, Grows, Extends, NEW s \in Subs, UNCHANGED <<claimed, mirror>>,
         NEW n \in DOMAIN sent', n \notin DOMAIN sent, Tells(n, s)',
         sent'[n].user, sent'[n].priced, \A i \in DOMAIN sent' : i <= n
  PROVE  LivingTold(s, n, n)'
<1>1. n \in Nat /\ \A i \in DOMAIN sent' : ~(i > n)
  <2>1. sent' \in Seq(Events)
    BY DEF Extends
  <2>2. QED
    BY <2>1
<1>2. n \notin claimed' /\ ~Handled(n)'
  BY NotYet
<1>3. n <= n
  BY <1>1
<1>4. sent'[n].type = "subscription_updated" /\ sent'[n].sub = s
  BY DEF Tells
<1>5. QED
  BY <1>1, <1>2, <1>3, <1>4 DEF LivingTold

\* A subscription ends.
LEMMA EndIsTold ==
  ASSUME IInv, Grows, Extends, NEW s \in Subs, UNCHANGED <<claimed, mirror>>,
         NEW n \in DOMAIN sent', n \notin DOMAIN sent,
         sent'[n].type = "subscription_deleted", sent'[n].sub = s,
         \A i \in DOMAIN sent' : i <= n
  PROVE  EndTold(s, n)'
<1>1. \A i \in DOMAIN sent' : ~(i > n)
  <2>1. sent' \in Seq(Events)
    BY DEF Extends
  <2>2. QED
    BY <2>1
<1>2. ~Handled(n)'
  BY NotYet
<1>3. QED
  BY <1>1, <1>2 DEF EndTold

--------------------------------------------------------------------------------
(* The mirror follows: one step of the provider at a time *)

\* A snapshot tells all there is to tell.
LEMMA SnapshotTells ==
  ASSUME NEW s \in Subs, NEW row, NEW meta \in BOOLEAN, NEW n, provider'[s] = row,
         sent'[n] = Snapshot("subscription_updated", s, row, meta)
  PROVE  Tells(n, s)'
<1>1. PICK e : e = Snapshot("subscription_updated", s, row, meta)
  OBVIOUS
<1>2. /\ e.type = "subscription_updated" /\ e.sub = s
      /\ e.status = ToPremiumStatus(row.status) /\ e.ending = row.ending /\ e.end = row.end
      /\ e.user = meta /\ e.priced = meta
  BY <1>1 DEF Snapshot
<1>3. sent'[n] = e
  BY <1>1
<1>4. QED
  BY <1>2, <1>3 DEF Tells

\* A living subscription is told of again, and goes on living.
LEMMA GoesOn ==
  ASSUME IInv, Grows, Extends, FollowInv, orderly, ~crossed, NEW s \in Subs, IsAlive(s),
         NEW row, row.status # "canceled", provider' = [provider EXCEPT ![s] = row],
         UNCHANGED <<claimed, mirror>>,
         NEW meta \in BOOLEAN,
         LET e == Snapshot("subscription_updated", s, row, meta)
         IN Emit(<<e>>) \/ \E a : a.sub = s /\ Emit(<<a, e>>),
         \A h \in Handlers : \/ req'[h] = req[h]
                             \/ /\ req[h].op # "handle"
                                /\ req'[h].op = "intent" => req'[h].member = provider[s].owner
  PROVE  FollowInv'
<1>1. PICK e : e = Snapshot("subscription_updated", s, row, meta)
  OBVIOUS
<1>2. e.sub = s
  BY <1>1 DEF Snapshot
<1>3. PICK n : n = Len(sent')
  OBVIOUS
<1>4. /\ n \in DOMAIN sent' /\ n \notin DOMAIN sent
      /\ sent'[n] = e
      /\ \A i \in DOMAIN sent' : i <= n
      /\ \A i \in DOMAIN sent : i < n
      /\ \A i \in DOMAIN sent' : i \notin DOMAIN sent => sent'[i].sub = s
  BY <1>1, <1>2, <1>3, Appended
<1>5. provider'[s] = row /\ \A u \in Subs \ {s} : provider'[u] = provider[u]
  BY DEF IInv, TypeOK
<1>6. Tells(n, s)'
  BY <1>1, <1>4, <1>5, SnapshotTells
<1>7. PICK j \in DOMAIN sent, l \in DOMAIN sent : LivingTold(s, j, l)
  BY DEF FollowInv
<1>8. LivingTold(s, j, n)'
  BY <1>4, <1>6, <1>7, Retold
<1>9. j \in DOMAIN sent'
  BY OwnerStays
<1>10. \A u \in Subs \ {s} : IsAlive(u) => provider[u].owner # provider[s].owner
  BY DEF FollowInv, OneLiving
<1>11. provider[s] # Unused
  BY DEF IsAlive, Alive, Unused
<1>12. QED
  BY <1>4, <1>5, <1>8, <1>9, <1>10, <1>11, AboutOne

LEMMA RenewFollows ==
  ASSUME IInv, FollowInv, orderly, ~crossed, NEW s \in Subs, NEW meta \in MetaKept,
         Renew(s, meta)
  PROVE  FollowInv'
<1>1. PICK row : row = [provider[s] EXCEPT !.status = "active", !.end = now + 1]
  OBVIOUS
<1>2. /\ IsAlive(s)
      /\ Change(s, row, <<Snapshot("subscription_updated", s, row, meta)>>)
  BY <1>1 DEF Renew
<1>3. row.status = "active"
  BY <1>1, <1>2, AliveRow DEF ProviderRows
<1>4. meta \in BOOLEAN /\ Grows /\ Extends
  BY BillingBounds, RenewStep
<1>5. QED
  BY <1>2, <1>3, <1>4, GoesOn DEF Change

LEMMA DunFollows ==
  ASSUME IInv, FollowInv, orderly, ~crossed, NEW s \in Subs,
         NEW status \in {"past_due", "unpaid"}, NEW meta \in MetaKept, Dun(s, status, meta)
  PROVE  FollowInv'
<1>1. PICK row : row = [provider[s] EXCEPT !.status = status]
  OBVIOUS
<1>2. /\ IsAlive(s)
      /\ Change(s, row, <<PaymentFailed(s), Snapshot("subscription_updated", s, row, meta)>>)
  BY <1>1 DEF Dun
<1>3. row.status = status
  BY <1>1, <1>2, AliveRow DEF ProviderRows
<1>4. meta \in BOOLEAN /\ Grows /\ Extends
  BY BillingBounds, DunStep
<1>5. \E a : a.sub = s /\ Emit(<<a, Snapshot("subscription_updated", s, row, meta)>>)
  <2>1. PaymentFailed(s).sub = s
    BY DEF PaymentFailed
  <2>2. QED
    BY <1>2, <2>1 DEF Change
<1>6. QED
  BY <1>2, <1>3, <1>4, <1>5, GoesOn DEF Change

LEMMA SetEndingFollows ==
  ASSUME IInv, FollowInv, orderly, ~crossed, NEW h \in Handlers, NEW m \in Members,
         NEW ending \in BOOLEAN, SetEnding(h, m, ending)
  PROVE  FollowInv'
<1>1. HasRow(m) /\ mirror[m].sub \in Subs /\ provider[mirror[m].sub].owner = m
  <2>1. HasRow(m)
    BY DEF SetEnding
  <2>2. mirror[m] \in MirrorRows /\ RowSound(m, mirror[m])
    BY <2>1 DEF HasRow, IInv, TypeOK, MirrorSound
  <2>3. QED
    BY <2>1, <2>2 DEF MirrorRows, RowSound
<1>2. PICK s \in Subs : s = mirror[m].sub
  BY <1>1
<1>3. PICK row : row = [provider[s] EXCEPT !.ending = ending]
  OBVIOUS
<1>4. PICK end : end = IF ending THEN row.end ELSE NoDate
  OBVIOUS
<1>5. /\ IsAlive(s) /\ provider' = [provider EXCEPT ![s] = row]
      /\ Emit(<<Snapshot("subscription_updated", s, row, TRUE)>>)
      /\ Begin(h, [op |-> "intent", member |-> m, ending |-> ending, end |-> end], TRUE)
      /\ UNCHANGED <<claimed, mirror>>
  BY <1>2, <1>3, <1>4 DEF SetEnding
<1>6. row.status # "canceled"
  BY <1>3, <1>5, AliveRow DEF ProviderRows, IsAlive, Alive
<1>7. Grows /\ Extends
  BY SetEndingStep
<1>8. \A g \in Handlers : \/ req'[g] = req[g]
                          \/ /\ req[g].op # "handle"
                             /\ req'[g].op = "intent" => req'[g].member = provider[s].owner
  <2>1. req[h] = Idle /\ \A g \in Handlers \ {h} : req'[g] = req[g]
    BY <1>5 DEF Begin, IInv, TypeOK
  <2>2. req'[h].member = m
    BY <1>5 DEF Begin, IInv, TypeOK
  <2>3. QED
    BY <1>1, <1>2, <2>1, <2>2 DEF Idle
<1>9. PICK meta \in BOOLEAN : meta = TRUE
  OBVIOUS
<1>10. Emit(<<Snapshot("subscription_updated", s, row, meta)>>)
  BY <1>5, <1>9
<1>11. QED
  BY <1>5, <1>6, <1>7, <1>8, <1>10, GoesOn

LEMMA CompleteFollows ==
  ASSUME IInv, FollowInv, orderly, ~crossed', NEW s \in Subs, Complete(s)
  PROVE  FollowInv'
<1>1. PICK row : row = [provider[s] EXCEPT
                          !.status = IF provider[s].trial THEN "trialing" ELSE "active",
                          !.end = now + 1]
  OBVIOUS
<1>2. PICK meta \in BOOLEAN : meta = TRUE
  OBVIOUS
<1>3. PICK e : e = Snapshot("subscription_updated", s, row, meta)
  OBVIOUS
<1>4. /\ provider' = [provider EXCEPT ![s] = row] /\ provider[s].status = "open"
      /\ Emit(<<Completed(s), e>>)
      /\ UNCHANGED <<claimed, mirror, req>> /\ ~crossed /\ ~Meets(s)
  BY <1>1, <1>2, <1>3 DEF Complete
<1>5. provider[s] # Unused /\ provider[s] \in ProviderRows
  BY <1>4 DEF IInv, TypeOK, Unused
<1>6. row.status # "canceled"
  BY <1>1, <1>5 DEF ProviderRows
<1>7. Grows /\ Extends
  BY CompleteStep
<1>8. Completed(s).sub = s /\ e.sub = s /\ e.user /\ e.priced
  BY <1>2, <1>3 DEF Snapshot, Completed
<1>9. PICK n : n = Len(sent')
  OBVIOUS
<1>10. /\ n \in DOMAIN sent' /\ n \notin DOMAIN sent /\ sent'[n] = e
       /\ \A i \in DOMAIN sent' : i <= n
       /\ \A i \in DOMAIN sent' : i \notin DOMAIN sent => sent'[i].sub = s
  BY <1>4, <1>8, <1>9, Appended
<1>11. provider'[s] = row /\ \A u \in Subs \ {s} : provider'[u] = provider[u]
  BY <1>4 DEF IInv, TypeOK
<1>12. Tells(n, s)'
  BY <1>3, <1>10, <1>11, SnapshotTells
<1>13. LivingTold(s, n, n)'
  BY <1>4, <1>7, <1>8, <1>10, <1>12, FirstTold
<1>14. \A u \in Subs \ {s} : IsAlive(u) => provider[u].owner # provider[s].owner
  BY <1>4 DEF Meets
<1>15. QED
  BY <1>4, <1>5, <1>6, <1>7, <1>10, <1>11, <1>13, <1>14, AboutOne

LEMMA EndFollows ==
  ASSUME IInv, FollowInv, orderly, ~crossed, NEW s \in Subs, NEW meta \in MetaKept,
         End(s, meta)
  PROVE  FollowInv'
<1>1. PICK row : row = [provider[s] EXCEPT !.status = "canceled"]
  OBVIOUS
<1>2. PICK e : e = Snapshot("subscription_deleted", s, row, meta)
  OBVIOUS
<1>3. IsAlive(s) /\ Change(s, row, <<e>>)
  BY <1>1, <1>2 DEF End
<1>4. row.status = "canceled"
  BY <1>1, <1>3, AliveRow DEF ProviderRows
<1>5. Grows /\ Extends
  BY EndStep
<1>6. e.sub = s /\ e.type = "subscription_deleted"
  BY <1>2 DEF Snapshot
<1>7. PICK n : n = Len(sent')
  OBVIOUS
<1>8. /\ n \in DOMAIN sent' /\ n \notin DOMAIN sent /\ sent'[n] = e
      /\ \A i \in DOMAIN sent' : i <= n
      /\ \A i \in DOMAIN sent' : i \notin DOMAIN sent => sent'[i].sub = s
  BY <1>3, <1>6, <1>7, Appended DEF Change
<1>9. provider'[s] = row /\ \A u \in Subs \ {s} : provider'[u] = provider[u]
  BY <1>3 DEF Change, IInv, TypeOK
<1>10. UNCHANGED <<claimed, mirror, req>>
  BY <1>3 DEF Change
<1>11. EndTold(s, n)'
  BY <1>5, <1>6, <1>8, <1>10, EndIsTold
<1>12. ~IsAlive(s)'
  BY <1>4, <1>9 DEF IsAlive, Alive
<1>13. \A u \in Subs \ {s} : IsAlive(u) => provider[u].owner # provider[s].owner
  BY <1>3 DEF FollowInv, OneLiving
<1>14. provider[s] # Unused
  BY <1>3 DEF IsAlive, Alive, Unused
<1>15. QED
  BY <1>5, <1>8, <1>9, <1>10, <1>11, <1>12, <1>13, <1>14, AboutOne

LEMMA FinalInvoiceFollows ==
  ASSUME IInv, FollowInv, orderly, ~crossed', NEW s \in Subs, FinalInvoiceFails(s)
  PROVE  FollowInv'
<1>1. PICK e : e = PaymentFailed(s)
  OBVIOUS
<1>2. /\ provider[s].status = "canceled" /\ provider' = provider
      /\ Emit(<<e>>) /\ UNCHANGED <<claimed, mirror, req>> /\ ~crossed /\ ~Meets(s)
  BY <1>1 DEF FinalInvoiceFails
<1>3. Grows /\ Extends
  BY FinalInvoiceStep
<1>4. e.sub = s /\ e.type = "payment_failed"
  BY <1>1 DEF PaymentFailed
<1>5. PICK n : n = Len(sent')
  OBVIOUS
<1>6. /\ sent'[n] = e
      /\ \A i \in DOMAIN sent' : i \notin DOMAIN sent => sent'[i].sub = s
  BY <1>2, <1>4, <1>5, Appended
<1>7. \A i \in DOMAIN sent' : i \notin DOMAIN sent => i = n
  <2>1. sent \in Seq(Events) /\ e \in Events
    <3>1. Started(s)'
      BY <1>2 DEF Started
    <3>2. QED
      BY <1>1, <3>1, PaymentFailedSound DEF IInv, TypeOK
  <2>2. sent' = Append(sent, e)
    BY <1>2, <2>1 DEF Emit
  <2>3. QED
    BY <1>5, <2>1, <2>2
<1>8. PICK d \in DOMAIN sent : EndTold(s, d)
  BY <1>2 DEF FollowInv
<1>9. EndTold(s, d)'
  BY <1>2, <1>3, <1>4, <1>6, <1>7, <1>8, EndStays
<1>10. d \in DOMAIN sent'
  BY <1>3, OwnerStays
<1>11. ~IsAlive(s)' /\ provider[s] # Unused
  BY <1>2 DEF IsAlive, Alive, Unused
<1>12. \A u \in Subs \ {s} : IsAlive(u) => provider[u].owner # provider[s].owner
  BY <1>2 DEF Meets
<1>13. QED
  BY <1>2, <1>3, <1>6, <1>9, <1>10, <1>11, <1>12, AboutOne

LEMMA TickFollows ==
  ASSUME IInv, FollowInv, orderly, ~crossed, Tick
  PROVE  FollowInv'
BY TickStep, AboutNone DEF Tick

LEMMA UpgradeFollows ==
  ASSUME IInv, FollowInv, orderly, ~crossed, NEW m \in Members, NEW s \in Subs,
         NEW startTrial \in BOOLEAN, Upgrade(m, s, startTrial)
  PROVE  FollowInv'
<1>1. Grows /\ Extends
  BY UpgradeStep
<1>2. PICK row : row =
        [status |-> "open", owner |-> m, ending |-> FALSE, end |-> NoDate,
         customer |-> IF HasRow(m) THEN mirror[m].customer ELSE s,
         trial |-> startTrial /\ ~HasRow(m)]
  OBVIOUS
<1>3. \A u \in Subs : provider'[u] = provider[u] \/ ~Started(u)'
  <2>1. provider' = [provider EXCEPT ![s] = row]
    BY <1>2 DEF Upgrade
  <2>2. row.status = "open"
    BY <1>2
  <2>3. QED
    BY <2>1, <2>2 DEF IInv, TypeOK, Started
<1>4. UNCHANGED <<sent, claimed, mirror, req>>
  BY DEF Upgrade
<1>5. QED
  BY <1>1, <1>3, <1>4, AboutNone

--------------------------------------------------------------------------------
(* The mirror follows: one request at a time *)

\* The provider and the events stand still; what is left of being told.
LEMMA LivingKept ==
  ASSUME IInv, NEW u \in Subs, UNCHANGED <<provider, sent>>,
         NEW j \in DOMAIN sent, NEW l \in DOMAIN sent, LivingTold(u, j, l),
         Handled(j)' => HasRow(provider[u].owner)' /\ mirror'[provider[u].owner].sub = u,
         Handled(l)' => Shows(provider[u].owner, u)',
         \A h \in Handlers : req'[h].op = "intent" /\ req'[h].member = provider[u].owner
                               => l \notin claimed'
  PROVE  LivingTold(u, j, l)'
BY DEF LivingTold, Tells, Owner

\* A step of a request keeps the invariant, if it keeps the handled part of it.
LEMMA RequestFollows ==
  ASSUME FollowInv, orderly, ~crossed, UNCHANGED <<provider, sent>>,
         \A u \in Subs : \A j, l \in DOMAIN sent :
            IsAlive(u) /\ LivingTold(u, j, l) => LivingTold(u, j, l)',
         \A u \in Subs : \A d \in DOMAIN sent : EndTold(u, d) => EndTold(u, d)'
  PROVE  FollowInv'
<1>1. OneLiving'
  BY DEF FollowInv, OneLiving, IsAlive
<1>2. ASSUME NEW u \in Subs, IsAlive(u)' PROVE \E j, l \in DOMAIN sent' : LivingTold(u, j, l)'
  <2>1. IsAlive(u)
    BY <1>2 DEF IsAlive
  <2>2. PICK j \in DOMAIN sent, l \in DOMAIN sent : LivingTold(u, j, l)
    BY <2>1 DEF FollowInv
  <2>3. LivingTold(u, j, l)'
    BY <2>1, <2>2
  <2>4. QED
    BY <2>3
<1>3. ASSUME NEW u \in Subs, provider'[u].status = "canceled"
      PROVE  \E d \in DOMAIN sent' : EndTold(u, d)'
  <2>1. PICK d \in DOMAIN sent : EndTold(u, d)
    BY <1>3 DEF FollowInv
  <2>2. EndTold(u, d)'
    BY <2>1
  <2>3. QED
    BY <2>2
<1>4. QED
  BY <1>1, <1>2, <1>3 DEF FollowInv

\* The write after cancel or resume: no event about its member that tells how
\* their subscription is has been claimed.
LEMMA WriteIntentFollows ==
  ASSUME IInv, OrderInv, FollowInv, orderly, ~crossed, NEW h \in Handlers, WriteIntent(h)
  PROVE  FollowInv'
<1>1. PICK m \in Members : m = req[h].member /\ req[h].op = "intent"
  BY DEF WriteIntent, IInv, TypeOK, Idle, Writes
<1>2. /\ \A g \in Handlers \ {h} : req[g] = Idle
      /\ \A g \in Handlers : req'[g] = Idle
  BY <1>1, OneBusy DEF Idle, WriteIntent, Finish, IInv, TypeOK
<1>3. \A g \in Handlers : /\ req[g].op # "handle"
                          /\ req'[g].op # "handle" /\ req'[g].op # "intent"
  BY <1>1, <1>2 DEF Idle
<1>4. UNCHANGED <<provider, sent, claimed>>
  BY DEF WriteIntent
<1>5. \A k : Handled(k)' = Handled(k) /\ (Handled(k) <=> k \in claimed)
  BY <1>3, <1>4 DEF Handled
<1>6. /\ HasRow(m) /\ mirror[m] \in MirrorRows
      /\ \A n \in Members \ {m} : mirror'[n] = mirror[n]
      /\ mirror'[m].sub = mirror[m].sub /\ mirror'[m].status = mirror[m].status
  <2>1. HasRow(m) /\ mirror[m] \in MirrorRows
    BY <1>1 DEF IInv, TypeOK, RequestsSound, WriteSound, HasRow, Idle
  <2>2. PICK ending, end :
          mirror' = [mirror EXCEPT ![m].ending = ending, ![m].end = end]
    BY <1>1 DEF WriteIntent
  <2>3. QED
    BY <2>1, <2>2 DEF IInv, TypeOK, MirrorRows
<1>7. HasRow(m)'
  BY <1>6, WriteIntentStep DEF Extends
<1>8. ASSUME NEW u \in Subs, NEW j \in DOMAIN sent, NEW l \in DOMAIN sent,
             IsAlive(u), LivingTold(u, j, l)
      PROVE  LivingTold(u, j, l)'
  <2>1. provider[u].owner \in Members
    BY <1>8, AliveRow DEF ProviderRows
  <2>2. Handled(j)' => HasRow(provider[u].owner)' /\ mirror'[provider[u].owner].sub = u
    BY <1>4, <1>5, <1>6, <1>7, <1>8, <2>1 DEF LivingTold, HasRow
  <2>3. Handled(l)' => Shows(provider[u].owner, u)'
    <3>1. CASE provider[u].owner = m
      <4>1. l \notin claimed
        BY <1>1, <1>8, <3>1 DEF LivingTold
      <4>2. QED
        BY <1>5, <4>1
    <3>2. CASE provider[u].owner # m
      BY <1>4, <1>5, <1>6, <1>8, <2>1, <3>2 DEF LivingTold, Shows, HasRow
    <3>3. QED
      BY <3>1, <3>2
  <2>4. QED
    BY <1>3, <1>4, <1>8, <2>2, <2>3, LivingKept
<1>9. ASSUME NEW u \in Subs, NEW d \in DOMAIN sent, EndTold(u, d)
      PROVE  EndTold(u, d)'
  <2>1. Handled(d)' /\ HasRow(provider[u].owner)' /\ mirror'[provider[u].owner].sub = u
          => mirror'[provider[u].owner].status = "canceled"
    <3>1. CASE provider[u].owner = m
      BY <1>5, <1>6, <1>9, <3>1 DEF EndTold
    <3>2. CASE provider[u].owner # m
      <4>1. mirror'[provider[u].owner] = mirror[provider[u].owner]
        <5>1. provider[u] \in ProviderRows
          BY <1>9, EventForm DEF EndTold, IInv, TypeOK
        <5>2. provider[u].owner \in Members
          BY <5>1 DEF ProviderRows
        <5>3. QED
          BY <1>6, <3>2, <5>2
      <4>2. QED
        BY <1>4, <1>5, <1>9, <4>1 DEF EndTold, HasRow
    <3>3. QED
      BY <3>1, <3>2
  <2>2. QED
    BY <1>4, <1>9, <2>1 DEF EndTold
<1>10. QED
  BY <1>4, <1>8, <1>9, RequestFollows

\* An event that is received and found to concern nobody is the first or the last
\* word about no living subscription, and the end of none the row is about.
LEMMA Unconcerned ==
  ASSUME IInv, NEW i \in DOMAIN sent, Targets(sent[i]) = {}, NEW u \in Subs, NEW m \in Members,
         provider[u].owner = m, sent[i].sub = u
  PROVE  /\ sent[i].type = "subscription_updated" => ~(sent[i].user /\ sent[i].priced)
         /\ sent[i].type = "subscription_updated" /\ ~sent[i].user
              => ~(HasRow(m) /\ mirror[m].sub = u)
         /\ sent[i].type = "subscription_deleted" => ~(HasRow(m) /\ mirror[m].sub = u)
<1>1. sent[i].user => ResolveUser(sent[i]) = {m}
  BY DEF ResolveUser
<1>2. HasRow(m) /\ mirror[m].sub = u => m \in FindMirror(u)
  BY DEF FindMirror
<1>3. ~sent[i].user => ResolveUser(sent[i]) = FindMirror(u)
  BY DEF ResolveUser
<1>4. sent[i].type = "subscription_updated" =>
        \A n \in ResolveUser(sent[i]) : ~(sent[i].priced \/ HasRow(n))
  BY DEF Targets
<1>5. sent[i].type = "subscription_deleted" => ResolveUser(sent[i]) = {}
  BY DEF Targets
<1>6. QED
  BY <1>1, <1>2, <1>3, <1>4, <1>5

LEMMA ReceiveFollows ==
  ASSUME IInv, OrderInv, FollowInv, orderly', ~crossed, NEW h \in Handlers,
         NEW i \in 1..MaxEvents, Receive(h, i)
  PROVE  FollowInv'
<1>1. /\ orderly /\ claimed = 1..(i - 1) /\ claimed' = 1..i /\ i \in DOMAIN sent
      /\ \A k \in 1..(i - 1) : Handled(k)
  BY OrderReceive
<1>2. UNCHANGED <<provider, sent, mirror>>
  BY DEF Receive
<1>3. PICK q : q = IF Targets(sent[i]) = {} THEN Idle
                   ELSE [op |-> "handle", event |-> i,
                         member |-> CHOOSE m \in Targets(sent[i]) : TRUE]
  OBVIOUS
<1>4. Begin(h, q, i = Cardinality(claimed) + 1)
  BY <1>3 DEF Receive
<1>5. req'[h] = q /\ \A g \in Handlers \ {h} : req'[g] = Idle
  BY <1>4, BeginAlone
<1>6. q = Idle \/ (q.op = "handle" /\ q.event = i)
  BY <1>3
<1>7. \A g \in Handlers : req'[g].op # "intent"
  BY <1>5, <1>6 DEF Idle
<1>8. ASSUME NEW k \in DOMAIN sent, Handled(k)' PROVE Handled(k) \/ (k = i /\ Targets(sent[i]) = {})
  <2>1. k \in 1..i
    BY <1>1, <1>8 DEF Handled
  <2>2. CASE k = i
    <3>1. q.op = "handle" => q.event # i
      BY <1>5, <1>8, <2>2 DEF Handled
    <3>2. q = Idle
      BY <1>6, <3>1
    <3>3. QED
      BY <1>3, <2>2, <3>2 DEF Idle
  <2>3. CASE k # i
    BY <1>1, <2>1, <2>3
  <2>4. QED
    BY <2>2, <2>3
<1>9. ASSUME NEW u \in Subs, NEW j \in DOMAIN sent, NEW l \in DOMAIN sent,
             IsAlive(u), LivingTold(u, j, l)
      PROVE  LivingTold(u, j, l)'
  <2>1. PICK m \in Members : m = provider[u].owner
    BY <1>9, AliveRow DEF ProviderRows
  <2>2. Handled(j)' => Handled(j)
    BY <1>8, <1>9, <2>1, Unconcerned DEF LivingTold
  <2>3. Handled(l)' => Handled(l)
    <3>1. ASSUME l = i, Targets(sent[i]) = {}, Handled(l)' PROVE FALSE
      <4>1. /\ sent[l].type = "subscription_updated" /\ sent[l].sub = u
            /\ sent[l].user => sent[l].priced
        BY <1>9 DEF LivingTold, Tells
      <4>2. j # i
        BY <1>9, <2>1, <3>1, Unconcerned DEF LivingTold
      <4>3. j \in 1..(i - 1)
        <5>1. j <= l /\ j \in Nat \ {0} /\ i \in Nat
          BY <1>9, EventForm DEF LivingTold
        <5>2. QED
          BY <3>1, <4>2, <5>1
      <4>4. HasRow(m) /\ mirror[m].sub = u
        BY <1>1, <1>9, <2>1, <4>3 DEF LivingTold
      <4>5. QED
        BY <2>1, <3>1, <4>1, <4>4, Unconcerned
    <3>2. QED
      BY <1>8, <3>1
  <2>4. Handled(j)' => HasRow(provider[u].owner)' /\ mirror'[provider[u].owner].sub = u
    BY <1>2, <1>9, <2>2 DEF LivingTold, HasRow
  <2>5. Handled(l)' => Shows(provider[u].owner, u)'
    BY <1>2, <1>9, <2>3 DEF LivingTold, Shows, HasRow
  <2>6. QED
    BY <1>2, <1>7, <1>9, <2>4, <2>5, LivingKept
<1>10. ASSUME NEW u \in Subs, NEW d \in DOMAIN sent, EndTold(u, d)
       PROVE  EndTold(u, d)'
  <2>1. PICK m \in Members : m = provider[u].owner
    <3>1. provider[u] \in ProviderRows
      BY <1>10, EventForm DEF EndTold, IInv, TypeOK
    <3>2. QED
      BY <3>1 DEF ProviderRows
  <2>2. Handled(d)' /\ HasRow(m)' /\ mirror'[m].sub = u => mirror'[m].status = "canceled"
    <3>1. ASSUME d = i, Targets(sent[i]) = {}, HasRow(m), mirror[m].sub = u PROVE FALSE
      BY <1>1, <1>10, <2>1, <3>1, Unconcerned DEF EndTold
    <3>2. Handled(d)' => Handled(d) \/ (d = i /\ Targets(sent[i]) = {})
      BY <1>8
    <3>3. mirror' = mirror /\ (HasRow(m)' <=> HasRow(m))
      BY <1>2 DEF HasRow
    <3>4. QED
      BY <1>10, <2>1, <3>1, <3>2, <3>3 DEF EndTold
  <2>3. QED
    BY <1>2, <1>10, <2>1, <2>2 DEF EndTold
<1>11. QED
  BY <1>1, <1>2, <1>9, <1>10, RequestFollows

\* The one write of an event.
LEMMA ApplyFollows ==
  ASSUME IInv, OrderInv, FollowInv, orderly, ~crossed, NEW h \in Handlers, Apply(h)
  PROVE  FollowInv'
<1>1. PICK i \in DOMAIN sent, m \in Members :
        /\ req[h].op = "handle" /\ i = req[h].event /\ m = req[h].member /\ m = Owner(i)
  <2>1. req[h] \in Writes /\ req[h].op = "handle" /\ req[h].member \in Members
    BY DEF Apply, IInv, TypeOK, Idle, Writes
  <2>2. WriteSound(req[h])
    BY <2>1 DEF IInv, RequestsSound, Idle
  <2>3. req[h].event \in DOMAIN sent
    BY <2>1 DEF IInv, TypeOK
  <2>4. QED
    BY <2>1, <2>2, <2>3 DEF WriteSound, Owner
<1>2. /\ \A g \in Handlers \ {h} : req[g] = Idle
      /\ \A g \in Handlers : req'[g] = Idle
  BY <1>1, OneBusy DEF Idle, Apply, Finish, IInv, TypeOK
<1>3. \A g \in Handlers : req'[g].op # "handle" /\ req'[g].op # "intent"
  BY <1>2 DEF Idle
<1>4. UNCHANGED <<provider, sent, claimed>>
  BY DEF Apply
<1>5. claimed = 1..i
  BY <1>1 DEF OrderInv, InOrder
<1>6. \A k \in DOMAIN sent : Handled(k)' => Handled(k) \/ k = i
  <2>1. \A g \in Handlers \ {h} : req[g].op # "handle"
    BY <1>2 DEF Idle
  <2>2. QED
    BY <1>1, <1>4, <2>1 DEF Handled
<1>7. \A k \in DOMAIN sent : Handled(k)' => k \in Nat /\ k <= i
  BY <1>4, <1>5, EventForm DEF Handled
<1>8. PICK row : row = Written(sent[i], mirror[m])
  OBVIOUS
<1>9. \A n \in Members \ {m} : mirror'[n] = mirror[n]
  BY <1>1 DEF Apply, IInv, TypeOK
<1>10. IF HasRow(m) \/ sent[i].type \in {"checkout_completed", "subscription_updated"}
       THEN mirror'[m] = row
       ELSE mirror'[m] = mirror[m]
  BY <1>1, <1>8 DEF Apply, IInv, TypeOK
<1>11. IInv' /\ Extends
  BY ApplyStep
<1>12. sent[i] \in Events /\ sent[i].sub \in Subs /\ EventSound(sent[i])
  BY EventForm DEF IInv, EventsSound
<1>13. mirror[m].status \in {"canceled", "expired"} => sent[i].type # "payment_failed"
  BY <1>1 DEF OrderInv, SparesEnded, Over
<1>14. ASSUME NEW u \in Subs, NEW j \in DOMAIN sent, NEW l \in DOMAIN sent,
              IsAlive(u), LivingTold(u, j, l), provider[u].owner = m
       PROVE  /\ Handled(j)' => HasRow(m)' /\ mirror'[m].sub = u
              /\ Handled(l)' => Shows(m, u)'
  <2>1. i \in Nat /\ j \in Nat /\ l \in Nat /\ j <= l /\ i <= l
    BY <1>1, <1>14, EventForm DEF LivingTold
  <2>2. /\ sent[j].type = "subscription_updated" /\ sent[j].sub = u
        /\ Tells(l, u)
        /\ i > j => sent[i].sub = u
        /\ Handled(j) => HasRow(m) /\ mirror[m].sub = u
    BY <1>1, <1>14 DEF LivingTold
  <2>3. ASSUME Handled(j)' PROVE HasRow(m)' /\ mirror'[m].sub = u
    <3>1. sent[i].sub = u /\ (HasRow(m) \/ sent[i].type = "subscription_updated")
          /\ (HasRow(m) => mirror[m].sub = u \/ sent[i].type = "subscription_updated")
      <4>1. CASE j = i
        BY <2>2, <4>1
      <4>2. CASE j # i
        <5>1. j < i /\ Handled(j)
          BY <1>6, <1>7, <2>1, <2>3, <4>2
        <5>2. QED
          BY <2>1, <2>2, <5>1
      <4>3. QED
        BY <4>1, <4>2
    <3>2. mirror'[m] = row /\ row.sub = u
      <4>1. row.sub = mirror[m].sub \/ row.sub = sent[i].sub
        BY <1>8, <1>12, <3>1, WrittenForm DEF Events
      <4>2. sent[i].type = "subscription_updated" => row.sub = sent[i].sub
        BY <1>8, <3>1, WrittenForm
      <4>3. QED
        BY <1>10, <3>1, <4>1, <4>2
    <3>3. HasRow(m)'
      <4>1. row \in MirrorRows
        BY <1>1, <1>8, <1>11, <3>1, WrittenSound
           DEF Owner, IInv, RequestsSound, WriteSound, Idle
      <4>2. QED
        BY <3>2, <4>1 DEF HasRow, NoRow, MirrorRows, PremiumStatuses
    <3>4. QED
      BY <3>2, <3>3
  <2>4. ASSUME Handled(l)' PROVE Shows(m, u)'
    <3>1. l = i
      BY <1>7, <2>1, <2>4
    <3>2. Handled(j)'
      BY <1>3, <1>4, <1>5, <2>1, <3>1, EventForm DEF Handled
    <3>3. HasRow(m)' /\ mirror'[m].sub = u
      BY <2>3, <3>2
    <3>4. mirror'[m] = row
      BY <1>10, <2>2, <3>1 DEF Tells
    <3>5. sent[i].type = "subscription_updated" /\ sent[i].end \in Nat
      BY <1>12, <2>2, <3>1 DEF Tells, EventSound
    <3>6. /\ row.status = sent[i].status /\ row.ending = sent[i].ending
          /\ row.end = sent[i].end
      BY <1>8, <3>5, WrittenForm
    <3>7. QED
      BY <1>4, <2>2, <3>1, <3>3, <3>4, <3>6 DEF Shows, Tells
  <2>5. QED
    BY <2>3, <2>4
<1>15. ASSUME NEW u \in Subs, NEW j \in DOMAIN sent, NEW l \in DOMAIN sent,
              IsAlive(u), LivingTold(u, j, l)
       PROVE  LivingTold(u, j, l)'
  <2>1. PICK n \in Members : n = provider[u].owner
    BY <1>15, AliveRow DEF ProviderRows
  <2>2. /\ Handled(j)' => HasRow(n)' /\ mirror'[n].sub = u
        /\ Handled(l)' => Shows(n, u)'
    <3>1. CASE n = m
      BY <1>14, <1>15, <2>1, <3>1 DEF HasRow, Shows
    <3>2. CASE n # m
      <4>1. Owner(j) = n /\ Owner(l) = n
        BY <1>15, <2>1 DEF LivingTold, Tells, Owner
      <4>2. (Handled(j)' => Handled(j)) /\ (Handled(l)' => Handled(l))
        BY <1>1, <1>6, <3>2, <4>1
      <4>3. mirror'[n] = mirror[n]
        BY <1>9, <3>2
      <4>4. QED
        BY <1>4, <1>15, <2>1, <4>2, <4>3 DEF LivingTold, Shows, HasRow
    <3>3. QED
      BY <3>1, <3>2
  <2>3. HasRow(provider[u].owner)' <=> HasRow(n)'
    BY <1>4, <2>1
  <2>4. Shows(provider[u].owner, u)' <=> Shows(n, u)'
    BY <1>4, <2>1
  <2>5. QED
    BY <1>3, <1>4, <1>15, <2>1, <2>2, <2>3, <2>4, LivingKept
<1>16. ASSUME NEW u \in Subs, NEW d \in DOMAIN sent, EndTold(u, d), provider[u].owner = m,
              Handled(d)', HasRow(m)', mirror'[m].sub = u
       PROVE  mirror'[m].status = "canceled"
  <2>1. sent[d].type = "subscription_deleted" /\ d <= i /\ d \in Nat /\ i \in Nat
    BY <1>7, <1>16, EventForm DEF EndTold
  <2>2. Handled(d) /\ HasRow(m) /\ mirror[m].sub = u => mirror[m].status = "canceled"
    BY <1>16 DEF EndTold
  <2>3. HasRow(m) \/ sent[i].type \in {"checkout_completed", "subscription_updated"}
    BY <1>10, <1>16 DEF HasRow
  <2>4. mirror'[m] = row
    BY <1>10, <2>3
  <2>5. CASE sent[i].type = "subscription_deleted"
    BY <1>8, <2>3, <2>4, <2>5, WrittenForm
  <2>6. CASE sent[i].type = "payment_failed"
    <3>1. row.sub = mirror[m].sub
      BY <1>8, <2>3, <2>6, WrittenForm
    <3>2. d # i
      BY <2>1, <2>6
    <3>3. Handled(d) /\ HasRow(m)
      BY <1>6, <1>16, <2>3, <2>6, <3>2
    <3>4. QED
      BY <1>13, <1>16, <2>2, <2>4, <2>6, <3>1, <3>3
  <2>7. CASE sent[i].type \in {"checkout_completed", "subscription_updated"}
    <3>1. sent[i].sub = u
      BY <1>8, <1>16, <2>3, <2>4, <2>7, WrittenForm
    <3>2. i > d
      BY <2>1, <2>7
    <3>3. QED
      BY <1>16, <2>7, <3>1, <3>2 DEF EndTold
  <2>8. QED
    BY <1>12, <2>5, <2>6, <2>7 DEF Events
<1>17. ASSUME NEW u \in Subs, NEW d \in DOMAIN sent, EndTold(u, d)
       PROVE  EndTold(u, d)'
  <2>1. PICK n \in Members : n = provider[u].owner
    <3>1. provider[u] \in ProviderRows
      BY <1>17, EventForm DEF EndTold, IInv, TypeOK
    <3>2. QED
      BY <3>1 DEF ProviderRows
  <2>2. Handled(d)' /\ HasRow(n)' /\ mirror'[n].sub = u => mirror'[n].status = "canceled"
    <3>1. CASE n = m
      BY <1>16, <1>17, <2>1, <3>1
    <3>2. CASE n # m
      <4>1. Owner(d) = n
        BY <1>17, <2>1 DEF EndTold, Owner
      <4>2. Handled(d)' => Handled(d)
        BY <1>1, <1>6, <3>2, <4>1
      <4>3. mirror'[n] = mirror[n]
        BY <1>9, <3>2
      <4>4. QED
        BY <1>17, <2>1, <4>2, <4>3 DEF EndTold, HasRow
    <3>3. QED
      BY <3>1, <3>2
  <2>3. QED
    BY <1>4, <1>17, <2>1, <2>2 DEF EndTold
<1>18. QED
  BY <1>4, <1>15, <1>17, RequestFollows

\* What has gone out of order, or crossed, stays so.
LEMMA HistoryStays ==
  ASSUME IInv, [Next]_vars
  PROVE  (orderly' => orderly) /\ (~crossed' => ~crossed)
<1>1. ASSUME NEW s \in Subs, Complete(s) \/ FinalInvoiceFails(s)
      PROVE  orderly' = orderly /\ (~crossed' => ~crossed)
  BY <1>1 DEF Complete, FinalInvoiceFails
<1>2. ASSUME NEW s \in Subs, NEW meta \in MetaKept,
             \/ Renew(s, meta)
             \/ \E status \in {"past_due", "unpaid"} : Dun(s, status, meta)
             \/ End(s, meta)
      PROVE  UNCHANGED <<orderly, crossed>>
  BY <1>2 DEF Renew, Dun, End, Change
<1>3. CASE Provider
  BY <1>1, <1>2, <1>3 DEF Provider, Tick
<1>4. CASE \E m \in Members, s \in Subs, startTrial \in BOOLEAN : Upgrade(m, s, startTrial)
  BY <1>4 DEF Upgrade
<1>5. ASSUME NEW h, NEW q, NEW inOrder, Begin(h, q, inOrder) PROVE orderly' => orderly
  BY <1>5 DEF Begin
<1>6. ASSUME NEW h \in Handlers, Service(h)
      PROVE  (orderly' => orderly) /\ (~crossed' => ~crossed)
  <2>1. ASSUME NEW m \in Members, NEW ending \in BOOLEAN, SetEnding(h, m, ending)
        PROVE  (orderly' => orderly) /\ crossed' = crossed
    BY <1>5, <2>1 DEF SetEnding
  <2>2. ASSUME NEW i \in 1..MaxEvents, Receive(h, i)
        PROVE  (orderly' => orderly) /\ crossed' = crossed
    BY <1>5, <2>2 DEF Receive
  <2>3. CASE WriteIntent(h) \/ Apply(h) \/ Crash(h)
    BY <2>3 DEF WriteIntent, Apply, Crash
  <2>4. QED
    BY <1>6, <2>1, <2>2, <2>3 DEF Service, Cancel, Resume
<1>7. QED
  BY <1>3, <1>4, <1>6 DEF Next, vars

LEMMA InitFInv == Init => FInv
<1> SUFFICES ASSUME Init PROVE FInv
  OBVIOUS
<1>1. \A h \in Handlers : req[h] = Idle /\ req[h].op # "handle"
  BY DEF Init, Idle
<1>2. \A s \in Subs : ~IsAlive(s) /\ provider[s].status # "canceled"
  BY DEF Init, IsAlive, Alive, Unused
<1>3. claimed = 1..Cardinality(claimed)
  BY FS_EmptySet DEF Init
<1>4. OrderInv
  BY <1>1, <1>3 DEF OrderInv, OneAtATime, InOrder, SparesEnded
<1>5. FollowInv
  BY <1>2 DEF FollowInv, OneLiving
<1>6. QED
  BY <1>4, <1>5 DEF FInv

LEMMA NextFInv == IInv /\ FInv /\ [Next]_vars => FInv'
<1> SUFFICES ASSUME IInv, FInv, [Next]_vars PROVE FInv'
  OBVIOUS
<1>1. OrderInv /\ FollowInv /\ OrderInv'
  BY OrderStep DEF FInv
<1> SUFFICES ASSUME orderly', ~crossed' PROVE FollowInv'
  BY <1>1 DEF FInv, FollowInv
<1>2. orderly /\ ~crossed
  BY HistoryStays
<1>3. CASE Provider
  BY <1>1, <1>2, <1>3, CompleteFollows, FinalInvoiceFollows, RenewFollows, DunFollows,
     EndFollows, TickFollows DEF Provider
<1>4. ASSUME NEW m \in Members, NEW s \in Subs, NEW startTrial \in BOOLEAN,
             Upgrade(m, s, startTrial)
      PROVE  FollowInv'
  BY <1>1, <1>2, <1>4, UpgradeFollows
<1>5. ASSUME NEW h \in Handlers, Service(h) PROVE FollowInv'
  <2>1. CASE \E m \in Members : Cancel(h, m) \/ Resume(h, m)
    BY <1>1, <1>2, <2>1, SetEndingFollows DEF Cancel, Resume
  <2>2. CASE WriteIntent(h) \/ Apply(h)
    BY <1>1, <1>2, <2>2, WriteIntentFollows, ApplyFollows
  <2>3. CASE \E i \in 1..MaxEvents : Receive(h, i)
    BY <1>1, <1>2, <2>3, ReceiveFollows
  <2>4. ~Crash(h)
    BY DEF Crash
  <2>5. QED
    BY <1>5, <2>1, <2>2, <2>3, <2>4 DEF Service
<1>6. CASE UNCHANGED vars
  <2>1. Grows /\ Extends
    BY <1>6, NextIInv
  <2>2. QED
    BY <1>1, <1>2, <1>6, <2>1, AboutNone DEF vars
<1>7. QED
  BY <1>3, <1>4, <1>5, <1>6 DEF Next

\* With everything handled, the row shows what was told.
LEMMA QuiescentFollows == IInv /\ FInv => MirrorFollowsProvider
<1> SUFFICES ASSUME IInv, FollowInv, orderly, ~crossed, Quiescent, NEW m \in Members
             PROVE  Follows(m)
  BY DEF FInv, MirrorFollowsProvider
<1>1. \A i \in DOMAIN sent : Handled(i)
  BY DEF Quiescent, Handled, Idle
<1> SUFFICES ASSUME NEW s \in Subs, Started(s), provider[s].owner = m
             PROVE  IF IsAlive(s)
                    THEN Shows(m, s)
                    ELSE mirror[m].sub = s => ~Entitled(m)
  BY DEF Follows, Shows
<1>2. CASE IsAlive(s)
  BY <1>1, <1>2 DEF FollowInv, LivingTold
<1>3. CASE ~IsAlive(s)
  <2>1. provider[s].status = "canceled"
    <3>1. provider[s] \in ProviderRows
      BY StartedUsed DEF IInv
    <3>2. QED
      BY <1>3, <3>1 DEF ProviderRows, IsAlive, Started
  <2>2. PICK d \in DOMAIN sent : EndTold(s, d)
    BY <2>1 DEF FollowInv
  <2>3. HasRow(m) /\ mirror[m].sub = s => mirror[m].status = "canceled"
    BY <1>1, <2>2 DEF EndTold
  <2>4. Entitled(m) => HasRow(m) /\ mirror[m].status # "canceled"
    BY DEF Entitled, HasRow, NoRow
  <2>5. QED
    BY <1>3, <2>3, <2>4
<1>4. QED
  BY <1>2, <1>3

--------------------------------------------------------------------------------
(* Theorems *)

\* The invariant holds of every behaviour.
THEOREM Invariance == Spec => []IInv
BY InitIInv, NextIInv, PTL DEF Spec

LEMMA FInvariance == Spec => []FInv
BY InitFInv, NextFInv, Invariance, PTL DEF Spec

\* Handled in order and one request at a time, the mirror of premium_subscriptions
\* is exact once every event has been handled: markPastDue, applySubscription and
\* the member's own cancel and resume leave it as the provider has it.
THEOREM MirrorIsExact == Spec => []MirrorFollowsProvider
BY QuiescentFollows, Invariance, FInvariance, PTL

\* Provider rows, events, mirror rows and pending writes keep their types.
THEOREM BillingTypes == Spec => []TypeOK
<1>1. IInv => TypeOK
  BY DEF IInv
<1>2. QED
  BY <1>1, Invariance, PTL

\* However events are redelivered and handlers interleave or die, the handling of
\* an event (WebhookService.handle) writes at most once.
THEOREM AtMostOnce == Spec => []AppliedAtMostOnce
<1>1. IInv => AppliedAtMostOnce
  <2> SUFFICES ASSUME IInv, NEW i \in DOMAIN sent PROVE applied[i] <= 1
    BY DEF AppliedAtMostOnce
  <2>1. sent \in Seq(Events) /\ Len(sent) <= MaxEvents
    BY DEF IInv, TypeOK, EventsSound
  <2>2. i \in 1..MaxEvents
    BY <2>1, BillingBounds
  <2>3. QED
    BY <2>2 DEF IInv, WrittenOnce
<1>2. QED
  BY <1>1, Invariance, PTL

\* Whatever is lost, late or out of order, requirePremium lets a member in only
\* while a subscription of theirs was paid for until then.
THEOREM AccessIsBounded == Spec => []StaleAccessIsBounded
<1>1. IInv => StaleAccessIsBounded
  <2> SUFFICES ASSUME IInv, NEW m \in Members, Entitled(m)
               PROVE  \E s \in Subs : /\ Started(s) /\ provider[s].owner = m
                                      /\ provider[s].end >= now
    BY DEF StaleAccessIsBounded
  <2>1. HasRow(m)
    BY DEF Entitled, HasRow, NoRow
  <2>2. mirror[m].end \in Nat /\ Covered(m, mirror[m].end)
    BY <2>1 DEF IInv, MirrorSound, RowSound
  <2>3. mirror[m].end >= now /\ now \in Nat
    BY <2>2 DEF Entitled, NoDate, IInv, TypeOK
  <2>4. PICK s \in Subs : /\ Started(s) /\ provider[s].owner = m
                          /\ provider[s].end >= mirror[m].end
    BY <2>2 DEF Covered
  <2>5. provider[s].end \in Nat
    BY <2>4, StartedUsed DEF IInv, ProviderSound
  <2>6. QED
    BY <2>2, <2>3, <2>4, <2>5
<1>2. QED
  BY <1>1, Invariance, PTL
================================================================================
