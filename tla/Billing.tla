-------------------------------- MODULE Billing --------------------------------
(***************************************************************************)
(* Premium membership: the webhook handler that mirrors the billing        *)
(* provider into premium_subscriptions (modules/billing/webhook.service),  *)
(* the member's upgrade, cancel and resume (premium.service), the check    *)
(* that guards concierge routes (plugins/entitlements), and the provider   *)
(* as those use it (adapters/stripe/http-adapter).                         *)
(*                                                                         *)
(* The provider delivers an event at least once, in any order, and two     *)
(* handlers may run at a time.  Handling is two steps: Receive claims the  *)
(* event id and does the reads, Apply is the one write.  A redelivery of a *)
(* claimed event is acknowledged and changes nothing, so it is not a step. *)
(***************************************************************************)
EXTENDS Integers, Sequences, FiniteSets

CONSTANTS Handlers,        \* slots for requests in flight
          Members,
          Subs,            \* ids the provider may give to subscriptions
          MetaKept,        \* whether a later event still carries its metadata
          MaxEvents,       \* BOUND: events the provider emits
          MaxNow           \* BOUND: billing periods that pass

ASSUME BillingBounds ==
  MetaKept \subseteq BOOLEAN /\ MaxEvents \in Nat /\ MaxNow \in Nat

VARIABLES provider,        \* provider[s]: the provider's subscription s
          sent,            \* every event emitted, oldest first
          claimed,         \* stripe_events: the positions in sent claimed
          mirror,          \* mirror[m]: the premium_subscriptions row of m
          req,             \* req[h]: the write request h is about to make
          now,             \* the current billing period
          applied,         \* HISTORY applied[i]: times sent[i] was written
          orderly,         \* HISTORY: one request at a time, none crashed,
                           \*   events received as emitted
          crossed          \* HISTORY: a checkout or a final invoice met another
                           \*   living subscription of its member

vars == <<provider, sent, claimed, mirror, req, now, applied, orderly, crossed>>

Unused == [status |-> "unused"]
NoRow == [status |-> "none"]
Idle == [op |-> "idle"]
NoDate == -1

\* Stripe status to PremiumStatus.
ToPremiumStatus(status) ==
  CASE status \in {"trialing", "active", "past_due"} -> status
    [] status \in {"canceled", "paused"} -> "canceled"
    [] status = "incomplete" -> "past_due"
    [] OTHER -> "expired"

Alive == {"trialing", "active", "past_due", "unpaid"}
IsAlive(s) == provider[s].status \in Alive
Started(s) == provider[s].status \notin {"unused", "open"}
HasRow(m) == mirror[m] # NoRow

Init ==
  /\ provider = [s \in Subs |-> Unused]
  /\ sent = <<>>
  /\ claimed = {}
  /\ mirror = [m \in Members |-> NoRow]
  /\ req = [h \in Handlers |-> Idle]
  /\ now = 0
  /\ applied = [i \in 1..MaxEvents |-> 0]
  /\ orderly = TRUE
  /\ crossed = FALSE

--------------------------------------------------------------------------------
(* The provider, external to the code *)

Emit(events) ==
  /\ Len(sent) + Len(events) <= MaxEvents
  /\ sent' = sent \o events

\* toBillingSubscription of the subscription as row describes it; metadata,
\* which names the member and the price, may have been stripped.
Snapshot(type, s, row, meta) ==
  [type |-> type, sub |-> s, status |-> ToPremiumStatus(row.status),
   ending |-> row.ending, end |-> row.end, user |-> meta, priced |-> meta]

\* fromSessionSubscription: the member, no dates and no price.
Completed(s) ==
  [type |-> "checkout_completed", sub |-> s, status |-> "active",
   ending |-> FALSE, end |-> NoDate, user |-> TRUE, priced |-> FALSE]

PaymentFailed(s) ==
  [type |-> "payment_failed", sub |-> s, status |-> "past_due",
   ending |-> FALSE, end |-> NoDate, user |-> FALSE, priced |-> FALSE]

\* The member has another living subscription.
Meets(s) == \E t \in Subs \ {s} : IsAlive(t) /\ provider[t].owner = provider[s].owner

\* The member pays on the hosted page.
Complete(s) ==
  LET bought == [provider[s] EXCEPT
                   !.status = IF provider[s].trial THEN "trialing" ELSE "active",
                   !.end = now + 1]
  IN /\ provider[s].status = "open"
     /\ provider' = [provider EXCEPT ![s] = bought]
     /\ Emit(<<Completed(s), Snapshot("subscription_updated", s, bought, TRUE)>>)
     /\ crossed' = (crossed \/ Meets(s))
     /\ UNCHANGED <<claimed, mirror, req, now, applied, orderly>>

Change(s, row, events) ==
  /\ IsAlive(s)
  /\ provider' = [provider EXCEPT ![s] = row]
  /\ Emit(events)
  /\ UNCHANGED <<claimed, mirror, req, now, applied, orderly, crossed>>

\* The period closes and the next one is paid for.
Renew(s, meta) ==
  LET row == [provider[s] EXCEPT !.status = "active", !.end = now + 1]
  IN /\ IsAlive(s)
     /\ provider[s].end <= now
     /\ ~provider[s].ending
     /\ Change(s, row, <<Snapshot("subscription_updated", s, row, meta)>>)

\* A charge fails; the provider retries, or stops trying.
Dun(s, status, meta) ==
  LET row == [provider[s] EXCEPT !.status = status]
  IN /\ IsAlive(s)
     /\ provider[s].status # status
     /\ Change(s, row, <<PaymentFailed(s),
                         Snapshot("subscription_updated", s, row, meta)>>)

\* The scheduled cancellation falls due, or the provider gives up.
End(s, meta) ==
  LET row == [provider[s] EXCEPT !.status = "canceled"]
  IN /\ IsAlive(s)
     /\ \/ provider[s].ending /\ provider[s].end <= now
        \/ provider[s].status \in {"past_due", "unpaid"}
     /\ Change(s, row, <<Snapshot("subscription_deleted", s, row, meta)>>)

\* The last invoice of a canceled subscription fails too.
FinalInvoiceFails(s) ==
  /\ provider[s].status = "canceled"
  /\ Emit(<<PaymentFailed(s)>>)
  /\ crossed' = (crossed \/ Meets(s))
  /\ UNCHANGED <<provider, claimed, mirror, req, now, applied, orderly>>

Tick ==
  /\ now < MaxNow
  /\ now' = now + 1
  /\ UNCHANGED <<provider, sent, claimed, mirror, req, applied, orderly, crossed>>

--------------------------------------------------------------------------------
(* Premium service *)

\* upgrade: a new checkout, with a trial if the member never had a row.  It
\* writes nothing here, so its read and the provider's answer are one step.
Upgrade(m, s, startTrial) ==
  /\ provider[s] = Unused
  /\ mirror[m].status \notin {"active", "trialing"}
  /\ provider' = [provider EXCEPT ![s] =
       [status |-> "open", owner |-> m, ending |-> FALSE, end |-> NoDate,
        customer |-> IF HasRow(m) THEN mirror[m].customer ELSE s,
        trial |-> startTrial /\ ~HasRow(m)]]
  /\ UNCHANGED <<sent, claimed, mirror, req, now, applied, orderly, crossed>>

\* A request starts; alone, if things are to stay orderly.
Begin(h, request, inOrder) ==
  /\ req[h] = Idle
  /\ req' = [req EXCEPT ![h] = request]
  /\ orderly' = (orderly /\ inOrder /\ \A g \in Handlers : req[g] = Idle)

Finish(h) == req' = [req EXCEPT ![h] = Idle]

\* cancel and resume: the provider is told, and then the mirror.
SetEnding(h, m, ending) ==
  LET s   == mirror[m].sub
      row == [provider[s] EXCEPT !.ending = ending]
  IN /\ HasRow(m)
     /\ mirror[m].ending # ending
     /\ ending \/ mirror[m].status \notin {"canceled", "expired"}
     /\ IsAlive(s)
     /\ provider' = [provider EXCEPT ![s] = row]
     /\ Emit(<<Snapshot("subscription_updated", s, row, TRUE)>>)
     /\ Begin(h, [op |-> "intent", member |-> m, ending |-> ending,
                  end |-> IF ending THEN row.end ELSE NoDate], TRUE)
     /\ UNCHANGED <<claimed, mirror, now, applied, crossed>>

Cancel(h, m) == SetEnding(h, m, TRUE)
Resume(h, m) == SetEnding(h, m, FALSE)

\* A date the payload did not carry keeps the column as it is.
Keep(end, old) == IF end = NoDate THEN old ELSE end

WriteIntent(h) ==
  LET m == req[h].member
  IN /\ req[h].op = "intent"
     /\ mirror' = [mirror EXCEPT ![m].ending = req[h].ending,
                                 ![m].end = Keep(req[h].end, @)]
     /\ Finish(h)
     /\ UNCHANGED <<provider, sent, claimed, now, applied, orderly, crossed>>

--------------------------------------------------------------------------------
(* Webhook service *)

\* findMirror: the row of that subscription, else one of that customer.
FindMirror(s) ==
  LET bySub      == {m \in Members : HasRow(m) /\ mirror[m].sub = s}
      byCustomer == {m \in Members : HasRow(m)
                                     /\ mirror[m].customer = provider[s].customer}
  IN IF bySub # {} THEN bySub ELSE byCustomer

\* Wrong variant: only metadata names the member.
BugResolveUser(e) == IF e.user THEN {provider[e.sub].owner} ELSE {}

\* resolveUserId; at most one member.
ResolveUser(e) == IF e.user THEN {provider[e.sub].owner} ELSE FindMirror(e.sub)

\* The members whose row handling e will write: applySubscription needs a
\* price, from the event or the row; markPastDue spares a terminal status.
Targets(e) ==
  CASE e.type = "payment_failed" ->
         {m \in FindMirror(e.sub) : mirror[m].status \notin {"canceled", "expired"}}
    [] e.type = "subscription_deleted" -> ResolveUser(e)
    [] OTHER -> {m \in ResolveUser(e) : e.priced \/ HasRow(m)}

\* Wrong variant: no claim, so a redelivery is handled again.
BugUnclaimed(i) == TRUE

\* The insert into stripe_events succeeds.
Unclaimed(i) == i \notin claimed

\* Claim the event, and read what decides the write.
Receive(h, i) ==
  /\ i \in DOMAIN sent
  /\ Unclaimed(i)
  /\ claimed' = claimed \union {i}
  /\ Begin(h, IF Targets(sent[i]) = {} THEN Idle
              ELSE [op |-> "handle", event |-> i,
                    member |-> CHOOSE m \in Targets(sent[i]) : TRUE],
           i = Cardinality(claimed) + 1)
  /\ UNCHANGED <<provider, sent, mirror, now, applied, crossed>>

\* The row after applySubscription, endSubscription or markPastDue.
Written(e, old) ==
  CASE e.type = "payment_failed" -> [old EXCEPT !.status = "past_due"]
    [] e.type = "subscription_deleted" ->
         [old EXCEPT !.status = "canceled", !.ending = FALSE, !.end = Keep(e.end, @)]
    [] OTHER ->
         [status |-> e.status, sub |-> e.sub,
          customer |-> provider[e.sub].customer, ending |-> e.ending,
          end |-> IF old = NoRow THEN e.end ELSE Keep(e.end, old.end)]

\* The write, by user id; an update of a row that is not there fails, and
\* the event stays claimed.
Apply(h) ==
  LET i == req[h].event
      m == req[h].member
  IN /\ req[h].op = "handle"
     /\ IF HasRow(m) \/ sent[i].type \in {"checkout_completed", "subscription_updated"}
        THEN /\ mirror' = [mirror EXCEPT ![m] = Written(sent[i], @)]
             /\ applied' = [applied EXCEPT ![i] = @ + 1]
        ELSE UNCHANGED <<mirror, applied>>
     /\ Finish(h)
     /\ UNCHANGED <<provider, sent, claimed, now, orderly, crossed>>

\* The process dies between its two steps.
Crash(h) ==
  /\ req[h] # Idle
  /\ Finish(h)
  /\ orderly' = FALSE
  /\ UNCHANGED <<provider, sent, claimed, mirror, now, applied, crossed>>

--------------------------------------------------------------------------------
Provider ==
  \/ \E s \in Subs : Complete(s) \/ FinalInvoiceFails(s)
  \/ \E s \in Subs, meta \in MetaKept :
       \/ Renew(s, meta)
       \/ \E status \in {"past_due", "unpaid"} : Dun(s, status, meta)
       \/ End(s, meta)
  \/ Tick

Service(h) ==
  \/ \E m \in Members : Cancel(h, m) \/ Resume(h, m)
  \/ WriteIntent(h)
  \/ \E i \in 1..MaxEvents : Receive(h, i)
  \/ Apply(h)
  \/ Crash(h)

Next ==
  \/ Provider
  \/ \E m \in Members, s \in Subs, startTrial \in BOOLEAN : Upgrade(m, s, startTrial)
  \/ \E h \in Handlers : Service(h)

Spec == Init /\ [][Next]_vars

--------------------------------------------------------------------------------
(* The entitlement check *)

\* Wrong variant: the status alone decides.
BugEntitled(m) == mirror[m].status \in {"trialing", "active", "past_due"}

\* requirePremium: an entitled status and, where known, an open period.
Entitled(m) ==
  /\ mirror[m].status \in {"trialing", "active", "past_due"}
  /\ mirror[m].end = NoDate \/ mirror[m].end >= now

--------------------------------------------------------------------------------
PremiumStatuses == {"trialing", "active", "past_due", "canceled", "expired"}

ProviderRows ==
  [status : Alive \union {"open", "canceled"}, owner : Members, ending : BOOLEAN,
   end : Nat \union {NoDate}, customer : Subs, trial : BOOLEAN]

Events ==
  [type : {"checkout_completed", "subscription_updated", "subscription_deleted",
           "payment_failed"},
   sub : Subs, status : PremiumStatuses, ending : BOOLEAN,
   end : Nat \union {NoDate}, user : BOOLEAN, priced : BOOLEAN]

MirrorRows ==
  [status : PremiumStatuses, sub : Subs, customer : Subs, ending : BOOLEAN,
   end : Nat \union {NoDate}]

Writes ==
  [op : {"intent"}, member : Members, ending : BOOLEAN, end : Nat \union {NoDate}]
    \union [op : {"handle"}, event : 1..MaxEvents, member : Members]

\* Type invariant; an event being handled has been claimed.
TypeOK ==
  /\ provider \in [Subs -> ProviderRows \union {Unused}]
  /\ sent \in Seq(Events)
  /\ claimed \subseteq DOMAIN sent
  /\ mirror \in [Members -> MirrorRows \union {NoRow}]
  /\ req \in [Handlers -> Writes \union {Idle}]
  /\ now \in 0..MaxNow
  /\ applied \in [1..MaxEvents -> Nat]
  /\ orderly \in BOOLEAN /\ crossed \in BOOLEAN
  /\ \A h \in Handlers : req[h].op = "handle" => req[h].event \in claimed

\* The half of "Exactly once" that deliveries in any number and any order,
\* and crashes, leave standing: no event is written twice.
AppliedAtMostOnce == \A i \in DOMAIN sent : applied[i] <= 1

\* A member is let in only while some subscription of theirs was paid for
\* until then, however stale the mirror: lost deletions, late updates and
\* requests that overwrite each other buy nobody a period never billed.
StaleAccessIsBounded ==
  \A m \in Members :
    Entitled(m) =>
      \E s \in Subs : Started(s) /\ provider[s].owner = m /\ provider[s].end >= now

\* The mirror follows the provider: a living subscription is the one it shows,
\* as it is, and without one nobody is let in.
Follows(m) ==
  \A s \in Subs :
    Started(s) /\ provider[s].owner = m =>
      IF IsAlive(s)
      THEN /\ HasRow(m)
           /\ mirror[m].sub = s
           /\ mirror[m].status = ToPremiumStatus(provider[s].status)
           /\ mirror[m].ending = provider[s].ending
           /\ mirror[m].end = provider[s].end
      ELSE mirror[m].sub = s => ~Entitled(m)

Quiescent == claimed = DOMAIN sent /\ \A h \in Handlers : req[h] = Idle

\* "a mirror of the billing provider's state": exact once everything has
\* been handled, in order, one at a time, for members whose memberships follow
\* one another.  (The final invoice of an old one that fails under the next is
\* found by its customer, and marks the new row.)
MirrorFollowsProvider ==
  orderly /\ ~crossed /\ Quiescent => \A m \in Members : Follows(m)

\* "Members keep everything they paid for until the period closes": with
\* everything handled in order, an active membership lets its member in.
PaidMemberIsEntitled ==
  orderly /\ Quiescent =>
    \A s \in Subs :
      provider[s].status \in {"trialing", "active"} /\ provider[s].end >= now
        => Entitled(provider[s].owner)
================================================================================
