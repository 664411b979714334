----------------------------- MODULE DetectionProofs -----------------------------
(***************************************************************************)
(* The jobs and requests that find rows and write them some statements     *)
(* later, for every number of each: subscription detection with its        *)
(* alerts, bill detection with reminders and cases, and what staff do to   *)
(* merchants beside it.  What a run has read is tied to the table by what  *)
(* may have been written since: nothing when it is alone, and only by      *)
(* those that have met it when it is not.  And the engine itself, over     *)
(* every history of charges.                                               *)
(***************************************************************************)
EXTENDS Detection, Bills, Staff, SeriesWalk, Induction,
        FiniteSetTheorems, SequenceTheorems, TLAPS

--------------------------------------------------------------------------------
(* Detection: the invariant *)

InAlerts(r) == runs[r].pc \in {"unread", "record"}

\* The drafts of a run are about one row, one of a type.
DraftsSound(drafts) ==
  /\ IsFiniteSet(drafts)
  /\ \A d \in drafts : d.sub \in Rows
  /\ \A d, e \in drafts : d.sub = e.sub /\ (d.type = e.type => d = e)

RowStates(row) ==
  [amount : {row.amount}, status : {"active", "paused", "deleted"}, priceChangedAt : BOOLEAN]

RunSound(q) ==
  /\ q.pc \in {"find", "write"} => q.series.changed \in BOOLEAN
  /\ q.pc = "write" => /\ q.row \in Rows \union {NoRow}
                       /\ q.row # NoRow => q.found[1].priceChangedAt \in BOOLEAN
  /\ q.pc \in {"unread", "record"} => DraftsSound(q.drafts)

\* What TLC would check as types: rows, alerts and runs keep their form.
FormInv ==
  /\ subs \in Seq(Range(subs)) /\ alerts \in Seq(Range(alerts))
  /\ \A s \in Rows : subs[s] \in RowStates(subs[s])
  /\ \A i \in DOMAIN alerts : alerts[i].sub \in Rows
  /\ DOMAIN runs = Runs /\ runs = [r \in Runs |-> runs[r]]
  /\ \A r \in Runs : RunSound(runs[r])
  /\ met \in BOOLEAN /\ cut \in BOOLEAN

Told(type, s) == \E i \in DOMAIN alerts : alerts[i].type = type /\ alerts[i].sub = s
Telling(type, s) ==
  \E r \in Runs : InAlerts(r) /\ \E d \in runs[r].drafts : d.type = type /\ d.sub = s

\* What is known to the run that writes.
Foreseen(q) ==
  IF q.row = NoRow THEN Live = {}
  ELSE q.found[1].priceChangedAt = subs[q.row].priceChangedAt

\* One run at a time finds one row, and drafts what nobody has been told.
SoloInv ==
  ~met =>
    /\ \A r, q \in Runs : runs[r].pc # "idle" /\ runs[q].pc # "idle" => r = q
    /\ \A s, t \in Live : s = t
    /\ \A r \in Runs : runs[r].pc = "write" => Foreseen(runs[r])
    /\ \A i, j \in DOMAIN alerts :
         alerts[i].type = alerts[j].type /\ alerts[i].sub = alerts[j].sub => i = j
    /\ \A r \in Runs : InAlerts(r) => \A d \in runs[r].drafts : ~Told(d.type, d.sub)
    /\ \A s \in Rows : ~subs[s].priceChangedAt =>
         ~Told("price_increase", s) /\ ~Telling("price_increase", s)

\* What has been read as told was, and what has not been told is being told.
ToldInv ==
  /\ \A r \in Runs : runs[r].pc = "record" =>
       \A d \in runs[r].drafts : DedupKey(d) \in runs[r].seen => Told(d.type, d.sub)
  /\ ~cut => \A s \in Rows :
       /\ Told("new_subscription_detected", s) \/ Telling("new_subscription_detected", s)
       /\ subs[s].priceChangedAt =>
            Told("price_increase", s) \/ Telling("price_increase", s)

--------------------------------------------------------------------------------
(* Sequences and sets *)

\* What is a function on an initial segment is a sequence of what it takes.
LEMMA SeqForm ==
  ASSUME NEW t, NEW n \in Nat, t = [i \in 1..n |-> t[i]]
  PROVE  t \in Seq(Range(t)) /\ Len(t) = n /\ DOMAIN t = 1..n
<1>1. DOMAIN t = 1..n
  OBVIOUS
<1>2. \A i \in 1..n : t[i] \in Range(t)
  BY <1>1 DEF Range
<1>3. t \in [1..n -> Range(t)]
  BY <1>1, <1>2
<1>4. QED
  BY <1>1, <1>3

LEMMA OfSeq ==
  ASSUME NEW T, NEW s \in Seq(T)
  PROVE  Len(s) \in Nat /\ DOMAIN s = 1..Len(s) /\ s = [i \in 1..Len(s) |-> s[i]]
OBVIOUS

\* A sequence with one element replaced.
Updated(s, i, x) == [s EXCEPT ![i] = x]

LEMMA ExceptForm ==
  ASSUME NEW s, s \in Seq(Range(s)), NEW i \in 1..Len(s), NEW x, NEW t, t = Updated(s, i, x)
  PROVE  /\ t \in Seq(Range(t)) /\ Len(t) = Len(s) /\ DOMAIN t = 1..Len(s)
         /\ t[i] = x
         /\ \A j \in 1..Len(s) : j # i => t[j] = s[j]
<1>1. Len(s) \in Nat /\ DOMAIN s = 1..Len(s)
  OBVIOUS
<1>2. t = [j \in 1..Len(s) |-> t[j]] /\ t[i] = x /\ \A j \in 1..Len(s) : j # i => t[j] = s[j]
  BY <1>1 DEF Updated
<1>3. QED
  BY <1>1, <1>2, SeqForm

\* A finite set as a sequence: each element once.
LEMMA SetToSeqForm ==
  ASSUME NEW S, IsFiniteSet(S)
  PROVE  /\ SetToSeq(S) \in Seq(S)
         /\ \A i, j \in 1..Len(SetToSeq(S)) : SetToSeq(S)[i] = SetToSeq(S)[j] => i = j
         /\ \A x \in S : \E i \in 1..Len(SetToSeq(S)) : SetToSeq(S)[i] = x
<1>1. PICK n \in Nat : n = Cardinality(S)
  BY FS_CardinalityType
<1>2. \E f \in [1..n -> S] : IsInjective(f)
  <2>1. PICK f : f \in Bijection(1..n, S)
    BY <1>1, FS_CardinalityType DEF ExistsBijection
  <2>2. f \in [1..n -> S] /\ IsInjective(f)
    BY <2>1 DEF Bijection, Injection
  <2>3. QED
    BY <2>2
<1>3. PICK f : f = SetToSeq(S)
  OBVIOUS
<1>4. f \in [1..n -> S] /\ IsInjective(f)
  BY <1>1, <1>2, <1>3 DEF SetToSeq
<1>5. f \in Seq(S) /\ Len(f) = n
  BY <1>4
<1>6. \A i, j \in 1..n : f[i] = f[j] => i = j
  BY <1>4 DEF IsInjective
<1>7. \A x \in S : \E i \in 1..n : f[i] = x
  <2>1. f \in Injection(1..n, S)
    BY <1>4 DEF Injection
  <2>2. Cardinality(1..n) = Cardinality(S)
    BY <1>1, FS_Interval
  <2>3. f \in Surjection(1..n, S)
    BY <2>1, <2>2, FS_Injection
  <2>4. QED
    BY <2>3 DEF Surjection
<1>8. QED
  BY <1>3, <1>5, <1>6, <1>7

\* At most one element.
LEMMA AtMostOne ==
  ASSUME NEW S, \A x, y \in S : x = y
  PROVE  IsFiniteSet(S) /\ Cardinality(S) \in Nat /\ Cardinality(S) <= 1
<1>1. CASE S = {}
  BY <1>1, FS_EmptySet
<1>2. CASE S # {}
  <2>1. PICK x : S = {x}
    BY <1>2
  <2>2. IsFiniteSet({x}) /\ Cardinality({x}) = 1
    BY FS_Singleton
  <2>3. QED
    BY <2>1, <2>2
<1>3. QED
  BY <1>1, <1>2

--------------------------------------------------------------------------------
(* Detection: what steps leave standing *)

DInv == FormInv /\ SoloInv /\ ToldInv

LEMMA PutRun ==
  ASSUME FormInv, NEW r \in Runs, NEW q, runs' = [runs EXCEPT ![r] = q]
  PROVE  /\ DOMAIN runs' = Runs /\ runs' = [o \in Runs |-> runs'[o]]
         /\ runs'[r] = q /\ \A o \in Runs \ {r} : runs'[o] = runs[o]
BY DEF FormInv

LEMMA IdleRun == NoRun.pc = "idle" /\ RunSound(NoRun)
BY DEF NoRun, RunSound

\* A run moves on without writing: it keeps its drafts, if it has any, or dies.
LEMMA MoveStep ==
  ASSUME DInv, NEW r \in Runs, NEW q, runs' = [runs EXCEPT ![r] = q],
         UNCHANGED <<subs, alerts>>, met' \in BOOLEAN, cut' \in BOOLEAN,
         met => met', cut => cut',
         RunSound(q),
         ~met' /\ q.pc # "idle" => \A o \in Runs \ {r} : runs[o].pc = "idle",
         ~met' /\ q.pc = "write" => Foreseen(q),
         q.pc \in {"unread", "record"} => InAlerts(r) /\ q.drafts = runs[r].drafts,
         q.pc = "record" => \A d \in q.drafts : DedupKey(d) \in q.seen => Told(d.type, d.sub),
         q.pc \notin {"unread", "record"} => cut' \/ ~InAlerts(r) \/ runs[r].drafts = {}
  PROVE  DInv'
<1>1. FormInv /\ SoloInv /\ ToldInv
  BY DEF DInv
<1>2. /\ DOMAIN runs' = Runs /\ runs' = [o \in Runs |-> runs'[o]]
      /\ runs'[r] = q /\ \A o \in Runs \ {r} : runs'[o] = runs[o]
  BY <1>1, PutRun
<1>3. \A o \in Runs : RunSound(runs[o]) /\ Rows' = Rows /\ Live' = Live
  BY <1>1 DEF FormInv, Rows, Live
<1>4. FormInv'
  <2>1. \A o \in Runs : RunSound(runs[o])'
    <3>1. \A v : RunSound(v) => RunSound(v)'
      BY DEF RunSound, DraftsSound, Rows
    <3>2. \A o \in Runs : RunSound(runs'[o])
      BY <1>2, <1>3
    <3>3. QED
      BY <3>2 DEF RunSound, DraftsSound, Rows
  <2>2. QED
    BY <1>1, <1>2, <2>1 DEF FormInv, RowStates, Rows
<1>5. \A type, s : Told(type, s)' <=> Told(type, s)
  BY DEF Told
<1>6. \A o \in Runs : InAlerts(o)' => InAlerts(o) /\ runs'[o].drafts = runs[o].drafts
  BY <1>2 DEF InAlerts
<1>7. SoloInv'
  <2> SUFFICES ASSUME ~met' PROVE SoloInv'
    BY DEF SoloInv
  <2>1. ~met
    OBVIOUS
  <2>2. \A o, p \in Runs : runs'[o].pc # "idle" /\ runs'[p].pc # "idle" => o = p
    <3>1. CASE q.pc # "idle"
      BY <1>2, <3>1
    <3>2. CASE q.pc = "idle"
      BY <1>1, <1>2, <2>1, <3>2 DEF SoloInv
    <3>3. QED
      BY <3>1, <3>2
  <2>3. \A s, t \in Live' : s = t
    BY <1>1, <2>1 DEF SoloInv, Live, Rows
  <2>4. \A o \in Runs : runs'[o].pc = "write" => Foreseen(runs[o])'
    <3>1. \A o \in Runs : runs'[o].pc = "write" => Foreseen(runs'[o])
      BY <1>1, <1>2, <2>1 DEF SoloInv
    <3>2. QED
      BY <3>1 DEF Foreseen, Live, Rows
  <2>5. \A i, j \in DOMAIN alerts' :
          alerts'[i].type = alerts'[j].type /\ alerts'[i].sub = alerts'[j].sub => i = j
    BY <1>1, <2>1 DEF SoloInv
  <2>6. \A o \in Runs : InAlerts(o)' => \A d \in runs'[o].drafts : ~Told(d.type, d.sub)'
    BY <1>1, <1>6, <2>1 DEF SoloInv, Told
  <2>7. \A s \in Rows' : ~subs'[s].priceChangedAt =>
           ~Told("price_increase", s)' /\ ~Telling("price_increase", s)'
    BY <1>1, <1>6, <2>1 DEF SoloInv, Told, Telling, Rows
  <2>8. QED
    BY <2>2, <2>3, <2>4, <2>5, <2>6, <2>7 DEF SoloInv
<1>8. ToldInv'
  <2>1. \A o \in Runs : runs'[o].pc = "record" =>
          \A d \in runs'[o].drafts : DedupKey(d) \in runs'[o].seen => Told(d.type, d.sub)'
    <3>1. \A o \in Runs : runs'[o].pc = "record" =>
            \A d \in runs'[o].drafts : DedupKey(d) \in runs'[o].seen => Told(d.type, d.sub)
      BY <1>1, <1>2 DEF ToldInv
    <3>2. QED
      BY <3>1 DEF Told
  <2>2. ~cut' => \A type, s : Telling(type, s) => Telling(type, s)'
    <3> SUFFICES ASSUME ~cut', NEW type, NEW s, Telling(type, s) PROVE Telling(type, s)'
      OBVIOUS
    <3>1. PICK o \in Runs : InAlerts(o) /\ \E d \in runs[o].drafts : d.type = type /\ d.sub = s
      BY DEF Telling
    <3>2. InAlerts(o)' /\ runs'[o].drafts = runs[o].drafts
      BY <1>2, <3>1 DEF InAlerts
    <3>3. QED
      BY <3>1, <3>2 DEF Telling
  <2>3. ASSUME ~cut', NEW s \in Rows'
        PROVE  /\ Told("new_subscription_detected", s)' \/ Telling("new_subscription_detected", s)'
               /\ subs'[s].priceChangedAt =>
                    Told("price_increase", s)' \/ Telling("price_increase", s)'
    <3>1. s \in Rows /\ ~cut
      BY <2>3 DEF Rows
    <3>2. QED
      BY <1>1, <1>5, <2>2, <2>3, <3>1 DEF ToldInv
  <2>4. QED
    BY <2>1, <2>3 DEF ToldInv
<1>9. QED
  BY <1>4, <1>7, <1>8 DEF DInv

\* Nothing of the runs, the rows and the alerts changes.
LEMMA StillStep ==
  ASSUME DInv, UNCHANGED <<subs, alerts, runs, met, cut>>
  PROVE  DInv'
BY DEF DInv, FormInv, RowStates, RunSound, DraftsSound, Rows, SoloInv, Live, Foreseen, ToldInv,
   Told, Telling, InAlerts

--------------------------------------------------------------------------------
(* Detection: runs *)

LEMMA BeginRunStep ==
  ASSUME DInv, NEW r \in Runs, BeginRun(r)
  PROVE  DInv'
<1>1. PICK series \in DetectSubscription(Transactions, Today) :
        runs' = [runs EXCEPT ![r] = [pc |-> "find", series |-> series]]
  BY DEF BeginRun
<1>2. series.changed \in BOOLEAN
  <2>1. \A txns : PriceChanged(Amounts(txns)) \in BOOLEAN
    BY DEF PriceChanged
  <2>2. PICK txns, amount, changed, previous, next, isActive :
          /\ series = [amount |-> amount, changed |-> changed, previous |-> previous,
                       next |-> next, isActive |-> isActive]
          /\ changed = PriceChanged(Amounts(txns))
    BY DEF DetectSubscription
  <2>3. QED
    BY <2>1, <2>2
<1>3. PICK q : q = [pc |-> "find", series |-> series]
  OBVIOUS
<1>4. q.pc = "find" /\ RunSound(q)
  BY <1>2, <1>3 DEF RunSound
<1>5. /\ runs[r].pc = "idle" /\ UNCHANGED <<subs, alerts, cut>>
      /\ met' = (met \/ \E o \in Runs : runs[o].pc # "idle")
  BY DEF BeginRun
<1>6. met' \in BOOLEAN /\ cut' \in BOOLEAN /\ (met => met')
      /\ (~met' => \A o \in Runs : runs[o].pc = "idle")
  BY <1>5 DEF DInv, FormInv
<1>7. ~InAlerts(r)
  BY <1>5 DEF InAlerts
<1>8. QED
  BY <1>1, <1>3, <1>4, <1>5, <1>6, <1>7, MoveStep

LEMMA FindRowStep ==
  ASSUME DInv, NEW r \in Runs, FindRow(r)
  PROVE  DInv'
<1>1. runs[r].pc = "find" /\ UNCHANGED <<subs, alerts, met, cut>>
  BY DEF FindRow
<1>2. PICK s \in IF Live = {} THEN {NoRow} ELSE Live :
        runs' = [runs EXCEPT ![r] =
          [pc |-> "write", series |-> runs[r].series, row |-> s,
           found |-> IF s = NoRow THEN <<>> ELSE <<subs[s]>>]]
  BY DEF FindRow, DInv, FormInv
<1>3. PICK found : found = IF s = NoRow THEN <<>> ELSE <<subs[s]>>
  OBVIOUS
<1>4. PICK q : q = [pc |-> "write", series |-> runs[r].series, row |-> s, found |-> found]
  OBVIOUS
<1>5. q.pc = "write" /\ q.series = runs[r].series /\ q.row = s /\ q.found = found
  BY <1>4
<1>6. s # NoRow => s \in Live /\ s \in Rows /\ found[1] = subs[s]
  BY <1>2, <1>3 DEF Live
<1>7. s = NoRow => Live = {}
  <2>1. NoRow \notin Live
    BY DEF NoRow, Live, Rows
  <2>2. QED
    BY <1>2, <2>1
<1>8. RunSound(q)
  BY <1>1, <1>5, <1>6 DEF RunSound, DInv, FormInv, RowStates
<1>9. Foreseen(q)
  BY <1>5, <1>6, <1>7 DEF Foreseen
<1>10. ~met' => \A o \in Runs \ {r} : runs[o].pc = "idle"
  BY <1>1 DEF DInv, SoloInv
<1>11. ~InAlerts(r)
  BY <1>1 DEF InAlerts
<1>12. runs' = [runs EXCEPT ![r] = q] /\ met' \in BOOLEAN /\ cut' \in BOOLEAN
  BY <1>1, <1>2, <1>3, <1>4 DEF DInv, FormInv
<1>13. QED
  BY <1>1, <1>5, <1>8, <1>9, <1>10, <1>11, <1>12, MoveStep

LEMMA UpdateThrowsStep ==
  ASSUME DInv, NEW r \in Runs, UpdateThrows(r)
  PROVE  DInv'
<1>1. /\ runs[r].pc = "write" /\ UNCHANGED <<subs, alerts, met, cut>>
      /\ runs' = [runs EXCEPT ![r] = NoRun]
  BY DEF UpdateThrows
<1>2. ~InAlerts(r) /\ met' \in BOOLEAN /\ cut' \in BOOLEAN
  BY <1>1 DEF InAlerts, DInv, FormInv
<1>3. QED
  BY <1>1, <1>2, IdleRun, MoveStep

LEMMA ReadUnreadStep ==
  ASSUME DInv, NEW r \in Runs, ReadUnread(r)
  PROVE  DInv'
<1>1. runs[r].pc = "unread" /\ UNCHANGED <<subs, alerts, met, cut>>
  BY DEF ReadUnread
<1>2. PICK seen : seen = {DedupKey(a) : a \in Range(alerts)}
  OBVIOUS
<1>3. PICK q : q = [pc |-> "record", drafts |-> runs[r].drafts, seen |-> seen]
  OBVIOUS
<1>4. q.pc = "record" /\ q.drafts = runs[r].drafts /\ q.seen = seen
  BY <1>3
<1>5. runs' = [runs EXCEPT ![r] = q] /\ met' \in BOOLEAN /\ cut' \in BOOLEAN
  BY <1>1, <1>2, <1>3 DEF ReadUnread, DInv, FormInv
<1>6. RunSound(q)
  BY <1>1, <1>4 DEF DInv, FormInv, RunSound
<1>7. \A d \in q.drafts : DedupKey(d) \in q.seen => Told(d.type, d.sub)
  <2> SUFFICES ASSUME NEW d, DedupKey(d) \in seen PROVE Told(d.type, d.sub)
    BY <1>4
  <2>1. PICK i \in DOMAIN alerts : DedupKey(d) = DedupKey(alerts[i])
    BY <1>2 DEF Range
  <2>2. d.type = alerts[i].type /\ d.sub = alerts[i].sub
    BY <2>1 DEF DedupKey
  <2>3. QED
    BY <2>2 DEF Told
<1>8. ~met' => \A o \in Runs \ {r} : runs[o].pc = "idle"
  BY <1>1 DEF DInv, SoloInv
<1>9. InAlerts(r)
  BY <1>1 DEF InAlerts
<1>10. QED
  BY <1>1, <1>4, <1>5, <1>6, <1>7, <1>8, <1>9, MoveStep

LEMMA CrashRunStep ==
  ASSUME DInv, NEW r \in Runs, CrashRun(r)
  PROVE  DInv'
<1>1. /\ UNCHANGED <<subs, alerts, met>>
      /\ runs' = [runs EXCEPT ![r] = NoRun]
      /\ cut' = (cut \/ (runs[r].pc \in {"unread", "record"} /\ runs[r].drafts # {}))
  BY DEF CrashRun
<1>2. met' \in BOOLEAN /\ cut' \in BOOLEAN /\ (cut => cut')
      /\ (cut' \/ ~InAlerts(r) \/ runs[r].drafts = {})
  BY <1>1 DEF InAlerts, DInv, FormInv
<1>3. QED
  BY <1>1, <1>2, IdleRun, MoveStep

\* What a write of row s by a run does that then announces the drafts.
Writes(s, drafts) ==
  /\ Rows' = Rows \union {s} /\ subs'[s] \in RowStates(subs'[s])
  /\ \A t \in Rows \ {s} : subs'[t] = subs[t]
  /\ \A d \in drafts : d.sub = s
  /\ \A d, e \in drafts : d.type = e.type => d = e
  /\ ~met => /\ \A d \in drafts : ~Told(d.type, s)
             /\ \A t \in Live' : t = s
  /\ s \notin Rows => \E d \in drafts : d.type = "new_subscription_detected"
  /\ s \in Rows /\ subs[s].priceChangedAt => subs'[s].priceChangedAt
  /\ subs'[s].priceChangedAt => \/ s \in Rows /\ subs[s].priceChangedAt
                                \/ \E d \in drafts : d.type = "price_increase"
  /\ ~subs'[s].priceChangedAt => \A d \in drafts : d.type # "price_increase"

LEMMA WroteRow ==
  ASSUME DInv, NEW r \in Runs, runs[r].pc = "write",
         NEW q, runs' = [runs EXCEPT ![r] = q], q.pc = "unread",
         UNCHANGED <<alerts, met, cut>>,
         subs' \in Seq(Range(subs')), IsFiniteSet(q.drafts),
         NEW s, Writes(s, q.drafts)
  PROVE  DInv'
<1>1. FormInv /\ SoloInv /\ ToldInv
  BY DEF DInv
<1>2. /\ DOMAIN runs' = Runs /\ runs' = [o \in Runs |-> runs'[o]]
      /\ runs'[r] = q /\ \A o \in Runs \ {r} : runs'[o] = runs[o]
  BY <1>1, PutRun
<1>0. /\ Rows' = Rows \union {s} /\ subs'[s] \in RowStates(subs'[s])
      /\ \A t \in Rows \ {s} : subs'[t] = subs[t]
      /\ \A d \in q.drafts : d.sub = s
      /\ \A d, e \in q.drafts : d.type = e.type => d = e
      /\ ~met => /\ \A d \in q.drafts : ~Told(d.type, s)
                 /\ \A t \in Live' : t = s
      /\ s \notin Rows => \E d \in q.drafts : d.type = "new_subscription_detected"
      /\ s \in Rows /\ subs[s].priceChangedAt => subs'[s].priceChangedAt
      /\ subs'[s].priceChangedAt => \/ s \in Rows /\ subs[s].priceChangedAt
                                    \/ \E d \in q.drafts : d.type = "price_increase"
      /\ ~subs'[s].priceChangedAt => \A d \in q.drafts : d.type # "price_increase"
  BY DEF Writes
<1>3. Rows \subseteq Rows' /\ \A t \in Rows' : t \in Rows \/ t = s
  BY <1>0
<1>4. \A type, t : Told(type, t)' <=> Told(type, t)
  BY DEF Told
<1>5. \A type : Told(type, s) => s \in Rows
  BY <1>1 DEF Told, FormInv
<1>6. InAlerts(r)' /\ ~InAlerts(r) /\ \A o \in Runs \ {r} : InAlerts(o)' <=> InAlerts(o)
  BY <1>2 DEF InAlerts
<1>7. \A type, t : Telling(type, t) => Telling(type, t)'
  <2> SUFFICES ASSUME NEW type, NEW t, Telling(type, t) PROVE Telling(type, t)'
    OBVIOUS
  <2>1. PICK o \in Runs : InAlerts(o) /\ \E d \in runs[o].drafts : d.type = type /\ d.sub = t
    BY DEF Telling
  <2>2. o # r /\ InAlerts(o)' /\ runs'[o].drafts = runs[o].drafts
    BY <1>2, <1>6, <2>1
  <2>3. QED
    BY <2>1, <2>2 DEF Telling
<1>8. \A type : (\E d \in q.drafts : d.type = type) => Telling(type, s)'
  BY <1>0, <1>2, <1>6 DEF Telling
<1>9. FormInv'
  <2>1. \A t \in Rows' : subs'[t] \in RowStates(subs'[t])
    BY <1>1, <1>3, <1>0 DEF FormInv
  <2>2. \A i \in DOMAIN alerts' : alerts'[i].sub \in Rows'
    BY <1>1, <1>3 DEF FormInv
  <2>3. ASSUME NEW o \in Runs PROVE RunSound(runs[o])'
    <3>1. CASE o = r
      <4>1. DraftsSound(q.drafts)'
        BY <1>3, <3>1, <1>2, <1>0 DEF DraftsSound
      <4>2. DraftsSound(runs[o].drafts)'
        BY <1>2, <3>1, <4>1 DEF DraftsSound
      <4>3. runs'[o].pc = "unread"
        BY <1>2, <3>1
      <4>4. QED
        BY <4>2, <4>3 DEF RunSound
    <3>2. CASE o # r
      <4>1. RunSound(runs[o]) /\ runs'[o] = runs[o]
        BY <1>1, <1>2, <3>2 DEF FormInv
      <4>2. DraftsSound(runs[o].drafts) => DraftsSound(runs[o].drafts)'
        BY <1>3, <4>1 DEF DraftsSound
      <4>3. QED
        BY <1>3, <4>1, <4>2 DEF RunSound
    <3>3. QED
      BY <3>1, <3>2
  <2>4. QED
    BY <1>1, <1>2, <2>1, <2>2, <2>3 DEF FormInv
<1>10. SoloInv'
  <2> SUFFICES ASSUME ~met PROVE SoloInv'
    BY DEF SoloInv
  <2>1. \A o \in Runs \ {r} : runs[o].pc = "idle" /\ runs'[o].pc = "idle"
    BY <1>1, <1>2 DEF SoloInv
  <2>2. \A o, p \in Runs : runs'[o].pc # "idle" /\ runs'[p].pc # "idle" => o = p
    BY <2>1
  <2>3. \A t, u \in Live' : t = u
    BY <1>0
  <2>4. \A o \in Runs : runs'[o].pc # "write"
    BY <1>2, <2>1
  <2>5. \A i, j \in DOMAIN alerts' :
          alerts'[i].type = alerts'[j].type /\ alerts'[i].sub = alerts'[j].sub => i = j
    BY <1>1 DEF SoloInv
  <2>6. ASSUME NEW o \in Runs, InAlerts(o)', NEW d \in runs'[o].drafts
        PROVE  ~Told(d.type, d.sub)'
    <3>1. o = r
      BY <1>6, <2>1, <2>6 DEF InAlerts
    <3>2. ~Told(d.type, s) /\ d.sub = s
      BY <1>2, <1>0, <3>1, <2>6
    <3>3. QED
      BY <3>2 DEF Told
  <2>7. ASSUME NEW t \in Rows', ~subs'[t].priceChangedAt
        PROVE  ~Told("price_increase", t)' /\ ~Telling("price_increase", t)'
    <3>1. \A o \in Runs : InAlerts(o)' => o = r
      BY <2>1, <1>6 DEF InAlerts
    <3>2. Telling("price_increase", t)' => t = s /\ \E d \in q.drafts : d.type = "price_increase"
      BY <1>0, <1>2, <3>1 DEF Telling
    <3>3. ~Telling("price_increase", t)'
      BY <1>0, <3>2, <2>7
    <3>4. ~Told("price_increase", t)
      <4>1. CASE t # s
        BY <1>1, <1>3, <1>0, <2>7, <4>1 DEF SoloInv
      <4>2. CASE t = s
        BY <1>1, <1>5, <1>0, <2>7, <4>2 DEF SoloInv
      <4>3. QED
        BY <4>1, <4>2
    <3>5. QED
      BY <1>4, <3>3, <3>4
  <2>8. QED
    BY <2>2, <2>3, <2>4, <2>5, <2>6, <2>7 DEF SoloInv
<1>11. ToldInv'
  <2>1. \A o \in Runs : runs'[o].pc = "record" =>
          \A d \in runs'[o].drafts : DedupKey(d) \in runs'[o].seen => Told(d.type, d.sub)'
    <3>1. \A o \in Runs : runs'[o].pc = "record" => runs'[o] = runs[o]
      BY <1>2
    <3>2. \A o \in Runs : runs'[o].pc = "record" =>
            \A d \in runs'[o].drafts : DedupKey(d) \in runs'[o].seen => Told(d.type, d.sub)
      BY <1>1, <3>1 DEF ToldInv
    <3>3. QED
      BY <3>2 DEF Told
  <2>2. ASSUME ~cut, NEW t \in Rows'
        PROVE  /\ Told("new_subscription_detected", t)' \/ Telling("new_subscription_detected", t)'
               /\ subs'[t].priceChangedAt =>
                    Told("price_increase", t)' \/ Telling("price_increase", t)'
    <3>1. CASE t \in Rows
      <4>1. /\ Told("new_subscription_detected", t) \/ Telling("new_subscription_detected", t)
            /\ subs[t].priceChangedAt =>
                 Told("price_increase", t) \/ Telling("price_increase", t)
        BY <1>1, <2>2, <3>1 DEF ToldInv
      <4>2. subs'[t].priceChangedAt => subs[t].priceChangedAt \/ Telling("price_increase", t)'
        BY <1>8, <1>0, <3>1
      <4>3. QED
        BY <1>4, <1>7, <4>1, <4>2
    <3>2. CASE t \notin Rows
      <4>1. t = s
        BY <1>3, <3>2
      <4>2. QED
        BY <1>8, <1>0, <3>2, <4>1
    <3>3. QED
      BY <3>1, <3>2
  <2>3. QED
    BY <2>1, <2>2 DEF ToldInv
<1>12. QED
  BY <1>9, <1>10, <1>11 DEF DInv

LEMMA CreateRowStep ==
  ASSUME DInv, NEW r \in Runs, CreateRow(r)
  PROVE  DInv'
<1>1. FormInv /\ SoloInv /\ RunSound(runs[r])
  BY DEF DInv, FormInv
<1>2. PICK series : series = runs[r].series
  OBVIOUS
<1>3. PICK n : n = Len(subs) + 1
  OBVIOUS
<1>4. PICK x : x = [amount |-> series.amount, status |-> "active", priceChangedAt |-> series.changed]
  OBVIOUS
<1>5. PICK more : more = IF series.changed THEN {PriceDraft(n, series)} ELSE {}
  OBVIOUS
<1>6. PICK q : q = [pc |-> "unread", drafts |-> {NewDraft(n)} \union more]
  OBVIOUS
<1>7. /\ runs[r].pc = "write" /\ runs[r].row = NoRow
      /\ subs' = Append(subs, x) /\ runs' = [runs EXCEPT ![r] = q]
      /\ UNCHANGED <<alerts, met, cut>>
  BY <1>2, <1>3, <1>4, <1>5, <1>6 DEF CreateRow
<1>8. series.changed \in BOOLEAN
  BY <1>1, <1>2, <1>7 DEF RunSound
<1>9. subs \in Seq(Range(subs)) /\ Len(subs) \in Nat
  BY <1>1 DEF FormInv
<1>10. /\ subs' \in Seq(Range(subs')) /\ Len(subs') = n
       /\ \A i \in 1..Len(subs) : subs'[i] = subs[i]
       /\ subs'[n] = x
  <2>1. PICK u : u = subs
    OBVIOUS
  <2>2. PICK t : t = Append(u, x)
    OBVIOUS
  <2>3. u \in Seq(Range(u))
    BY <1>9, <2>1
  <2>4. /\ t \in Seq(Range(t)) /\ Len(t) = Len(u) + 1
        /\ \A i \in 1..Len(u) : t[i] = u[i]
        /\ t[Len(u) + 1] = x
    <3>1. u \in Seq(Range(u) \union {x}) /\ x \in Range(u) \union {x}
      BY <2>3
    <3>2. /\ t \in Seq(Range(u) \union {x}) /\ Len(t) = Len(u) + 1
          /\ \A i \in 1..Len(u) : t[i] = u[i]
          /\ t[Len(u) + 1] = x
      BY <2>2, <3>1
    <3>3. Len(t) \in Nat /\ t = [i \in 1..Len(t) |-> t[i]]
      BY <3>2, OfSeq
    <3>4. QED
      BY <3>2, <3>3, SeqForm
  <2>5. subs' = t
    BY <1>7, <2>1, <2>2
  <2>6. QED
    BY <1>3, <2>1, <2>4, <2>5
<1>11. Rows' = Rows \union {n} /\ n \notin Rows
  BY <1>3, <1>9, <1>10 DEF Rows
<1>12. subs'[n] \in RowStates(subs'[n]) /\ (subs'[n].priceChangedAt <=> series.changed)
  BY <1>4, <1>8, <1>10 DEF RowStates
<1>13. \A t \in Rows \ {n} : subs'[t] = subs[t]
  BY <1>10 DEF Rows
<1>14. /\ NewDraft(n).sub = n /\ NewDraft(n).type = "new_subscription_detected"
       /\ PriceDraft(n, series).sub = n /\ PriceDraft(n, series).type = "price_increase"
  BY DEF NewDraft, PriceDraft
<1>15. q.pc = "unread" /\ q.drafts = {NewDraft(n)} \union more
  BY <1>6
<1>16. IsFiniteSet(q.drafts)
  <2>1. IsFiniteSet(more)
    BY <1>5, FS_EmptySet, FS_Singleton
  <2>2. IsFiniteSet({NewDraft(n)})
    BY FS_Singleton
  <2>3. QED
    BY <1>15, <2>1, <2>2, FS_Union
<1>17. \A d \in q.drafts : d = NewDraft(n) \/ (d = PriceDraft(n, series) /\ series.changed)
  BY <1>5, <1>15
<1>18. /\ \A d \in q.drafts : d.sub = n
       /\ \A d, e \in q.drafts : d.type = e.type => d = e
       /\ \E d \in q.drafts : d.type = "new_subscription_detected"
       /\ series.changed => \E d \in q.drafts : d.type = "price_increase"
       /\ ~series.changed => \A d \in q.drafts : d.type # "price_increase"
  BY <1>5, <1>14, <1>15, <1>17
<1>19. \A type : ~Told(type, n)
  BY <1>1, <1>11 DEF Told, FormInv
<1>20. ~met => \A t \in Live' : t = n
  <2> SUFFICES ASSUME ~met, NEW t \in Live', t # n PROVE FALSE
    OBVIOUS
  <2>1. Live = {}
    BY <1>1, <1>7 DEF SoloInv, Foreseen
  <2>2. t \in Rows /\ subs[t].status # "deleted"
    BY <1>11, <1>13 DEF Live
  <2>3. QED
    BY <2>1, <2>2 DEF Live
<1>21. n \in Rows'
  BY <1>11
<1>22. QED
  <2>1. \A d, e \in q.drafts : d.type = e.type => d = e
    BY <1>18
  <2>2. ~met => \A d \in q.drafts : ~Told(d.type, n)
    BY <1>19
  <2>3. subs'[n].priceChangedAt => \/ n \in Rows /\ subs[n].priceChangedAt
                                   \/ \E d \in q.drafts : d.type = "price_increase"
    BY <1>12, <1>18
  <2>4. ~subs'[n].priceChangedAt => \A d \in q.drafts : d.type # "price_increase"
    BY <1>12, <1>18
  <2>5. n \notin Rows => \E d \in q.drafts : d.type = "new_subscription_detected"
    BY <1>18
  <2>6. n \in Rows /\ subs[n].priceChangedAt => subs'[n].priceChangedAt
    BY <1>11
  <2>7. \A d \in q.drafts : d.sub = n
    BY <1>18
  <2>8. Writes(n, q.drafts)
    BY <1>11, <1>12, <1>13, <1>20, <2>1, <2>2, <2>3, <2>4, <2>5, <2>6, <2>7 DEF Writes
  <2>9. QED
    BY <1>7, <1>10, <1>15, <1>16, <2>8, WroteRow

LEMMA UpdateRowStep ==
  ASSUME DInv, NEW r \in Runs, UpdateRow(r)
  PROVE  DInv'
<1>1. FormInv /\ SoloInv /\ RunSound(runs[r])
  BY DEF DInv, FormInv
<1>2. PICK series : series = runs[r].series
  OBVIOUS
<1>3. PICK s : s = runs[r].row
  OBVIOUS
<1>4. PICK found : found = runs[r].found[1]
  OBVIOUS
<1>5. runs[r].pc = "write" /\ s # NoRow /\ subs[s].status # "deleted"
      /\ UNCHANGED <<alerts, met, cut>>
  BY <1>3 DEF UpdateRow
<1>6. s \in Rows /\ series.changed \in BOOLEAN /\ found.priceChangedAt \in BOOLEAN
  BY <1>1, <1>2, <1>3, <1>4, <1>5 DEF RunSound
<1>7. PICK just \in BOOLEAN : just = PriceJustChanged(found, series)
  BY <1>6 DEF PriceJustChanged
<1>8. just => ~found.priceChangedAt
  BY <1>7 DEF PriceJustChanged
<1>9. subs[s] \in RowStates(subs[s])
  BY <1>1, <1>6 DEF FormInv
<1>10. subs[s].priceChangedAt \in BOOLEAN /\ subs[s].status \in {"active", "paused"}
  BY <1>5, <1>9 DEF RowStates
<1>11. PICK status : status = IF found.status = "active" THEN "active" ELSE subs[s].status
  OBVIOUS
<1>12. PICK at \in BOOLEAN : at = (subs[s].priceChangedAt \/ just)
  BY <1>10
<1>13. PICK x : x = [amount |-> series.amount, status |-> status, priceChangedAt |-> at]
  OBVIOUS
<1>14. PICK drafts : drafts = IF just THEN {PriceDraft(s, series)} ELSE {}
  OBVIOUS
<1>15. PICK q : q = [pc |-> "unread", drafts |-> drafts]
  OBVIOUS
<1>16. subs \in Seq(Range(subs)) /\ Len(subs) \in Nat /\ s \in 1..Len(subs) /\ DOMAIN subs = 1..Len(subs)
  BY <1>1, <1>6 DEF FormInv, Rows
<1>17. subs' = [subs EXCEPT ![s] = x]
  <2>1. subs' = [subs EXCEPT ![s] =
          [amount |-> series.amount,
           status |-> IF found.status = "active" THEN "active" ELSE subs[s].status,
           priceChangedAt |-> subs[s].priceChangedAt \/ just]]
    BY <1>2, <1>3, <1>4, <1>7, <1>16 DEF UpdateRow
  <2>2. QED
    BY <2>1, <1>11, <1>12, <1>13
<1>18. runs' = [runs EXCEPT ![r] = q]
  BY <1>2, <1>3, <1>4, <1>7, <1>14, <1>15 DEF UpdateRow
<1>19. /\ subs' \in Seq(Range(subs')) /\ Len(subs') = Len(subs)
       /\ subs'[s] = x /\ \A t \in 1..Len(subs) : t # s => subs'[t] = subs[t]
  <2>1. PICK old, new : old = subs /\ new = subs'
    OBVIOUS
  <2>2. /\ old \in Seq(Range(old)) /\ s \in 1..Len(old)
        /\ new = Updated(old, s, x)
    BY <1>16, <1>17, <2>1 DEF Updated
  <2>3. /\ new \in Seq(Range(new)) /\ Len(new) = Len(old) /\ new[s] = x
        /\ \A t \in 1..Len(old) : t # s => new[t] = old[t]
    BY <2>2, ExceptForm
  <2>4. QED
    BY <2>1, <2>3, Zenon
<1>20. Rows' = Rows \union {s} /\ s \in Rows' /\ \A t \in Rows \ {s} : subs'[t] = subs[t]
  BY <1>6, <1>19 DEF Rows
<1>21. x.priceChangedAt = at /\ x.status = status /\ status \in {"active", "paused"}
  BY <1>10, <1>11, <1>13
<1>22. subs'[s] \in RowStates(subs'[s])
  BY <1>12, <1>13, <1>19, <1>21 DEF RowStates
<1>23. q.pc = "unread" /\ q.drafts = drafts
  BY <1>15
<1>24. IsFiniteSet(q.drafts)
  <2>1. IsFiniteSet({PriceDraft(s, series)}) /\ IsFiniteSet({})
    BY FS_EmptySet, FS_Singleton
  <2>2. drafts = {PriceDraft(s, series)} \/ drafts = {}
    BY <1>14
  <2>3. QED
    BY <1>23, <2>1, <2>2
<1>25. PriceDraft(s, series).sub = s /\ PriceDraft(s, series).type = "price_increase"
  BY DEF PriceDraft
<1>26. /\ \A d \in q.drafts : d = PriceDraft(s, series) /\ just
       /\ just => PriceDraft(s, series) \in q.drafts
  BY <1>14, <1>23
<1>27. ~met => \A d \in q.drafts : ~Told(d.type, s)
  <2> SUFFICES ASSUME ~met, NEW d \in q.drafts PROVE ~Told(d.type, s)
    OBVIOUS
  <2>1. ~subs[s].priceChangedAt
    BY <1>1, <1>3, <1>4, <1>5, <1>8, <1>26 DEF SoloInv, Foreseen
  <2>2. QED
    BY <1>1, <1>6, <1>25, <1>26, <2>1 DEF SoloInv
<1>28. ~met => \A t \in Live' : t = s
  <2> SUFFICES ASSUME ~met, NEW t \in Live', t # s PROVE FALSE
    OBVIOUS
  <2>1. t \in Rows /\ subs[t].status # "deleted"
    BY <1>20 DEF Live
  <2>2. s \in Live /\ t \in Live
    BY <1>5, <1>6, <2>1 DEF Live
  <2>3. QED
    BY <1>1, <2>2 DEF SoloInv
<1>29. /\ subs[s].priceChangedAt => subs'[s].priceChangedAt
       /\ subs'[s].priceChangedAt =>
            subs[s].priceChangedAt \/ \E d \in q.drafts : d.type = "price_increase"
       /\ ~subs'[s].priceChangedAt => \A d \in q.drafts : d.type # "price_increase"
  BY <1>12, <1>19, <1>21, <1>25, <1>26
<1>30. /\ \A d \in q.drafts : d.sub = s
       /\ \A d, e \in q.drafts : d.type = e.type => d = e
  BY <1>25, <1>26
<1>31. QED
  <2>1. \A d, e \in q.drafts : d.type = e.type => d = e
    BY <1>30
  <2>2. subs'[s].priceChangedAt => \/ s \in Rows /\ subs[s].priceChangedAt
                                   \/ \E d \in q.drafts : d.type = "price_increase"
    BY <1>6, <1>29
  <2>3. s \notin Rows => \E d \in q.drafts : d.type = "new_subscription_detected"
    BY <1>6
  <2>4. s \in Rows /\ subs[s].priceChangedAt => subs'[s].priceChangedAt
    BY <1>29
  <2>5. ~subs'[s].priceChangedAt => \A d \in q.drafts : d.type # "price_increase"
    BY <1>29
  <2>6. \A d \in q.drafts : d.sub = s
    BY <1>30
  <2>7. Writes(s, q.drafts)
    BY <1>20, <1>22, <1>27, <1>28, <2>1, <2>2, <2>3, <2>4, <2>5, <2>6 DEF Writes
  <2>8. QED
    BY <1>5, <1>18, <1>19, <1>23, <1>24, <2>7, WroteRow

\* The fresh drafts are alerts now, one each.
LEMMA CreateAlertsStep ==
  ASSUME DInv, NEW r \in Runs, CreateAlerts(r)
  PROVE  DInv'
<1>1. FormInv /\ SoloInv /\ ToldInv /\ RunSound(runs[r])
  BY DEF DInv, FormInv
<1>2. runs[r].pc = "record" /\ UNCHANGED <<subs, met, cut>> /\ runs' = [runs EXCEPT ![r] = NoRun]
  BY DEF CreateAlerts
<1>3. PICK drafts : drafts = runs[r].drafts
  OBVIOUS
<1>4. PICK fresh : fresh = Fresh(drafts, runs[r].seen)
  OBVIOUS
<1>5. DraftsSound(drafts) /\ fresh \subseteq drafts
      /\ \A d \in drafts : d \in fresh <=> DedupKey(d) \notin runs[r].seen
  BY <1>1, <1>2, <1>3, <1>4 DEF RunSound, Fresh
<1>6. IsFiniteSet(fresh)
  BY <1>5, FS_Subset DEF DraftsSound
<1>7. PICK new : new = SetToSeq(fresh)
  OBVIOUS
<1>8. /\ new \in Seq(fresh)
      /\ \A i, j \in 1..Len(new) : new[i] = new[j] => i = j
      /\ \A d \in fresh : \E i \in 1..Len(new) : new[i] = d
  BY <1>6, <1>7, SetToSeqForm
<1>9. PICK n \in Nat : n = Len(alerts)
  BY <1>1 DEF FormInv
<1>10. PICK k \in Nat : k = Len(new) /\ \A i \in 1..k : new[i] \in fresh
  BY <1>8
<1>11. PICK old : old = alerts /\ old \in Seq(Range(old)) /\ Len(old) = n
  BY <1>1, <1>9 DEF FormInv
<1>12. PICK t : t = old \o new
  OBVIOUS
<1>13. alerts' = t
  BY <1>3, <1>4, <1>7, <1>11, <1>12 DEF CreateAlerts
<1>14. /\ t \in Seq(Range(t)) /\ DOMAIN t = 1..(n + k)
       /\ \A i \in 1..n : t[i] = old[i]
       /\ \A i \in (n + 1)..(n + k) : i - n \in 1..k /\ t[i] = new[i - n]
  <2>1. PICK T : old \in Seq(T) /\ new \in Seq(T)
    <3>1. old \in Seq(Range(old) \union fresh) /\ new \in Seq(Range(old) \union fresh)
      BY <1>8, <1>11
    <3>2. QED
      BY <3>1
  <2>2. /\ t \in Seq(T) /\ Len(t) = n + k
        /\ \A i \in 1..Len(t) : t[i] = IF i <= n THEN old[i] ELSE new[i - n]
    <3>1. t \in Seq(T) /\ Len(t) = Len(old) + Len(new)
      BY <1>12, <2>1
    <3>2. \A i \in 1..(Len(old) + Len(new)) :
            t[i] = IF i <= Len(old) THEN old[i] ELSE new[i - Len(old)]
      BY <1>12, <2>1
    <3>3. QED
      BY <1>10, <1>11, <3>1, <3>2
  <2>3. Len(t) \in Nat /\ DOMAIN t = 1..Len(t) /\ t = [i \in 1..Len(t) |-> t[i]]
    BY <2>2, OfSeq
  <2>4. t \in Seq(Range(t))
    BY <2>3, SeqForm
  <2>5. QED
    BY <2>2, <2>3, <2>4
<1>15. DOMAIN alerts = 1..n
  BY <1>11
<1>16. /\ alerts' \in Seq(Range(alerts')) /\ DOMAIN alerts' = 1..(n + k)
       /\ \A i \in 1..n : alerts'[i] = alerts[i]
       /\ \A i \in (n + 1)..(n + k) : \E j \in 1..k : i = n + j /\ alerts'[i] = new[j] /\ new[j] \in fresh
  <2>1. \A i \in (n + 1)..(n + k) : i - n \in 1..k /\ i = n + (i - n) /\ t[i] = new[i - n]
    <3>1. \A i \in (n + 1)..(n + k) : i = n + (i - n)
      OBVIOUS
    <3>2. QED
      BY <1>14, <3>1
  <2>2. \A i \in (n + 1)..(n + k) : \E j \in 1..k : i = n + j /\ t[i] = new[j] /\ new[j] \in fresh
    <3> SUFFICES ASSUME NEW i \in (n + 1)..(n + k)
                 PROVE  \E j \in 1..k : i = n + j /\ t[i] = new[j] /\ new[j] \in fresh
      OBVIOUS
    <3>1. PICK j \in 1..k : j = i - n
      BY <2>1
    <3>2. QED
      BY <1>10, <2>1, <3>1
  <2>3. \A i \in 1..n : t[i] = alerts[i]
    BY <1>11, <1>14
  <2>4. QED
    BY <1>13, <1>14, <2>2, <2>3, Zenon
<1>17. \A i \in 1..(n + k) : i \in 1..n \/ i \in (n + 1)..(n + k)
  OBVIOUS
<1>18. \A type, s : Told(type, s)' <=> Told(type, s) \/ \E d \in fresh : d.type = type /\ d.sub = s
  <2>1. ASSUME NEW type, NEW s, Told(type, s)' PROVE Told(type, s) \/ \E d \in fresh : d.type = type /\ d.sub = s
    <3>1. PICK i \in 1..(n + k) : alerts'[i].type = type /\ alerts'[i].sub = s
      BY <1>16, <2>1 DEF Told
    <3>2. QED
      BY <1>15, <1>16, <1>17, <3>1 DEF Told
  <2>2. ASSUME NEW type, NEW s, Told(type, s) PROVE Told(type, s)'
    <3>1. PICK i \in 1..n : alerts[i].type = type /\ alerts[i].sub = s
      BY <1>15, <2>2 DEF Told
    <3>2. i \in DOMAIN alerts' /\ alerts'[i] = alerts[i]
      BY <1>16, <3>1
    <3>3. QED
      BY <3>1, <3>2 DEF Told
  <2>3. ASSUME NEW d \in fresh PROVE Told(d.type, d.sub)'
    <3>1. PICK j \in 1..k : new[j] = d
      BY <1>8, <1>10
    <3>2. n + j \in (n + 1)..(n + k) /\ (n + j) - n = j /\ n + j \in 1..(n + k)
      OBVIOUS
    <3>3. n + j \in DOMAIN alerts' /\ alerts'[n + j] = d
      BY <1>13, <1>14, <1>16, <3>1, <3>2
    <3>4. QED
      BY <3>3 DEF Told
  <2>4. QED
    BY <2>1, <2>2, <2>3
<1>19. /\ DOMAIN runs' = Runs /\ runs' = [o \in Runs |-> runs'[o]]
       /\ runs'[r] = NoRun /\ \A o \in Runs \ {r} : runs'[o] = runs[o]
  BY <1>1, <1>2, PutRun
<1>20. \A o \in Runs : InAlerts(o)' <=> InAlerts(o) /\ o # r
  BY <1>19, IdleRun DEF InAlerts
<1>21. Rows' = Rows /\ Live' = Live
  BY <1>2 DEF Rows, Live
<1>22. FormInv'
  <2>1. \A i \in DOMAIN alerts' : alerts'[i].sub \in Rows'
    <3>1. \A d \in fresh : d.sub \in Rows
      BY <1>5 DEF DraftsSound
    <3>2. \A i \in 1..n : alerts[i].sub \in Rows
      BY <1>1, <1>15 DEF FormInv
    <3>3. QED
      BY <1>16, <1>17, <1>21, <3>1, <3>2
  <2>2. \A o \in Runs : RunSound(runs[o])'
    <3>1. \A o \in Runs : RunSound(runs'[o])
      BY <1>1, <1>19, IdleRun DEF FormInv
    <3>2. QED
      BY <1>21, <3>1 DEF RunSound, DraftsSound
  <2>3. subs' \in Seq(Range(subs')) /\ \A s \in Rows' : subs'[s] \in RowStates(subs'[s])
    BY <1>1, <1>2, <1>21 DEF FormInv
  <2>4. met' \in BOOLEAN /\ cut' \in BOOLEAN
    BY <1>1, <1>2 DEF FormInv
  <2>5. QED
    BY <1>16, <1>19, <2>1, <2>2, <2>3, <2>4 DEF FormInv
<1>23. SoloInv'
  <2> SUFFICES ASSUME ~met PROVE SoloInv'
    BY <1>2 DEF SoloInv
  <2>1. \A o \in Runs : runs'[o].pc = "idle"
    BY <1>1, <1>2, <1>19, IdleRun DEF SoloInv
  <2>2. \A s, t1 \in Live' : s = t1
    BY <1>1, <1>21 DEF SoloInv
  <2>3. \A d \in fresh : ~Told(d.type, d.sub)
    BY <1>1, <1>2, <1>3, <1>5 DEF SoloInv, InAlerts
  <2>4. \A i, j \in DOMAIN alerts' :
          alerts'[i].type = alerts'[j].type /\ alerts'[i].sub = alerts'[j].sub => i = j
    <3>1. ASSUME NEW i \in 1..n, NEW j \in 1..n,
                 alerts'[i].type = alerts'[j].type, alerts'[i].sub = alerts'[j].sub
          PROVE  i = j
      BY <1>1, <1>15, <1>16, <3>1 DEF SoloInv
    <3>2. ASSUME NEW i \in 1..n, NEW j \in (n + 1)..(n + k),
                 alerts'[i].type = alerts'[j].type, alerts'[i].sub = alerts'[j].sub
          PROVE  FALSE
      <4>1. PICK d \in fresh : alerts'[j] = d
        BY <1>16
      <4>2. Told(d.type, d.sub)
        BY <1>15, <1>16, <3>2, <4>1 DEF Told
      <4>3. QED
        BY <2>3, <4>2
    <3>3. ASSUME NEW i \in (n + 1)..(n + k), NEW j \in (n + 1)..(n + k),
                 alerts'[i].type = alerts'[j].type, alerts'[i].sub = alerts'[j].sub
          PROVE  i = j
      <4>1. PICK a \in 1..k : i = n + a /\ alerts'[i] = new[a] /\ new[a] \in fresh
        BY <1>16
      <4>2. PICK b \in 1..k : j = n + b /\ alerts'[j] = new[b] /\ new[b] \in fresh
        BY <1>16
      <4>3. new[a] = new[b]
        BY <1>5, <3>3, <4>1, <4>2 DEF DraftsSound
      <4>4. a = b
        BY <1>8, <1>10, <4>3
      <4>5. QED
        BY <4>1, <4>2, <4>4
    <3>4. QED
      BY <1>16, <1>17, <3>1, <3>2, <3>3
  <2>5. ASSUME NEW s \in Rows', ~subs'[s].priceChangedAt
        PROVE  ~Told("price_increase", s)' /\ ~Telling("price_increase", s)'
    <3>1. ~Told("price_increase", s) /\ ~Telling("price_increase", s)
      BY <1>1, <1>2, <1>21, <2>5 DEF SoloInv
    <3>2. \A d \in fresh : ~(d.type = "price_increase" /\ d.sub = s)
      BY <1>2, <1>3, <1>5, <3>1 DEF Telling, InAlerts
    <3>3. ~Telling("price_increase", s)'
      BY <1>20, <2>1 DEF Telling, InAlerts
    <3>4. QED
      BY <1>18, <3>1, <3>2, <3>3
  <2>6. \A o \in Runs : ~InAlerts(o)'
    BY <2>1 DEF InAlerts
  <2>7. \A o \in Runs : runs'[o].pc # "write"
    BY <2>1
  <2>8. QED
    BY <2>1, <2>2, <2>4, <2>5, <2>6, <2>7 DEF SoloInv
<1>24. ToldInv'
  <2>1. \A o \in Runs : runs'[o].pc = "record" =>
          \A d \in runs'[o].drafts : DedupKey(d) \in runs'[o].seen => Told(d.type, d.sub)'
    <3>1. \A o \in Runs : runs'[o].pc = "record" => runs'[o] = runs[o]
      BY <1>19, IdleRun
    <3>2. \A o \in Runs : runs'[o].pc = "record" =>
            \A d \in runs'[o].drafts : DedupKey(d) \in runs'[o].seen => Told(d.type, d.sub)
      BY <1>1, <3>1 DEF ToldInv
    <3>3. QED
      BY <1>18, <3>2
  <2>2. \A type, s : Telling(type, s) => Telling(type, s)' \/ Told(type, s)'
    <3> SUFFICES ASSUME NEW type, NEW s, Telling(type, s) PROVE Telling(type, s)' \/ Told(type, s)'
      OBVIOUS
    <3>1. PICK o \in Runs : InAlerts(o) /\ \E d \in runs[o].drafts : d.type = type /\ d.sub = s
      BY DEF Telling
    <3>2. PICK d \in runs[o].drafts : d.type = type /\ d.sub = s
      BY <3>1
    <3>3. CASE o = r
      <4>1. d \in fresh \/ Told(type, s)
        BY <1>1, <1>2, <1>3, <1>5, <3>2, <3>3 DEF ToldInv
      <4>2. QED
        BY <1>18, <3>2, <4>1
    <3>4. CASE o # r
      <4>1. InAlerts(o)' /\ runs'[o].drafts = runs[o].drafts
        BY <1>19, <1>20, <3>1, <3>4
      <4>2. QED
        BY <3>1, <4>1 DEF Telling
    <3>5. QED
      BY <3>3, <3>4
  <2>3. ASSUME ~cut, NEW s \in Rows
        PROVE  /\ Told("new_subscription_detected", s)' \/ Telling("new_subscription_detected", s)'
               /\ subs[s].priceChangedAt =>
                    Told("price_increase", s)' \/ Telling("price_increase", s)'
    BY <1>1, <1>18, <2>2, <2>3 DEF ToldInv
  <2>4. QED
    BY <1>2, <1>21, <2>1, <2>3 DEF ToldInv
<1>25. QED
  BY <1>22, <1>23, <1>24 DEF DInv

--------------------------------------------------------------------------------
(* Detection: the member and the merchant *)

\* A row changes what the member may change, and no row comes back.
LEMMA TouchStep ==
  ASSUME DInv, NEW s \in Live, NEW x, x \in RowStates(x),
         x.priceChangedAt = subs[s].priceChangedAt,
         subs' = [subs EXCEPT ![s] = x], UNCHANGED <<alerts, runs, met, cut>>
  PROVE  DInv'
<1>1. FormInv /\ SoloInv /\ ToldInv
  BY DEF DInv
<1>2. subs \in Seq(Range(subs)) /\ Len(subs) \in Nat /\ s \in 1..Len(subs)
      /\ subs[s].status # "deleted" /\ s \in Rows
  BY <1>1 DEF FormInv, Live, Rows
<1>3. /\ subs' \in Seq(Range(subs')) /\ Len(subs') = Len(subs)
      /\ subs'[s] = x /\ \A t \in 1..Len(subs) : t # s => subs'[t] = subs[t]
  <2>1. PICK u : u = subs
    OBVIOUS
  <2>2. PICK t : t = [u EXCEPT ![s] = x]
    OBVIOUS
  <2>3. /\ t \in Seq(Range(t)) /\ Len(t) = Len(u)
        /\ t[s] = x /\ \A j \in 1..Len(u) : j # s => t[j] = u[j]
    <3>1. u \in Seq(Range(u)) /\ s \in 1..Len(u) /\ Len(u) \in Nat /\ DOMAIN u = 1..Len(u)
      BY <1>2, <2>1
    <3>2. t = [j \in 1..Len(u) |-> t[j]] /\ t[s] = x /\ \A j \in 1..Len(u) : j # s => t[j] = u[j]
      BY <2>2, <3>1
    <3>3. QED
      BY <3>1, <3>2, SeqForm
  <2>4. subs' = t
    BY <2>1, <2>2
  <2>5. QED
    BY <2>1, <2>3, <2>4
<1>4. Rows' = Rows /\ \A t \in Rows : subs'[t].priceChangedAt = subs[t].priceChangedAt
  BY <1>3 DEF Rows
<1>5. Live' \subseteq Live
  BY <1>2, <1>3, <1>4 DEF Live, Rows
<1>6. /\ \A type, t : Told(type, t)' <=> Told(type, t)
      /\ \A type, t : Telling(type, t)' <=> Telling(type, t)
      /\ \A o : InAlerts(o)' <=> InAlerts(o)
  BY DEF Told, Telling, InAlerts
<1>7. FormInv'
  <2>1. \A t \in Rows' : subs'[t] \in RowStates(subs'[t])
    BY <1>1, <1>3, <1>4 DEF FormInv, Rows
  <2>2. \A o \in Runs : RunSound(runs[o])'
    BY <1>1, <1>4 DEF FormInv, RunSound, DraftsSound
  <2>3. QED
    BY <1>1, <1>3, <1>4, <2>1, <2>2 DEF FormInv
<1>8. SoloInv'
  <2> SUFFICES ASSUME ~met PROVE SoloInv'
    BY DEF SoloInv
  <2>1. /\ \A r, q \in Runs : runs'[r].pc # "idle" /\ runs'[q].pc # "idle" => r = q
        /\ \A t, u \in Live' : t = u
        /\ \A i, j \in DOMAIN alerts' :
             alerts'[i].type = alerts'[j].type /\ alerts'[i].sub = alerts'[j].sub => i = j
    BY <1>1, <1>5 DEF SoloInv
  <2>2. ASSUME NEW r \in Runs, runs'[r].pc = "write" PROVE Foreseen(runs[r])'
    <3>1. Foreseen(runs[r]) /\ RunSound(runs[r]) /\ runs[r].pc = "write"
      BY <1>1, <2>2 DEF SoloInv, FormInv
    <3>2. runs[r].row # NoRow => runs[r].row \in Rows
      BY <3>1 DEF RunSound
    <3>3. QED
      BY <1>4, <1>5, <3>1, <3>2 DEF Foreseen
  <2>3. \A r \in Runs : InAlerts(r)' => \A d \in runs'[r].drafts : ~Told(d.type, d.sub)'
    BY <1>1, <1>6 DEF SoloInv
  <2>4. \A t \in Rows' : ~subs'[t].priceChangedAt =>
          ~Told("price_increase", t)' /\ ~Telling("price_increase", t)'
    BY <1>1, <1>4, <1>6 DEF SoloInv
  <2>5. QED
    BY <2>1, <2>2, <2>3, <2>4 DEF SoloInv
<1>9. ToldInv'
  <2>1. \A r \in Runs : runs'[r].pc = "record" =>
          \A d \in runs'[r].drafts : DedupKey(d) \in runs'[r].seen => Told(d.type, d.sub)'
    BY <1>1, <1>6 DEF ToldInv
  <2>2. QED
    BY <1>1, <1>4, <1>6, <2>1 DEF ToldInv
<1>10. QED
  BY <1>7, <1>8, <1>9 DEF DInv

LEMMA EditSubStep ==
  ASSUME DInv, NEW s \in Rows, EditSub(s)
  PROVE  DInv'
<1>1. s \in Live /\ UNCHANGED <<alerts, runs, met, cut>>
  BY DEF EditSub
<1>2. subs \in Seq(Range(subs)) /\ s \in 1..Len(subs) /\ subs[s] \in RowStates(subs[s])
  BY DEF DInv, FormInv, Rows
<1>3. DOMAIN subs = 1..Len(subs)
  BY <1>2
<1>4. PICK status \in {"active", "paused"}, p \in Prices :
        subs' = [subs EXCEPT ![s].status = status, ![s].amount = p]
  BY DEF EditSub
<1>5. PICK at \in BOOLEAN : subs[s].priceChangedAt = at /\
        subs[s] = [amount |-> subs[s].amount, status |-> subs[s].status, priceChangedAt |-> at]
  BY <1>2 DEF RowStates
<1>6. PICK x : x = [amount |-> p, status |-> status, priceChangedAt |-> at]
  OBVIOUS
<1>7. subs' = [subs EXCEPT ![s] = x]
  <2>1. PICK u : u = subs
    OBVIOUS
  <2>2. PICK w : w = subs'
    OBVIOUS
  <2>3. w = [u EXCEPT ![s].status = status, ![s].amount = p]
    BY <1>4, <2>1, <2>2
  <2>4. w = [i \in 1..Len(u) |-> IF i = s THEN [[u[s] EXCEPT !.status = status] EXCEPT !.amount = p] ELSE u[i]]
    BY <1>2, <1>3, <2>1, <2>3
  <2>5. PICK z : z = [[u[s] EXCEPT !.status = status] EXCEPT !.amount = p]
    OBVIOUS
  <2>6. z = x
    <3>1. PICK a0, s0 : u[s] = [amount |-> a0, status |-> s0, priceChangedAt |-> at]
      BY <1>5, <2>1
    <3>2. PICK v : v = [amount |-> a0, status |-> s0, priceChangedAt |-> at]
      OBVIOUS
    <3>3. PICK y : y = [v EXCEPT !.status = status]
      OBVIOUS
    <3>4. y = [amount |-> a0, status |-> status, priceChangedAt |-> at]
      BY <3>2, <3>3
    <3>5. [y EXCEPT !.amount = p] = [amount |-> p, status |-> status, priceChangedAt |-> at]
      BY <3>4
    <3>6. z = [y EXCEPT !.amount = p]
      BY <2>5, <3>1, <3>2, <3>3
    <3>7. QED
      BY <1>6, <3>5, <3>6
  <2>7. w = [i \in 1..Len(u) |-> IF i = s THEN x ELSE u[i]]
    BY <2>4, <2>5, <2>6
  <2>8. QED
    BY <1>2, <1>3, <2>1, <2>2, <2>7
<1>8. x \in RowStates(x) /\ x.priceChangedAt = subs[s].priceChangedAt
  BY <1>5, <1>6 DEF RowStates
<1>9. QED
  BY <1>1, <1>7, <1>8, TouchStep

LEMMA DeleteSubStep ==
  ASSUME DInv, NEW s \in Rows, DeleteSub(s)
  PROVE  DInv'
<1>1. s \in Live /\ UNCHANGED <<alerts, runs, met, cut>>
      /\ subs' = [subs EXCEPT ![s].status = "deleted"]
  BY DEF DeleteSub
<1>2. subs \in Seq(Range(subs)) /\ s \in 1..Len(subs) /\ subs[s] \in RowStates(subs[s])
  BY DEF DInv, FormInv, Rows
<1>3. DOMAIN subs = 1..Len(subs)
  BY <1>2
<1>4. PICK at, a : at \in BOOLEAN /\ subs[s].priceChangedAt = at /\ a = subs[s].amount /\
        subs[s] = [amount |-> a, status |-> subs[s].status, priceChangedAt |-> at]
  BY <1>2 DEF RowStates
<1>5. PICK x : x = [amount |-> a, status |-> "deleted", priceChangedAt |-> at]
  OBVIOUS
<1>6. subs' = [subs EXCEPT ![s] = x]
  <2>1. [subs[s] EXCEPT !.status = "deleted"] = x
    BY <1>4, <1>5
  <2>2. QED
    BY <1>1, <1>2, <1>3, <2>1
<1>7. x \in RowStates(x) /\ x.priceChangedAt = subs[s].priceChangedAt
  BY <1>4, <1>5 DEF RowStates
<1>8. QED
  BY <1>1, <1>6, <1>7, TouchStep

--------------------------------------------------------------------------------
(* Detection: the theorems *)

LEMMA InitDInv == DetectionInit => DInv
<1> SUFFICES ASSUME DetectionInit PROVE DInv
  OBVIOUS
<1>1. /\ subs = <<>> /\ alerts = <<>> /\ runs = [r \in Runs |-> NoRun]
      /\ met = FALSE /\ cut = FALSE
  BY DEF DetectionInit
<1>2. Rows = {} /\ Live = {} /\ DOMAIN alerts = {}
  BY <1>1 DEF Rows, Live
<1>3. \A r \in Runs : runs[r].pc = "idle" /\ RunSound(runs[r])
  BY <1>1, IdleRun
<1>4. FormInv
  <2>1. <<>> \in Seq(Range(<<>>))
    OBVIOUS
  <2>2. DOMAIN runs = Runs /\ runs = [r \in Runs |-> runs[r]]
    BY <1>1
  <2>3. QED
    BY <1>1, <1>2, <1>3, <2>1, <2>2 DEF FormInv
<1>5. SoloInv
  BY <1>2, <1>3 DEF SoloInv, InAlerts
<1>6. ToldInv
  BY <1>2, <1>3 DEF ToldInv
<1>7. QED
  BY <1>4, <1>5, <1>6 DEF DInv

LEMMA NextDInv == DInv /\ [DetectionNext]_detectionVars => DInv'
<1> SUFFICES ASSUME DInv, [DetectionNext]_detectionVars PROVE DInv'
  OBVIOUS
<1>1. ASSUME NEW r \in Runs,
             \/ BeginRun(r) \/ FindRow(r) \/ CreateRow(r) \/ UpdateRow(r) \/ UpdateThrows(r)
             \/ ReadUnread(r) \/ CreateAlerts(r) \/ CrashRun(r)
      PROVE  DInv'
  BY <1>1, BeginRunStep, FindRowStep, CreateRowStep, UpdateRowStep, UpdateThrowsStep, ReadUnreadStep,
     CreateAlertsStep, CrashRunStep
<1>2. ASSUME NEW s \in Rows, EditSub(s) \/ DeleteSub(s) PROVE DInv'
  BY <1>2, EditSubStep, DeleteSubStep
<1>3. CASE Charge \/ FallSilent \/ UNCHANGED detectionVars
  <2>1. UNCHANGED <<subs, alerts, runs, met, cut>>
    BY <1>3 DEF Charge, FallSilent, detectionVars
  <2>2. QED
    BY <2>1, StillStep
<1>4. QED
  BY <1>1, <1>2, <1>3 DEF DetectionNext

LEMMA DetectionInvariance == DetectionSpec => []DInv
<1>1. QED
  BY InitDInv, NextDInv, PTL DEF DetectionSpec

\* As long as no two runs were in flight at once, a merchant has one automatic
\* row, and a new row and a change of its price are announced once
\* (SubscriptionDetectionService.runForUser with AlertService.recordMany).
THEOREM RerunsAreIdempotent == DetectionSpec => []SoloRunsNeverDuplicate
<1>1. DInv => SoloRunsNeverDuplicate
  <2> SUFFICES ASSUME DInv, ~met
               PROVE  /\ Cardinality(Live) <= 1
                      /\ \A s \in Rows : /\ Cardinality(Announced("new_subscription_detected", s)) <= 1
                                         /\ Cardinality(Announced("price_increase", s)) <= 1
    BY DEF SoloRunsNeverDuplicate
  <2>1. Cardinality(Live) <= 1
    BY AtMostOne DEF DInv, SoloInv
  <2>2. ASSUME NEW type, NEW s PROVE Cardinality(Announced(type, s)) <= 1
    <3>1. \A i, j \in Announced(type, s) : i = j
      BY DEF DInv, SoloInv, Announced
    <3>2. QED
      BY <3>1, AtMostOne
  <2>3. QED
    BY <2>1, <2>2
<1>2. QED
  BY <1>1, DetectionInvariance, PTL

\* Unless a run died between the row and its alerts, every row and every change
\* of a price has been announced once no run is under way, however runs overlap.
THEOREM RowsAreAnnounced == DetectionSpec => []NothingGoesUnannounced
<1>1. DInv => NothingGoesUnannounced
  <2> SUFFICES ASSUME DInv, ~Working, ~cut, NEW s \in Rows
               PROVE  /\ Announced("new_subscription_detected", s) # {}
                      /\ subs[s].priceChangedAt => Announced("price_increase", s) # {}
    BY DEF NothingGoesUnannounced
  <2>1. \A type : ~Telling(type, s)
    BY DEF Working, Telling, InAlerts
  <2>2. \A type : Told(type, s) => Announced(type, s) # {}
    BY DEF Told, Announced
  <2>3. QED
    BY <2>1, <2>2 DEF DInv, ToldInv
<1>2. QED
  BY <1>1, DetectionInvariance, PTL

--------------------------------------------------------------------------------
(* Bills: the invariant *)

BillStates(row) ==
  [active : BOOLEAN, deleted : BOOLEAN, cases : Nat, ofPayee : BOOLEAN, byHand : BOOLEAN,
   last : {row.last}, expected : {row.expected}]

WorkSound(q) ==
  /\ q.pc = "write" => q.row \in BillRows \union {0}
  /\ q.pc \in {"remove", "case"} => q.row \in BillRows
  /\ q.pc \in {"unread", "record"} => IsFiniteSet(q.keys)

BillsForm ==
  /\ bills \in Seq(Range(bills)) /\ reminders \in Seq(Range(reminders))
  /\ \A b \in BillRows : bills[b] \in BillStates(bills[b])
  /\ DOMAIN work = Workers /\ work = [w \in Workers |-> work[w]]
  /\ \A w \in Workers : WorkSound(work[w])
  /\ overlapped \in BOOLEAN

\* The active bills of the payee that the member never touched so.
Detected == {b \in OfPayee : ~bills[b].byHand}

OneBill == \A b, c \in Detected : b = c
NoneTwice == \A i, j \in DOMAIN reminders : reminders[i] = reminders[j] => i = j

\* What is known to the slot that is at work alone.
Knows(q) ==
  /\ q.pc = "write" /\ q.row = 0 => Detected = {}
  /\ q.pc = "record" => \A i \in DOMAIN reminders : reminders[i] \in q.seen

AloneInv ==
  ~overlapped =>
    /\ \A w, o \in Workers : work[w].pc # "idle" /\ work[o].pc # "idle" => w = o
    /\ \A w \in Workers : Knows(work[w])
    /\ OneBill
    /\ NoneTwice

BInv == BillsForm /\ CasesKeepTheirBill /\ AloneInv

LEMMA PutWork ==
  ASSUME BillsForm, NEW w \in Workers, NEW q, work' = [work EXCEPT ![w] = q]
  PROVE  /\ DOMAIN work' = Workers /\ work' = [o \in Workers |-> work'[o]]
         /\ work'[w] = q /\ \A o \in Workers \ {w} : work'[o] = work[o]
BY DEF BillsForm

LEMMA RestingWork == Resting.pc = "idle" /\ WorkSound(Resting) /\ Knows(Resting)
BY DEF Resting, WorkSound, Knows

\* What a slot writes: the rows keep their form, a case its bill, and a second
\* active bill comes of no slot that works alone.
LEMMA WorkStep ==
  ASSUME BInv, NEW w \in Workers, NEW q, work' = [work EXCEPT ![w] = q],
         bills' \in Seq(Range(bills')), reminders' \in Seq(Range(reminders')),
         overlapped' \in BOOLEAN, overlapped => overlapped',
         WorkSound(q), BillRows \subseteq BillRows',
         \A b \in BillRows' : bills'[b] \in BillStates(bills'[b]),
         CasesKeepTheirBill',
         ~overlapped' /\ q.pc # "idle" => \A o \in Workers \ {w} : work[o].pc = "idle",
         ~overlapped' => Knows(q)',
         ~overlapped' => OneBill',
         ~overlapped' => NoneTwice',
         ~overlapped' /\ q.pc = "idle" => work[w].pc # "idle"
  PROVE  BInv'
<1>1. BillsForm /\ CasesKeepTheirBill /\ AloneInv
  BY DEF BInv
<1>2. /\ DOMAIN work' = Workers /\ work' = [o \in Workers |-> work'[o]]
      /\ work'[w] = q /\ \A o \in Workers \ {w} : work'[o] = work[o]
  BY <1>1, PutWork
<1>3. \A o \in Workers : WorkSound(work[o])'
  <2>1. \A v : WorkSound(v) => WorkSound(v)'
    BY DEF WorkSound
  <2>2. \A o \in Workers : WorkSound(work'[o])
    BY <1>1, <1>2 DEF BillsForm
  <2>3. QED
    BY <2>2 DEF WorkSound
<1>4. BillsForm'
  BY <1>1, <1>2, <1>3 DEF BillsForm
<1>5. AloneInv'
  <2> SUFFICES ASSUME ~overlapped' PROVE AloneInv'
    BY DEF AloneInv
  <2>1. ~overlapped
    OBVIOUS
  <2>2. \A o \in Workers \ {w} : work'[o].pc = "idle"
    <3>1. CASE q.pc # "idle"
      BY <1>2, <3>1
    <3>2. CASE q.pc = "idle"
      BY <1>1, <1>2, <2>1, <3>2 DEF AloneInv
    <3>3. QED
      BY <3>1, <3>2
  <2>3. \A v, o \in Workers : work'[v].pc # "idle" /\ work'[o].pc # "idle" => v = o
    BY <2>2
  <2>4. \A o \in Workers : Knows(work[o])'
    BY <1>2, <2>2 DEF Knows
  <2>5. QED
    BY <1>1, <2>3, <2>4 DEF AloneInv
<1>6. QED
  BY <1>4, <1>5 DEF BInv

\* A slot moves on and writes nothing.
LEMMA ReadStep ==
  ASSUME BInv, NEW w \in Workers, NEW q, work' = [work EXCEPT ![w] = q],
         UNCHANGED <<bills, reminders>>,
         overlapped' \in BOOLEAN, overlapped => overlapped', WorkSound(q),
         ~overlapped' /\ q.pc # "idle" => \A o \in Workers \ {w} : work[o].pc = "idle",
         ~overlapped' => Knows(q),
         ~overlapped' /\ q.pc = "idle" => work[w].pc # "idle"
  PROVE  BInv'
<1>1. BillsForm /\ CasesKeepTheirBill /\ AloneInv
  BY DEF BInv
<1>2. BillRows' = BillRows /\ Detected' = Detected
  BY DEF BillRows, Detected, OfPayee, Kept, Active
<1>3. bills' \in Seq(Range(bills')) /\ reminders' \in Seq(Range(reminders'))
      /\ \A b \in BillRows' : bills'[b] \in BillStates(bills'[b])
  BY <1>1, <1>2 DEF BillsForm
<1>4. CasesKeepTheirBill'
  BY <1>1, <1>2 DEF CasesKeepTheirBill
<1>5. ~overlapped' => OneBill' /\ NoneTwice'
  BY <1>1, <1>2 DEF AloneInv, OneBill, NoneTwice
<1>6. ~overlapped' => Knows(q)'
  BY <1>2 DEF Knows
<1>7. QED
  BY <1>2, <1>3, <1>4, <1>5, <1>6, WorkStep

\* A slot starts, in a state that knows nothing yet.
LEMMA StartStep ==
  ASSUME BInv, NEW w \in Workers, NEW q, Start(w, q), UNCHANGED <<bills, reminders>>,
         WorkSound(q), q.pc \in {"find", "unread", "remove", "case"}
  PROVE  BInv'
<1>1. /\ work[w].pc = "idle" /\ work' = [work EXCEPT ![w] = q]
      /\ overlapped' = (overlapped \/ \E o \in Workers : work[o].pc # "idle")
  BY DEF Start
<1>2. overlapped' \in BOOLEAN /\ (overlapped => overlapped')
      /\ (~overlapped' => \A o \in Workers \ {w} : work[o].pc = "idle")
  BY <1>1 DEF BInv, BillsForm
<1>3. Knows(q) /\ q.pc # "idle"
  BY DEF Knows
<1>4. QED
  BY <1>1, <1>2, <1>3, ReadStep

LEMMA BeginStep ==
  ASSUME BInv, NEW w \in Workers,
         BeginDetect(w) \/ BeginEvaluate(w) \/ BeginRemove(w) \/ BeginCase(w)
  PROVE  BInv'
<1>1. CASE BeginDetect(w)
  <2>1. PICK bill : Start(w, [pc |-> "find", bill |-> bill]) /\ UNCHANGED <<bills, reminders>>
    BY <1>1 DEF BeginDetect
  <2>2. PICK q : q = [pc |-> "find", bill |-> bill]
    OBVIOUS
  <2>3. q.pc = "find" /\ WorkSound(q)
    BY <2>2 DEF WorkSound
  <2>4. QED
    BY <2>1, <2>2, <2>3, StartStep
<1>2. CASE BeginEvaluate(w)
  <2>1. PICK keys : keys = {<<b, period>> : b \in Active}
    OBVIOUS
  <2>2. Start(w, [pc |-> "unread", keys |-> keys]) /\ UNCHANGED <<bills, reminders>>
    BY <1>2, <2>1 DEF BeginEvaluate
  <2>3. IsFiniteSet(keys)
    <3>1. Len(bills) \in Nat
      BY DEF BInv, BillsForm
    <3>2. IsFiniteSet(1..Len(bills)) /\ Active \in SUBSET (1..Len(bills))
      BY <3>1, FS_Interval DEF Active, Kept, BillRows
    <3>3. IsFiniteSet(Active)
      BY <3>2, FS_Subset
    <3>4. PICK f : f = [b \in Active |-> <<b, period>>]
      OBVIOUS
    <3>5. f \in Surjection(Active, keys)
      BY <2>1, <3>4 DEF Surjection
    <3>6. QED
      BY <3>3, <3>5, FS_Surjection
  <2>4. PICK q : q = [pc |-> "unread", keys |-> keys]
    OBVIOUS
  <2>5. q.pc = "unread" /\ WorkSound(q)
    BY <2>3, <2>4 DEF WorkSound
  <2>6. QED
    BY <2>2, <2>4, <2>5, StartStep
<1>3. CASE BeginRemove(w)
  <2>1. PICK b \in Kept : Start(w, [pc |-> "remove", row |-> b, cases |-> bills[b].cases])
    BY <1>3 DEF BeginRemove, MemberStart
  <2>2. PICK q : q = [pc |-> "remove", row |-> b, cases |-> bills[b].cases]
    OBVIOUS
  <2>3. q.pc = "remove" /\ WorkSound(q)
    BY <2>2 DEF WorkSound, Kept
  <2>4. UNCHANGED <<bills, reminders>>
    BY <1>3 DEF BeginRemove
  <2>5. QED
    BY <2>1, <2>2, <2>3, <2>4, StartStep
<1>4. CASE BeginCase(w)
  <2>1. PICK b \in Kept : Start(w, [pc |-> "case", row |-> b])
    BY <1>4 DEF BeginCase, MemberStart
  <2>2. PICK q : q = [pc |-> "case", row |-> b]
    OBVIOUS
  <2>3. q.pc = "case" /\ WorkSound(q)
    BY <2>2 DEF WorkSound, Kept
  <2>4. UNCHANGED <<bills, reminders>>
    BY <1>4 DEF BeginCase
  <2>5. QED
    BY <2>1, <2>2, <2>3, <2>4, StartStep
<1>5. QED
  BY <1>1, <1>2, <1>3, <1>4

LEMMA FindBillStep ==
  ASSUME BInv, NEW w \in Workers, FindBill(w)
  PROVE  BInv'
<1>1. work[w].pc = "find" /\ UNCHANGED <<bills, reminders, overlapped>>
  BY DEF FindBill
<1>2. PICK b \in IF OfPayee = {} THEN {0} ELSE OfPayee :
        work' = [work EXCEPT ![w] = [pc |-> "write", bill |-> work[w].bill, row |-> b]]
  BY DEF FindBill, BInv, BillsForm
<1>3. PICK q : q = [pc |-> "write", bill |-> work[w].bill, row |-> b]
  OBVIOUS
<1>4. q.pc = "write" /\ q.row = b /\ work' = [work EXCEPT ![w] = q]
  BY <1>2, <1>3
<1>5. b \in BillRows \union {0} /\ (b = 0 => Detected = {})
  <2>1. 0 \notin OfPayee /\ OfPayee \subseteq BillRows /\ Detected \subseteq OfPayee
    BY DEF Detected, OfPayee, Active, Kept, BillRows
  <2>2. QED
    BY <1>2, <2>1
<1>6. WorkSound(q) /\ Knows(q)
  BY <1>4, <1>5 DEF WorkSound, Knows
<1>7. ~overlapped => \A o \in Workers \ {w} : work[o].pc = "idle"
  BY <1>1 DEF BInv, AloneInv
<1>8. overlapped' \in BOOLEAN /\ q.pc # "idle"
  BY <1>1, <1>4 DEF BInv, BillsForm
<1>9. QED
  BY <1>1, <1>4, <1>6, <1>7, <1>8, ReadStep

LEMMA ReadRemindersStep ==
  ASSUME BInv, NEW w \in Workers, ReadReminders(w)
  PROVE  BInv'
<1>1. work[w].pc = "unread" /\ UNCHANGED <<bills, reminders, overlapped>>
  BY DEF ReadReminders
<1>2. PICK seen : seen = Range(reminders)
  OBVIOUS
<1>3. PICK q : q = [pc |-> "record", keys |-> work[w].keys, seen |-> seen]
  OBVIOUS
<1>4. q.pc = "record" /\ q.keys = work[w].keys /\ q.seen = seen
  BY <1>3
<1>5. work' = [work EXCEPT ![w] = q]
  BY <1>1, <1>2, <1>3 DEF ReadReminders, BInv, BillsForm
<1>6. WorkSound(q)
  BY <1>1, <1>4 DEF BInv, BillsForm, WorkSound
<1>7. Knows(q)
  BY <1>2, <1>4 DEF Knows, Range
<1>8. ~overlapped => \A o \in Workers \ {w} : work[o].pc = "idle"
  BY <1>1 DEF BInv, AloneInv
<1>9. overlapped' \in BOOLEAN /\ q.pc # "idle"
  BY <1>1, <1>4 DEF BInv, BillsForm
<1>10. QED
  BY <1>1, <1>4, <1>5, <1>6, <1>7, <1>8, <1>9, ReadStep

\* One row takes another state.
LEMMA RowTouched ==
  ASSUME BInv, NEW b \in BillRows, NEW x, x \in BillStates(x), bills' = [bills EXCEPT ![b] = x]
  PROVE  /\ bills' \in Seq(Range(bills')) /\ BillRows' = BillRows
         /\ bills'[b] = x /\ \A c \in BillRows : c # b => bills'[c] = bills[c]
         /\ \A c \in BillRows' : bills'[c] \in BillStates(bills'[c])
<1>1. PICK u : u = bills
  OBVIOUS
<1>2. PICK t : t = [u EXCEPT ![b] = x]
  OBVIOUS
<1>3. u \in Seq(Range(u)) /\ Len(u) \in Nat /\ DOMAIN u = 1..Len(u) /\ b \in 1..Len(u)
  <2>1. u \in Seq(Range(u)) /\ b \in 1..Len(u)
    BY <1>1 DEF BInv, BillsForm, BillRows
  <2>2. QED
    BY <2>1
<1>4. t = [c \in 1..Len(u) |-> t[c]] /\ t[b] = x /\ \A c \in 1..Len(u) : c # b => t[c] = u[c]
  BY <1>2, <1>3
<1>5. t \in Seq(Range(t)) /\ Len(t) = Len(u)
  BY <1>3, <1>4, SeqForm
<1>6. bills' = t
  BY <1>1, <1>2
<1>7. BillRows' = BillRows /\ bills'[b] = x /\ \A c \in BillRows : c # b => bills'[c] = bills[c]
  BY <1>1, <1>4, <1>5, <1>6 DEF BillRows
<1>8. \A c \in BillRows' : bills'[c] \in BillStates(bills'[c])
  BY <1>7 DEF BInv, BillsForm
<1>9. QED
  BY <1>5, <1>6, <1>7, <1>8

\* Rows of the bills as records of constants.
LEMMA RowOf ==
  ASSUME BInv, NEW b \in BillRows
  PROVE  \E active, deleted, cases, mine, hand, last, expected :
           /\ active \in BOOLEAN /\ deleted \in BOOLEAN /\ cases \in Nat /\ mine \in BOOLEAN /\ hand \in BOOLEAN
           /\ bills[b] = [active |-> active, deleted |-> deleted, cases |-> cases,
                          ofPayee |-> mine, byHand |-> hand, last |-> last, expected |-> expected]
<1>1. bills[b] \in BillStates(bills[b])
  BY DEF BInv, BillsForm
<1>2. PICK x : x = bills[b]
  OBVIOUS
<1>3. x \in BillStates(x)
  BY <1>1, <1>2
<1>4. /\ x.active \in BOOLEAN /\ x.deleted \in BOOLEAN /\ x.cases \in Nat
      /\ x.ofPayee \in BOOLEAN /\ x.byHand \in BOOLEAN
      /\ x = [active |-> x.active, deleted |-> x.deleted, cases |-> x.cases,
              ofPayee |-> x.ofPayee, byHand |-> x.byHand, last |-> x.last, expected |-> x.expected]
  BY <1>3 DEF BillStates
<1>5. QED
  BY <1>2, <1>4

\* What a slot may make of a row: it stays whose it was, and never turns active.
KeepsSide(x, row) ==
  /\ x.active => row.active
  /\ x.ofPayee = row.ofPayee /\ x.byHand = row.byHand
  /\ ~x.deleted => ~row.deleted

\* A slot that writes one row and is done.
LEMMA WroteBill ==
  ASSUME BInv, NEW w \in Workers, work[w].pc # "idle", work' = [work EXCEPT ![w] = Resting],
         UNCHANGED <<reminders, overlapped>>,
         NEW b \in BillRows, NEW x, x \in BillStates(x),
         bills' = bills \/ bills' = [bills EXCEPT ![b] = x],
         KeepsSide(x, bills[b]),
         x.cases > 0 => ~x.deleted
  PROVE  BInv'
<1>1. BillsForm /\ CasesKeepTheirBill /\ AloneInv
  BY DEF BInv
<1>2. overlapped' \in BOOLEAN
  BY <1>1 DEF BillsForm
<1>3. CASE bills' = bills
  BY <1>2, <1>3, RestingWork, ReadStep
<1>4. CASE bills' = [bills EXCEPT ![b] = x]
  <2>1. /\ bills' \in Seq(Range(bills')) /\ BillRows' = BillRows
        /\ bills'[b] = x /\ \A c \in BillRows : c # b => bills'[c] = bills[c]
        /\ \A c \in BillRows' : bills'[c] \in BillStates(bills'[c])
    BY <1>4, RowTouched
  <2>2. CasesKeepTheirBill'
    BY <1>1, <2>1 DEF CasesKeepTheirBill
  <2>3. Detected' \subseteq Detected
    BY <2>1 DEF Detected, OfPayee, Active, Kept, KeepsSide
  <2>4. ~overlapped => OneBill' /\ NoneTwice'
    BY <1>1, <2>3 DEF AloneInv, OneBill, NoneTwice
  <2>5. Knows(Resting)' /\ Resting.pc = "idle" /\ WorkSound(Resting)
    BY RestingWork DEF Knows
  <2>6. reminders' \in Seq(Range(reminders'))
    BY <1>1 DEF BillsForm
  <2>7. QED
    BY <1>2, <2>1, <2>2, <2>4, <2>5, <2>6, WorkStep
<1>5. QED
  BY <1>3, <1>4

LEMMA CommitRemoveStep ==
  ASSUME BInv, NEW w \in Workers, CommitRemove(w)
  PROVE  BInv'
<1>1. PICK b : b = work[w].row
  OBVIOUS
<1>2. /\ work[w].pc = "remove" /\ work' = [work EXCEPT ![w] = Resting]
      /\ UNCHANGED <<reminders, overlapped>>
      /\ \/ bills' = bills
         \/ bills' = [bills EXCEPT ![b].active = FALSE]
         \/ bills' = [bills EXCEPT ![b].deleted = TRUE] /\ bills[b].cases = 0
  BY <1>1 DEF CommitRemove, Done, MayDelete
<1>3. b \in BillRows
  BY <1>1, <1>2 DEF BInv, BillsForm, WorkSound
<1>4. bills \in Seq(Range(bills)) /\ b \in DOMAIN bills
  BY <1>3 DEF BInv, BillsForm, BillRows
<1>5. PICK active, deleted, cases, mine, hand, last, expected :
        /\ active \in BOOLEAN /\ deleted \in BOOLEAN /\ cases \in Nat /\ mine \in BOOLEAN /\ hand \in BOOLEAN
        /\ bills[b] = [active |-> active, deleted |-> deleted, cases |-> cases,
                       ofPayee |-> mine, byHand |-> hand, last |-> last, expected |-> expected]
  BY <1>3, RowOf
<1>6. cases > 0 => ~deleted
  BY <1>3, <1>5 DEF BInv, CasesKeepTheirBill
<1>7. CASE bills' = bills
  <2>1. PICK x : x = bills[b]
    OBVIOUS
  <2>2. x \in BillStates(x) /\ KeepsSide(x, bills[b]) /\ (x.cases > 0 => ~x.deleted)
    BY <2>1, <1>5, <1>6 DEF BillStates, KeepsSide
  <2>3. QED
    BY <1>2, <1>3, <1>7, <2>2, WroteBill
<1>8. CASE bills' = [bills EXCEPT ![b].active = FALSE]
  <2>1. PICK x : x = [active |-> FALSE, deleted |-> deleted, cases |-> cases,
                      ofPayee |-> mine, byHand |-> hand, last |-> last, expected |-> expected]
    OBVIOUS
  <2>2. [bills[b] EXCEPT !.active = FALSE] = x
    <3>1. PICK v : v = [active |-> active, deleted |-> deleted, cases |-> cases,
                        ofPayee |-> mine, byHand |-> hand, last |-> last, expected |-> expected]
      OBVIOUS
    <3>2. PICK yes : yes = FALSE
      OBVIOUS
    <3>3. PICK y : y = [v EXCEPT !.active = yes]
      OBVIOUS
    <3>4. y = [active |-> yes, deleted |-> deleted, cases |-> cases,
               ofPayee |-> mine, byHand |-> hand, last |-> last, expected |-> expected]
      BY <3>1, <3>3
    <3>5. y = x
      BY <2>1, <3>2, <3>4
    <3>6. bills[b] = v
      BY <1>5, <3>1
    <3>7. QED
      BY <3>2, <3>3, <3>5, <3>6
  <2>3. bills' = [bills EXCEPT ![b] = x]
    BY <1>4, <1>8, <2>2
  <2>4. x \in BillStates(x) /\ KeepsSide(x, bills[b]) /\ (x.cases > 0 => ~x.deleted)
    BY <1>5, <1>6, <2>1 DEF BillStates, KeepsSide
  <2>5. QED
    BY <1>2, <1>3, <2>3, <2>4, WroteBill
<1>9. CASE bills' = [bills EXCEPT ![b].deleted = TRUE] /\ bills[b].cases = 0
  <2>1. PICK x : x = [active |-> active, deleted |-> TRUE, cases |-> cases,
                      ofPayee |-> mine, byHand |-> hand, last |-> last, expected |-> expected]
    OBVIOUS
  <2>2. [bills[b] EXCEPT !.deleted = TRUE] = x
    <3>1. PICK v : v = [active |-> active, deleted |-> deleted, cases |-> cases,
                        ofPayee |-> mine, byHand |-> hand, last |-> last, expected |-> expected]
      OBVIOUS
    <3>2. PICK yes : yes = TRUE
      OBVIOUS
    <3>3. PICK y : y = [v EXCEPT !.deleted = yes]
      OBVIOUS
    <3>4. y = [active |-> active, deleted |-> yes, cases |-> cases,
               ofPayee |-> mine, byHand |-> hand, last |-> last, expected |-> expected]
      BY <3>1, <3>3
    <3>5. y = x
      BY <2>1, <3>2, <3>4
    <3>6. bills[b] = v
      BY <1>5, <3>1
    <3>7. QED
      BY <3>2, <3>3, <3>5, <3>6
  <2>3. bills' = [bills EXCEPT ![b] = x]
    BY <1>4, <1>9, <2>2
  <2>4. x \in BillStates(x) /\ KeepsSide(x, bills[b]) /\ (x.cases > 0 => ~x.deleted)
    BY <1>5, <1>9, <2>1 DEF BillStates, KeepsSide
  <2>5. QED
    BY <1>2, <1>3, <2>3, <2>4, WroteBill
<1>10. QED
  BY <1>2, <1>7, <1>8, <1>9

LEMMA InsertCaseStep ==
  ASSUME BInv, NEW w \in Workers, InsertCase(w)
  PROVE  BInv'
<1>1. PICK b : b = work[w].row
  OBVIOUS
<1>2. /\ work[w].pc = "case" /\ work' = [work EXCEPT ![w] = Resting]
      /\ UNCHANGED <<reminders, overlapped>>
      /\ bills' = IF bills[b].deleted THEN bills ELSE [bills EXCEPT ![b].cases = @ + 1]
  BY <1>1 DEF InsertCase, Done
<1>3. b \in BillRows
  BY <1>1, <1>2 DEF BInv, BillsForm, WorkSound
<1>4. bills \in Seq(Range(bills)) /\ b \in DOMAIN bills
  BY <1>3 DEF BInv, BillsForm, BillRows
<1>5. PICK active, deleted, cases, mine, hand, last, expected :
        /\ active \in BOOLEAN /\ deleted \in BOOLEAN /\ cases \in Nat /\ mine \in BOOLEAN /\ hand \in BOOLEAN
        /\ bills[b] = [active |-> active, deleted |-> deleted, cases |-> cases,
                       ofPayee |-> mine, byHand |-> hand, last |-> last, expected |-> expected]
  BY <1>3, RowOf
<1>6. CASE deleted
  <2>1. bills' = bills
    BY <1>2, <1>5, <1>6
  <2>2. PICK x : x = bills[b]
    OBVIOUS
  <2>3. x \in BillStates(x) /\ KeepsSide(x, bills[b])
    BY <1>5, <2>2 DEF BillStates, KeepsSide
  <2>4. x.cases > 0 => ~x.deleted
    BY <1>3, <2>2 DEF BInv, CasesKeepTheirBill
  <2>5. QED
    BY <1>2, <1>3, <2>1, <2>2, <2>3, <2>4, WroteBill
<1>7. CASE ~deleted
  <2>1. PICK x : x = [active |-> active, deleted |-> deleted, cases |-> cases + 1,
                      ofPayee |-> mine, byHand |-> hand, last |-> last, expected |-> expected]
    OBVIOUS
  <2>2. [bills[b] EXCEPT !.cases = @ + 1] = x
    <3>1. PICK v : v = [active |-> active, deleted |-> deleted, cases |-> cases,
                        ofPayee |-> mine, byHand |-> hand, last |-> last, expected |-> expected]
      OBVIOUS
    <3>2. [v EXCEPT !.cases = @ + 1] = x
      BY <2>1, <3>1
    <3>3. bills[b] = v
      BY <1>5, <3>1
    <3>4. QED
      BY <3>2, <3>3
  <2>3. bills' = [bills EXCEPT ![b] = x]
    <3>1. PICK u : u = bills
      OBVIOUS
    <3>2. PICK t : t = [u EXCEPT ![b].cases = @ + 1]
      OBVIOUS
    <3>3. u \in Seq(Range(u)) /\ b \in 1..Len(u) /\ DOMAIN u = 1..Len(u)
      BY <1>4, <3>1
    <3>4. PICK y : y = [u[b] EXCEPT !.cases = @ + 1]
      OBVIOUS
    <3>5. t = [c \in 1..Len(u) |-> IF c = b THEN y ELSE u[c]]
      BY <3>2, <3>3, <3>4
    <3>6. y = x
      BY <2>2, <3>1, <3>4
    <3>7. t = [u EXCEPT ![b] = x]
      BY <3>3, <3>5, <3>6
    <3>8. bills' = t
      BY <1>2, <1>5, <1>7, <3>1, <3>2
    <3>9. QED
      BY <3>1, <3>7, <3>8
  <2>4. x \in BillStates(x) /\ KeepsSide(x, bills[b]) /\ ~x.deleted
    BY <1>5, <1>7, <2>1 DEF BillStates, KeepsSide
  <2>5. QED
    BY <1>2, <1>3, <2>3, <2>4, WroteBill
<1>8. QED
  BY <1>6, <1>7

LEMMA WriteBillStep ==
  ASSUME BInv, NEW w \in Workers, WriteBill(w)
  PROVE  BInv'
<1>1. PICK b : b = work[w].row
  OBVIOUS
<1>2. PICK bill : bill = work[w].bill
  OBVIOUS
<1>3. /\ work[w].pc = "write" /\ work' = [work EXCEPT ![w] = Resting]
      /\ UNCHANGED <<reminders, overlapped>>
      /\ IF b = 0 THEN bills' = Append(bills, Row(bill))
         ELSE bills' = IF bills[b].deleted THEN bills
                       ELSE [bills EXCEPT ![b].last = bill.last, ![b].expected = bill.expected]
  BY <1>1, <1>2 DEF WriteBill, Done
<1>4. b \in BillRows \union {0}
  BY <1>1, <1>3 DEF BInv, BillsForm, WorkSound
<1>5. BillsForm /\ CasesKeepTheirBill /\ AloneInv
  BY DEF BInv
<1>6. CASE b = 0
  <2>1. PICK u : u = bills
    OBVIOUS
  <2>2. PICK x : x = Row(bill)
    OBVIOUS
  <2>3. PICK t : t = Append(u, x)
    OBVIOUS
  <2>4. u \in Seq(Range(u))
    BY <1>5, <2>1 DEF BillsForm
  <2>5. u \in Seq(Range(u) \union {x}) /\ x \in Range(u) \union {x} /\ Len(u) \in Nat
    BY <2>4
  <2>6. /\ t \in Seq(Range(u) \union {x}) /\ Len(t) = Len(u) + 1
        /\ \A i \in 1..Len(u) : t[i] = u[i]
        /\ t[Len(u) + 1] = x
    BY <2>3, <2>5
  <2>7. Len(t) \in Nat /\ t = [i \in 1..Len(t) |-> t[i]]
    BY <2>6, OfSeq
  <2>8. t \in Seq(Range(t))
    BY <2>7, SeqForm
  <2>9. bills' = t
    BY <1>3, <1>6, <2>1, <2>2, <2>3
  <2>10. PICK n : n = Len(u) + 1
    OBVIOUS
  <2>11. /\ BillRows' = BillRows \union {n} /\ n \notin BillRows
         /\ \A c \in BillRows : bills'[c] = bills[c]
         /\ bills'[n] = x
    BY <2>1, <2>5, <2>6, <2>9, <2>10 DEF BillRows
  <2>12. x \in BillStates(x) /\ x.cases = 0
    BY <2>2 DEF Row, BillStates
  <2>13. \A c \in BillRows' : bills'[c] \in BillStates(bills'[c])
    BY <1>5, <2>11, <2>12 DEF BillsForm
  <2>14. CasesKeepTheirBill'
    BY <1>5, <2>11, <2>12 DEF CasesKeepTheirBill
  <2>15. \A c \in Detected' : c \in Detected \/ c = n
    BY <2>11 DEF Detected, OfPayee, Active, Kept
  <2>16. ~overlapped => OneBill' /\ NoneTwice'
    <3>1. ~overlapped => Detected = {}
      BY <1>1, <1>3, <1>5, <1>6 DEF AloneInv, Knows
    <3>2. ~overlapped => OneBill'
      BY <2>15, <3>1 DEF OneBill
    <3>3. ~overlapped => NoneTwice'
      BY <1>3, <1>5 DEF AloneInv, NoneTwice
    <3>4. QED
      BY <3>2, <3>3, <3>4
  <2>17. Knows(Resting)' /\ Resting.pc = "idle" /\ WorkSound(Resting)
    BY RestingWork DEF Knows
  <2>18. reminders' \in Seq(Range(reminders')) /\ overlapped' \in BOOLEAN
    BY <1>3, <1>5 DEF BillsForm
  <2>19. bills' \in Seq(Range(bills')) /\ BillRows \subseteq BillRows'
    BY <2>8, <2>9, <2>11
  <2>20. QED
    BY <1>3, <2>13, <2>14, <2>16, <2>17, <2>18, <2>19, WorkStep
<1>7. CASE b # 0
  <2>1. b \in BillRows
    BY <1>4, <1>7
  <2>2. PICK active, deleted, cases, mine, hand, last, expected :
          /\ active \in BOOLEAN /\ deleted \in BOOLEAN /\ cases \in Nat /\ mine \in BOOLEAN /\ hand \in BOOLEAN
          /\ bills[b] = [active |-> active, deleted |-> deleted, cases |-> cases,
                         ofPayee |-> mine, byHand |-> hand, last |-> last, expected |-> expected]
    BY <2>1, RowOf
  <2>3. cases > 0 => ~deleted
    BY <1>5, <2>1, <2>2 DEF CasesKeepTheirBill
  <2>4. PICK x : x = [active |-> active, deleted |-> deleted, cases |-> cases,
                      ofPayee |-> mine, byHand |-> hand, last |-> bill.last, expected |-> bill.expected]
    OBVIOUS
  <2>5. x \in BillStates(x) /\ KeepsSide(x, bills[b]) /\ (x.cases > 0 => ~x.deleted)
    BY <2>2, <2>3, <2>4 DEF BillStates, KeepsSide
  <2>6. bills' = bills \/ bills' = [bills EXCEPT ![b] = x]
    <3>1. bills' = bills
          \/ bills' = [bills EXCEPT ![b].last = bill.last, ![b].expected = bill.expected]
      BY <1>3, <1>7
    <3>2. PICK u : u = bills
      OBVIOUS
    <3>3. u \in Seq(Range(u)) /\ b \in 1..Len(u)
      BY <1>5, <2>1, <3>2 DEF BillsForm, BillRows
    <3>4. DOMAIN u = 1..Len(u)
      BY <3>3
    <3>5. PICK v : v = [active |-> active, deleted |-> deleted, cases |-> cases,
                        ofPayee |-> mine, byHand |-> hand, last |-> last, expected |-> expected]
      OBVIOUS
    <3>6. PICK y : y = [v EXCEPT !.last = bill.last]
      OBVIOUS
    <3>7. y = [active |-> active, deleted |-> deleted, cases |-> cases,
               ofPayee |-> mine, byHand |-> hand, last |-> bill.last, expected |-> expected]
      BY <3>5, <3>6
    <3>8. [y EXCEPT !.expected = bill.expected] = x
      BY <2>4, <3>7
    <3>9. PICK t : t = [u EXCEPT ![b].last = bill.last, ![b].expected = bill.expected]
      OBVIOUS
    <3>10. t = [c \in 1..Len(u) |->
                  IF c = b THEN [[u[b] EXCEPT !.last = bill.last] EXCEPT !.expected = bill.expected]
                  ELSE u[c]]
      BY <3>3, <3>4, <3>9
    <3>11. u[b] = v
      BY <2>2, <3>2, <3>5
    <3>12. t = [c \in 1..Len(u) |-> IF c = b THEN x ELSE u[c]]
      BY <3>6, <3>8, <3>10, <3>11
    <3>13. t = [u EXCEPT ![b] = x]
      BY <3>3, <3>4, <3>12
    <3>14. QED
      BY <3>1, <3>2, <3>9, <3>13
  <2>7. QED
    BY <1>3, <2>1, <2>5, <2>6, WroteBill
<1>8. QED
  BY <1>6, <1>7

LEMMA RecordRemindersStep ==
  ASSUME BInv, NEW w \in Workers, RecordReminders(w)
  PROVE  BInv'
<1>1. BillsForm /\ CasesKeepTheirBill /\ AloneInv
  BY DEF BInv
<1>2. /\ work[w].pc = "record" /\ work' = [work EXCEPT ![w] = Resting]
      /\ UNCHANGED <<bills, overlapped>>
  BY DEF RecordReminders, Done
<1>3. PICK keys : keys = work[w].keys \ work[w].seen
  OBVIOUS
<1>4. IsFiniteSet(keys)
  <2>1. IsFiniteSet(work[w].keys) /\ keys \in SUBSET work[w].keys
    BY <1>1, <1>2, <1>3 DEF BillsForm, WorkSound
  <2>2. QED
    BY <2>1, FS_Subset
<1>5. PICK new : new = SetToSeq(keys)
  OBVIOUS
<1>6. /\ new \in Seq(keys)
      /\ \A i, j \in 1..Len(new) : new[i] = new[j] => i = j
  BY <1>4, <1>5, SetToSeqForm
<1>7. PICK n \in Nat : n = Len(reminders)
  BY <1>1 DEF BillsForm
<1>8. PICK k \in Nat : k = Len(new) /\ \A i \in 1..k : new[i] \in keys
  BY <1>6
<1>9. PICK old : old = reminders /\ old \in Seq(Range(old)) /\ Len(old) = n
  BY <1>1, <1>7 DEF BillsForm
<1>10. PICK t : t = old \o new
  OBVIOUS
<1>11. reminders' = t
  BY <1>3, <1>5, <1>9, <1>10 DEF RecordReminders
<1>12. PICK T : old \in Seq(T) /\ new \in Seq(T)
  <2>1. old \in Seq(Range(old) \union keys) /\ new \in Seq(Range(old) \union keys)
    BY <1>6, <1>9
  <2>2. QED
    BY <2>1
<1>13. /\ t \in Seq(Range(t)) /\ DOMAIN t = 1..(n + k)
       /\ \A i \in 1..(n + k) : t[i] = IF i <= n THEN old[i] ELSE new[i - n]
  <2>1. t \in Seq(T) /\ Len(t) = Len(old) + Len(new)
    BY <1>10, <1>12
  <2>2. \A i \in 1..(Len(old) + Len(new)) : t[i] = IF i <= Len(old) THEN old[i] ELSE new[i - Len(old)]
    BY <1>10, <1>12
  <2>3. Len(t) \in Nat /\ DOMAIN t = 1..Len(t) /\ t = [i \in 1..Len(t) |-> t[i]]
    BY <2>1, OfSeq
  <2>4. t \in Seq(Range(t))
    BY <2>3, SeqForm
  <2>5. QED
    BY <1>8, <1>9, <2>1, <2>2, <2>3, <2>4
<1>14. ~overlapped => NoneTwice'
  <2> SUFFICES ASSUME ~overlapped, NEW i \in 1..(n + k), NEW j \in 1..(n + k), t[i] = t[j]
               PROVE  i = j
    BY <1>11, <1>13 DEF NoneTwice
  <2>1. \A m \in 1..n : old[m] \notin keys
    <3>1. \A m \in DOMAIN reminders : reminders[m] \in work[w].seen
      BY <1>1, <1>2 DEF AloneInv, Knows
    <3>2. QED
      BY <1>3, <1>9, <3>1
  <2>2. CASE i <= n /\ j <= n
    <3>1. old[i] = old[j] /\ i \in DOMAIN reminders /\ j \in DOMAIN reminders
      BY <1>9, <1>13, <2>2
    <3>2. QED
      BY <1>1, <1>9, <3>1 DEF AloneInv, NoneTwice
  <2>3. ASSUME NEW a \in 1..(n + k), a > n PROVE a - n \in 1..k /\ t[a] = new[a - n] /\ t[a] \in keys
    <3>1. a - n \in 1..k
      BY <2>3
    <3>2. QED
      BY <1>8, <1>13, <2>3, <3>1
  <2>4. ASSUME NEW a \in 1..(n + k), a <= n PROVE t[a] \notin keys
    BY <1>13, <2>1, <2>4
  <2>5. CASE i > n /\ j > n
    <3>1. i - n = j - n
      BY <1>6, <1>8, <2>3, <2>5
    <3>2. QED
      BY <3>1
  <2>6. QED
    BY <2>2, <2>3, <2>4, <2>5
<1>15. BillRows' = BillRows /\ Detected' = Detected
  BY <1>2 DEF BillRows, Detected, OfPayee, Active, Kept
<1>16. /\ bills' \in Seq(Range(bills')) /\ BillRows \subseteq BillRows'
       /\ \A b \in BillRows' : bills'[b] \in BillStates(bills'[b])
       /\ CasesKeepTheirBill' /\ overlapped' \in BOOLEAN
  BY <1>1, <1>2, <1>15 DEF BillsForm, CasesKeepTheirBill
<1>17. ~overlapped => OneBill'
  BY <1>1, <1>15 DEF AloneInv, OneBill
<1>18. Knows(Resting)' /\ Resting.pc = "idle" /\ WorkSound(Resting)
  BY RestingWork DEF Knows
<1>19. reminders' \in Seq(Range(reminders'))
  BY <1>11, <1>13
<1>20. QED
  BY <1>2, <1>14, <1>16, <1>17, <1>18, <1>19, WorkStep

\* A request of the member that is one statement and has no slot.
LEMMA MemberStep ==
  ASSUME BInv, UNCHANGED <<reminders, work, overlapped>>,
         bills' \in Seq(Range(bills')), BillRows \subseteq BillRows',
         \A c \in BillRows' : bills'[c] \in BillStates(bills'[c]),
         CasesKeepTheirBill', Detected' \subseteq Detected
  PROVE  BInv'
<1>1. BillsForm /\ CasesKeepTheirBill /\ AloneInv
  BY DEF BInv
<1>2. BillsForm'
  <2>1. \A w \in Workers : WorkSound(work[w])'
    BY <1>1 DEF BillsForm, WorkSound
  <2>2. QED
    BY <1>1, <2>1 DEF BillsForm
<1>3. AloneInv'
  <2> SUFFICES ASSUME ~overlapped PROVE AloneInv'
    BY DEF AloneInv
  <2>1. \A w, o \in Workers : work'[w].pc # "idle" /\ work'[o].pc # "idle" => w = o
    BY <1>1 DEF AloneInv
  <2>2. \A w \in Workers : Knows(work[w])'
    <3>1. \A w \in Workers : Knows(work[w])
      BY <1>1 DEF AloneInv
    <3>2. QED
      BY <3>1 DEF Knows
  <2>3. OneBill' /\ NoneTwice'
    BY <1>1 DEF AloneInv, OneBill, NoneTwice
  <2>4. QED
    BY <2>1, <2>2, <2>3 DEF AloneInv
<1>4. QED
  BY <1>2, <1>3 DEF BInv

\* One row more.
LEMMA RowAdded ==
  ASSUME BInv, NEW x, x \in BillStates(x), x.cases = 0, bills' = Append(bills, x)
  PROVE  /\ bills' \in Seq(Range(bills')) /\ BillRows \subseteq BillRows'
         /\ \A c \in BillRows' : bills'[c] \in BillStates(bills'[c])
         /\ CasesKeepTheirBill'
         /\ \E n : /\ BillRows' = BillRows \union {n} /\ bills'[n] = x
                  /\ \A c \in BillRows : bills'[c] = bills[c]
<1>1. PICK u : u = bills
  OBVIOUS
<1>2. PICK t : t = Append(u, x)
  OBVIOUS
<1>3. u \in Seq(Range(u))
  BY <1>1 DEF BInv, BillsForm
<1>4. u \in Seq(Range(u) \union {x}) /\ x \in Range(u) \union {x} /\ Len(u) \in Nat
  BY <1>3
<1>5. /\ t \in Seq(Range(u) \union {x}) /\ Len(t) = Len(u) + 1
      /\ \A i \in 1..Len(u) : t[i] = u[i]
      /\ t[Len(u) + 1] = x
  BY <1>2, <1>4
<1>6. Len(t) \in Nat /\ t = [i \in 1..Len(t) |-> t[i]]
  BY <1>5, OfSeq
<1>7. t \in Seq(Range(t))
  BY <1>6, SeqForm
<1>8. bills' = t
  BY <1>1, <1>2
<1>9. PICK n : n = Len(u) + 1
  OBVIOUS
<1>10. /\ BillRows' = BillRows \union {n} /\ bills'[n] = x
       /\ \A c \in BillRows : bills'[c] = bills[c]
  BY <1>1, <1>4, <1>5, <1>8, <1>9 DEF BillRows
<1>11. \A c \in BillRows' : bills'[c] \in BillStates(bills'[c])
  BY <1>10 DEF BInv, BillsForm
<1>12. CasesKeepTheirBill'
  <2>1. \A c \in BillRows : bills'[c].cases > 0 => ~bills'[c].deleted
    BY <1>10 DEF BInv, CasesKeepTheirBill
  <2>2. ~(bills'[n].cases > 0)
    BY <1>10
  <2>3. QED
    BY <1>10, <2>1, <2>2 DEF CasesKeepTheirBill
<1>13. QED
  BY <1>7, <1>8, <1>10, <1>11, <1>12

LEMMA CreateBillStep ==
  ASSUME BInv, CreateBill
  PROVE  BInv'
<1>1. PICK a \in BillAmounts, mine \in BOOLEAN :
        bills' = Append(bills, OwnRow(a, mine))
  BY DEF CreateBill
<1>2. PICK yes \in BOOLEAN : yes = TRUE
  OBVIOUS
<1>3. PICK no \in BOOLEAN : no = FALSE
  OBVIOUS
<1>4. PICK x : x = [active |-> yes, deleted |-> no, cases |-> 0,
                    ofPayee |-> mine, byHand |-> yes, last |-> 0, expected |-> a]
  OBVIOUS
<1>5. OwnRow(a, mine) = x
  <2>1. PICK v : v = [active |-> yes, deleted |-> no, cases |-> 0,
                      ofPayee |-> yes, byHand |-> no, last |-> 0, expected |-> a]
    OBVIOUS
  <2>2. Row([last |-> 0, expected |-> a]) = v
    BY <1>2, <1>3, <2>1 DEF Row
  <2>3. PICK y : y = [v EXCEPT !.ofPayee = mine]
    OBVIOUS
  <2>4. y = [active |-> yes, deleted |-> no, cases |-> 0,
             ofPayee |-> mine, byHand |-> no, last |-> 0, expected |-> a]
    BY <2>1, <2>3
  <2>5. [y EXCEPT !.byHand = yes] = x
    BY <1>4, <2>4
  <2>6. QED
    BY <1>2, <2>2, <2>3, <2>5 DEF OwnRow
<1>6. x \in BillStates(x) /\ x.cases = 0 /\ x.byHand
  BY <1>2, <1>4 DEF BillStates
<1>7. bills' = Append(bills, x)
  BY <1>1, <1>5
<1>8. /\ bills' \in Seq(Range(bills')) /\ BillRows \subseteq BillRows'
      /\ \A c \in BillRows' : bills'[c] \in BillStates(bills'[c])
      /\ CasesKeepTheirBill'
  BY <1>6, <1>7, RowAdded
<1>9. PICK n : /\ BillRows' = BillRows \union {n} /\ bills'[n] = x
               /\ \A c \in BillRows : bills'[c] = bills[c]
  BY <1>6, <1>7, RowAdded
<1>10. Detected' \subseteq Detected
  BY <1>6, <1>9 DEF Detected, OfPayee, Active, Kept
<1>11. UNCHANGED <<reminders, work, overlapped>>
  BY DEF CreateBill
<1>12. QED
  BY <1>8, <1>10, <1>11, MemberStep

\* A row put through the request of a member.
LEMMA RowEdited ==
  ASSUME BInv, UNCHANGED <<reminders, work, overlapped>>,
         NEW b \in BillRows, NEW x, x \in BillStates(x), bills' = [bills EXCEPT ![b] = x],
         x.deleted = bills[b].deleted, x.cases = bills[b].cases,
         x.byHand \/ (/\ x.active = bills[b].active /\ x.ofPayee = bills[b].ofPayee
                      /\ x.byHand = bills[b].byHand)
  PROVE  BInv'
<1>1. /\ bills' \in Seq(Range(bills')) /\ BillRows' = BillRows
      /\ bills'[b] = x /\ \A c \in BillRows : c # b => bills'[c] = bills[c]
      /\ \A c \in BillRows' : bills'[c] \in BillStates(bills'[c])
  BY RowTouched
<1>2. CasesKeepTheirBill'
  BY <1>1 DEF BInv, CasesKeepTheirBill
<1>3. Detected' \subseteq Detected
  BY <1>1 DEF Detected, OfPayee, Active, Kept
<1>4. QED
  BY <1>1, <1>2, <1>3, MemberStep

LEMMA EditBillStep ==
  ASSUME BInv, NEW b \in BillRows, EditBill(b)
  PROVE  BInv'
<1>1. PICK active, deleted, cases, mine, hand, last, expected :
        /\ active \in BOOLEAN /\ deleted \in BOOLEAN /\ cases \in Nat /\ mine \in BOOLEAN /\ hand \in BOOLEAN
        /\ bills[b] = [active |-> active, deleted |-> deleted, cases |-> cases,
                       ofPayee |-> mine, byHand |-> hand, last |-> last, expected |-> expected]
  BY RowOf
<1>2. PICK v : v = [active |-> active, deleted |-> deleted, cases |-> cases,
                    ofPayee |-> mine, byHand |-> hand, last |-> last, expected |-> expected]
  OBVIOUS
<1>3. PICK u : u = bills
  OBVIOUS
<1>4. u \in Seq(Range(u)) /\ b \in 1..Len(u) /\ DOMAIN u = 1..Len(u) /\ u[b] = v
  <2>1. u \in Seq(Range(u)) /\ b \in 1..Len(u)
    BY <1>3 DEF BInv, BillsForm, BillRows
  <2>2. QED
    BY <1>1, <1>2, <1>3, <2>1
<1>5. UNCHANGED <<reminders, work, overlapped>>
  BY DEF EditBill
<1>6. PICK yes \in BOOLEAN : yes = TRUE
  OBVIOUS
<1>7. CASE bills' = [bills EXCEPT ![b].active = ~@, ![b].byHand = TRUE]
  <2>1. PICK on \in BOOLEAN : on = ~active
    OBVIOUS
  <2>2. PICK x : x = [active |-> on, deleted |-> deleted, cases |-> cases,
                      ofPayee |-> mine, byHand |-> yes, last |-> last, expected |-> expected]
    OBVIOUS
  <2>3. PICK y : y = [v EXCEPT !.active = on]
    OBVIOUS
  <2>4. y = [active |-> on, deleted |-> deleted, cases |-> cases,
             ofPayee |-> mine, byHand |-> hand, last |-> last, expected |-> expected]
    BY <1>2, <2>3
  <2>5. [y EXCEPT !.byHand = yes] = x
    BY <2>2, <2>4
  <2>6. v.active = active
    BY <1>2
  <2>7. [v EXCEPT !.active = ~@] = y
    BY <2>1, <2>3, <2>6
  <2>8. bills' = [bills EXCEPT ![b] = x]
    <3>1. PICK t : t = [u EXCEPT ![b].active = ~@, ![b].byHand = TRUE]
      OBVIOUS
    <3>2. t = [c \in 1..Len(u) |->
                 IF c = b THEN [[u[b] EXCEPT !.active = ~@] EXCEPT !.byHand = TRUE] ELSE u[c]]
      BY <1>4, <3>1
    <3>3. [[u[b] EXCEPT !.active = ~@] EXCEPT !.byHand = TRUE] = x
      BY <1>4, <1>6, <2>5, <2>7
    <3>4. t = [u EXCEPT ![b] = x]
      BY <1>4, <3>2, <3>3
    <3>5. QED
      BY <1>3, <1>7, <3>1, <3>4
  <2>9. x \in BillStates(x) /\ x.deleted = bills[b].deleted /\ x.cases = bills[b].cases /\ x.byHand
    BY <1>1, <1>6, <2>2 DEF BillStates
  <2>10. QED
    BY <1>5, <2>8, <2>9, RowEdited
<1>8. CASE bills' = [bills EXCEPT ![b].ofPayee = ~@, ![b].byHand = TRUE]
  <2>1. PICK other \in BOOLEAN : other = ~mine
    OBVIOUS
  <2>2. PICK x : x = [active |-> active, deleted |-> deleted, cases |-> cases,
                      ofPayee |-> other, byHand |-> yes, last |-> last, expected |-> expected]
    OBVIOUS
  <2>3. PICK y : y = [v EXCEPT !.ofPayee = other]
    OBVIOUS
  <2>4. y = [active |-> active, deleted |-> deleted, cases |-> cases,
             ofPayee |-> other, byHand |-> hand, last |-> last, expected |-> expected]
    BY <1>2, <2>3
  <2>5. [y EXCEPT !.byHand = yes] = x
    BY <2>2, <2>4
  <2>6. v.ofPayee = mine
    BY <1>2
  <2>7. [v EXCEPT !.ofPayee = ~@] = y
    BY <2>1, <2>3, <2>6
  <2>8. bills' = [bills EXCEPT ![b] = x]
    <3>1. PICK t : t = [u EXCEPT ![b].ofPayee = ~@, ![b].byHand = TRUE]
      OBVIOUS
    <3>2. t = [c \in 1..Len(u) |->
                 IF c = b THEN [[u[b] EXCEPT !.ofPayee = ~@] EXCEPT !.byHand = TRUE] ELSE u[c]]
      BY <1>4, <3>1
    <3>3. [[u[b] EXCEPT !.ofPayee = ~@] EXCEPT !.byHand = TRUE] = x
      BY <1>4, <1>6, <2>5, <2>7
    <3>4. t = [u EXCEPT ![b] = x]
      BY <1>4, <3>2, <3>3
    <3>5. QED
      BY <1>3, <1>8, <3>1, <3>4
  <2>9. x \in BillStates(x) /\ x.deleted = bills[b].deleted /\ x.cases = bills[b].cases /\ x.byHand
    BY <1>1, <1>6, <2>2 DEF BillStates
  <2>10. QED
    BY <1>5, <2>8, <2>9, RowEdited
<1>9. CASE \E a \in BillAmounts : bills' = [bills EXCEPT ![b].expected = a]
  <2>1. PICK a : bills' = [bills EXCEPT ![b].expected = a]
    BY <1>9
  <2>2. PICK x : x = [active |-> active, deleted |-> deleted, cases |-> cases,
                      ofPayee |-> mine, byHand |-> hand, last |-> last, expected |-> a]
    OBVIOUS
  <2>3. PICK t : t = [u EXCEPT ![b].expected = a]
    OBVIOUS
  <2>4. t = [c \in 1..Len(u) |-> IF c = b THEN [u[b] EXCEPT !.expected = a] ELSE u[c]]
    BY <1>4, <2>3
  <2>5. [u[b] EXCEPT !.expected = a] = x
    <3>1. [v EXCEPT !.expected = a] = x
      BY <1>2, <2>2
    <3>2. QED
      BY <1>4, <3>1
  <2>6. t = [u EXCEPT ![b] = x]
    BY <1>4, <2>4, <2>5
  <2>7. bills' = [bills EXCEPT ![b] = x]
    BY <1>3, <2>1, <2>3, <2>6
  <2>8. /\ x \in BillStates(x) /\ x.deleted = bills[b].deleted /\ x.cases = bills[b].cases
        /\ x.active = bills[b].active /\ x.ofPayee = bills[b].ofPayee /\ x.byHand = bills[b].byHand
    BY <1>1, <2>2 DEF BillStates
  <2>9. QED
    BY <1>5, <2>7, <2>8, RowEdited
<1>10. QED
  BY <1>7, <1>8, <1>9 DEF EditBill

LEMMA InitBInv == BillsInit => BInv
<1> SUFFICES ASSUME BillsInit PROVE BInv
  OBVIOUS
<1>1. /\ bills = <<>> /\ reminders = <<>> /\ work = [w \in Workers |-> Resting]
      /\ overlapped = FALSE
  BY DEF BillsInit
<1>2. BillRows = {} /\ Detected = {} /\ DOMAIN reminders = {}
  BY <1>1 DEF BillRows, Detected, OfPayee, Active, Kept
<1>3. \A w \in Workers : work[w] = Resting /\ work[w].pc = "idle" /\ WorkSound(work[w]) /\ Knows(work[w])
  BY <1>1, RestingWork
<1>4. BillsForm
  <2>1. <<>> \in Seq(Range(<<>>))
    OBVIOUS
  <2>2. DOMAIN work = Workers /\ work = [w \in Workers |-> work[w]]
    BY <1>1
  <2>3. QED
    BY <1>1, <1>2, <1>3, <2>1, <2>2 DEF BillsForm
<1>5. CasesKeepTheirBill
  BY <1>2 DEF CasesKeepTheirBill
<1>6. AloneInv
  BY <1>2, <1>3 DEF AloneInv, OneBill, NoneTwice
<1>7. QED
  BY <1>4, <1>5, <1>6 DEF BInv

LEMMA NextBInv == BInv /\ [BillsNext]_billsVars => BInv'
<1> SUFFICES ASSUME BInv, [BillsNext]_billsVars PROVE BInv'
  OBVIOUS
<1>1. ASSUME NEW w \in Workers,
             \/ BeginDetect(w) \/ FindBill(w) \/ WriteBill(w)
             \/ BeginEvaluate(w) \/ ReadReminders(w) \/ RecordReminders(w)
             \/ BeginRemove(w) \/ CommitRemove(w) \/ BeginCase(w) \/ InsertCase(w)
      PROVE  BInv'
  BY <1>1, BeginStep, FindBillStep, WriteBillStep, ReadRemindersStep, RecordRemindersStep,
     CommitRemoveStep, InsertCaseStep
<1>2. ASSUME CreateBill \/ \E b \in BillRows : EditBill(b) PROVE BInv'
  BY <1>2, EditBillStep, CreateBillStep
<1>3. CASE Bill \/ NextPeriod \/ UNCHANGED billsVars
  <2>1. UNCHANGED <<bills, reminders, work, overlapped>>
    BY <1>3 DEF Bill, NextPeriod, billsVars
  <2>2. QED
    BY <2>1 DEF BInv, BillsForm, WorkSound, CasesKeepTheirBill, AloneInv, Knows, OneBill, NoneTwice,
       Detected, OfPayee, Active, Kept, BillRows
<1>4. QED
  BY <1>1, <1>2, <1>3 DEF BillsNext

\* A bill with a case is never gone, and jobs and requests that work one at a time
\* leave one active bill of the payee that is theirs, and one reminder of a due date,
\* whatever bills the member makes, restores and moves to the payee
\* (BillService, BillDetectionService.runForUser and AlertService.evaluateUser).
THEOREM BillsStaySound == BillsSpec => []BillsAreSound
<1>1. BInv => BillsAreSound
  <2> SUFFICES ASSUME BInv, ~overlapped
               PROVE  /\ \A b, c \in OfPayee : bills[b].byHand \/ bills[c].byHand \/ b = c
                      /\ IsInjective(reminders)
    BY DEF BInv, BillsAreSound, SoloBillsNeverDuplicate
  <2>1. IsInjective(reminders)
    BY DEF BInv, AloneInv, NoneTwice, IsInjective
  <2>2. QED
    BY <2>1 DEF BInv, AloneInv, OneBill, Detected
<1>2. QED
  BY <1>1, InitBInv, NextBInv, PTL DEF BillsSpec

--------------------------------------------------------------------------------
(* Staff: the invariant *)

MerchantStates(row) == [key : {row.key}, trait : {row.trait}]

DeskSound(q) ==
  /\ q.at = "create" => q.row \in MerchantStates(q.row)
  /\ q.at \in {"read", "update", "audit"} => q.merchant \in MerchantIds

StaffForm ==
  /\ merchants \in Seq(Range(merchants)) /\ trail \in Seq(Range(trail))
  /\ \A m \in MerchantIds : merchants[m] \in MerchantStates(merchants[m])
  /\ \A i \in DOMAIN trail : trail[i].merchant \in MerchantIds
  /\ DOMAIN desks = Desks /\ desks = [d \in Desks |-> desks[d]]
  /\ \A d \in Desks : DeskSound(desks[d])

UniqueKeys == \A m, n \in MerchantIds : merchants[m].key = merchants[n].key => m = n

\* The desk changes merchant m, or has and owes the entry.
Changing(d, m) == desks[d].at \in {"update", "audit"} /\ desks[d].merchant = m
Owes(d, m) == desks[d].at = "audit" /\ desks[d].merchant = m
IsLast(i, m) == i \in EntriesOf(m) /\ \A k \in EntriesOf(m) : k <= i
Adjoin(i, j, m) ==
  i \in EntriesOf(m) /\ j \in EntriesOf(m) /\ i < j /\ \A k \in EntriesOf(m) : k <= i \/ j <= k

\* One desk at a time changes a tracked merchant: it has read what the row is,
\* or the row is what it wrote and follows on from the last entry.
Tracked(m) ==
  /\ \A d, e \in Desks : Changing(d, m) /\ Changing(e, m) => d = e
  /\ \A d \in Desks : Changing(d, m) /\ ~Owes(d, m) => desks[d].before = merchants[m]
  /\ \A d \in Desks : Owes(d, m) =>
       desks[d].after = merchants[m] /\ \A i : IsLast(i, m) => desks[d].before = trail[i].after
  /\ \A i, j : Adjoin(i, j, m) => trail[j].before = trail[i].after
  /\ (\A d \in Desks : ~Owes(d, m)) => \A i : IsLast(i, m) => trail[i].after = merchants[m]

TrailInv == StaffForm /\ UniqueKeys /\ \A m \in MerchantIds \ untracked : Tracked(m)

\* Every request past the guard may still change one merchant.
GraceInv ==
  /\ outlived \in Nat /\ grace \in Nat
  /\ role \notin Curators => outlived + Cardinality(MayStillWrite) <= grace

LEMMA PutDesk ==
  ASSUME StaffForm, NEW d \in Desks, NEW q, desks' = [desks EXCEPT ![d] = q]
  PROVE  /\ DOMAIN desks' = Desks /\ desks' = [o \in Desks |-> desks'[o]]
         /\ desks'[d] = q /\ \A o \in Desks \ {d} : desks'[o] = desks[o]
BY DEF StaffForm

LEMMA ClearDesk == Clear.at = "idle" /\ DeskSound(Clear)
BY DEF Clear, DeskSound

\* A request moves on, or breaks off, and changes no merchant.
LEMMA DeskStep ==
  ASSUME TrailInv, NEW d \in Desks, NEW q, desks' = [desks EXCEPT ![d] = q],
         UNCHANGED <<merchants, trail>>, untracked \subseteq untracked', DeskSound(q), q.at # "audit",
         \A m \in MerchantIds \ untracked' : Owes(d, m) => FALSE,
         q.at = "update" /\ q.merchant \notin untracked' =>
           q.before = merchants[q.merchant] /\ \A o \in Desks \ {d} : ~Changing(o, q.merchant)
  PROVE  TrailInv'
<1>1. StaffForm /\ UniqueKeys /\ \A m \in MerchantIds \ untracked : Tracked(m)
  BY DEF TrailInv
<1>2. /\ DOMAIN desks' = Desks /\ desks' = [o \in Desks |-> desks'[o]]
      /\ desks'[d] = q /\ \A o \in Desks \ {d} : desks'[o] = desks[o]
  BY <1>1, PutDesk
<1>3. MerchantIds' = MerchantIds /\ \A m : EntriesOf(m)' = EntriesOf(m)
  BY DEF MerchantIds, EntriesOf
<1>4. StaffForm'
  <2>1. \A o \in Desks : DeskSound(desks[o])'
    <3>1. \A o \in Desks : DeskSound(desks'[o])
      BY <1>1, <1>2 DEF StaffForm
    <3>2. QED
      BY <1>3, <3>1 DEF DeskSound
  <2>2. QED
    BY <1>1, <1>2, <1>3, <2>1 DEF StaffForm
<1>5. UniqueKeys'
  BY <1>1, <1>3 DEF UniqueKeys
<1>6. ASSUME NEW m \in MerchantIds \ untracked' PROVE Tracked(m)'
  <2>1. Tracked(m) /\ ~Owes(d, m)
    BY <1>1, <1>6
  <2>2. \A o \in Desks \ {d} : (Changing(o, m)' <=> Changing(o, m)) /\ (Owes(o, m)' <=> Owes(o, m))
    BY <1>2 DEF Changing, Owes
  <2>3. ~Owes(d, m)'
    BY <1>2 DEF Owes
  <2>4. Changing(d, m)' => q.before = merchants[m] /\ \A o \in Desks \ {d} : ~Changing(o, m)
    BY <1>2 DEF Changing
  <2>5. /\ \A i : IsLast(i, m)' <=> IsLast(i, m)
        /\ \A i, j : Adjoin(i, j, m)' <=> Adjoin(i, j, m)
    BY <1>3 DEF IsLast, Adjoin
  <2>6. \A o, e \in Desks : Changing(o, m)' /\ Changing(e, m)' => o = e
    BY <2>1, <2>2, <2>4 DEF Tracked
  <2>7. \A o \in Desks : Changing(o, m)' /\ ~Owes(o, m)' => desks'[o].before = merchants'[m]
    BY <1>2, <2>1, <2>2, <2>4 DEF Tracked
  <2>8. \A o \in Desks : Owes(o, m)' =>
          desks'[o].after = merchants'[m] /\ \A i : IsLast(i, m)' => desks'[o].before = trail'[i].after
    BY <1>2, <2>1, <2>2, <2>3, <2>5 DEF Tracked
  <2>9. \A i, j : Adjoin(i, j, m)' => trail'[j].before = trail'[i].after
    BY <2>1, <2>5 DEF Tracked
  <2>10. (\A o \in Desks : ~Owes(o, m)') => \A i : IsLast(i, m)' => trail'[i].after = merchants'[m]
    <3>1. (\A o \in Desks : ~Owes(o, m)') => \A o \in Desks : ~Owes(o, m)
      BY <2>1, <2>2
    <3>2. QED
      BY <2>1, <2>5, <3>1 DEF Tracked
  <2>11. QED
    BY <2>6, <2>7, <2>8, <2>9, <2>10 DEF Tracked
<1>7. QED
  BY <1>3, <1>4, <1>5, <1>6 DEF TrailInv

\* A new merchant of a key nobody has: nothing is known of it yet.
LEMMA AddMerchant ==
  ASSUME TrailInv, NEW x, x \in MerchantStates(x), KeyFree(x.key, 0),
         merchants' = Append(merchants, x), UNCHANGED <<trail, untracked>>,
         DOMAIN desks' = Desks, desks' = [o \in Desks |-> desks'[o]],
         \A o \in Desks : desks'[o] = desks[o] \/ (desks[o].at = "create" /\ desks'[o] = Clear)
  PROVE  TrailInv'
<1>1. StaffForm /\ UniqueKeys /\ \A m \in MerchantIds \ untracked : Tracked(m)
  BY DEF TrailInv
<1>2. PICK u : u = merchants
  OBVIOUS
<1>3. PICK t : t = Append(u, x)
  OBVIOUS
<1>4. u \in Seq(Range(u))
  BY <1>1, <1>2 DEF StaffForm
<1>5. u \in Seq(Range(u) \union {x}) /\ x \in Range(u) \union {x} /\ Len(u) \in Nat
  BY <1>4
<1>6. /\ t \in Seq(Range(u) \union {x}) /\ Len(t) = Len(u) + 1
      /\ \A i \in 1..Len(u) : t[i] = u[i]
      /\ t[Len(u) + 1] = x
  BY <1>3, <1>5
<1>7. Len(t) \in Nat /\ t = [i \in 1..Len(t) |-> t[i]]
  BY <1>6, OfSeq
<1>8. t \in Seq(Range(t))
  BY <1>7, SeqForm
<1>9. merchants' = t
  BY <1>2, <1>3
<1>10. PICK n : n = Len(u) + 1
  OBVIOUS
<1>11. /\ MerchantIds' = MerchantIds \union {n} /\ n \notin MerchantIds /\ 0 \notin MerchantIds
       /\ \A m \in MerchantIds : merchants'[m] = merchants[m]
       /\ merchants'[n] = x
  BY <1>2, <1>5, <1>6, <1>9, <1>10 DEF MerchantIds
<1>12. \A m : EntriesOf(m)' = EntriesOf(m)
  BY DEF EntriesOf
<1>13. \A o \in Desks : \A m : (Changing(o, m)' <=> Changing(o, m)) /\ (Owes(o, m)' <=> Owes(o, m))
  BY ClearDesk DEF Changing, Owes
<1>14. StaffForm'
  <2>1. \A o \in Desks : DeskSound(desks[o])'
    <3>1. \A o \in Desks : DeskSound(desks'[o])
      BY <1>1, ClearDesk DEF StaffForm
    <3>2. QED
      BY <1>11, <3>1 DEF DeskSound
  <2>2. \A m \in MerchantIds' : merchants'[m] \in MerchantStates(merchants'[m])
    BY <1>1, <1>11 DEF StaffForm
  <2>3. trail' \in Seq(Range(trail')) /\ \A i \in DOMAIN trail' : trail'[i].merchant \in MerchantIds'
    BY <1>1, <1>11 DEF StaffForm
  <2>4. merchants' \in Seq(Range(merchants'))
    BY <1>8, <1>9
  <2>5. QED
    BY <2>1, <2>2, <2>3, <2>4 DEF StaffForm
<1>15. UniqueKeys'
  <2>1. \A m \in MerchantIds : merchants[m].key # x.key
    BY <1>11 DEF KeyFree
  <2>2. \A m, o \in MerchantIds : merchants[m].key = merchants[o].key => m = o
    BY <1>1 DEF UniqueKeys
  <2>3. \A m \in MerchantIds : merchants'[m].key = merchants[m].key /\ merchants'[m].key # merchants'[n].key
    BY <1>11, <2>1
  <2>4. ASSUME NEW m \in MerchantIds \union {n}, NEW o \in MerchantIds \union {n},
               merchants'[m].key = merchants'[o].key
        PROVE  m = o
    <3>1. CASE m = n /\ o = n
      BY <3>1
    <3>2. CASE m \in MerchantIds /\ o \in MerchantIds
      BY <2>2, <2>3, <2>4, <3>2, ZenonT(60)
    <3>3. CASE m = n /\ o \in MerchantIds
      BY <2>3, <2>4, <3>3
    <3>4. CASE m \in MerchantIds /\ o = n
      BY <2>3, <2>4, <3>4
    <3>5. QED
      BY <3>1, <3>2, <3>3, <3>4
  <2>5. QED
    BY <1>11, <2>4 DEF UniqueKeys
<1>16. ASSUME NEW m \in MerchantIds \ untracked PROVE Tracked(m)'
  <2>1. Tracked(m) /\ merchants'[m] = merchants[m]
    BY <1>1, <1>11, <1>16
  <2>2. \A o \in Desks : Changing(o, m) => desks'[o] = desks[o]
    BY DEF Changing
  <2>3. /\ \A i : IsLast(i, m)' <=> IsLast(i, m)
        /\ \A i, j : Adjoin(i, j, m)' <=> Adjoin(i, j, m)
    BY <1>12 DEF IsLast, Adjoin
  <2>4. \A o \in Desks : Owes(o, m) => Changing(o, m)
    BY DEF Owes, Changing
  <2>5. QED
    BY <1>13, <2>1, <2>2, <2>3, <2>4 DEF Tracked
<1>17. Tracked(n)'
  <2>1. \A o \in Desks : ~Changing(o, n) /\ ~Owes(o, n)
    BY <1>1, <1>11 DEF Changing, Owes, StaffForm, DeskSound
  <2>2. EntriesOf(n) = {}
    BY <1>1, <1>11 DEF EntriesOf, StaffForm
  <2>3. EntriesOf(n)' = {}
    BY <1>12, <2>2
  <2>4. (\A i : ~IsLast(i, n)') /\ (\A i, j : ~Adjoin(i, j, n)')
    BY <2>3 DEF IsLast, Adjoin
  <2>5. \A o \in Desks : ~Changing(o, n)' /\ ~Owes(o, n)'
    BY <1>13, <2>1
  <2>6. QED
    BY <2>4, <2>5 DEF Tracked
<1>18. \A m \in MerchantIds' \ untracked' : Tracked(m)'
  BY <1>11, <1>16, <1>17
<1>19. QED
  BY <1>14, <1>15, <1>18 DEF TrailInv

\* The only desk that changes the merchant writes what its entry will say.
LEMMA UpdateMerchantStep ==
  ASSUME TrailInv, NEW d \in Desks, UpdateMerchant(d)
  PROVE  TrailInv'
<1>1. StaffForm /\ UniqueKeys /\ \A m \in MerchantIds \ untracked : Tracked(m)
  BY DEF TrailInv
<1>2. PICK id : id = desks[d].merchant
  OBVIOUS
<1>3. desks[d].at = "update" /\ UNCHANGED <<trail, untracked>>
  BY DEF UpdateMerchant, AtDesk
<1>4. id \in MerchantIds
  BY <1>1, <1>2, <1>3 DEF StaffForm, DeskSound
<1>5. CASE desks' = [desks EXCEPT ![d] = Clear] /\ merchants' = merchants
  <2>1. \A m : ~Owes(d, m)
    BY <1>3 DEF Owes
  <2>2. Clear.at # "audit" /\ Clear.at # "update"
    BY ClearDesk
  <2>3. QED
    BY <1>3, <1>5, <2>1, <2>2, ClearDesk, DeskStep
<1>6. ASSUME NEW key, NEW trait, KeyFree(key, id),
             merchants' = [merchants EXCEPT ![id] = [key |-> key, trait |-> trait]],
             desks' = [desks EXCEPT ![d] =
               [at |-> "audit", merchant |-> id, before |-> desks[d].before,
                after |-> [key |-> key, trait |-> trait]]]
      PROVE  TrailInv'
  <2>1. PICK x : x = [key |-> key, trait |-> trait]
    OBVIOUS
  <2>2. PICK q : q = [at |-> "audit", merchant |-> id, before |-> desks[d].before, after |-> x]
    OBVIOUS
  <2>3. q.at = "audit" /\ q.merchant = id /\ q.before = desks[d].before /\ q.after = x
    BY <2>2
  <2>4. /\ DOMAIN desks' = Desks /\ desks' = [o \in Desks |-> desks'[o]]
        /\ desks'[d] = q /\ \A o \in Desks \ {d} : desks'[o] = desks[o]
    BY <1>1, <1>6, <2>1, <2>2, PutDesk
  <2>5. PICK u : u = merchants
    OBVIOUS
  <2>6. PICK t : t = [u EXCEPT ![id] = x]
    OBVIOUS
  <2>7. u \in Seq(Range(u)) /\ Len(u) \in Nat /\ DOMAIN u = 1..Len(u) /\ id \in 1..Len(u)
    <3>1. u \in Seq(Range(u)) /\ id \in 1..Len(u)
      BY <1>1, <1>4, <2>5 DEF StaffForm, MerchantIds
    <3>2. QED
      BY <3>1
  <2>8. t = [m \in 1..Len(u) |-> t[m]] /\ t[id] = x /\ \A m \in 1..Len(u) : m # id => t[m] = u[m]
    BY <2>6, <2>7
  <2>9. t \in Seq(Range(t)) /\ Len(t) = Len(u)
    BY <2>7, <2>8, SeqForm
  <2>10. merchants' = t
    BY <1>6, <2>1, <2>5, <2>6
  <2>11. /\ MerchantIds' = MerchantIds /\ merchants'[id] = x
         /\ \A m \in MerchantIds \ {id} : merchants'[m] = merchants[m]
    BY <2>5, <2>8, <2>9, <2>10 DEF MerchantIds
  <2>12. \A m : EntriesOf(m)' = EntriesOf(m)
    BY <1>3 DEF EntriesOf
  <2>13. x.key = key /\ x \in MerchantStates(x)
    BY <2>1 DEF MerchantStates
  <2>14. StaffForm'
    <3>1. DeskSound(q)
      BY <1>4, <2>3 DEF DeskSound
    <3>2. \A o \in Desks : DeskSound(desks[o])'
      <4>1. \A o \in Desks : DeskSound(desks'[o])
        BY <1>1, <2>4, <3>1 DEF StaffForm
      <4>2. QED
        BY <2>11, <4>1 DEF DeskSound
    <3>3. \A m \in MerchantIds' : merchants'[m] \in MerchantStates(merchants'[m])
      BY <1>1, <2>11, <2>13 DEF StaffForm
    <3>4. trail' \in Seq(Range(trail')) /\ \A i \in DOMAIN trail' : trail'[i].merchant \in MerchantIds'
      BY <1>1, <1>3, <2>11 DEF StaffForm
    <3>5. merchants' \in Seq(Range(merchants'))
      BY <2>9, <2>10
    <3>6. QED
      BY <2>4, <3>2, <3>3, <3>4, <3>5 DEF StaffForm
  <2>15. UniqueKeys'
    <3>1. \A m, o \in MerchantIds : merchants[m].key = merchants[o].key => m = o
      BY <1>1 DEF UniqueKeys
    <3>2. \A m \in MerchantIds \ {id} : merchants[m].key # merchants'[id].key
      BY <1>6, <2>11, <2>13 DEF KeyFree
    <3>3. \A m, o \in MerchantIds : merchants'[m].key = merchants'[o].key => m = o
      BY <2>11, <3>1, <3>2
    <3>4. QED
      BY <2>11, <3>3 DEF UniqueKeys
  <2>16. ASSUME NEW m \in MerchantIds \ untracked PROVE Tracked(m)'
    <3>1. Tracked(m)
      BY <1>1, <2>16
    <3>2. /\ \A i : IsLast(i, m)' <=> IsLast(i, m)
          /\ \A i, j : Adjoin(i, j, m)' <=> Adjoin(i, j, m)
      BY <2>12 DEF IsLast, Adjoin
    <3>3. \A o \in Desks \ {d} : (Changing(o, m)' <=> Changing(o, m)) /\ (Owes(o, m)' <=> Owes(o, m))
      BY <2>4 DEF Changing, Owes
    <3>4. CASE m = id
      <4>1. Changing(d, m) /\ ~Owes(d, m) /\ Changing(d, m)' /\ Owes(d, m)'
        BY <1>2, <1>3, <2>3, <2>4, <3>4 DEF Changing, Owes
      <4>2. \A o \in Desks \ {d} : ~Changing(o, m) /\ ~Owes(o, m)
        <5>1. \A o \in Desks \ {d} : ~Changing(o, m)
          BY <3>1, <4>1 DEF Tracked
        <5>2. QED
          BY <5>1 DEF Changing, Owes
      <4>3. desks[d].before = merchants[m]
        BY <3>1, <4>1 DEF Tracked
      <4>4. \A i : IsLast(i, m) => trail[i].after = merchants[m]
        BY <3>1, <4>1, <4>2 DEF Tracked
      <4>5. /\ desks'[d].after = merchants'[m]
            /\ \A i : IsLast(i, m)' => desks'[d].before = trail'[i].after
        BY <1>3, <2>3, <2>4, <2>11, <3>2, <3>4, <4>3, <4>4
      <4>6. \A i, j : Adjoin(i, j, m)' => trail'[j].before = trail'[i].after
        BY <1>3, <3>1, <3>2 DEF Tracked
      <4>7. QED
        BY <3>3, <4>1, <4>2, <4>5, <4>6 DEF Tracked
    <3>5. CASE m # id
      <4>1. ~Changing(d, m) /\ ~Owes(d, m) /\ ~Changing(d, m)' /\ ~Owes(d, m)'
        BY <1>2, <2>3, <2>4, <3>5 DEF Changing, Owes
      <4>2. merchants'[m] = merchants[m]
        BY <2>11, <2>16, <3>5
      <4>3. QED
        BY <1>3, <2>4, <3>1, <3>2, <3>3, <4>1, <4>2 DEF Tracked
    <3>6. QED
      BY <3>4, <3>5
  <2>17. QED
    BY <1>3, <2>11, <2>14, <2>15, <2>16 DEF TrailInv
<1>7. QED
  BY <1>2, <1>5, <1>6 DEF UpdateMerchant, Takes

\* The entry is written: it follows on from the last one, and is the last now.
LEMMA AuditStep ==
  ASSUME TrailInv, NEW d \in Desks, Audit(d)
  PROVE  TrailInv'
<1>1. StaffForm /\ UniqueKeys /\ \A m \in MerchantIds \ untracked : Tracked(m)
  BY DEF TrailInv
<1>2. PICK id : id = desks[d].merchant
  OBVIOUS
<1>3. /\ desks[d].at = "audit" /\ UNCHANGED merchants
      /\ desks' = [desks EXCEPT ![d] = Clear]
  BY DEF Audit, AtDesk, Takes
<1>4. id \in MerchantIds
  BY <1>1, <1>2, <1>3 DEF StaffForm, DeskSound
<1>5. CASE untracked' = untracked \union {id} /\ trail' = trail
  <2>1. \A m \in MerchantIds \ untracked' : Owes(d, m) => FALSE
    BY <1>2, <1>5 DEF Owes
  <2>2. Clear.at # "audit" /\ Clear.at # "update"
    BY ClearDesk
  <2>3. QED
    BY <1>3, <1>5, <2>1, <2>2, ClearDesk, DeskStep
<1>6. ASSUME trail' = Append(trail, [merchant |-> id, before |-> desks[d].before, after |-> desks[d].after]),
             untracked' = untracked
      PROVE  TrailInv'
  <2>1. PICK x : x = [merchant |-> id, before |-> desks[d].before, after |-> desks[d].after]
    OBVIOUS
  <2>2. x.merchant = id /\ x.before = desks[d].before /\ x.after = desks[d].after
    BY <2>1
  <2>3. PICK u : u = trail
    OBVIOUS
  <2>4. PICK t : t = Append(u, x)
    OBVIOUS
  <2>5. u \in Seq(Range(u))
    BY <1>1, <2>3 DEF StaffForm
  <2>6. u \in Seq(Range(u) \union {x}) /\ x \in Range(u) \union {x} /\ Len(u) \in Nat /\ DOMAIN u = 1..Len(u)
    BY <2>5
  <2>7. /\ t \in Seq(Range(u) \union {x}) /\ Len(t) = Len(u) + 1
        /\ \A i \in 1..Len(u) : t[i] = u[i]
        /\ t[Len(u) + 1] = x
    BY <2>4, <2>6
  <2>8. Len(t) \in Nat /\ DOMAIN t = 1..Len(t) /\ t = [i \in 1..Len(t) |-> t[i]]
    BY <2>7, OfSeq
  <2>9. t \in Seq(Range(t))
    BY <2>8, SeqForm
  <2>10. trail' = t
    BY <1>6, <2>1, <2>3, <2>4
  <2>11. PICK n \in Nat : n = Len(u)
    BY <2>6
  <2>12. /\ DOMAIN trail = 1..n /\ DOMAIN trail' = 1..(n + 1)
         /\ \A i \in 1..n : trail'[i] = trail[i]
         /\ trail'[n + 1] = x
    BY <2>3, <2>6, <2>7, <2>8, <2>10, <2>11
  <2>13. \A i \in 1..(n + 1) : i \in 1..n \/ i = n + 1
    OBVIOUS
  <2>14. \A m : EntriesOf(m)' = IF m = id THEN EntriesOf(m) \union {n + 1} ELSE EntriesOf(m)
    BY <2>2, <2>12, <2>13 DEF EntriesOf
  <2>15. \A m : EntriesOf(m) \subseteq 1..n
    BY <2>12 DEF EntriesOf
  <2>16. /\ DOMAIN desks' = Desks /\ desks' = [o \in Desks |-> desks'[o]]
         /\ desks'[d] = Clear /\ \A o \in Desks \ {d} : desks'[o] = desks[o]
    BY <1>1, <1>3, PutDesk
  <2>17. MerchantIds' = MerchantIds
    BY <1>3 DEF MerchantIds
  <2>18. StaffForm'
    <3>1. \A o \in Desks : DeskSound(desks[o])'
      <4>1. \A o \in Desks : DeskSound(desks'[o])
        BY <1>1, <2>16, ClearDesk DEF StaffForm
      <4>2. QED
        BY <2>17, <4>1 DEF DeskSound
    <3>2. \A i \in DOMAIN trail' : trail'[i].merchant \in MerchantIds'
      BY <1>1, <1>4, <2>2, <2>12, <2>13, <2>17 DEF StaffForm
    <3>3. merchants' \in Seq(Range(merchants')) /\ \A m \in MerchantIds' : merchants'[m] \in MerchantStates(merchants'[m])
      BY <1>1, <1>3, <2>17 DEF StaffForm
    <3>4. QED
      BY <2>9, <2>10, <2>16, <3>1, <3>2, <3>3 DEF StaffForm
  <2>19. UniqueKeys'
    BY <1>1, <1>3, <2>17 DEF UniqueKeys
  <2>20. ASSUME NEW m \in MerchantIds \ untracked PROVE Tracked(m)'
    <3>1. Tracked(m)
      BY <1>1, <2>20
    <3>2. \A o \in Desks \ {d} : (Changing(o, m)' <=> Changing(o, m)) /\ (Owes(o, m)' <=> Owes(o, m))
      BY <2>16 DEF Changing, Owes
    <3>3. ~Changing(d, m)' /\ ~Owes(d, m)'
      BY <2>16, ClearDesk DEF Changing, Owes
    <3>4. CASE m = id
      <4>1. Owes(d, m) /\ Changing(d, m)
        BY <1>2, <1>3, <3>4 DEF Owes, Changing
      <4>2. \A o \in Desks : ~Changing(o, m)' /\ ~Owes(o, m)'
        <5>1. \A o \in Desks \ {d} : ~Changing(o, m)
          BY <3>1, <4>1 DEF Tracked
        <5>2. \A o \in Desks \ {d} : ~Changing(o, m)' /\ ~Owes(o, m)'
          BY <3>2, <5>1 DEF Changing, Owes
        <5>3. QED
          BY <3>3, <5>2
      <4>3. /\ desks[d].after = merchants[m]
            /\ \A i : IsLast(i, m) => desks[d].before = trail[i].after
        BY <3>1, <4>1 DEF Tracked
      <4>4. EntriesOf(m)' = EntriesOf(m) \union {n + 1}
        BY <2>14, <3>4
      <4>5. \A i : IsLast(i, m)' => i = n + 1
        <5>1. \A i \in 1..n : ~(n + 1 <= i)
          OBVIOUS
        <5>2. QED
          BY <2>15, <4>4, <5>1 DEF IsLast
      <4>6. \A i : IsLast(i, m)' => trail'[i].after = merchants'[m]
        BY <1>3, <2>2, <2>12, <4>3, <4>5
      <4>7. ASSUME NEW i, NEW j, Adjoin(i, j, m)' PROVE trail'[j].before = trail'[i].after
        <5>1. i \in EntriesOf(m)' /\ j \in EntriesOf(m)' /\ i < j
              /\ \A k \in EntriesOf(m)' : k <= i \/ j <= k
          BY <4>7 DEF Adjoin
        <5>2. i \in EntriesOf(m) /\ i \in 1..n
          <6>1. \A k \in 1..n : ~(n + 1 < k)
            OBVIOUS
          <6>2. i # n + 1
            BY <2>15, <4>4, <5>1, <6>1
          <6>3. QED
            BY <2>15, <4>4, <5>1, <6>2
        <5>3. CASE j = n + 1
          <6>1. \A k \in EntriesOf(m) : ~(n + 1 <= k)
            BY <2>15
          <6>2. IsLast(i, m)
            BY <4>4, <5>1, <5>2, <5>3, <6>1 DEF IsLast
          <6>3. QED
            BY <2>2, <2>12, <4>3, <5>2, <5>3, <6>2
        <5>4. CASE j # n + 1
          <6>1. j \in EntriesOf(m) /\ j \in 1..n
            BY <2>15, <4>4, <5>1, <5>4
          <6>2. Adjoin(i, j, m)
            BY <4>4, <5>1, <5>2, <6>1 DEF Adjoin
          <6>3. QED
            BY <2>12, <3>1, <5>2, <6>1, <6>2 DEF Tracked
        <5>5. QED
          BY <5>3, <5>4
      <4>8. QED
        BY <4>2, <4>6, <4>7 DEF Tracked
    <3>5. CASE m # id
      <4>1. ~Changing(d, m) /\ ~Owes(d, m)
        BY <1>2, <3>5 DEF Changing, Owes
      <4>2. EntriesOf(m)' = EntriesOf(m)
        BY <2>14, <3>5
      <4>3. /\ \A i : IsLast(i, m)' <=> IsLast(i, m)
            /\ \A i, j : Adjoin(i, j, m)' <=> Adjoin(i, j, m)
        BY <4>2 DEF IsLast, Adjoin
      <4>4. /\ \A i : IsLast(i, m) => trail'[i] = trail[i]
            /\ \A i, j : Adjoin(i, j, m) => trail'[i] = trail[i] /\ trail'[j] = trail[j]
        BY <2>12, <2>15 DEF IsLast, Adjoin
      <4>5. QED
        BY <1>3, <2>16, <3>1, <3>2, <3>3, <4>1, <4>3, <4>4 DEF Tracked
    <3>6. QED
      BY <3>4, <3>5
  <2>21. QED
    BY <1>6, <2>17, <2>18, <2>19, <2>20 DEF TrailInv
<1>7. QED
  BY <1>2, <1>5, <1>6 DEF Audit

LEMMA BeginNewMerchantStep ==
  ASSUME TrailInv, NEW d \in Desks, BeginNewMerchant(d)
  PROVE  TrailInv'
<1>1. desks[d].at = "idle" /\ UNCHANGED <<merchants, trail, untracked>>
  BY DEF BeginNewMerchant, Admitted, AtDesk
<1>2. PICK key, trait : desks' = [desks EXCEPT ![d] = [at |-> "create", row |-> [key |-> key, trait |-> trait]]]
  BY DEF BeginNewMerchant, Takes
<1>3. PICK row : row = [key |-> key, trait |-> trait]
  OBVIOUS
<1>4. PICK q : q = [at |-> "create", row |-> row]
  OBVIOUS
<1>5. q.at = "create" /\ q.row = row /\ row \in MerchantStates(row)
  BY <1>3, <1>4 DEF MerchantStates
<1>6. DeskSound(q)
  BY <1>5 DEF DeskSound
<1>7. desks' = [desks EXCEPT ![d] = q]
  BY <1>2, <1>3, <1>4
<1>8. \A m : ~Owes(d, m)
  BY <1>1 DEF Owes
<1>9. q.at # "audit" /\ q.at # "update"
  BY <1>5
<1>10. QED
  BY <1>1, <1>6, <1>7, <1>8, <1>9, DeskStep

LEMMA BeginUpdateStep ==
  ASSUME TrailInv, NEW d \in Desks, BeginUpdate(d)
  PROVE  TrailInv'
<1>1. desks[d].at = "idle" /\ UNCHANGED <<merchants, trail, untracked>>
  BY DEF BeginUpdate, Admitted, AtDesk
<1>2. PICK m \in MerchantIds : desks' = [desks EXCEPT ![d] = [at |-> "read", merchant |-> m]]
  BY DEF BeginUpdate, Takes
<1>3. PICK q : q = [at |-> "read", merchant |-> m]
  OBVIOUS
<1>4. q.at = "read" /\ q.merchant = m
  BY <1>3
<1>5. DeskSound(q) /\ q.at # "audit" /\ q.at # "update"
  BY <1>4 DEF DeskSound
<1>6. desks' = [desks EXCEPT ![d] = q]
  BY <1>2, <1>3
<1>7. \A o : ~Owes(d, o)
  BY <1>1 DEF Owes
<1>8. QED
  BY <1>1, <1>5, <1>6, <1>7, DeskStep

LEMMA ReadMerchantStep ==
  ASSUME TrailInv, NEW d \in Desks, ReadMerchant(d)
  PROVE  TrailInv'
<1>1. PICK m : m = desks[d].merchant
  OBVIOUS
<1>2. PICK others : others = {o \in Desks \ {d} : desks[o].at \in {"update", "audit"} /\ desks[o].merchant = m}
  OBVIOUS
<1>3. /\ desks[d].at = "read" /\ UNCHANGED <<merchants, trail>>
      /\ desks' = [desks EXCEPT ![d] = [at |-> "update", merchant |-> m, before |-> merchants[m]]]
      /\ untracked' = IF others = {} THEN untracked ELSE untracked \union {m}
  BY <1>1, <1>2 DEF ReadMerchant, AtDesk, Takes
<1>4. PICK q : q = [at |-> "update", merchant |-> m, before |-> merchants[m]]
  OBVIOUS
<1>5. q.at = "update" /\ q.merchant = m /\ q.before = merchants[m]
  BY <1>4
<1>6. m \in MerchantIds
  BY <1>1, <1>3 DEF TrailInv, StaffForm, DeskSound
<1>7. DeskSound(q) /\ q.at # "audit"
  BY <1>5, <1>6 DEF DeskSound
<1>8. desks' = [desks EXCEPT ![d] = q]
  BY <1>3, <1>4
<1>9. \A o : ~Owes(d, o)
  BY <1>3 DEF Owes
<1>10. m \notin untracked' => \A o \in Desks \ {d} : ~Changing(o, m)
  BY <1>2, <1>3 DEF Changing
<1>11. untracked \subseteq untracked'
  BY <1>3
<1>12. q.at = "update" /\ q.merchant \notin untracked' =>
         q.before = merchants[q.merchant] /\ \A o \in Desks \ {d} : ~Changing(o, q.merchant)
  BY <1>5, <1>10
<1>13. QED
  BY <1>3, <1>7, <1>8, <1>9, <1>11, <1>12, DeskStep

LEMMA DeskDiesStep ==
  ASSUME TrailInv, NEW d \in Desks, DeskDies(d)
  PROVE  TrailInv'
<1>1. /\ UNCHANGED <<merchants, trail>> /\ desks' = [desks EXCEPT ![d] = Clear]
      /\ untracked' = IF desks[d].at = "audit" THEN untracked \union {desks[d].merchant} ELSE untracked
  BY DEF DeskDies, AtDesk, Takes
<1>2. \A m \in MerchantIds \ untracked' : Owes(d, m) => FALSE
  BY <1>1 DEF Owes
<1>3. untracked \subseteq untracked' /\ Clear.at # "audit" /\ Clear.at # "update"
  BY <1>1, ClearDesk
<1>4. QED
  BY <1>1, <1>2, <1>3, ClearDesk, DeskStep

LEMMA NewMerchantStep ==
  ASSUME TrailInv, NEW d \in Desks, NewMerchant(d)
  PROVE  TrailInv'
<1>1. PICK row : row = desks[d].row
  OBVIOUS
<1>2. /\ desks[d].at = "create" /\ UNCHANGED <<trail, untracked>>
      /\ desks' = [desks EXCEPT ![d] = Clear]
      /\ \/ KeyFree(row.key, 0) /\ merchants' = Append(merchants, row)
         \/ UNCHANGED merchants
  BY <1>1 DEF NewMerchant, AtDesk, Takes
<1>3. row \in MerchantStates(row) /\ StaffForm
  BY <1>1, <1>2 DEF TrailInv, StaffForm, DeskSound
<1>4. CASE UNCHANGED merchants
  <2>1. \A m : ~Owes(d, m)
    BY <1>2 DEF Owes
  <2>2. Clear.at # "audit" /\ Clear.at # "update"
    BY ClearDesk
  <2>3. QED
    BY <1>2, <1>4, <2>1, <2>2, ClearDesk, DeskStep
<1>5. CASE KeyFree(row.key, 0) /\ merchants' = Append(merchants, row)
  <2>1. /\ DOMAIN desks' = Desks /\ desks' = [o \in Desks |-> desks'[o]]
        /\ desks'[d] = Clear /\ \A o \in Desks \ {d} : desks'[o] = desks[o]
    BY <1>2, <1>3, PutDesk
  <2>2. \A o \in Desks : desks'[o] = desks[o] \/ (desks[o].at = "create" /\ desks'[o] = Clear)
    BY <1>2, <2>1
  <2>3. QED
    BY <1>2, <1>3, <1>5, <2>1, <2>2, AddMerchant
<1>6. QED
  BY <1>2, <1>4, <1>5

LEMMA NormalizeStep ==
  ASSUME TrailInv, NEW key, Normalize(key)
  PROVE  TrailInv'
<1>1. UNCHANGED <<trail, desks, untracked>> /\ StaffForm
  BY DEF Normalize, TrailInv
<1>2. PICK row : row = [key |-> key, trait |-> CatalogTrait]
  OBVIOUS
<1>3. row.key = key /\ row \in MerchantStates(row)
  BY <1>2 DEF MerchantStates
<1>4. CASE ~KeyFree(key, 0)
  <2>1. merchants' = merchants
    BY <1>4 DEF Normalize, Upserted
  <2>2. MerchantIds' = MerchantIds
    BY <2>1 DEF MerchantIds
  <2>3. QED
    BY <1>1, <2>1, <2>2 DEF TrailInv, StaffForm, DeskSound, UniqueKeys, Tracked, Changing, Owes, IsLast,
       Adjoin, EntriesOf
<1>5. CASE KeyFree(key, 0)
  <2>1. merchants' = Append(merchants, row)
    BY <1>2, <1>5 DEF Normalize, Upserted
  <2>2. KeyFree(row.key, 0)
    BY <1>3, <1>5
  <2>3. DOMAIN desks' = Desks /\ desks' = [o \in Desks |-> desks'[o]] /\ \A o \in Desks : desks'[o] = desks[o]
    BY <1>1 DEF StaffForm
  <2>4. QED
    BY <1>1, <1>3, <2>1, <2>2, <2>3, AddMerchant
<1>6. QED
  BY <1>4, <1>5

LEMMA InitTrailInv == StaffInit => TrailInv
<1> SUFFICES ASSUME StaffInit PROVE TrailInv
  OBVIOUS
<1>1. merchants = <<>> /\ trail = <<>> /\ desks = [d \in Desks |-> Clear]
  BY DEF StaffInit
<1>2. MerchantIds = {} /\ DOMAIN trail = {}
  BY <1>1 DEF MerchantIds
<1>3. StaffForm
  <2>1. <<>> \in Seq(Range(<<>>))
    OBVIOUS
  <2>2. DOMAIN desks = Desks /\ desks = [d \in Desks |-> desks[d]] /\ \A d \in Desks : DeskSound(desks[d])
    BY <1>1, ClearDesk
  <2>3. QED
    BY <1>1, <1>2, <2>1, <2>2 DEF StaffForm
<1>4. QED
  BY <1>2, <1>3 DEF TrailInv, UniqueKeys

LEMMA NextTrailInv == TrailInv /\ [StaffNext]_staffVars => TrailInv'
<1> SUFFICES ASSUME TrailInv, [StaffNext]_staffVars PROVE TrailInv'
  OBVIOUS
<1>1. ASSUME NEW d \in Desks,
             \/ BeginNewMerchant(d) \/ NewMerchant(d) \/ BeginUpdate(d) \/ ReadMerchant(d)
             \/ UpdateMerchant(d) \/ Audit(d) \/ DeskDies(d)
      PROVE  TrailInv'
  BY <1>1, BeginNewMerchantStep, NewMerchantStep, BeginUpdateStep, ReadMerchantStep, UpdateMerchantStep,
     AuditStep, DeskDiesStep
<1>2. ASSUME NEW key \in Keys, Normalize(key) PROVE TrailInv'
  BY <1>2, NormalizeStep
<1>3. CASE SignToken \/ (\E to \in {"agent", "admin", "inactive"} : ChangeRole(to)) \/ UNCHANGED staffVars
  <2>1. UNCHANGED <<merchants, trail, desks, untracked>>
    BY <1>3 DEF SignToken, ChangeRole, staffVars
  <2>2. MerchantIds' = MerchantIds
    BY <2>1 DEF MerchantIds
  <2>3. QED
    BY <2>1, <2>2 DEF TrailInv, StaffForm, DeskSound, UniqueKeys, Tracked, Changing, Owes, IsLast,
       Adjoin, EntriesOf
<1>4. QED
  BY <1>1, <1>2, <1>3 DEF StaffNext

--------------------------------------------------------------------------------
(* Staff: the grace of a demotion *)

\* Requests leave the guard behind one by one, each with at most one change.
LEMMA GraceStep ==
  ASSUME GraceInv, IsFiniteSet(Desks), role' = role, grace' = grace, NEW d \in Desks,
         \A o \in Desks \ {d} : desks'[o] = desks[o],
         role \in Curators \/ d \in MayStillWrite \/ d \notin MayStillWrite',
         outlived' = outlived \/ (/\ outlived' = IF role \in Curators THEN outlived ELSE outlived + 1
                                  /\ d \in MayStillWrite /\ d \notin MayStillWrite')
  PROVE  GraceInv'
<1>1. outlived \in Nat /\ grace \in Nat /\ outlived' \in Nat /\ grace' \in Nat
  BY DEF GraceInv
<1>2. \A o \in Desks \ {d} : o \in MayStillWrite' <=> o \in MayStillWrite
  BY DEF MayStillWrite
<1>3. MayStillWrite \in SUBSET Desks /\ MayStillWrite' \in SUBSET Desks
  BY DEF MayStillWrite
<1>4. IsFiniteSet(MayStillWrite) /\ IsFiniteSet(MayStillWrite')
  BY <1>3, FS_Subset
<1>5. Cardinality(MayStillWrite) \in Nat /\ Cardinality(MayStillWrite') \in Nat
  BY <1>4, FS_CardinalityType
<1>6. ASSUME role \notin Curators PROVE outlived' + Cardinality(MayStillWrite') <= grace
  <2>1. outlived + Cardinality(MayStillWrite) <= grace
    BY <1>6 DEF GraceInv
  <2>2. CASE outlived' = outlived
    <3>1. MayStillWrite' \in SUBSET MayStillWrite
      BY <1>2, <1>3, <1>6
    <3>2. Cardinality(MayStillWrite') <= Cardinality(MayStillWrite)
      BY <1>4, <3>1, FS_Subset
    <3>3. QED
      BY <1>1, <1>5, <2>1, <2>2, <3>2
  <2>3. CASE outlived' = outlived + 1 /\ d \in MayStillWrite /\ d \notin MayStillWrite'
    <3>1. MayStillWrite' \in SUBSET (MayStillWrite \ {d})
      BY <1>2, <1>3, <2>3
    <3>2. IsFiniteSet(MayStillWrite \ {d}) /\ Cardinality(MayStillWrite \ {d}) = Cardinality(MayStillWrite) - 1
      BY <1>4, <2>3, FS_RemoveElement
    <3>3. Cardinality(MayStillWrite') <= Cardinality(MayStillWrite) - 1
      BY <3>1, <3>2, FS_Subset
    <3>4. QED
      BY <1>1, <1>5, <2>1, <2>3, <3>3
  <2>4. QED
    BY <1>6, <2>2, <2>3
<1>7. QED
  BY <1>1, <1>6 DEF GraceInv

LEMMA NextGraceInv == StaffForm /\ GraceInv /\ [StaffNext]_staffVars => GraceInv'
<1> SUFFICES ASSUME StaffForm, GraceInv, [StaffNext]_staffVars PROVE GraceInv'
  OBVIOUS
<1>1. IsFiniteSet(Desks)
  BY StaffAssumption
<1>2. MayStillWrite \in SUBSET Desks
  BY DEF MayStillWrite
<1>3. Cardinality(MayStillWrite) \in Nat
  BY <1>1, <1>2, FS_Subset, FS_CardinalityType
<1>4. ASSUME NEW to \in {"agent", "admin", "inactive"}, ChangeRole(to) PROVE GraceInv'
  <2>1. MayStillWrite' = MayStillWrite
    BY <1>4 DEF ChangeRole, MayStillWrite
  <2>2. PICK n \in Nat : n = Cardinality(MayStillWrite)
    BY <1>3
  <2>3. Cardinality(MayStillWrite') = n
    BY <2>1, <2>2
  <2>4. /\ role' = to
        /\ grace' = IF to \in Curators THEN 0 ELSE IF role \in Curators THEN n ELSE grace
        /\ outlived' = IF to \in Curators \/ role \in Curators THEN 0 ELSE outlived
    BY <1>4, <2>2 DEF ChangeRole
  <2>5. /\ outlived \in Nat /\ grace \in Nat
        /\ role \notin Curators => outlived + n <= grace
    BY <2>2 DEF GraceInv
  <2>6. outlived' \in Nat /\ grace' \in Nat
    BY <2>4, <2>5
  <2>7. role' \notin Curators => outlived' + n <= grace'
    BY <2>4, <2>5
  <2>8. QED
    BY <2>3, <2>6, <2>7 DEF GraceInv, Curators
<1>5. ASSUME NEW d \in Desks,
             \/ BeginNewMerchant(d) \/ NewMerchant(d) \/ BeginUpdate(d) \/ ReadMerchant(d)
             \/ UpdateMerchant(d) \/ Audit(d) \/ DeskDies(d)
      PROVE  GraceInv'
  <2>1. role' = role /\ grace' = grace
    BY <1>5 DEF BeginNewMerchant, NewMerchant, BeginUpdate, ReadMerchant, UpdateMerchant, Audit, DeskDies
  <2>2. PICK q : desks' = [desks EXCEPT ![d] = q]
    BY <1>5 DEF BeginNewMerchant, NewMerchant, BeginUpdate, ReadMerchant, UpdateMerchant, Audit, DeskDies,
       Takes
  <2>3. desks'[d] = q /\ \A o \in Desks \ {d} : desks'[o] = desks[o]
    BY <2>2, PutDesk
  <2>4. CASE BeginNewMerchant(d) \/ BeginUpdate(d)
    <3>1. role \in Curators /\ outlived' = outlived
      BY <2>4 DEF BeginNewMerchant, BeginUpdate, Admitted, MayWrite
    <3>2. QED
      BY <1>1, <2>1, <2>3, <3>1, GraceStep
  <2>5. CASE ReadMerchant(d)
    <3>1. outlived' = outlived /\ d \in MayStillWrite
      BY <2>5 DEF ReadMerchant, AtDesk, MayStillWrite
    <3>2. QED
      BY <1>1, <2>1, <2>3, <3>1, GraceStep
  <2>6. CASE Audit(d) \/ DeskDies(d)
    <3>1. outlived' = outlived /\ desks' = [desks EXCEPT ![d] = Clear]
      BY <2>6 DEF Audit, DeskDies, Takes
    <3>2. desks'[d] = Clear
      BY <3>1, PutDesk
    <3>3. d \notin MayStillWrite'
      BY <3>2, ClearDesk DEF MayStillWrite
    <3>4. QED
      BY <1>1, <2>1, <2>3, <3>1, <3>3, GraceStep
  <2>7. CASE NewMerchant(d)
    <3>1. desks[d].at = "create" /\ desks' = [desks EXCEPT ![d] = Clear]
          /\ (outlived' = outlived \/ outlived' = IF role \in Curators THEN outlived ELSE outlived + 1)
      BY <2>7 DEF NewMerchant, AtDesk, Takes, Outlives
    <3>2. desks'[d] = Clear
      BY <3>1, PutDesk
    <3>3. d \in MayStillWrite /\ d \notin MayStillWrite'
      BY <3>1, <3>2, ClearDesk DEF MayStillWrite
    <3>4. QED
      BY <1>1, <2>1, <2>3, <3>1, <3>3, GraceStep
  <2>8. CASE UpdateMerchant(d)
    <3>1. desks[d].at = "update"
          /\ (outlived' = outlived \/ outlived' = IF role \in Curators THEN outlived ELSE outlived + 1)
      BY <2>8 DEF UpdateMerchant, AtDesk, Outlives
    <3>2. desks'[d].at \in {"audit", "idle"}
      <4>1. CASE desks' = [desks EXCEPT ![d] = Clear]
        <5>1. desks'[d] = Clear
          BY <4>1, PutDesk
        <5>2. QED
          BY <5>1, ClearDesk
      <4>2. CASE \E before, after, m :
                   desks' = [desks EXCEPT ![d] = [at |-> "audit", merchant |-> m, before |-> before, after |-> after]]
        <5>1. PICK before, after, m :
                desks' = [desks EXCEPT ![d] = [at |-> "audit", merchant |-> m, before |-> before, after |-> after]]
          BY <4>2
        <5>2. PICK p : p = [at |-> "audit", merchant |-> m, before |-> before, after |-> after]
          OBVIOUS
        <5>3. desks'[d] = p
          BY <5>1, <5>2, PutDesk
        <5>4. QED
          BY <5>2, <5>3
      <4>3. QED
        BY <2>8, <4>1, <4>2, ZenonT(60) DEF UpdateMerchant, Takes
    <3>3. d \in MayStillWrite /\ d \notin MayStillWrite'
      BY <3>1, <3>2 DEF MayStillWrite
    <3>4. QED
      BY <1>1, <2>1, <2>3, <3>1, <3>3, GraceStep
  <2>9. QED
    BY <1>5, <2>4, <2>5, <2>6, <2>7, <2>8
<1>6. CASE SignToken \/ (\E key \in Keys : Normalize(key)) \/ UNCHANGED staffVars
  <2>1. UNCHANGED <<role, desks, outlived, grace>>
    BY <1>6 DEF SignToken, Normalize, staffVars
  <2>2. MayStillWrite' = MayStillWrite
    BY <2>1 DEF MayStillWrite
  <2>3. QED
    BY <2>1, <2>2 DEF GraceInv, Curators
<1>7. QED
  BY <1>4, <1>5, <1>6 DEF StaffNext

LEMMA InitGraceInv == StaffInit => GraceInv
<1> SUFFICES ASSUME StaffInit PROVE GraceInv
  OBVIOUS
<1>1. outlived = 0 /\ grace = 0 /\ \A d \in Desks : desks[d] = Clear
  BY DEF StaffInit
<1>2. MayStillWrite = {}
  BY <1>1, ClearDesk DEF MayStillWrite
<1>3. Cardinality(MayStillWrite) = 0
  BY <1>2, FS_EmptySet
<1>4. QED
  BY <1>1, <1>3 DEF GraceInv

\* The trail explains every merchant whose updates did not overlap and lost no
\* entry, keys stay unique, and a demoted or deactivated account changes no more
\* than its requests past the guard (AdminMerchantService, requireCapability and
\* AuditService.record).
THEOREM StaffAnswersForMerchants == StaffSpec => []StaffIsAccountable
<1>1. TrailInv => TrailExplains
  <2> SUFFICES ASSUME TrailInv PROVE TrailExplains
    OBVIOUS
  <2>1. \A m, n \in MerchantIds : merchants[m].key = merchants[n].key => m = n
    BY DEF TrailInv, UniqueKeys
  <2>2. ASSUME NEW m \in MerchantIds \ untracked, NEW i \in EntriesOf(m), NEW j \in EntriesOf(m),
               i < j, \A k \in EntriesOf(m) : k <= i \/ j <= k
        PROVE  trail[j].before = trail[i].after
    BY <2>2 DEF TrailInv, Tracked, Adjoin
  <2>3. ASSUME NEW m \in MerchantIds \ untracked, NEW i \in EntriesOf(m),
               \A k \in EntriesOf(m) : k <= i,
               ~\E d \in Desks : AtDesk(d, "audit") /\ desks[d].merchant = m
        PROVE  trail[i].after = merchants[m]
    <3>1. Tracked(m) /\ IsLast(i, m)
      BY <2>3 DEF TrailInv, IsLast
    <3>2. \A d \in Desks : ~Owes(d, m)
      BY <2>3 DEF Owes, AtDesk
    <3>3. QED
      BY <3>1, <3>2 DEF Tracked
  <2>4. QED
    BY <2>1, <2>2, <2>3 DEF TrailExplains
<1>2. GraceInv => DemotionBites
  <2> SUFFICES ASSUME GraceInv, role \notin Curators PROVE outlived <= grace
    BY DEF DemotionBites
  <2>1. MayStillWrite \in SUBSET Desks
    BY DEF MayStillWrite
  <2>2. Cardinality(MayStillWrite) \in Nat
    BY <2>1, StaffAssumption, FS_Subset, FS_CardinalityType
  <2>3. QED
    BY <2>2 DEF GraceInv
<1>3. TrailInv => StaffForm
  BY DEF TrailInv
<1>4. TrailInv /\ GraceInv => StaffIsAccountable
  BY <1>1, <1>2 DEF StaffIsAccountable
<1>5. QED
  BY <1>3, <1>4, InitTrailInv, NextTrailInv, InitGraceInv, NextGraceInv, PTL DEF StaffSpec

--------------------------------------------------------------------------------
(* Recurrence: medians *)

\* Of some positions, one has the lowest value.
LEMMA Lowest ==
  ASSUME NEW n \in Nat, NEW f, NEW T \in SUBSET (1..n), T # {}, \A i \in T : f[i] \in Int
  PROVE  \E i \in T : \A j \in T : f[i] <= f[j]
<1>1. PICK S : S = {m \in 0..n : \/ \A i \in T : i > m
                                 \/ \E i \in T : i <= m /\ \A j \in T : j <= m => f[i] <= f[j]}
  OBVIOUS
<1>2. 0 \in S
  BY <1>1
<1>3. ASSUME NEW m \in 1..n, m - 1 \in S PROVE m \in S
  <2>1. \A j \in T : j <= m => j <= m - 1 \/ j = m
    OBVIOUS
  <2>2. CASE m \notin T
    <3>1. \A j \in T : j <= m <=> j <= m - 1
      BY <2>1, <2>2
    <3>2. QED
      BY <1>1, <1>3, <3>1
  <2>3. CASE m \in T /\ \A i \in T : i > m - 1
    <3>1. \A j \in T : j <= m => f[m] <= f[j]
      BY <2>1, <2>3
    <3>2. QED
      BY <1>1, <2>3, <3>1
  <2>4. CASE m \in T /\ ~(\A i \in T : i > m - 1)
    <3>1. PICK i \in T : i <= m - 1 /\ \A j \in T : j <= m - 1 => f[i] <= f[j]
      BY <1>1, <1>3, <2>4
    <3>2. CASE f[i] <= f[m]
      <4>1. \A j \in T : j <= m => f[i] <= f[j]
        BY <2>1, <3>1, <3>2
      <4>2. i <= m
        BY <3>1
      <4>3. QED
        BY <1>1, <4>1, <4>2
    <3>3. CASE ~(f[i] <= f[m])
      <4>1. \A j \in T : j <= m => f[m] <= f[j]
        BY <2>1, <2>4, <3>1, <3>3
      <4>2. QED
        BY <1>1, <2>4, <4>1
    <3>4. QED
      BY <3>2, <3>3
  <2>5. QED
    BY <2>2, <2>3, <2>4
<1>4. \A m \in 0..n : m \in S
  <2>1. PICK a : a = 0
    OBVIOUS
  <2>2. a \in Nat /\ a \in S /\ a + 1 = 1
    BY <1>2, <2>1
  <2>3. \A m \in a + 1..n : m - 1 \in S => m \in S
    BY <1>3, <2>2
  <2>4. \A m \in a..n : m \in S
    BY <2>2, <2>3, Climb
  <2>5. QED
    BY <2>1, <2>4
<1>5. n \in S
  BY <1>4
<1>6. \A j \in T : j <= n /\ ~(j > n)
  OBVIOUS
<1>7. QED
  BY <1>1, <1>5, <1>6

LEMMA Highest ==
  ASSUME NEW n \in Nat, NEW f, NEW T \in SUBSET (1..n), T # {}, \A i \in T : f[i] \in Int
  PROVE  \E i \in T : \A j \in T : f[j] <= f[i]
<1>1. PICK g : g = [i \in T |-> -f[i]]
  OBVIOUS
<1>2. \A i \in T : g[i] \in Int /\ g[i] = -f[i]
  BY <1>1
<1>3. PICK i \in T : \A j \in T : g[i] <= g[j]
  BY <1>2, Lowest
<1>4. QED
  BY <1>2, <1>3

Below(s, n, v) == {i \in 1..n : s[i] < v}
UpTo(s, n, v) == {i \in 1..n : s[i] <= v}

\* Sets of positions are finite.
LEMMA PositionsCount ==
  ASSUME NEW n \in Nat, NEW S \in SUBSET (1..n), NEW T \in SUBSET S
  PROVE  /\ Cardinality(S) \in Nat /\ Cardinality(T) \in Nat
         /\ Cardinality(T) <= Cardinality(S) /\ Cardinality(1..n) = n
<1>1. IsFiniteSet(1..n) /\ Cardinality(1..n) = n
  <2>1. PICK one : one = 1 /\ one \in Int /\ n \in Int
    OBVIOUS
  <2>2. IsFiniteSet(one..n) /\ Cardinality(one..n) = IF one > n THEN 0 ELSE n - one + 1
    BY <2>1, FS_Interval
  <2>3. (IF one > n THEN 0 ELSE n - one + 1) = n
    BY <2>1
  <2>4. QED
    BY <2>1, <2>2, <2>3
<1>2. IsFiniteSet(S)
  BY <1>1, FS_Subset
<1>3. IsFiniteSet(T) /\ Cardinality(T) <= Cardinality(S)
  BY <1>2, FS_Subset
<1>4. QED
  BY <1>1, <1>2, <1>3, FS_CardinalityType

\* Each rank has its value.
LEMMA RankExists ==
  ASSUME NEW n \in Nat, NEW s, \A i \in 1..n : s[i] \in Int, NEW k \in 1..n
  PROVE  \E i \in 1..n : /\ Cardinality(Below(s, n, s[i])) < k
                         /\ k <= Cardinality(UpTo(s, n, s[i]))
<1>1. \A v : Below(s, n, v) \in SUBSET (1..n) /\ UpTo(s, n, v) \in SUBSET (1..n)
  BY DEF Below, UpTo
<1>2. \A v : Cardinality(Below(s, n, v)) \in Nat /\ Cardinality(UpTo(s, n, v)) \in Nat
  <2> SUFFICES ASSUME NEW v
               PROVE Cardinality(Below(s, n, v)) \in Nat /\ Cardinality(UpTo(s, n, v)) \in Nat
    OBVIOUS
  <2>1. PICK B, U : B = Below(s, n, v) /\ U = UpTo(s, n, v)
    OBVIOUS
  <2>2. B \in SUBSET (1..n) /\ B \in SUBSET B /\ U \in SUBSET (1..n) /\ U \in SUBSET U
    BY <1>1, <2>1
  <2>3. QED
    BY <2>1, <2>2, PositionsCount
<1>3. PICK W : W = {i \in 1..n : k <= Cardinality(UpTo(s, n, s[i]))}
  OBVIOUS
<1>4. W \in SUBSET (1..n) /\ W # {}
  <2>1. PICK P : P = 1..n /\ P \in SUBSET (1..n) /\ P # {}
    OBVIOUS
  <2>2. PICK i \in P : \A j \in P : s[j] <= s[i]
    BY <2>1, Highest
  <2>3. UpTo(s, n, s[i]) = 1..n
    BY <2>1, <2>2 DEF UpTo
  <2>4. Cardinality(1..n) = n
    BY PositionsCount
  <2>5. i \in W
    BY <1>3, <2>1, <2>2, <2>3, <2>4
  <2>6. QED
    BY <1>3, <2>5
<1>5. PICK i \in W : \A j \in W : s[i] <= s[j]
  BY <1>4, Lowest
<1>6. i \in 1..n /\ k <= Cardinality(UpTo(s, n, s[i]))
  BY <1>3, <1>5
<1>7. Cardinality(Below(s, n, s[i])) < k
  <2>1. PICK B : B = Below(s, n, s[i])
    OBVIOUS
  <2>2. CASE B = {}
    BY <2>1, <2>2, FS_EmptySet
  <2>3. CASE B # {}
    <3>1. B \in SUBSET (1..n) /\ \A j \in B : s[j] \in Int
      BY <1>1, <2>1
    <3>2. PICK j \in B : \A l \in B : s[l] <= s[j]
      BY <2>3, <3>1, Highest
    <3>3. PICK U : U = UpTo(s, n, s[j])
      OBVIOUS
    <3>4. B \in SUBSET U /\ U \in SUBSET (1..n)
      BY <1>1, <3>1, <3>2, <3>3 DEF UpTo
    <3>5. Cardinality(B) <= Cardinality(U)
      BY <3>4, PositionsCount
    <3>6. j \in 1..n /\ s[j] < s[i] /\ s[j] \in Int /\ s[i] \in Int
      BY <1>6, <2>1, <3>1, <3>2 DEF Below
    <3>7. j \notin W
      BY <1>5, <3>6
    <3>8. ~(k <= Cardinality(U))
      BY <1>3, <3>3, <3>6, <3>7
    <3>9. Cardinality(B) \in Nat /\ Cardinality(U) \in Nat
      BY <1>2, <2>1, <3>3
    <3>10. QED
      BY <2>1, <3>5, <3>8, <3>9
  <2>4. QED
    BY <2>2, <2>3
<1>8. QED
  BY <1>6, <1>7

LEMMA RankedIsInt ==
  ASSUME NEW s \in Seq(Int), NEW k \in 1..Len(s) PROVE Ranked(s, k) \in Int
<1>1. PICK n : n = Len(s) /\ n \in Nat /\ DOMAIN s = 1..n /\ \A i \in 1..n : s[i] \in Int
  OBVIOUS
<1>2. k \in 1..n
  BY <1>1
<1>3. PICK i \in 1..n : /\ Cardinality(Below(s, n, s[i])) < k
                        /\ k <= Cardinality(UpTo(s, n, s[i]))
  BY <1>1, <1>2, RankExists
<1>4. Range(s) = {s[j] : j \in 1..n}
  BY <1>1 DEF Range
<1>5. \E v \in Range(s) : /\ Cardinality({j \in DOMAIN s : s[j] < v}) < k
                          /\ k <= Cardinality({j \in DOMAIN s : s[j] <= v})
  BY <1>1, <1>3, <1>4 DEF Below, UpTo
<1>6. Ranked(s, k) \in Range(s)
  BY <1>5 DEF Ranked
<1>7. QED
  BY <1>1, <1>4, <1>6

LEMMA MedianIsInt == ASSUME NEW s \in Seq(Int), Len(s) > 1 PROVE TwiceMedian(s) \in Int
<1>1. PICK n, mid : n = Len(s) /\ mid = n \div 2 /\ n \in Nat /\ n > 1
  OBVIOUS
<1>2. mid \in 1..n /\ mid + 1 \in 1..n
  BY <1>1
<1>3. Ranked(s, mid) \in Int /\ Ranked(s, mid + 1) \in Int
  BY <1>1, <1>2, RankedIsInt
<1>4. QED
  BY <1>1, <1>3 DEF TwiceMedian

--------------------------------------------------------------------------------
(* Recurrence: the charges that count *)

IsFiltered(f, all, places) ==
  f = [n \in 0..Len(all) |->
         IF n = 0 THEN <<>>
         ELSE IF n \in places THEN Append(f[n - 1], all[n]) ELSE f[n - 1]]

\* One charge more.
Keeping(kept, c, i, places) == IF i \in places THEN Append(kept, c) ELSE kept

LEMMA ChargesAreKept ==
  ASSUME NEW T, NEW all \in Seq(T), NEW places PROVE Filtered(all, places) \in Seq(T)
<1>1. PICK n, V, a, first : /\ n = Len(all) /\ n \in Nat /\ V = Seq(T) /\ a = 0 /\ first = <<>>
                            /\ \A i \in 1..n : all[i] \in T
  OBVIOUS
<1>2. PICK F : F = [i \in Nat |-> [v \in V |-> IF i \in 1..n THEN Keeping(v, all[i], i, places) ELSE v]]
  OBVIOUS
<1>3. \A v \in V, i \in 1..n : Keeping(v, all[i], i, places) \in V
  BY <1>1 DEF Keeping
<1>4. F \in [Nat -> [V -> V]]
  BY <1>2, <1>3
<1>5. first \in V /\ a \in Nat /\ a <= n /\ a + 1 = 1
  BY <1>1
<1>6. \E h \in [a..n -> V] : Computes(h, first, F, a, n)
  BY <1>1, <1>4, <1>5, Recursion
<1>7. PICK h \in [0..n -> V] : h[0] = <<>> /\ \A i \in 1..n : h[i] = F[i][h[i - 1]]
  BY <1>1, <1>5, <1>6, SMTT(60) DEF Computes
<1>8. ASSUME NEW i \in 0..n
      PROVE  h[i] = IF i = 0 THEN <<>>
                    ELSE IF i \in places THEN Append(h[i - 1], all[i]) ELSE h[i - 1]
  <2>1. CASE i = 0
    BY <1>7, <2>1
  <2>2. CASE i # 0
    <3>1. i \in 1..n /\ i - 1 \in 0..n /\ i \in Nat
      BY <1>1, <2>2
    <3>2. F[i] = [v \in V |-> Keeping(v, all[i], i, places)] /\ h[i - 1] \in V
      BY <1>2, <1>7, <3>1
    <3>3. h[i] = Keeping(h[i - 1], all[i], i, places)
      BY <1>7, <3>1, <3>2
    <3>4. QED
      BY <2>2, <3>3 DEF Keeping
  <2>3. QED
    BY <2>1, <2>2
<1>9. h = [i \in 0..n |-> IF i = 0 THEN <<>>
                          ELSE IF i \in places THEN Append(h[i - 1], all[i])
                               ELSE h[i - 1]]
  BY <1>7, <1>8
<1>10. IsFiltered(h, all, places)
  BY <1>1, <1>9, Zenon DEF IsFiltered
<1>11. PICK f : f = CHOOSE g : IsFiltered(g, all, places)
  OBVIOUS
<1>12. IsFiltered(f, all, places)
  BY <1>10, <1>11
<1>13. Filtered(all, places) = f[n]
  BY <1>1, <1>11 DEF Filtered, IsFiltered
<1>14. ASSUME NEW i \in 0..n
       PROVE  f[i] = IF i = 0 THEN <<>>
                     ELSE IF i \in places THEN Append(f[i - 1], all[i]) ELSE f[i - 1]
  BY <1>1, <1>12, Zenon DEF IsFiltered
<1>15. PICK S : S = {i \in 0..n : f[i] \in V}
  OBVIOUS
<1>16. 0 \in S /\ a \in S
  <2>1. 0 \in 0..n /\ <<>> \in V
    BY <1>1, <1>5
  <2>2. f[0] = <<>>
    BY <1>14, <2>1
  <2>3. QED
    BY <1>1, <1>15, <2>1, <2>2
<1>17. ASSUME NEW i \in a + 1..n, i - 1 \in S PROVE i \in S
  <2>1. i \in 1..n /\ i \in 0..n /\ i # 0
    BY <1>1, <1>17
  <2>2. f[i] = Keeping(f[i - 1], all[i], i, places)
    BY <1>14, <2>1 DEF Keeping
  <2>3. QED
    BY <1>3, <1>15, <1>17, <2>1, <2>2
<1>18. \A i \in a..n : i \in S
  BY <1>1, <1>5, <1>16, <1>17, Climb
<1>19. n \in S
  BY <1>1, <1>18
<1>20. QED
  BY <1>1, <1>13, <1>15, <1>19

--------------------------------------------------------------------------------
(* SeriesWalk *)

Charges == [day : Int, amount : Int, provider : BOOLEAN, category : {"entertainment"}]

\* What a matching band says of the median interval.
LEMMA BandsArePositive ==
  ASSUME NEW gaps, TwiceMedian(gaps) \in Int, MatchCadenceBand(gaps) # {}
  PROVE  TwiceMedian(gaps) > 0
<1>1. PICK b \in CadenceBands : Abs(8 * TwiceMedian(gaps) - b.days) <= b.tolerance
  BY DEF MatchCadenceBand
<1>2. b.days \in Nat /\ b.tolerance \in Nat /\ b.days > b.tolerance
  BY DEF CadenceBands
<1>3. PICK m, d, t : /\ m = TwiceMedian(gaps) /\ d = b.days /\ t = b.tolerance
                     /\ m \in Int /\ d \in Nat /\ t \in Nat /\ d > t /\ Abs(8 * m - d) <= t
  BY <1>1, <1>2
<1>4. m > 0
  BY <1>3 DEF Abs
<1>5. QED
  BY <1>3, <1>4

HistoryInv == history \in Seq(Charges) /\ silence \in Nat

LEMMA HistoryStep == ASSUME HistoryInv, [HistoryNext]_seriesVars PROVE HistoryInv'
<1>1. CASE ChargeAgain
  <2>1. PICK gap \in ChargeGaps, amount \in ChargeAmounts :
          history' = Append(history,
            [day |-> IF history = <<>> THEN 0 ELSE Last(history).day + gap,
             amount |-> amount, provider |-> FALSE, category |-> "entertainment"])
    BY <1>1 DEF ChargeAgain
  <2>2. history # <<>> => Last(history) \in Charges
    BY DEF HistoryInv, Last
  <2>3. PICK on : on = IF history = <<>> THEN 0 ELSE Last(history).day + gap
    OBVIOUS
  <2>4. on \in Int /\ amount \in Nat
    BY <2>2, <2>3, SeriesAssumption DEF Charges
  <2>5. PICK c : c = [day |-> on, amount |-> amount, provider |-> FALSE,
                      category |-> "entertainment"]
    OBVIOUS
  <2>6. c \in Charges
    BY <2>4, <2>5 DEF Charges
  <2>7. history' = Append(history, c)
    BY <2>1, <2>3, <2>5
  <2>8. silence' = 0
    BY <1>1 DEF ChargeAgain
  <2>9. QED
    BY <2>6, <2>7, <2>8 DEF HistoryInv
<1>2. CASE DayPasses
  BY <1>2 DEF DayPasses, HistoryInv
<1>3. CASE UNCHANGED seriesVars
  BY <1>3 DEF seriesVars, HistoryInv
<1>4. QED
  BY <1>1, <1>2, <1>3 DEF HistoryNext

\* A series that is due lasts as long as its prediction, for the latter is one
\* interval away and the former one and a half.
LEMMA DueIsActive ==
  ASSUME NEW txns \in Seq(Charges), NEW now \in Int, Recurs(txns), now <= PredictNextCharge(txns)
  PROVE  IsActive(txns, now, SubscriptionGrace)
<1>1. PICK n, gaps : n = Len(txns) /\ gaps = Gaps(txns) /\ n \in Nat /\ n >= 3
                     /\ \A i \in 1..n : txns[i] \in Charges
  BY DEF Recurs, MinOccurrences
<1>2. gaps \in Seq(Int) /\ Len(gaps) = n - 1
  <2>1. \A i \in 1..n : txns[i].day \in Int
    BY <1>1 DEF Charges
  <2>2. gaps = [i \in 1..n - 1 |-> txns[i + 1].day - txns[i].day]
    BY <1>1 DEF Gaps
  <2>3. \A i \in 1..n - 1 : txns[i + 1].day - txns[i].day \in Int
    BY <1>1, <2>1
  <2>4. QED
    BY <1>1, <2>2, <2>3
<1>3. PICK last, m : last = Last(txns).day /\ m = TwiceMedian(gaps)
  OBVIOUS
<1>4. last \in Int
  BY <1>1, <1>3 DEF Last, Charges
<1>5. m \in Int /\ m > 0
  <2>1. Len(gaps) > 1
    BY <1>1, <1>2
  <2>2. m \in Int
    BY <1>2, <1>3, <2>1, MedianIsInt
  <2>3. QED
    BY <1>1, <1>3, <2>2, BandsArePositive DEF Recurs
<1>6. now <= last + ((2 * m + 2) \div 4)
  BY <1>1, <1>3 DEF PredictNextCharge, Rounded
<1>7. 4 * (now - last) <= 3 * m + 4 * 10
  BY <1>4, <1>5, <1>6
<1>8. QED
  BY <1>1, <1>3, <1>7 DEF IsActive, SubscriptionGrace

\* THEOREM. Whatever the intervals and amounts of a merchant's charges, however many
\* there are and however long it has been silent: a subscription is not given up
\* before the charge predicted for it is due.
THEOREM DueSubscriptionsLast == HistorySpec => []ActiveUntilNextCharge
<1>1. HistoryInit => HistoryInv
  BY DEF HistoryInit, HistoryInv
<1>2. HistoryInv /\ [HistoryNext]_seriesVars => HistoryInv'
  BY HistoryStep
<1>3. HistoryInv => ActiveUntilNextCharge
  <2> SUFFICES ASSUME HistoryInv, history # <<>>,
                      NEW s \in DetectSubscription(history, Last(history).day + silence),
                      Last(history).day + silence <= s.next
               PROVE  s.isActive
    BY DEF ActiveUntilNextCharge
  <2>1. PICK now, txns : now = Last(history).day + silence /\ txns = SubscriptionCharges(history)
    OBVIOUS
  <2>2. now \in Int
    <3>1. Last(history) \in Charges
      BY DEF HistoryInv, Last
    <3>2. QED
      BY <2>1, <3>1 DEF HistoryInv, Charges
  <2>3. txns \in Seq(Charges)
    BY <2>1, ChargesAreKept DEF HistoryInv, SubscriptionCharges
  <2>4. Recurs(txns) /\ s.next = PredictNextCharge(txns)
        /\ s.isActive = IsActive(txns, now, SubscriptionGrace)
    BY <2>1 DEF DetectSubscription
  <2>5. now <= PredictNextCharge(txns)
    BY <2>1, <2>4
  <2>6. IsActive(txns, now, SubscriptionGrace)
    BY <2>2, <2>3, <2>4, <2>5, DueIsActive
  <2>7. QED
    BY <2>4, <2>6
<1>4. QED
  BY <1>1, <1>2, <1>3, PTL DEF HistorySpec
================================================================================
