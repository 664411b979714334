------------------------------ MODULE BankAdapters ------------------------------
(***************************************************************************)
(* The two bank adapters. Without keys a built-in bank makes a history up  *)
(* out of the clock and a stream of numbers drawn from the access token,   *)
(* and its cursor is how much of that history was read. With keys the HTTP *)
(* adapter remembers the names of institutions for its process.            *)
(***************************************************************************)
EXTENDS Naturals, Sequences, FiniteSets

CONSTANTS MonthDays,   \* days of a month
          PageSize,    \* entries of a page
          Streams,     \* BOUND: the numbers of a token, which repeat
          LastDay,     \* BOUND: the clock
          Lookups,     \* syncs that may ask for a name at the same time
          Banks        \* institutions

ASSUME BankAdaptersAssumption ==
  /\ MonthDays \in Nat \ {0} /\ PageSize \in Nat \ {0} /\ LastDay \in Nat
  /\ \A s \in Streams : s \in Seq(Nat) /\ Len(s) > 0
  /\ IsFiniteSet(Lookups) /\ "idle" \notin Banks

VARIABLES
  stream, date, cursor, delivered, caughtUp,
  firstDay,   \* history: the day of the first page
  restarted,  \* history: the cursor was lost once
  names, lookups,
  asked       \* history: requests for a name since the process started

sandboxVars == <<stream, date, cursor, delivered, caughtUp, firstDay, restarted>>
nameVars == <<names, lookups, asked>>

--------------------------------------------------------------------------------
(* The history *)

\* Of SERIES: one early in the month, one that short months clamp, one of every
\* other month.
Series ==
  << [what |-> "rent", day |-> 1, step |-> 1, phase |-> 0],
     [what |-> "cloud", day |-> 31, step |-> 1, phase |-> 0],
     [what |-> "insurance", day |-> 2, step |-> 2, phase |-> 1] >>

MonthsOfHistory == 1
MonthOf(day) == day \div MonthDays
DayOf(month, dayOfMonth) == month * MonthDays + dayOfMonth - 1

\* mulberry32: the i-th number of a token.
Draw(token, i) == token[((i - 1) % Len(token)) + 1]

\* What a history is made from: its entries in the order of making, those that the
\* clock has not reached included; the numbers used; whether a purchase is ahead.
Nothing == [plan |-> <<>>, used |-> 0, ahead |-> FALSE]
Push(h, what, day) == [h EXCEPT !.plan = Append(@, [what |-> what, day |-> day])]

Charge(h, i, back, month) ==
  LET s == Series[i]
  IN  IF back % s.step # s.phase THEN h
      ELSE Push(h, s.what, DayOf(month, IF s.day > MonthDays THEN MonthDays ELSE s.day))

\* One number for the merchant and the day; one for the amount, unless it is ahead.
Purchase(h, token, month, now) ==
  LET day == DayOf(month, 1 + (Draw(token, h.used + 1) % MonthDays))
      pushed == Push(h, "purchase", day)
  IN  IF day > now THEN [pushed EXCEPT !.used = @ + 1, !.ahead = TRUE]
      ELSE [pushed EXCEPT !.used = @ + 2]

\* The recurring charges of a month, its payday, and one or two purchases, which a
\* number decides.
AddMonth(h, token, back, now) ==
  LET month == MonthOf(now) - back
      charged == Charge(Charge(Charge(h, 1, back, month), 2, back, month), 3, back, month)
      paid == [Push(charged, "payroll", DayOf(month, 1)) EXCEPT !.used = @ + 1]
      first == Purchase(paid, token, month, now)
  IN  IF Draw(token, paid.used) % 2 = 0 THEN first ELSE Purchase(first, token, month, now)

\* MonthsOfHistory is one.
Built(token, now) == AddMonth(AddMonth(Nothing, token, MonthsOfHistory, now), token, 0, now)

\* Entries are numbered as they are made, and the number is part of their id.
Made(plan, now) == {i \in DOMAIN plan : plan[i].day <= now}
Number(made, i) == Cardinality({j \in made : j <= i})

\* The places of the plan in the order of the history: by day, then as made.
Until(plan, made, i) ==
  {j \in made : plan[j].day < plan[i].day \/ (plan[j].day = plan[i].day /\ j <= i)}
BugSorted(plan, made) ==
  [k \in 1..Cardinality(made) |-> CHOOSE i \in made : Number(made, i) = k]
Sorted(plan, made) ==
  [k \in 1..Cardinality(made) |-> CHOOSE i \in made : Cardinality(Until(plan, made, i)) = k]

History(plan, now) ==
  LET made == Made(plan, now)
      order == Sorted(plan, made)
  IN  [k \in 1..Cardinality(made) |->
         [what |-> plan[order[k]].what, day |-> plan[order[k]].day,
          seq |-> Number(made, order[k])]]
BuildHistory(token, now) == History(Built(token, now).plan, now)

--------------------------------------------------------------------------------
(* Its pages *)

Tomorrow ==
  /\ date < LastDay /\ date' = date + 1 /\ caughtUp' = FALSE
  /\ UNCHANGED <<stream, cursor, delivered, firstDay, restarted>>

SyncTransactions ==
  LET history == BuildHistory(stream, date)
      page == (cursor + 1)..(cursor + PageSize) \intersect DOMAIN history
  IN  /\ ~caughtUp
      /\ cursor' = cursor + Cardinality(page)
      /\ delivered' = delivered \union {history[k] : k \in page}
      /\ caughtUp' = (cursor' >= Len(history))
      /\ firstDay' = IF firstDay = 0 THEN date ELSE firstDay
      /\ UNCHANGED <<stream, date, restarted>>

\* No cursor, or one of another format: from the beginning.
ParseCursor ==
  /\ cursor > 0 /\ cursor' = 0 /\ restarted' = TRUE /\ caughtUp' = FALSE
  /\ UNCHANGED <<stream, date, delivered, firstDay>>

--------------------------------------------------------------------------------
(* Names of institutions *)

AskName(s, b) ==
  /\ lookups[s] = "idle" /\ names[b] = "unset"
  /\ lookups' = [lookups EXCEPT ![s] = b]
  /\ asked' = [asked EXCEPT ![b] = @ + 1]
  /\ UNCHANGED names

\* The name, or null for a failure of any kind: both are kept.
KeepName(s) ==
  /\ lookups[s] # "idle"
  /\ \E answer \in {"named", "null"} : names' = [names EXCEPT ![lookups[s]] = answer]
  /\ lookups' = [lookups EXCEPT ![s] = "idle"]
  /\ UNCHANGED asked

RestartProcess ==
  /\ names' = [b \in Banks |-> "unset"] /\ asked' = [b \in Banks |-> 0]
  /\ lookups' = [s \in Lookups |-> "idle"]

--------------------------------------------------------------------------------
SandboxInit ==
  /\ stream \in Streams /\ date = MonthDays * MonthsOfHistory
  /\ cursor = 0 /\ delivered = {} /\ caughtUp = FALSE /\ firstDay = 0 /\ restarted = FALSE

NamesInit ==
  /\ names = [b \in Banks |-> "unset"] /\ asked = [b \in Banks |-> 0]
  /\ lookups = [s \in Lookups |-> "idle"]

SandboxNext == Tomorrow \/ SyncTransactions \/ ParseCursor
NamesNext ==
  \/ \E s \in Lookups : KeepName(s) \/ \E b \in Banks : AskName(s, b)
  \/ RestartProcess

BankSpec == /\ SandboxInit /\ [][SandboxNext]_sandboxVars
            /\ NamesInit /\ [][NamesNext]_nameVars

--------------------------------------------------------------------------------
(* Properties *)

Entries(token, now) ==
  LET history == BuildHistory(token, now) IN {history[k] : k \in DOMAIN history}
Occurrences(entries) == {[what |-> e.what, day |-> e.day] : e \in entries}

\* Within the month of its first page, and with no purchase of that month ahead on
\* that day, a sync that caught up has every entry there is, and unless the cursor
\* was lost it has none twice, although entries are numbered anew every day and page
\* boundaries fall between days (mock-adapter.ts). Whatever overlaps or fails, no
\* sync asks for a name twice in the life of a process ("a persistently failing
\* lookup is not retried on every sync", http-adapter.ts).
BankAdaptersAreSound ==
  /\ firstDay # 0 /\ MonthOf(date) = MonthOf(firstDay) /\ ~Built(stream, firstDay).ahead =>
       /\ caughtUp => Occurrences(delivered) = Occurrences(Entries(stream, date))
       /\ ~restarted => Cardinality(delivered) = cursor
  /\ \A b \in Banks : asked[b] <= Cardinality(Lookups)
================================================================================
