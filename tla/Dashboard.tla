-------------------------------- MODULE Dashboard --------------------------------
(***************************************************************************)
(* The dashboard in several tabs. A page is rendered from the API, or from *)
(* fixtures when the API does not answer; buttons send changes, wait two   *)
(* seconds for the answer, tell the member and render the page again. A    *)
(* request that was given up may still be carried out.                     *)
(***************************************************************************)
EXTENDS Naturals, FiniteSets

CONSTANTS Screens,      \* tabs with a page of the dashboard
          Clicks,       \* requests that may be on their way at once
          Tracked,      \* subscriptions the member has
          FormRows,     \* rows the form may add, in the order of their ids
          MaxClicks,    \* BOUND: presses of a button
          MaxElsewhere  \* BOUND: changes by detection, the concierge or another device

ASSUME DashboardAssumption ==
  /\ IsFiniteSet(Tracked) /\ IsFiniteSet(FormRows) /\ IsFiniteSet(Clicks)
  /\ Tracked \intersect FormRows = {} /\ "none" \notin Tracked \union FormRows

Statuses == {"active", "paused", "cancel_requested", "canceled"}
Rows == Tracked \union FormRows

VARIABLES
  saved,   \* the status of each row of the API's table, or "none"
  view,     \* what each tab shows: where it is from, and the rows
  click,    \* the request in each slot
  told,     \* the status the member was last told of, since the last press alone
  muddled,  \* history: rows where presses overlapped, an answer was given up, or others wrote
  adds,     \* history: forms answered, forms given up
  pressed, elsewhere

dashboardVars == <<saved, view, click, told, muddled, adds, pressed, elsewhere>>

NoClick == [state |-> "none", screen |-> "none", row |-> "none", to |-> "none", mounted |-> FALSE]

--------------------------------------------------------------------------------
(* Pages *)

DemoSubscriptions == [r \in {"demo"} |-> "active"]

\* An API that answers, with an empty account too, is live; else the fixtures.
LoadSubscriptions ==
  {[source |-> "live", rows |-> [r \in {x \in Rows : saved[x] # "none"} |-> saved[r]]],
   [source |-> "demo", rows |-> DemoSubscriptions]}

\* What the button of a row asks for; the detail page decides alike.
Button(status) == IF status \in {"active", "paused"} THEN "canceled" ELSE "active"

\* The tabs of the filter, and the four counts of the summary.
CountOf(v, status) == Cardinality({r \in DOMAIN v.rows : v.rows[r] = status})
Visible(v, filter) == {r \in DOMAIN v.rows : filter \in {"all", v.rows[r]}}

\* The page is rendered again: a button that is still there keeps its state.
Refresh(s, clicks) ==
  \E v \in LoadSubscriptions' :
    /\ view' = [view EXCEPT ![s] = v]
    /\ click' = [c \in Clicks |->
         IF clicks[c].screen = s /\ clicks[c].row \in Tracked
         THEN [clicks[c] EXCEPT !.mounted =
                 /\ @ /\ clicks[c].row \in DOMAIN v.rows
                 /\ Button(v.rows[clicks[c].row]) = clicks[c].to]
         ELSE clicks[c]]

\* Another page: its buttons are new, requests on their way are still answered.
OpenPage(s) ==
  /\ \E v \in LoadSubscriptions : view' = [view EXCEPT ![s] = v]
  /\ click' = [c \in Clicks |-> IF click[c].screen = s THEN [click[c] EXCEPT !.mounted = FALSE]
                                                       ELSE click[c]]
  /\ UNCHANGED <<saved, told, muddled, adds, pressed, elsewhere>>

--------------------------------------------------------------------------------
(* Requests *)

Send(c, s, r, to) ==
  /\ click[c] = NoClick /\ pressed < MaxClicks
  /\ view[s].source = "live"
  /\ ~\E d \in Clicks : click[d].mounted /\ click[d].screen = s /\ click[d].to = to
                          /\ (click[d].row \in FormRows <=> r \in FormRows)
                          /\ (r \in Tracked => click[d].row = r)
  /\ click' = [click EXCEPT ![c] =
                [state |-> "sent", screen |-> s, row |-> r, to |-> to, mounted |-> TRUE]]
  /\ pressed' = pressed + 1
  /\ UNCHANGED <<saved, view, adds, elsewhere>>

\* Cancel, confirmed in its dialog, or Reactivate.
SetStatus(c, s, r) ==
  /\ r \in Tracked \intersect DOMAIN view[s].rows
  /\ Send(c, s, r, Button(view[s].rows[r]))
  /\ told' = [told EXCEPT ![r] = "nothing"]
  /\ muddled' = IF \E d \in Clicks : click[d].row = r THEN muddled \union {r} ELSE muddled \ {r}

\* The form. Discarding it does not stop the request.
AddSubscription(c, s, r) ==
  /\ r \in FormRows /\ saved[r] = "none" /\ \A d \in Clicks : click[d].row # r
  /\ Send(c, s, r, "active")
  /\ UNCHANGED <<told, muddled>>

\* Without a live record the page waits, reports success and is rendered again.
Pretend(s) ==
  /\ view[s].source = "demo"
  /\ UNCHANGED <<saved, told, muddled, adds, pressed, elsewhere>>
  /\ Refresh(s, click)

\* The API commits; a request that was given up gets no further.
CarryOut(c) ==
  /\ click[c].state \in {"sent", "given_up"}
  /\ click[c].row \in Tracked => saved[click[c].row] # "none"
  /\ saved' = [saved EXCEPT ![click[c].row] = click[c].to]
  /\ click' = [click EXCEPT ![c] = IF @.state = "sent" THEN [@ EXCEPT !.state = "served"] ELSE NoClick]
  /\ UNCHANGED <<view, told, muddled, adds, pressed, elsewhere>>

\* A status outside 200..299 and a timeout both come back as null.
BugAccepted(q) == q.state \in {"sent", "served"}
Accepted(q) == q.state = "served"

\* Success is told, and the page that sent the request is rendered again.
Answer(c) ==
  LET q == click[c] IN
  /\ Accepted(q)
  /\ told' = IF q.row \in Tracked THEN [told EXCEPT ![q.row] = q.to] ELSE told
  /\ adds' = IF q.row \in FormRows THEN [adds EXCEPT !.answered = @ + 1] ELSE adds
  /\ UNCHANGED <<saved, muddled, pressed, elsewhere>>
  /\ Refresh(q.screen, [click EXCEPT ![c] = NoClick])

\* The API refuses, or is never reached: the failure told of is one.
Refuse(c) ==
  /\ click[c].state \in {"sent", "given_up"}
  /\ click' = [click EXCEPT ![c] = NoClick]
  /\ UNCHANGED <<saved, view, told, muddled, adds, pressed, elsewhere>>

\* Two seconds pass, or the tab is closed: the member is told of a failure, or of
\* nothing, and the request may be carried out or have been.
GiveUp(c) ==
  /\ click[c].state \in {"sent", "served"}
  /\ click' = [click EXCEPT ![c] = IF @.state = "served" THEN NoClick
                                   ELSE [@ EXCEPT !.state = "given_up", !.mounted = FALSE]]
  /\ IF click[c].row \in Tracked
     THEN muddled' = muddled \union {click[c].row} /\ UNCHANGED adds
     ELSE adds' = [adds EXCEPT !.unsure = @ + 1] /\ UNCHANGED muddled
  /\ UNCHANGED <<saved, view, told, pressed, elsewhere>>

\* Another writer of the row; a deletion too.
Elsewhere(r) ==
  /\ elsewhere < MaxElsewhere /\ saved[r] # "none"
  /\ \E status \in Statuses \union {"none"} : saved' = [saved EXCEPT ![r] = status]
  /\ muddled' = muddled \union {r} /\ elsewhere' = elsewhere + 1
  /\ UNCHANGED <<view, click, told, adds, pressed>>

--------------------------------------------------------------------------------
DashboardInit ==
  /\ saved = [r \in Rows |-> IF r \in Tracked THEN "active" ELSE "none"]
  /\ view = [s \in Screens |-> [source |-> "demo", rows |-> DemoSubscriptions]]
  /\ click = [c \in Clicks |-> NoClick]
  /\ told = [r \in Tracked |-> "nothing"] /\ muddled = {}
  /\ adds = [answered |-> 0, unsure |-> 0] /\ pressed = 0 /\ elsewhere = 0

DashboardNext ==
  \/ \E s \in Screens : OpenPage(s) \/ Pretend(s)
  \/ \E c \in Clicks, s \in Screens, r \in Rows : SetStatus(c, s, r) \/ AddSubscription(c, s, r)
  \/ \E c \in Clicks : CarryOut(c) \/ Answer(c) \/ Refuse(c) \/ GiveUp(c)
  \/ \E r \in Tracked : Elsewhere(r)

DashboardSpec == DashboardInit /\ [][DashboardNext]_dashboardVars

--------------------------------------------------------------------------------
(* Properties *)

\* What the member was told a subscription is now, it is, unless their presses
\* overlapped, an answer was given up, or another writer came in; and the form
\* leaves one row for each success it reports, and no others but those it was given
\* up on or not answered yet. Meanwhile each row of a page is under one tab of the
\* filter (setStatus, createSubscription, apiFetch, the subscriptions page).
DashboardIsHonest ==
  /\ \A r \in Tracked : r \notin muddled /\ told[r] # "nothing" => saved[r] = told[r]
  /\ LET made == Cardinality({r \in FormRows : saved[r] # "none"})
         open == Cardinality({c \in Clicks : click[c].state = "served" /\ click[c].row \in FormRows})
     IN  adds.answered + open <= made /\ made <= adds.answered + open + adds.unsure
  /\ \A s \in Screens :
       Cardinality(Visible(view[s], "all")) =
         CountOf(view[s], "active") + CountOf(view[s], "paused")
           + CountOf(view[s], "cancel_requested") + CountOf(view[s], "canceled")
================================================================================
