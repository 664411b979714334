--------------------------------- MODULE Device ---------------------------------
(***************************************************************************)
(* The web client on one device: the session and the onboarding wizard     *)
(* that apps/web keeps in the browser's storage, and the tabs that read    *)
(* it.  A tab checks the session when a page mounts and never again, and   *)
(* the wizard reads its stored state once and writes all of it back with   *)
(* every change.                                                           *)
(***************************************************************************)
EXTENDS Integers, Sequences, FiniteSets

CONSTANTS Tabs,
          Members,      \* who signs in on the device
          Institutions, \* banks of the list (one more never connects, and changes nothing)
          MaxVisits     \* BOUND: navigations, reloads and sign-ins

Nobody == "nobody"

ASSUME DeviceAssumption == MaxVisits \in Nat /\ Nobody \notin Members

VARIABLES
  session,    \* who the stored session names, or Nobody
  complete,   \* onboarding-complete is set
  stored,     \* the stored wizard state
  tabs,       \* the tabs
  confirmed,  \* history: banks whose connection succeeded for the stored state
  mixed,      \* history: the storage was written from under another tab, or a
              \* page that had been left
  raced,      \* history: two connections were under way at once
  visits

deviceVars == <<session, complete, stored, tabs, confirmed, mixed, raced, visits>>

WelcomeStep == 0
ConsentStep == 1
LinkStep == 2
SyncStep == 3
SummaryStep == 4

\* INITIAL_ONBOARDING_STATE; owner is history.
Fresh0(owner) ==
  [step |-> WelcomeStep, consent |-> FALSE, linked |-> {}, found |-> FALSE, owner |-> owner]
NothingStored == Fresh0(Nobody)

\* connecting: the connections of the page shown; left: the states that those of
\* pages left behind would store.
FormTab == [page |-> "form", state |-> NothingStored, connecting |-> {}, left |-> {}]

LinkedAfter(connection) == connection.base \union {connection.bank}

\* The page that shows after a navigation to one: AuthShell sends a visitor with
\* a session on, AuthGuard and the wizard send one without back.
Mount(who, done, page) ==
  IF who = Nobody THEN "form"
  ELSE IF page # "form" THEN page
  ELSE IF done THEN "dashboard" ELSE "wizard"

\* loadOnboardingState: what is stored, or a fresh start.
LoadState(who, saved) == IF saved = NothingStored THEN Fresh0(who) ELSE saved

LeftBehind(tab) ==
  {[tab.state EXCEPT !.linked = LinkedAfter(c)] : c \in tab.connecting}

\* A tab that has navigated to another page.
Arrive(tab, who, done, saved, page) ==
  LET shown == Mount(who, done, page)
  IN [page |-> shown,
      state |-> IF shown = "wizard" THEN LoadState(who, saved) ELSE NothingStored,
      connecting |-> {},
      left |-> tab.left \union LeftBehind(tab)]

Busy == {t \in Tabs : tabs[t].page # "form" \/ tabs[t].left # {}}

--------------------------------------------------------------------------------
(* Pages *)

Visit == visits < MaxVisits /\ visits' = visits + 1

\* A link to another page, or the back button.
Navigate(t, page) ==
  /\ Mount(session, complete, page) # tabs[t].page
  /\ Visit
  /\ tabs' = [tabs EXCEPT ![t] = Arrive(@, session, complete, stored, page)]
  /\ UNCHANGED <<session, complete, stored, confirmed, mixed, raced>>

\* The address bar: nothing of the page goes on.
Reload(t, page) ==
  /\ Visit
  /\ tabs' = [tabs EXCEPT ![t] = Arrive(FormTab, session, complete, stored, page)]
  /\ UNCHANGED <<session, complete, stored, confirmed, mixed, raced>>

\* LoginForm, SignupForm and the demo account: the session is saved, and the
\* next page is up to the flag (the form is not guarded again).
SignIn(t, who) ==
  /\ tabs[t].page = "form" /\ Visit
  /\ session' = who
  /\ \E page \in {"wizard", IF complete THEN "dashboard" ELSE "wizard"} :
       tabs' = [tabs EXCEPT ![t] = Arrive(@, who, complete, stored, page)]
  /\ mixed' = (mixed \/ session # Nobody \/ Busy # {})
  /\ UNCHANGED <<complete, stored, confirmed, raced>>

\* Wrong variant: the wizard's state stays.
BugForgotten == stored
\* What is left of the wizard's state on signing out.
Forgotten == NothingStored

\* UserBadge and SettingsDangerCard; a deleted account is a local sign-out.
SignOut(t) ==
  /\ tabs[t].page = "dashboard"
  /\ session' = Nobody /\ complete' = FALSE
  /\ stored' = Forgotten
  /\ confirmed' = {}
  /\ tabs' = [tabs EXCEPT ![t].page = "form"]
  /\ mixed' = (mixed \/ Busy # {t} \/ tabs[t].left # {})
  /\ UNCHANGED <<raced, visits>>

--------------------------------------------------------------------------------
(* The wizard *)

\* patch: the tab's state is changed and stored whole.
Patch(t, state) ==
  /\ tabs' = [tabs EXCEPT ![t].state = state]
  /\ stored' = state
  /\ mixed' = (mixed \/ (stored # tabs[t].state /\ stored # NothingStored))

Showing(t, step) == tabs[t].page = "wizard" /\ tabs[t].state.step = step

GoTo(t, from, to) ==
  /\ Showing(t, from)
  /\ Patch(t, [tabs[t].state EXCEPT !.step = to])
  /\ UNCHANGED <<session, complete, confirmed, raced, visits>>

Begin(t) == GoTo(t, WelcomeStep, ConsentStep)

\* The form asks for data access and the terms.
Agree(t) ==
  /\ Showing(t, ConsentStep)
  /\ Patch(t, [tabs[t].state EXCEPT !.consent = TRUE, !.step = LinkStep])
  /\ UNCHANGED <<session, complete, confirmed, raced, visits>>

\* The banks linked when the button was drawn are what the answer is added to.
Connect(t, bank) ==
  /\ Showing(t, LinkStep) /\ bank \notin tabs[t].state.linked
  /\ \A c \in tabs[t].connecting : c.bank # bank
  /\ tabs' = [tabs EXCEPT ![t].connecting = @ \union {[bank |-> bank, base |-> tabs[t].state.linked]}]
  /\ raced' = (raced \/ \E o \in Tabs : tabs[o].connecting # {})
  /\ UNCHANGED <<session, complete, stored, confirmed, mixed, visits>>

\* After its latency, on whatever step the wizard is.
Connected(t, connection) ==
  LET state == [tabs[t].state EXCEPT !.linked = LinkedAfter(connection)]
  IN /\ connection \in tabs[t].connecting
     /\ tabs' = [tabs EXCEPT ![t].connecting = @ \ {connection}, ![t].state = state]
     /\ stored' = state
     /\ mixed' = (mixed \/ (stored # tabs[t].state /\ stored # NothingStored))
     /\ confirmed' = IF mixed' THEN {} ELSE confirmed \union {connection.bank}
     /\ UNCHANGED <<session, complete, raced, visits>>

\* The page was left: its component is unmounted, and React may or may not run
\* the update, which stores the state that page had.
ConnectedLate(t, state) ==
  /\ state \in tabs[t].left
  /\ tabs' = [tabs EXCEPT ![t].left = @ \ {state}]
  /\ \/ stored' = state /\ mixed' = TRUE
     \/ UNCHANGED <<stored, mixed>>
  /\ UNCHANGED <<session, complete, confirmed, raced, visits>>

\* Continue, with a bank; or "Skip for now".
LeaveLink(t) == GoTo(t, LinkStep, SyncStep)

Scannable(state) == state.linked # {}

\* The scan runs only over linked banks, and moves on by itself.
Scan(t) ==
  /\ Showing(t, SyncStep) /\ Scannable(tabs[t].state)
  /\ Patch(t, [tabs[t].state EXCEPT !.found = TRUE, !.step = SummaryStep])
  /\ UNCHANGED <<session, complete, confirmed, raced, visits>>

\* The scan has nothing to read.
BackToLink(t) == ~Scannable(tabs[t].state) /\ GoTo(t, SyncStep, LinkStep)

\* The arrow, on every step but the first and the scan.
BackStep(t) ==
  \E step \in {ConsentStep, LinkStep, SummaryStep} : GoTo(t, step, step - 1)

Finish(t) ==
  /\ Showing(t, SummaryStep)
  /\ complete' = TRUE
  /\ tabs' = [tabs EXCEPT ![t] = Arrive(@, session, TRUE, stored, "dashboard")]
  /\ UNCHANGED <<session, stored, confirmed, mixed, raced, visits>>

DeviceInit ==
  /\ session = Nobody /\ complete = FALSE /\ stored = NothingStored
  /\ tabs = [t \in Tabs |-> FormTab]
  /\ confirmed = {} /\ mixed = FALSE /\ raced = FALSE /\ visits = 0

DeviceNext ==
  \E t \in Tabs :
    \/ \E page \in {"form", "wizard", "dashboard"} : Navigate(t, page) \/ Reload(t, page)
    \/ \E who \in Members : SignIn(t, who)
    \/ SignOut(t) \/ Begin(t) \/ Agree(t) \/ LeaveLink(t) \/ Scan(t)
    \/ BackToLink(t) \/ BackStep(t) \/ Finish(t)
    \/ \E bank \in Institutions : Connect(t, bank)
    \/ \E c \in tabs[t].connecting : Connected(t, c)
    \/ \E state \in tabs[t].left : ConnectedLate(t, state)

DeviceSpec == DeviceInit /\ [][DeviceNext]_deviceVars

--------------------------------------------------------------------------------
(* Properties *)

\* What is stored is always a place a member can have walked to: nothing past
\* the consent without it, findings only from a scan of some bank and the summary
\* only with findings - also when tabs overwrite each other's state.
PlaceIsReachable ==
  /\ stored.step >= LinkStep => stored.consent
  /\ stored.linked # {} => stored.consent
  /\ stored.found => stored.linked # {}
  /\ stored.step = SummaryStep => stored.found

\* Beyond that, with one tab at work at a time, the stored wizard and the flag
\* are those of the member signed in, and a bank that was reported connected
\* stays listed unless two connections overlapped.
WizardIsSound ==
  /\ PlaceIsReachable
  /\ ~mixed =>
       /\ stored.owner \in {session, Nobody}
       /\ complete => session # Nobody
       /\ raced \/ confirmed \subseteq stored.linked
================================================================================
