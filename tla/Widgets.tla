--------------------------------- MODULE Widgets ---------------------------------
(***************************************************************************)
(* The stateful parts of the UI kit: dialogs that lock the page and borrow *)
(* its focus, toasts with their timers, and the theme of several tabs over *)
(* one stored preference.                                                  *)
(***************************************************************************)
EXTENDS Integers, Sequences, FiniteSets

CONSTANTS Dialogs,     \* places of dialogs in the page, each with its button
          Panes,       \* tabs of the application
          MaxToasts,   \* BOUND: toasts raised
          MaxLooks     \* BOUND: changes of the theme, or of the system's preference

ASSUME WidgetsAssumption == Dialogs \subseteq Nat

VARIABLES
  opened,    \* dialogs whose effect is in force, in the order they were opened
  borrowed,  \* what the effect of each of them found: overflow of the body and focus
  overflow, focus,
  crossed,   \* history: a dialog closed before one that was opened over it, or one
             \* render reached two that are open
  toasts, timers, counter,
  theme, dark, unsynced, preferred, systemDark, behind,
  parted,    \* history: tabs open while another tab changed the theme
  looks

dialogVars == <<opened, borrowed, overflow, focus, crossed>>
toastVars == <<toasts, timers, counter>>
themeVars == <<theme, dark, unsynced, preferred, systemDark, behind, parted, looks>>
widgetsVars == <<dialogVars, toastVars, themeVars>>

IsOpen(d) == \E i \in DOMAIN opened : opened[i] = d
On(place, d) == <<place, d>>
ThePage == On("page", "none")

--------------------------------------------------------------------------------
(* Modal *)

\* The effect: what is there is kept, the page is locked, the panel gets the focus.
Lock(d, found) ==
  /\ borrowed' = [borrowed EXCEPT ![d] = found]
  /\ overflow' = "hidden" /\ focus' = On("panel", d)

\* With a dialog open its overlay takes every click, but not the keyboard.
OpenDialog(d) ==
  /\ ~IsOpen(d) /\ (opened = <<>> \/ focus = On("button", d))
  /\ opened' = Append(opened, d)
  /\ Lock(d, [overflow |-> overflow, focus |-> On("button", d)])
  /\ UNCHANGED crossed

\* onClose is a new function at every render, so the effect of each open dialog that
\* a render reaches is undone and done again. All are undone before any is done, both
\* in the page's order: the first finds what the last of them gave back, each other
\* the locked page and the panel of the one before it.
PriorIn(d, reached) == CHOOSE e \in reached : e < d /\ \A f \in reached : f < d => f <= e
Rerender(reached) ==
  /\ \A d \in reached : IsOpen(d)
  /\ \E first, last \in reached :
       /\ \A d \in reached : first <= d /\ d <= last
       /\ borrowed' = [d \in Dialogs |->
            CASE d \notin reached -> borrowed[d]
              [] d = first -> borrowed[last]
              [] OTHER -> [overflow |-> "hidden", focus |-> On("panel", PriorIn(d, reached))]]
       /\ focus' = On("panel", last)
       /\ crossed' = (crossed \/ first # last)
  /\ overflow' = "hidden" /\ UNCHANGED opened

\* Tab stays between the controls, once it is on one. From the panel, which has the
\* focus at first, Shift+Tab goes to the page below.
Tab(d) ==
  /\ IsOpen(d) /\ focus \in {On("panel", d), On("control", d)}
  /\ \/ focus' = On("control", d)
     \/ focus = On("panel", d) /\ \E e \in Dialogs : focus' = On("button", e)
  /\ UNCHANGED <<opened, borrowed, overflow, crossed>>

BugGiveBack(d) == overflow' = "hidden" /\ focus' = borrowed[d].focus
GiveBack(d) == overflow' = borrowed[d].overflow /\ focus' = borrowed[d].focus

\* Its own button, its backdrop, or the end of what it asked for.
OpenedWithout(k) == [i \in 1..Len(opened) - 1 |-> opened[IF i < k THEN i ELSE i + 1]]
CloseDialog(d) ==
  /\ \E k \in DOMAIN opened : opened[k] = d /\ opened' = OpenedWithout(k)
  /\ GiveBack(d)
  /\ crossed' = (crossed \/ opened[Len(opened)] # d)
  /\ UNCHANGED borrowed

\* Every open dialog hears Escape; their effects are undone in the page's order.
Escape ==
  /\ opened # <<>> /\ opened' = <<>>
  /\ \E last \in Dialogs :
       /\ IsOpen(last) /\ \A d \in Dialogs : IsOpen(d) => d <= last
       /\ GiveBack(last)
       /\ crossed' = (crossed \/ opened[1] # last)
  /\ UNCHANGED borrowed

--------------------------------------------------------------------------------
(* ToastProvider *)

RaiseToast(sticky) ==
  /\ counter < MaxToasts
  /\ counter' = counter + 1 /\ toasts' = toasts \union {counter'}
  /\ timers' = IF sticky THEN timers ELSE timers \union {counter'}

\* By the member, or by its timer.
Dismiss(id) ==
  /\ id \in toasts \union timers
  /\ toasts' = toasts \ {id} /\ timers' = timers \ {id}
  /\ UNCHANGED counter

--------------------------------------------------------------------------------
(* ThemeProvider *)

Resolve(t, system) == IF t = "system" THEN system ELSE t = "dark"
ThemeOr(t, default) == IF t = "none" THEN default ELSE t
Cycle(t) == CASE t = "light" -> "dark" [] t = "dark" -> "system" [] OTHER -> "light"

\* The script in the head paints the stored theme.
Paint(p) ==
  /\ theme[p] = "closed"
  /\ theme' = [theme EXCEPT ![p] = "painted"]
  /\ dark' = [dark EXCEPT ![p] = Resolve(ThemeOr(preferred, "system"), systemDark)]
  /\ UNCHANGED <<unsynced, preferred, systemDark, behind, parted, looks>>

\* The first effects: the stored theme is read, the default one is applied.
Hydrate(p) ==
  /\ theme[p] = "painted"
  /\ theme' = [theme EXCEPT ![p] = "system"]
  /\ dark' = [dark EXCEPT ![p] = systemDark]
  /\ unsynced' = [unsynced EXCEPT ![p] = preferred]
  /\ parted' = parted \ {p}
  /\ UNCHANGED <<preferred, systemDark, behind, looks>>

ApplyTheme(p, t) ==
  /\ theme' = [theme EXCEPT ![p] = t]
  /\ dark' = [dark EXCEPT ![p] = Resolve(t, systemDark)]
  /\ behind' = behind \ {p}

\* The render with the theme that was read.
SyncTheme(p) ==
  /\ unsynced[p] # "none" /\ unsynced' = [unsynced EXCEPT ![p] = "none"]
  /\ ApplyTheme(p, unsynced[p])
  /\ UNCHANGED <<preferred, systemDark, parted, looks>>

Ready(p) == theme[p] \notin {"closed", "painted"} /\ unsynced[p] = "none"

\* The toggle; other tabs keep what they show.
SetTheme(p) ==
  /\ Ready(p) /\ looks < MaxLooks /\ looks' = looks + 1
  /\ ApplyTheme(p, Cycle(theme[p]))
  /\ preferred' = Cycle(theme[p])
  /\ parted' = {q \in Panes : q # p /\ (q \in parted \/ theme[q] \notin {"closed", "painted"})}
  /\ UNCHANGED <<unsynced, systemDark>>

\* The system's preference changes, and each tab hears of it in its time.
SystemChanges ==
  /\ looks < MaxLooks /\ looks' = looks + 1
  /\ systemDark' = ~systemDark
  /\ behind' = {p \in Panes : theme[p] \notin {"closed", "painted"}}
  /\ UNCHANGED <<theme, dark, unsynced, preferred, parted>>

Follow(p) ==
  /\ p \in behind /\ ApplyTheme(p, theme[p])
  /\ UNCHANGED <<unsynced, preferred, systemDark, parted, looks>>

--------------------------------------------------------------------------------
WidgetsInit ==
  /\ opened = <<>> /\ overflow = "visible" /\ focus = ThePage /\ crossed = FALSE
  /\ borrowed = [d \in Dialogs |-> [overflow |-> "visible", focus |-> ThePage]]
  /\ toasts = {} /\ timers = {} /\ counter = 0
  /\ theme = [p \in Panes |-> "closed"] /\ dark = [p \in Panes |-> FALSE]
  /\ unsynced = [p \in Panes |-> "none"] /\ preferred = "none" /\ systemDark = FALSE
  /\ behind = {} /\ parted = {} /\ looks = 0

DialogNext ==
  \/ \E d \in Dialogs : OpenDialog(d) \/ Tab(d) \/ CloseDialog(d)
  \/ \E reached \in SUBSET Dialogs : Rerender(reached)
  \/ Escape
ToastNext == RaiseToast(TRUE) \/ RaiseToast(FALSE) \/ \E id \in 1..counter : Dismiss(id)
ThemeNext ==
  \/ \E p \in Panes : Paint(p) \/ Hydrate(p) \/ SyncTheme(p) \/ SetTheme(p) \/ Follow(p)
  \/ SystemChanges

WidgetsNext ==
  \/ DialogNext /\ UNCHANGED <<toastVars, themeVars>>
  \/ ToastNext /\ UNCHANGED <<dialogVars, themeVars>>
  \/ ThemeNext /\ UNCHANGED <<dialogVars, toastVars>>

--------------------------------------------------------------------------------
(* Properties *)

\* Dialogs closed in the order opposite to their opening keep the page locked while
\* one is open and give it back with the focus when none is, however often each is
\* rendered, unless one render reached two open dialogs (modal.tsx); a toast that is no
\* longer shown leaves no timer (toast.tsx); a tab that has heard of every change shows
\* its theme, which is the stored one unless another tab chose it since (theme.tsx).
PageIsGivenBack ==
  /\ ~crossed => /\ overflow = "hidden" <=> opened # <<>>
                 /\ opened = <<>> => focus[1] \notin {"panel", "control"}
  /\ timers \subseteq toasts
  /\ \A p \in Panes : Ready(p) /\ p \notin behind =>
       /\ dark[p] = Resolve(theme[p], systemDark)
       /\ p \notin parted => theme[p] = ThemeOr(preferred, "system")
================================================================================
