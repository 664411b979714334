--------------------------------- MODULE MCRules ---------------------------------
(***************************************************************************)
(* The pure rules, the pipeline, the gateway, the widgets, the bank        *)
(* adapters, the seed, the reads of the ledger, the second factor and the  *)
(* standing alerts side by side: a behaviour walks one of them, chosen at  *)
(* the start, and leaves the others alone, so their states add up and do   *)
(* not multiply.                                                           *)
(***************************************************************************)
EXTENDS Money, Days, SeriesWalk, Pipeline, Gateway, Widgets,
        BankAdapters, Seed, Reclaimed, SecondFactor

VARIABLE part

vars == <<part, settlementVars, calendarVars, moneyVars, seriesVars, pipelineVars,
          gatewayVars, widgetsVars, sandboxVars, nameVars, seedVars,
          reclaimedVars, secondFactorVars, watchVars>>

\* Every number of three may open a month or a purchase.
MCStreams == [1..3 -> 0..2]

\* A second less, as much, and a second more than a step.
MCDrifts == {-31, -30, -29, 0, 30, 31}

\* The first value of each walk that is not chosen.
IdleSettlement == saving = 0 /\ pct = MinFee
IdleCalendar ==
  /\ bill = [cadence |-> "weekly", dueDay |-> 1]
  /\ started = 0 /\ today = 0 /\ reminded = FindUpcomingBills(0)
IdleSecondFactor ==
  /\ second = 0 /\ drift = 0 /\ enrolled = "none" /\ required = FALSE
  /\ shown = 0 /\ code = NoCode /\ waited = 0 /\ signedIn = "no"
IdleMoney == price = 0 /\ cadence = "monthly" /\ hours = 0

Init ==
  /\ part \in {"settlement", "calendar", "money", "history", "pipeline", "gateway",
               "console", "dialogs", "toasts", "themes", "sandbox", "names", "seed",
               "summary", "list", "sign in", "watch"}
  /\ IF part = "settlement" THEN SettlementInit ELSE IdleSettlement
  /\ IF part = "calendar" THEN CalendarInit ELSE IdleCalendar
  /\ IF part = "money" THEN MoneyInit ELSE IdleMoney
  /\ HistoryInit
  /\ PipelineInit /\ (part # "pipeline" => ~queued)
  /\ GatewayInit /\ WidgetsInit /\ NamesInit /\ SeedInit
  /\ ReclaimedInit
  /\ IF part = "sign in" THEN SecondFactorInit ELSE IdleSecondFactor
  /\ WatchInit /\ (part # "watch" => account.type = "checking")
  /\ SandboxInit /\ (part # "sandbox" => stream = [i \in 1..3 |-> 0])

Others(p) ==
  /\ part = p /\ UNCHANGED part
  /\ p # "settlement" => UNCHANGED settlementVars
  /\ p # "calendar" => UNCHANGED calendarVars
  /\ p # "money" => UNCHANGED moneyVars
  /\ p # "history" => UNCHANGED seriesVars
  /\ p # "pipeline" => UNCHANGED pipelineVars
  /\ p \notin {"gateway", "console"} => UNCHANGED gatewayVars
  /\ p # "dialogs" => UNCHANGED dialogVars
  /\ p # "toasts" => UNCHANGED toastVars
  /\ p # "themes" => UNCHANGED themeVars
  /\ p # "sandbox" => UNCHANGED sandboxVars
  /\ p # "names" => UNCHANGED nameVars
  /\ p # "seed" => UNCHANGED seedVars
  /\ p \notin {"summary", "list"} => UNCHANGED reclaimedVars
  /\ p # "sign in" => UNCHANGED secondFactorVars
  /\ p # "watch" => UNCHANGED watchVars

Next ==
  \/ Others("settlement") /\ Raise
  \/ Others("calendar") /\ NextDay
  \/ Others("money") /\ MoneyNext
  \/ Others("history") /\ HistoryNext
  \/ Others("pipeline") /\ PipelineNext
  \* Requests do not meet at the gateway, so a behaviour follows one, while the
  \* rights of a member change, or while those of staff do.
  \/ Others("gateway") /\ outcome = Quiet /\ GatewayNext /\ UNCHANGED staffVars
  \/ Others("console") /\ outcome = Quiet /\ GatewayNext /\ UNCHANGED <<deleted, entitled>>
  \/ Others("dialogs") /\ DialogNext
  \/ Others("toasts") /\ ToastNext
  \/ Others("themes") /\ ThemeNext
  \/ Others("sandbox") /\ SandboxNext
  \/ Others("names") /\ NamesNext
  \/ Others("seed") /\ SeedNext
  \* A summary and a list do not meet, so a behaviour follows one.
  \/ Others("summary") /\ SummaryNext
  \/ Others("list") /\ ListNext
  \/ Others("sign in") /\ SecondFactorNext
  \/ Others("watch") /\ WatchNext

\* What is fair is enabled with a queue only.
Spec == Init /\ [][Next]_vars /\ PipelineFairness
================================================================================
