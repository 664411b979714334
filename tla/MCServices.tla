------------------------------- MODULE MCServices -------------------------------
(***************************************************************************)
(* Six parts that share no state: a behaviour is one of any of them, and   *)
(* the other parts stay as they begin.                                     *)
(***************************************************************************)
EXTENDS Sessions, Statements, Advice, Linking, Device, Dashboard, TLC

CONSTANTS r1, r2, m1, m2, b1, b2, o1, o2, k1

VARIABLE part

Parts == {"sessions", "statements", "advice", "linking", "device", "dashboard"}

MCMonthlyPrice == (o1 :> 6) @@ (o2 :> 10)

\* Slots, members and the banks or keys are interchangeable.
MCSymmetry == Permutations({r1, r2}) \union Permutations({m1, m2}) \union Permutations({b1, b2})

\* A part that only waits begins in one way.
ServicesInit ==
  /\ part \in Parts
  /\ SessionsInit /\ StatementsInit /\ AdviceInit /\ LinkingInit /\ DeviceInit
  /\ DashboardInit
  /\ part # "advice" => member.price = CHOOSE p \in MemberPrices : TRUE
  /\ part # "linking" => exposed = BankAccounts

Others(p) ==
  /\ part = p /\ UNCHANGED part
  /\ p # "sessions" => UNCHANGED sessionsVars
  /\ p # "statements" => UNCHANGED statementsVars
  /\ p # "advice" => UNCHANGED adviceVars
  /\ p # "linking" => UNCHANGED linkingVars
  /\ p # "device" => UNCHANGED deviceVars
  /\ p # "dashboard" => UNCHANGED dashboardVars

ServicesNext ==
  \/ SessionsNext /\ Others("sessions")
  \/ StatementsNext /\ Others("statements")
  \/ AdviceNext /\ Others("advice")
  \/ LinkingNext /\ Others("linking")
  \/ DeviceNext /\ Others("device")
  \/ DashboardNext /\ Others("dashboard")

ServicesSpec ==
  ServicesInit /\ [][ServicesNext]_<<part, sessionsVars, statementsVars, adviceVars, linkingVars,
                                     deviceVars, dashboardVars>>
================================================================================
