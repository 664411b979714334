------------------------------- MODULE RulesProofs -------------------------------
(***************************************************************************)
(* The gateway, for tokens of any lifetime: what a guard has found lasts   *)
(* until the answer, or is bounded by the life of the token it found.  The *)
(* pipeline, for any number of jobs of each stage.  The second factor, for *)
(* every period, drift and start.  The seed, for any number of runs that   *)
(* overlap, repeat and die.  The widgets, for any number of dialogs and    *)
(* tabs.  The reads of the ledger, for any number of events and pages.     *)
(* The due dates of a bill, for every cadence and day of the calendar.     *)
(* The standing alerts, for any purchases, delays and lost evaluations.    *)
(* Money, for every price, cadence, use, saving and fee.  The built-in     *)
(* bank, for every token, month and page, and the names that are kept.     *)
(***************************************************************************)
EXTENDS Gateway, Pipeline, SecondFactor, Seed, Widgets, Reclaimed, Days, Money,
        BankAdapters, Induction, SequenceTheorems, FiniteSetTheorems, TLAPS

--------------------------------------------------------------------------------
(* Gateway: the invariant *)

Bearers == {"none", "member", "staff", "signature"}

Visits ==
  [at : {"arrived", "authenticated", "admitted", "asked"}, route : Routes, bearer : Bearers,
   wasEntitled : BOOLEAN, admitted : Int]
Outcomes ==
  [at : {"answered"}, route : Routes, bearer : Bearers, status : Int, wrote : BOOLEAN,
   wasEntitled : BOOLEAN, admitted : Int]

GatewayType ==
  /\ clock \in Nat /\ issued \in Int /\ deleted \in Int /\ entitled \in BOOLEAN
  /\ signing \in BOOLEAN /\ overtaken \in BOOLEAN
  /\ visit \in Visits \union {Quiet}
  /\ outcome \in Outcomes \union {Quiet}

\* What was signed and what was scheduled is of the past. Once the account is closing
\* nothing is signed but what was checked before.
Closing ==
  /\ issued <= clock
  /\ deleted # NoTime => deleted <= clock
  /\ deleted # NoTime /\ ~overtaken => ~signing /\ issued <= deleted

\* The bearer is of the realm of the route.
OfRealm(x) ==
  /\ x.route.guard \in MemberGuards => x.bearer = "member"
  /\ OfStaff(x.route) => x.bearer = "staff"

InTime(x) == x.route.guard \in MemberGuards => x.admitted <= issued + TokenLife

\* A request that asked whether the account is closing came before it was.
BeforeClosing(x) == AsksForClosing(x.route) /\ deleted # NoTime => x.admitted <= deleted

LetIn == {"admitted", "asked"}

VisitSound ==
  /\ visit.at = "authenticated" =>
       visit.bearer = "member" /\ visit.route.guard = "premium" /\ InTime(visit)
  /\ visit.at \in LetIn => OfRealm(visit) /\ InTime(visit)
  /\ visit.at = "asked" => BeforeClosing(visit)
  /\ visit.at # "none" => visit.admitted <= clock

\* Once entitled within a request, it counts as entitled.
VisitEntitled ==
  /\ visit.at \in {"arrived", "authenticated"} /\ entitled => visit.wasEntitled
  /\ visit.at \in LetIn /\ visit.route.guard = "premium" => visit.wasEntitled

\* Where 403 comes from: premium, rank, a case that another may not move, closing.
MayBeForbidden(r) ==
  \/ r.guard = "premium" \/ OfStaff(r) \/ r.writes = TRUE
  \/ r.file = "profile" /\ deleted # NoTime

OutcomeSound ==
  outcome.at = "answered" =>
    /\ outcome.status \notin {401, 403} => OfRealm(outcome)
    /\ outcome.status = 403 => MayBeForbidden(outcome.route)
    /\ outcome.wrote => outcome.route.writes /\ InTime(outcome) /\ BeforeClosing(outcome)
    /\ outcome.admitted <= clock
    /\ outcome.wrote /\ outcome.route.guard = "premium" => outcome.wasEntitled

GatewayInv == GatewayType /\ Closing /\ VisitSound /\ VisitEntitled /\ OutcomeSound

--------------------------------------------------------------------------------
\* What is paid for is a write; a concierge route that writes is paid for.
PaidFor(r) == /\ r.writes = TRUE \/ r.writes = FALSE
              /\ r.guard = "premium" => r.writes = TRUE
              /\ r.file \in Concierge /\ r.writes = TRUE => r.guard = "premium"

LEMMA RoutesAreSound == ASSUME NEW r \in Routes PROVE PaidFor(r)
<1>1. CASE r \in HealthRoutes \union AuthRoutes
  BY <1>1 DEF HealthRoutes, AuthRoutes, Route, Concierge, PaidFor
<1>2. CASE r \in PlaidRoutes \union AiRoutes \union WebhookRoutes
  BY <1>2 DEF PlaidRoutes, AiRoutes, WebhookRoutes, Route, Concierge, PaidFor
<1>3. CASE r \in SubscriptionRoutes \union UserRoutes \union BillRoutes
  BY <1>3 DEF SubscriptionRoutes, UserRoutes, BillRoutes, MemberRoutes, Route, Concierge, PaidFor
<1>4. CASE r \in AccountRoutes \union TransactionRoutes
  BY <1>4 DEF AccountRoutes, TransactionRoutes, MemberRoutes, Route, Concierge, PaidFor
<1>5. CASE r \in SavingsRoutes \union PremiumRoutes
  BY <1>5 DEF SavingsRoutes, PremiumRoutes, MemberRoutes, Route, Concierge, PaidFor
<1>6. CASE r \in CancellationRoutes \union NegotiationRoutes
  BY <1>6 DEF CancellationRoutes, NegotiationRoutes, Route, PaidFor
<1>7. CASE r \in AdminRoutes
  BY <1>7 DEF AdminRoutes, Route, Concierge, PaidFor
<1>8. r \in HealthRoutes \union AuthRoutes \/ r \in PlaidRoutes \union AiRoutes \union WebhookRoutes
        \/ r \in SubscriptionRoutes \union UserRoutes \union BillRoutes
        \/ r \in AccountRoutes \union TransactionRoutes \/ r \in SavingsRoutes \union PremiumRoutes
        \/ r \in CancellationRoutes \union NegotiationRoutes \/ r \in AdminRoutes
  BY DEF Routes
<1>9. QED
  BY <1>1, <1>2, <1>3, <1>4, <1>5, <1>6, <1>7, <1>8, Zenon

LEMMA GatewayBegins == GatewayInit => GatewayInv
<1> SUFFICES ASSUME GatewayInit PROVE GatewayInv
  OBVIOUS
<1>1. visit.at = "none" /\ outcome.at = "none"
  BY DEF GatewayInit, Quiet
<1>2. GatewayType
  <2>1. clock \in Nat /\ issued \in Int /\ deleted \in Int
    BY DEF GatewayInit, NoTime
  <2>2. entitled \in BOOLEAN /\ signing \in BOOLEAN /\ overtaken \in BOOLEAN
    BY DEF GatewayInit
  <2>3. QED
    BY <2>1, <2>2, Zenon DEF GatewayInit, GatewayType
<1>3. Closing
  BY DEF GatewayInit, Closing, NoTime
<1>4. VisitSound /\ VisitEntitled /\ OutcomeSound
  BY <1>1 DEF VisitSound, VisitEntitled, OutcomeSound, LetIn
<1>5. QED
  BY <1>2, <1>3, <1>4 DEF GatewayInv

LEMMA AVisit == ASSUME GatewayType, visit.at # "none" PROVE visit \in Visits
BY DEF GatewayType, Quiet

LEMMA AnswerOk ==
  ASSUME GatewayInv, visit \in Visits, NEW status \in Int, NEW wrote \in BOOLEAN,
         Answered(status, wrote),
         UNCHANGED <<clock, accountVars, entitled>>,
         status \notin {401, 403} => visit.at \in LetIn,
         status = 403 => MayBeForbidden(visit.route),
         wrote => /\ visit.at \in LetIn /\ visit.route.writes
                  /\ visit.at = "asked" \/ ~AsksForClosing(visit.route)
  PROVE  GatewayInv'
<1>1. /\ outcome' = [at |-> "answered", route |-> visit.route, bearer |-> visit.bearer,
                     status |-> status, wrote |-> wrote,
                     wasEntitled |-> visit.wasEntitled, admitted |-> visit.admitted]
      /\ visit' = Quiet /\ UNCHANGED <<clock, issued, signing, deleted, overtaken, entitled>>
  BY DEF Answered, accountVars
<1>2. GatewayType'
  BY <1>1 DEF GatewayInv, GatewayType, Visits, Outcomes
<1>3. Closing'
  BY <1>1 DEF GatewayInv, Closing
<1>4. VisitSound' /\ VisitEntitled'
  BY <1>1 DEF VisitSound, VisitEntitled, Quiet, LetIn
<1>5. OutcomeSound'
  <2>1. outcome'.route = visit.route /\ outcome'.bearer = visit.bearer
        /\ outcome'.status = status /\ outcome'.admitted = visit.admitted
        /\ outcome'.wrote = wrote /\ outcome'.wasEntitled = visit.wasEntitled
    BY <1>1
  <2>2. visit.at \in LetIn => OfRealm(outcome)' /\ InTime(outcome)'
    BY <1>1, <2>1 DEF GatewayInv, VisitSound, OfRealm, InTime
  <2>3. status \notin {401, 403} => OfRealm(outcome)'
    BY <2>2
  <2>4. wrote => outcome'.route.writes /\ InTime(outcome)' /\ BeforeClosing(outcome)'
    BY <1>1, <2>1, <2>2 DEF GatewayInv, VisitSound, BeforeClosing
  <2>5. wrote /\ outcome'.route.guard = "premium" => outcome'.wasEntitled
    BY <2>1 DEF GatewayInv, VisitEntitled
  <2>6. status = 403 => MayBeForbidden(outcome.route)'
    BY <1>1, <2>1 DEF MayBeForbidden
  <2>7. outcome'.admitted <= clock'
    BY <1>1, <2>1 DEF GatewayInv, VisitSound, Visits
  <2>8. QED
    BY <2>1, <2>3, <2>4, <2>5, <2>6, <2>7 DEF OutcomeSound
<1>6. QED
  BY <1>2, <1>3, <1>4, <1>5 DEF GatewayInv

LEMMA RefusedOk ==
  ASSUME GatewayInv, visit \in Visits, NEW status \in Int, Answered(status, FALSE),
         UNCHANGED <<clock, accountVars, entitled>>,
         status \notin {401, 403} => visit.at \in LetIn,
         status = 403 => MayBeForbidden(visit.route)
  PROVE  GatewayInv'
<1>1. PICK wrote \in BOOLEAN : wrote = FALSE
  OBVIOUS
<1>2. Answered(status, wrote)
  BY <1>1, Zenon
<1>3. QED
  BY <1>1, <1>2, AnswerOk

\* A guard that refuses.
LEMMA TurnedAwayOk ==
  ASSUME GatewayInv, visit \in Visits, NEW status \in {401, 403}, Answered(status, FALSE),
         UNCHANGED <<clock, accountVars, entitled>>,
         status = 403 => MayBeForbidden(visit.route)
  PROVE  GatewayInv'
<1>1. status \in Int /\ (status \notin {401, 403} => visit.at \in LetIn)
  OBVIOUS
<1>2. QED
  BY <1>1, RefusedOk, ZenonT(60)

LEMMA ServedOk ==
  ASSUME GatewayInv, visit \in Visits, visit.at \in LetIn,
         NEW status \in Int, status # 401, status # 403, NEW wrote \in BOOLEAN,
         Answered(status, wrote), wrote => visit.route.writes,
         visit.at = "asked" \/ ~AsksForClosing(visit.route),
         UNCHANGED <<clock, accountVars, entitled>>
  PROVE  GatewayInv'
BY AnswerOk

LEMMA PassOk ==
  ASSUME GatewayInv, visit \in Visits, visit.at = "arrived",
         NEW point \in {"authenticated", "admitted"}, Pass(point),
         UNCHANGED <<clock, accountVars, entitled>>,
         OfRealm(visit),
         visit.route.guard \in MemberGuards => clock <= issued + TokenLife,
         point = "authenticated" <=> visit.route.guard = "premium"
  PROVE  GatewayInv'
<1>1. /\ visit' = [visit EXCEPT !.at = point, !.admitted = clock] /\ outcome' = outcome
      /\ UNCHANGED <<clock, issued, signing, deleted, overtaken, entitled>>
  BY DEF Pass, accountVars
<1>2. /\ visit'.at = point /\ visit'.admitted = clock /\ visit'.route = visit.route
      /\ visit'.bearer = visit.bearer /\ visit'.wasEntitled = visit.wasEntitled
  BY <1>1 DEF Visits
<1>3. GatewayType'
  <2>1. clock \in Int
    BY DEF GatewayInv, GatewayType
  <2>2. visit' \in Visits
    BY <1>1, <2>1 DEF Visits
  <2>3. QED
    BY <1>1, <2>2 DEF GatewayInv, GatewayType
<1>4. Closing' /\ OutcomeSound'
  BY <1>1 DEF GatewayInv, Closing, OutcomeSound, InTime, BeforeClosing, MayBeForbidden
<1>5. VisitSound'
  BY <1>1, <1>2 DEF VisitSound, InTime, OfRealm, MemberGuards, LetIn, GatewayInv, GatewayType
<1>6. VisitEntitled'
  BY <1>1, <1>2 DEF GatewayInv, VisitEntitled, LetIn
<1>7. QED
  BY <1>3, <1>4, <1>5, <1>6 DEF GatewayInv

LEMMA ArrivesOk ==
  ASSUME GatewayInv, NEW r \in Routes, RequestArrives(r)
  PROVE  GatewayInv'
<1>1. PICK bearer \in Bearers :
        visit' = [at |-> "arrived", route |-> r, bearer |-> bearer,
                  wasEntitled |-> entitled, admitted |-> clock]
  BY DEF RequestArrives, Bearers
<1>2. outcome' = Quiet /\ UNCHANGED <<clock, issued, signing, deleted, overtaken, entitled>>
  BY DEF RequestArrives, accountVars
<1>3. visit'.at = "arrived" /\ visit'.wasEntitled = entitled /\ outcome'.at = "none"
  BY <1>1, <1>2 DEF Quiet
<1>4. GatewayType' /\ Closing'
  BY <1>1, <1>2 DEF GatewayInv, GatewayType, Closing, Visits
<1>5. VisitSound' /\ VisitEntitled' /\ OutcomeSound'
  BY <1>1, <1>2, <1>3 DEF VisitSound, VisitEntitled, OutcomeSound, LetIn, GatewayInv, GatewayType
<1>6. QED
  BY <1>4, <1>5 DEF GatewayInv

LEMMA AuthOk ==
  ASSUME GatewayInv, RequireAuth
  PROVE  GatewayInv'
<1>1. /\ visit.at = "arrived" /\ visit.route.guard \in MemberGuards
      /\ UNCHANGED <<clock, accountVars, entitled>>
  BY DEF RequireAuth
<1>2. visit \in Visits
  BY <1>1, AVisit DEF GatewayInv
<1>3. CASE TokenIsValid
  <2>1. OfRealm(visit)
    BY <1>1, <1>3 DEF TokenIsValid, OfRealm, OfStaff
  <2>2. clock <= issued + TokenLife
    BY <1>3 DEF TokenIsValid
  <2>3. CASE visit.route.guard = "premium"
    <3>1. Pass("authenticated")
      BY <1>3, <2>3 DEF RequireAuth
    <3>2. QED
      BY <1>1, <1>2, <2>1, <2>2, <2>3, <3>1, PassOk
  <2>4. CASE visit.route.guard # "premium"
    <3>1. Pass("admitted")
      BY <1>3, <2>4 DEF RequireAuth
    <3>2. QED
      BY <1>1, <1>2, <2>1, <2>2, <2>4, <3>1, PassOk
  <2>5. QED
    BY <2>3, <2>4
<1>4. CASE ~TokenIsValid
  <2>1. Answered(401, FALSE)
    BY <1>4 DEF RequireAuth
  <2>2. QED
    BY <1>1, <1>2, <2>1, TurnedAwayOk
<1>5. QED
  BY <1>3, <1>4

LEMMA PremiumOk ==
  ASSUME GatewayInv, RequirePremium
  PROVE  GatewayInv'
<1>1. /\ visit.at = "authenticated" /\ UNCHANGED <<clock, accountVars, entitled>>
      /\ UNCHANGED <<clock, issued, signing, deleted, overtaken, entitled>>
  BY DEF RequirePremium, accountVars
<1>2. visit \in Visits
  BY <1>1, AVisit DEF GatewayInv
<1>3. visit.bearer = "member" /\ visit.route.guard = "premium" /\ InTime(visit)
  BY <1>1 DEF GatewayInv, VisitSound
<1>4. CASE entitled
  <2>1. visit' = [visit EXCEPT !.at = "admitted"] /\ outcome' = outcome
    BY <1>4 DEF RequirePremium
  <2>2. /\ visit' \in Visits /\ visit'.at = "admitted" /\ visit'.route = visit.route
        /\ visit'.bearer = visit.bearer /\ visit'.admitted = visit.admitted
        /\ visit'.wasEntitled = visit.wasEntitled
    BY <1>2, <2>1 DEF Visits
  <2>3. GatewayType' /\ Closing' /\ OutcomeSound'
    BY <1>1, <2>1, <2>2 DEF GatewayInv, GatewayType, Closing, OutcomeSound, InTime, BeforeClosing, MayBeForbidden
  <2>4. VisitSound'
    BY <1>1, <1>3, <2>2 DEF GatewayInv, VisitSound, OfRealm, OfStaff, MemberGuards, InTime, LetIn
  <2>5. VisitEntitled'
    BY <1>1, <1>4, <2>2 DEF GatewayInv, VisitEntitled, LetIn
  <2>6. QED
    BY <2>3, <2>4, <2>5 DEF GatewayInv
<1>5. CASE ~entitled
  <2>1. Answered(403, FALSE)
    BY <1>5 DEF RequirePremium
  <2>2. MayBeForbidden(visit.route)
    BY <1>3 DEF MayBeForbidden
  <2>3. QED
    BY <1>1, <1>2, <2>1, <2>2, TurnedAwayOk
<1>6. QED
  BY <1>4, <1>5

LEMMA CapabilityOk ==
  ASSUME GatewayInv, RequireCapability
  PROVE  GatewayInv'
<1>1. /\ visit.at = "arrived" /\ OfStaff(visit.route)
      /\ UNCHANGED <<clock, accountVars, entitled>>
  BY DEF RequireCapability
<1>2. visit \in Visits
  BY <1>1, AVisit DEF GatewayInv
<1>3. visit.route.guard \notin MemberGuards /\ visit.route.guard # "premium"
  BY <1>1 DEF OfStaff, MemberGuards
<1>4. CASE Answered(401, FALSE)
  BY <1>1, <1>2, <1>4, TurnedAwayOk
<1>5. CASE visit.bearer = "staff" /\ Pass("admitted")
  <2>1. OfRealm(visit)
    BY <1>3, <1>5 DEF OfRealm
  <2>2. QED
    BY <1>1, <1>2, <1>3, <1>5, <2>1, PassOk
<1>6. CASE Answered(403, FALSE)
  <2>1. MayBeForbidden(visit.route)
    BY <1>1 DEF MayBeForbidden
  <2>2. QED
    BY <1>1, <1>2, <1>6, <2>1, TurnedAwayOk
<1>7. QED
  BY <1>4, <1>5, <1>6 DEF RequireCapability

LEMMA OpenOk ==
  ASSUME GatewayInv, PassOpen
  PROVE  GatewayInv'
<1>1. /\ visit.at = "arrived" /\ visit.route.guard \in {"none", "signature"}
      /\ UNCHANGED <<clock, accountVars, entitled>>
  BY DEF PassOpen
<1>2. visit \in Visits
  BY <1>1, AVisit DEF GatewayInv
<1>3. OfRealm(visit) /\ visit.route.guard \notin MemberGuards /\ visit.route.guard # "premium"
  BY <1>1 DEF OfRealm, OfStaff, MemberGuards
<1>4. CASE Answered(401, FALSE)
  BY <1>1, <1>2, <1>4, TurnedAwayOk
<1>5. CASE Pass("admitted")
  BY <1>1, <1>2, <1>3, <1>5, PassOk
<1>6. QED
  BY <1>4, <1>5 DEF PassOpen

LEMMA ReadOk ==
  ASSUME GatewayInv, ReadAccount
  PROVE  GatewayInv'
<1>1. /\ visit.at = "admitted" /\ AsksForClosing(visit.route)
      /\ UNCHANGED <<clock, accountVars, entitled>>
      /\ UNCHANGED <<clock, issued, signing, deleted, overtaken, entitled>>
  BY DEF ReadAccount, accountVars
<1>2. visit \in Visits
  BY <1>1, AVisit DEF GatewayInv
<1>3. CASE \E status \in {400, 404, 500} : Answered(status, FALSE)
  <2>1. PICK status \in {400, 404, 500} : Answered(status, FALSE)
    BY <1>3, Zenon
  <2>2. /\ status \in Int /\ (status = 403 => MayBeForbidden(visit.route))
        /\ status \notin {401, 403} => visit.at \in LetIn
    BY <1>1 DEF LetIn
  <2>3. QED
    BY <1>1, <1>2, <2>1, <2>2, RefusedOk, ZenonT(60)
<1>4. CASE deleted # NoTime /\ Answered(IF visit.route.file = "profile" THEN 403 ELSE 400, FALSE)
  <2>1. PICK status \in Int : status = IF visit.route.file = "profile" THEN 403 ELSE 400
    OBVIOUS
  <2>2. Answered(status, FALSE)
    BY <1>4, <2>1, Zenon
  <2>3. visit.at \in LetIn /\ (status = 403 => MayBeForbidden(visit.route))
    BY <1>1, <1>4, <2>1 DEF LetIn, MayBeForbidden
  <2>4. QED
    BY <1>1, <1>2, <2>2, <2>3, RefusedOk
<1>5. CASE deleted = NoTime /\ visit' = [visit EXCEPT !.at = "asked"] /\ outcome' = outcome
  <2>1. /\ visit' \in Visits /\ visit'.at = "asked" /\ visit'.route = visit.route
        /\ visit'.bearer = visit.bearer /\ visit'.admitted = visit.admitted
        /\ visit'.wasEntitled = visit.wasEntitled
    BY <1>2, <1>5 DEF Visits
  <2>2. GatewayType' /\ Closing' /\ OutcomeSound'
    BY <1>1, <1>5, <2>1 DEF GatewayInv, GatewayType, Closing, OutcomeSound, InTime, BeforeClosing, MayBeForbidden
  <2>3. VisitSound'
    BY <1>1, <1>5, <2>1 DEF GatewayInv, VisitSound, OfRealm, InTime, BeforeClosing, LetIn
  <2>4. VisitEntitled'
    BY <1>1, <2>1 DEF GatewayInv, VisitEntitled, LetIn
  <2>5. QED
    BY <2>2, <2>3, <2>4 DEF GatewayInv
<1>6. QED
  BY <1>3, <1>4, <1>5, ZenonT(60) DEF ReadAccount

LEMMA RefusalsAreFair ==
  ASSUME NEW r \in Routes, NEW status \in Refusals(r)
  PROVE  status \in Int /\ (status = 403 => MayBeForbidden(r))
BY RoutesAreSound DEF Refusals, MayBeForbidden, PaidFor

LEMMA ServiceOk ==
  ASSUME GatewayInv, AnswerRequest
  PROVE  GatewayInv'
<1>1. /\ visit.at \in LetIn /\ UNCHANGED <<clock, accountVars, entitled>>
      /\ visit.at = "asked" \/ ~AsksForClosing(visit.route)
  BY DEF AnswerRequest, LetIn
<1>2. visit \in Visits
  BY <1>1, AVisit DEF GatewayInv, LetIn
<1>3. visit.route.writes \in BOOLEAN /\ visit.route \in Routes
  BY <1>2, RoutesAreSound DEF Visits, PaidFor
<1>4. CASE \E status \in Refusals(visit.route) : Answered(status, FALSE)
  <2>1. PICK status \in Refusals(visit.route) : Answered(status, FALSE)
    BY <1>4, Zenon
  <2>2. status \in Int /\ (status = 403 => MayBeForbidden(visit.route))
    BY <1>3, RefusalsAreFair
  <2>3. QED
    BY <1>1, <1>2, <2>1, <2>2, RefusedOk
<1>5. CASE \E wrote \in {FALSE, visit.route.writes} : Answered(500, wrote)
  <2>1. PICK wrote \in {FALSE, visit.route.writes} : Answered(500, wrote)
    BY <1>5
  <2>2. wrote \in BOOLEAN /\ (wrote => visit.route.writes)
    BY <1>3, <2>1
  <2>3. QED
    BY <1>1, <1>2, <2>1, <2>2, ServedOk
<1>6. CASE Answered(200, visit.route.writes)
  BY <1>1, <1>2, <1>3, <1>6, ServedOk
<1>7. QED
  BY <1>4, <1>5, <1>6, ZenonT(60) DEF AnswerRequest

--------------------------------------------------------------------------------
LEMMA IssueOk ==
  ASSUME GatewayInv, IssueToken
  PROVE  GatewayInv'
<1>1. /\ signing /\ ~signing' /\ issued' \in {clock, issued}
      /\ UNCHANGED <<clock, deleted, overtaken, entitled, visit, outcome>>
  BY DEF IssueToken
<1>2. GatewayType' /\ Closing'
  <2>1. signing' \in BOOLEAN /\ overtaken' \in BOOLEAN /\ entitled' \in BOOLEAN
    BY <1>1 DEF GatewayInv, GatewayType, IssueToken
  <2>2. issued' \in Int /\ issued' <= clock
    BY <1>1 DEF GatewayInv, GatewayType, Closing
  <2>3. GatewayType'
    BY <1>1, <2>1, <2>2 DEF GatewayInv, GatewayType
  <2>4. QED
    BY <1>1, <2>2, <2>3 DEF GatewayInv, Closing
<1>3. issued <= issued'
  BY <1>1 DEF GatewayInv, GatewayType, Closing
<1>4. /\ visit \in Visits => (InTime(visit) => InTime(visit)')
      /\ outcome \in Outcomes => (InTime(outcome) => InTime(outcome)')
  BY <1>1, <1>2, <1>3, GatewayAssumption DEF GatewayInv, GatewayType, InTime, Visits, Outcomes
<1>5. VisitSound' /\ VisitEntitled'
  <2>1. visit.at # "none" => visit \in Visits
    BY AVisit DEF GatewayInv
  <2>2. QED
    BY <1>1, <1>4, <2>1 DEF GatewayInv, VisitSound, VisitEntitled, OfRealm, BeforeClosing, LetIn
<1>6. OutcomeSound'
  <2>1. outcome.at = "answered" => outcome \in Outcomes
    BY DEF GatewayInv, GatewayType, Quiet
  <2>2. QED
    BY <1>1, <1>4, <2>1 DEF GatewayInv, OutcomeSound, OfRealm, BeforeClosing, MayBeForbidden
<1>7. QED
  BY <1>2, <1>5, <1>6 DEF GatewayInv

\* What happens around a request leaves what its guards found as it is.
LEMMA AsideOk ==
  ASSUME GatewayInv, UNCHANGED <<issued, deleted, entitled, visit, outcome>>,
         GatewayType', Closing', clock <= clock'
  PROVE  GatewayInv'
<1>1. visit.at # "none" => visit.admitted \in Int
  BY AVisit DEF GatewayInv, Visits
<1>2. outcome.at = "answered" => outcome.admitted \in Int
  BY DEF GatewayInv, GatewayType, Quiet, Outcomes
<1>3. clock \in Int /\ clock' \in Int
  BY DEF GatewayInv, GatewayType
<1>4. VisitSound'
  BY <1>1, <1>3 DEF GatewayInv, VisitSound, OfRealm, InTime, BeforeClosing
<1>5. OutcomeSound'
  BY <1>2, <1>3 DEF GatewayInv, OutcomeSound, OfRealm, InTime, BeforeClosing, MayBeForbidden
<1>6. QED
  BY <1>4, <1>5 DEF GatewayInv, VisitEntitled

LEMMA CheckOk ==
  ASSUME GatewayInv, CheckAccount
  PROVE  GatewayInv'
<1>1. GatewayType' /\ Closing' /\ clock <= clock'
  BY DEF CheckAccount, GatewayInv, GatewayType, Closing
<1>2. QED
  BY <1>1, AsideOk DEF CheckAccount

LEMMA DeletionOk ==
  ASSUME GatewayInv, RequestDeletion
  PROVE  GatewayInv'
<1>1. /\ deleted = NoTime /\ deleted' = clock /\ overtaken' = signing
      /\ UNCHANGED <<clock, issued, signing, entitled, visit, outcome>>
  BY DEF RequestDeletion
<1>2. GatewayType' /\ Closing'
  BY <1>1 DEF GatewayInv, GatewayType, Closing
<1>3. VisitSound'
  BY <1>1 DEF GatewayInv, VisitSound, OfRealm, InTime, BeforeClosing, LetIn
<1>4. OutcomeSound'
  BY <1>1 DEF GatewayInv, OutcomeSound, OfRealm, InTime, BeforeClosing, MayBeForbidden
<1>5. QED
  BY <1>1, <1>2, <1>3, <1>4 DEF GatewayInv, VisitEntitled

LEMMA PremiumChangesOk ==
  ASSUME GatewayInv, PremiumChanges
  PROVE  GatewayInv'
<1>1. /\ entitled' = ~entitled
      /\ UNCHANGED <<clock, issued, signing, deleted, overtaken, outcome>>
  BY DEF PremiumChanges, accountVars
<1>2. Closing' /\ OutcomeSound'
  BY <1>1 DEF GatewayInv, Closing, OutcomeSound, OfRealm, InTime, BeforeClosing, MayBeForbidden
<1>3. CASE visit.at \in {"arrived", "authenticated"}
  <2>1. visit \in Visits
    BY <1>3, AVisit DEF GatewayInv
  <2>2. visit' = [visit EXCEPT !.wasEntitled = visit.wasEntitled \/ entitled']
    BY <1>3 DEF PremiumChanges
  <2>3. visit'.wasEntitled = (visit.wasEntitled \/ entitled')
    BY <2>1, <2>2 DEF Visits
  <2>4. /\ visit'.at = visit.at /\ visit'.route = visit.route
        /\ visit'.bearer = visit.bearer /\ visit'.admitted = visit.admitted
    BY <2>1, <2>2 DEF Visits
  <2>5. visit' \in Visits
    BY <2>1, <2>2 DEF Visits
  <2>6. GatewayType'
    BY <1>1, <2>5 DEF GatewayInv, GatewayType
  <2>7. VisitSound'
    BY <1>1, <1>3, <2>4 DEF GatewayInv, VisitSound, OfRealm, InTime, LetIn
  <2>8. VisitEntitled'
    BY <1>3, <2>3, <2>4 DEF VisitEntitled, LetIn
  <2>9. QED
    BY <1>2, <2>6, <2>7, <2>8 DEF GatewayInv
<1>4. CASE visit.at \notin {"arrived", "authenticated"}
  <2>1. visit' = visit
    BY <1>4 DEF PremiumChanges
  <2>2. GatewayType' /\ VisitSound'
    BY <1>1, <2>1 DEF GatewayInv, GatewayType, VisitSound, OfRealm, InTime, BeforeClosing
  <2>3. VisitEntitled'
    BY <1>4, <2>1 DEF GatewayInv, VisitEntitled
  <2>4. QED
    BY <1>2, <2>2, <2>3 DEF GatewayInv
<1>5. QED
  BY <1>3, <1>4

LEMMA StaffChangesOk ==
  ASSUME GatewayInv, StaffChanges
  PROVE  GatewayInv'
<1>1. UNCHANGED <<clock, issued, signing, deleted, overtaken, entitled, visit, outcome>>
  BY DEF StaffChanges, accountVars
<1>2. GatewayType' /\ Closing' /\ clock <= clock'
  BY <1>1 DEF GatewayInv, GatewayType, Closing
<1>3. QED
  BY <1>1, <1>2, AsideOk

LEMMA TickOk ==
  ASSUME GatewayInv, TickClock
  PROVE  GatewayInv'
<1>1. clock' = clock + 1 /\ UNCHANGED <<issued, signing, deleted, overtaken, entitled, visit, outcome>>
  BY DEF TickClock, accountVars
<1>2. GatewayType' /\ Closing' /\ clock <= clock'
  BY <1>1 DEF GatewayInv, GatewayType, Closing
<1>3. QED
  BY <1>1, <1>2, AsideOk

LEMMA GatewayAdmits == GatewayInv => AdmissionIsSound
<1> SUFFICES ASSUME GatewayInv, outcome # Quiet
             PROVE  /\ outcome.wrote /\ outcome.route.file \in Concierge => outcome.wasEntitled
                    /\ outcome.status = 403 /\ ~outcome.route.writes =>
                         OfStaff(outcome.route) \/ (outcome.route.file = "profile" /\ deleted # NoTime)
                    /\ outcome.bearer = "member" /\ outcome.wrote /\ deleted # NoTime =>
                         /\ outcome.route.guard \in MemberGuards
                              => outcome.admitted <= (IF overtaken THEN issued ELSE deleted) + TokenLife
                         /\ AsksForClosing(outcome.route) => outcome.admitted <= deleted
                    /\ outcome.status \notin {401, 403} => OfRealm(outcome)
  BY DEF AdmissionIsSound, OfRealm
<1>1. outcome \in Outcomes /\ outcome.at = "answered"
  BY DEF GatewayInv, GatewayType, Outcomes
<1>2. outcome.route \in Routes
  BY <1>1 DEF Outcomes
<1>3. outcome.wrote /\ outcome.route.file \in Concierge => outcome.wasEntitled
  BY <1>1, <1>2, RoutesAreSound DEF GatewayInv, OutcomeSound, PaidFor
<1>4. outcome.status = 403 /\ ~outcome.route.writes =>
        OfStaff(outcome.route) \/ (outcome.route.file = "profile" /\ deleted # NoTime)
  BY <1>1, <1>2, RoutesAreSound DEF GatewayInv, OutcomeSound, MayBeForbidden, PaidFor
<1>5. outcome.wrote /\ outcome.route.guard \in MemberGuards
        => outcome.admitted <= issued + TokenLife
  BY <1>1 DEF GatewayInv, OutcomeSound, InTime
<1>6. deleted # NoTime /\ ~overtaken => issued + TokenLife <= deleted + TokenLife
  BY GatewayAssumption DEF GatewayInv, GatewayType, Closing
<1>7. outcome.admitted \in Int /\ issued \in Int /\ deleted \in Int /\ TokenLife \in Int
  BY <1>1, GatewayAssumption DEF GatewayInv, GatewayType, Outcomes
<1>8. outcome.wrote /\ deleted # NoTime /\ outcome.route.guard \in MemberGuards
        => outcome.admitted <= (IF overtaken THEN issued ELSE deleted) + TokenLife
  BY <1>5, <1>6, <1>7
<1>9. outcome.wrote /\ deleted # NoTime /\ AsksForClosing(outcome.route)
        => outcome.admitted <= deleted
  BY <1>1 DEF GatewayInv, OutcomeSound, BeforeClosing
<1>10. outcome.status \notin {401, 403} => OfRealm(outcome)
  BY <1>1 DEF GatewayInv, OutcomeSound
<1>11. QED
  BY <1>3, <1>4, <1>8, <1>9, <1>10

LEMMA GatewayStep == GatewayInv /\ [GatewayNext]_gatewayVars => GatewayInv'
<1> SUFFICES ASSUME GatewayInv, [GatewayNext]_gatewayVars PROVE GatewayInv'
  OBVIOUS
<1>1. CASE UNCHANGED gatewayVars
  <2>1. UNCHANGED <<clock, issued, signing, deleted, overtaken, entitled, visit, outcome>>
    BY <1>1 DEF gatewayVars, accountVars
  <2>2. GatewayType' /\ Closing' /\ clock <= clock'
    BY <2>1 DEF GatewayInv, GatewayType, Closing
  <2>3. QED
    BY <2>1, <2>2, AsideOk
<1>2. CASE GatewayNext
  BY <1>2, ArrivesOk, AuthOk, PremiumOk, CapabilityOk, OpenOk, ReadOk, ServiceOk, CheckOk,
     IssueOk, DeletionOk, PremiumChangesOk, StaffChangesOk, TickOk DEF GatewayNext
<1>3. QED
  BY <1>1, <1>2

--------------------------------------------------------------------------------
\* However long tokens live, however many requests follow each other and whatever
\* ends between a guard and its service, who works on a case was entitled within the
\* request, a closing account is let in no longer than a token lives after it was
\* closed, or after the signature of a sign-in that was checked before, its profile is
\* written by requests of before only, and each realm's token opens only its own routes
\* (plugins/auth.ts, plugins/entitlements.ts, users/service.ts).
THEOREM AdmissionHolds == GatewaySpec => []AdmissionIsSound
<1>1. GatewayInit => GatewayInv
  BY GatewayBegins
<1>2. GatewayInv /\ [GatewayNext]_gatewayVars => GatewayInv'
  BY GatewayStep
<1>3. GatewayInv => AdmissionIsSound
  BY GatewayAdmits
<1>4. QED
  BY <1>1, <1>2, <1>3, PTL DEF GatewaySpec


--------------------------------------------------------------------------------
(* Second factor *)

\* What is typed is the code that was shown, or none; an answer once given stands.
SecondFactorInv ==
  /\ second \in Int /\ shown \in Int /\ enrolled \in {"none", "readable", "unreadable"}
  /\ \/ code \in {NoCode, Malformed}
     \/ enrolled # "none" /\ code = shown \div Period
  /\ signedIn \in {"no", "yes", "denied"}
  /\ signedIn # "no" => shown # 0
  /\ signedIn = "yes" => Admitted
  /\ signedIn = "denied" => ~Admitted

LEMMA SecondFactorBegins == SecondFactorInit => SecondFactorInv
BY SecondFactorAssumption DEF SecondFactorInit, SecondFactorInv

LEMMA SecondFactorStep ==
  SecondFactorInv /\ [SecondFactorNext]_secondFactorVars => SecondFactorInv'
<1> SUFFICES ASSUME SecondFactorInv, [SecondFactorNext]_secondFactorVars
             PROVE  SecondFactorInv'
  OBVIOUS
<1>1. CASE LookAtDevice
  BY <1>1 DEF LookAtDevice, SecondFactorInv, Totp, Hotp
<1>2. CASE Mistype
  BY <1>2 DEF Mistype, SecondFactorInv
<1>3. CASE Type
  BY <1>3 DEF Type, SecondFactorInv
<1>4. CASE Login
  <2>1. Admitted' <=> Admitted
    BY <1>4 DEF Login, Admitted, VerifyTotp
  <2>2. QED
    BY <1>4, <2>1 DEF Login, SecondFactorInv
<1>5. CASE UNCHANGED secondFactorVars
  BY <1>5 DEF secondFactorVars, SecondFactorInv, Admitted, VerifyTotp
<1>6. QED
  BY <1>1, <1>2, <1>3, <1>4, <1>5 DEF SecondFactorNext

\* The step an instant falls in.
LEMMA StepOf ==
  ASSUME NEW i \in Int
  PROVE  /\ i \div Period \in Int
         /\ (i \div Period) * Period <= i /\ i < (i \div Period) * Period + Period
BY SecondFactorAssumption

\* Steps apart, and seconds apart.
LEMMA StepsApart ==
  ASSUME NEW a \in Int, NEW b \in Int, NEW d \in Int, a >= b + d
  PROVE  a * Period >= b * Period + d * Period
<1>1. PICK p \in Nat : p = Period
  BY SecondFactorAssumption
<1>2. PICK e \in Nat : e = a - b - d
  OBVIOUS
<1>3. e * p \in Nat
  BY SMT
<1>4. a * p = b * p + d * p + e * p
  BY <1>2, SMT
<1>5. QED
  BY <1>1, <1>3, <1>4

LEMMA DriftCounted ==
  ASSUME SecondFactorInv, code \in Nat, enrolled = "readable"
  PROVE  /\ Distance <= DriftSteps * Period => VerifyTotp(enrolled, code, second)
         /\ VerifyTotp(enrolled, code, second) => Distance < (DriftSteps + 1) * Period
<1> DEFINE a == shown \div Period
           b == second \div Period
           D == DriftSteps
<1>1. /\ code = a /\ a \in Int /\ b \in Int /\ D \in Nat /\ Period \in Nat
      /\ second \in Int /\ shown \in Int
      /\ a * Period <= shown /\ shown < a * Period + Period
      /\ b * Period <= second /\ second < b * Period + Period
  BY StepOf, SecondFactorAssumption DEF SecondFactorInv, NoCode, Malformed
<1> HIDE DEF a, b, D
<1>2. ASSUME a - b \in -D..D PROVE Distance < (D + 1) * Period
  <2>1. b * Period >= a * Period + (-D) * Period /\ a * Period >= b * Period + (-D) * Period
    BY <1>1, <1>2, StepsApart
  <2>2. (-D) * Period = -(D * Period) /\ (D + 1) * Period = D * Period + Period /\ D * Period \in Int
    BY <1>1
  <2>3. QED
    BY <1>1, <2>1, <2>2 DEF Distance
<1>3. ASSUME a - b \notin -D..D PROVE Distance > D * Period
  <2>1. a >= b + (D + 1) \/ b >= a + (D + 1)
    BY <1>1, <1>3
  <2>2. (D + 1) * Period = D * Period + Period /\ D * Period \in Nat
    BY <1>1
  <2>3. CASE a >= b + (D + 1)
    <3>1. a * Period >= b * Period + (D + 1) * Period
      BY <1>1, <2>3, StepsApart
    <3>2. QED
      BY <1>1, <2>2, <3>1 DEF Distance
  <2>4. CASE b >= a + (D + 1)
    <3>1. b * Period >= a * Period + (D + 1) * Period
      BY <1>1, <2>4, StepsApart
    <3>2. QED
      BY <1>1, <2>2, <3>1 DEF Distance
  <2>5. QED
    BY <2>1, <2>3, <2>4
<1>4. VerifyTotp(enrolled, code, second) <=> a - b \in -D..D
  <2>1. VerifyTotp(enrolled, code, second) <=> \E step \in -D..D : code = b + step
    BY DEF VerifyTotp, Hotp, b, D
  <2>2. QED
    BY <1>1, <2>1
<1>5. Distance \in Int /\ D * Period \in Int
  BY <1>1 DEF Distance
<1>6. QED
  BY <1>2, <1>3, <1>4, <1>5 DEF D

\* For every length of a step, every drift tolerated and wherever the clocks
\* stand: a code off by no more than the drift signs in, one off by a step more
\* does not, and staff who must be enrolled need one (totp.ts, login).
THEOREM DriftIsTolerated == SecondFactorSpec => []CodesTolerateDrift
<1>1. SecondFactorInv => CodesTolerateDrift
  <2> SUFFICES ASSUME SecondFactorInv PROVE CodesTolerateDrift
    OBVIOUS
  <2>1. ASSUME signedIn = "denied", enrolled = "readable", code \in Nat
        PROVE  Distance > DriftSteps * Period
    <3>1. ~VerifyTotp(enrolled, code, second)
      BY <2>1 DEF SecondFactorInv, Admitted, NoCode
    <3>2. Distance \in Int /\ DriftSteps * Period \in Int
      BY SecondFactorAssumption DEF Distance, SecondFactorInv
    <3>3. QED
      BY <2>1, <3>1, <3>2, DriftCounted
  <2>2. ASSUME signedIn = "yes", enrolled # "none"
        PROVE  code \in Nat /\ Distance < (DriftSteps + 1) * Period
    <3>1. VerifyTotp(enrolled, code, second)
      BY <2>2 DEF SecondFactorInv, Admitted
    <3>2. code \in Nat /\ enrolled = "readable"
      BY <3>1 DEF VerifyTotp
    <3>3. QED
      BY <3>1, <3>2, DriftCounted
  <2>3. ASSUME signedIn = "yes", required PROVE enrolled # "none"
    BY <2>3 DEF SecondFactorInv, Admitted
  <2>4. QED
    BY <2>1, <2>2, <2>3 DEF CodesTolerateDrift
<1>2. QED
  BY <1>1, SecondFactorBegins, SecondFactorStep, PTL DEF SecondFactorSpec


--------------------------------------------------------------------------------
(* Pipeline *)

PipelineType ==
  /\ jobs \in [Stages -> [Points -> Nat]]
  /\ seen \in [Stages -> Int] /\ bank \in Int
  /\ queued \in BOOLEAN /\ dropped \in BOOLEAN

\* Some job of the stage is at that point.
Has(stage, k) == jobs[stage][k] > 0
Current(stage) == seen[stage] = seen["sync"]

\* A stage that has not seen the data of the last sync has a job before it that
\* will still come to run it, while no job was given up.
QueueOwes ==
  LET syncing == Has("sync", 0) \/ Has("sync", 1)
  IN /\ Current("subs") \/ syncing \/ Has("subs", 0)
     /\ Current("bills") \/ syncing \/ Has("sync", 2) \/ Has("bills", 0)
     /\ \/ Current("alerts") \/ ~Current("bills") \/ syncing \/ Has("sync", 2)
        \/ Has("bills", 0) \/ Has("bills", 1) \/ Has("alerts", 0)
     /\ \/ Current("advice") \/ ~Current("subs") \/ syncing
        \/ Has("subs", 0) \/ Has("subs", 1) \/ Has("subs", 2) \/ Has("advice", 0)

\* Without a queue one job is at its start at most, and the stages it has not
\* come to are owed.
ChainOwes ==
  /\ \A s \in Stages : \A k \in Points : Has(s, k) => k = 0 /\ jobs[s][0] = 1
  /\ \A s, t \in Stages : Has(s, 0) /\ Has(t, 0) => s = t
  /\ ~dropped =>
       /\ Current("subs") \/ Has("sync", 0) \/ Has("subs", 0)
       /\ Current("bills") \/ Has("sync", 0) \/ Has("subs", 0) \/ Has("bills", 0)
       /\ Current("alerts") \/ Has("sync", 0) \/ Has("subs", 0) \/ Has("bills", 0) \/ Has("alerts", 0)
       /\ Current("advice") \/ \E s \in Stages : Has(s, 0)

PipelineInv ==
  /\ PipelineType
  /\ queued /\ ~dropped => QueueOwes
  /\ ~queued => ChainOwes

LEMMA PipelineBegins == PipelineInit => PipelineInv
<1> SUFFICES ASSUME PipelineInit PROVE PipelineInv
  OBVIOUS
<1>1. \A s \in Stages : seen[s] = 0 /\ \A k \in Points : jobs[s][k] = 0
  BY DEF PipelineInit
<1>2. PipelineType
  <2>1. [k \in Points |-> 0] \in [Points -> Nat]
    OBVIOUS
  <2>2. jobs \in [Stages -> [Points -> Nat]]
    BY <2>1 DEF PipelineInit
  <2>3. seen \in [Stages -> Int]
    BY DEF PipelineInit
  <2>4. bank \in Int
    BY DEF PipelineInit
  <2>5. dropped \in BOOLEAN /\ queued \in BOOLEAN
    BY Zenon DEF PipelineInit
  <2>6. QED
    BY <2>2, <2>3, <2>4, <2>5 DEF PipelineType
<1>3. \A s \in Stages : Current(s) /\ \A k \in Points : ~Has(s, k)
  BY <1>1 DEF Current, Has, Stages
<1>4. QED
  BY <1>2, <1>3 DEF PipelineInv, QueueOwes, ChainOwes, Stages, Points

\* The least of two versions is one; of a version and itself, that one.
LEMMA LeastVersion ==
  ASSUME NEW x \in Int, NEW y \in Int
  PROVE  /\ Min({x, y}) \in Int
         /\ x = y => Min({x, y}) = x
<1>1. \E z \in {x, y} : \A w \in {x, y} : z =< w
  <2>1. x =< y \/ y =< x
    OBVIOUS
  <2>2. QED
    BY <2>1
<1>2. Min({x, y}) \in {x, y}
  BY <1>1 DEF Min
<1>3. QED
  BY <1>2

\* What a service works on is a version; when the bills are current, the alerts
\* see what the last sync found.
LEMMA SourceSound ==
  ASSUME PipelineType, NEW stage \in Stages
  PROVE  /\ Source(stage) \in Int
         /\ stage = "sync" => Source(stage) = bank
         /\ stage \in {"subs", "bills"} => Source(stage) = seen["sync"]
         /\ stage = "alerts" /\ Current("bills") => Source(stage) = seen["sync"]
         /\ stage = "advice" => Source(stage) = seen["subs"]
<1>1. seen["sync"] \in Int /\ seen["bills"] \in Int /\ seen["subs"] \in Int /\ bank \in Int
  BY DEF PipelineType, Stages
<1>2. Min({seen["sync"], seen["bills"]}) \in Int
  BY <1>1, LeastVersion
<1>3. Current("bills") => Min({seen["sync"], seen["bills"]}) = seen["sync"]
  BY <1>1, LeastVersion DEF Current
<1>4. QED
  BY <1>1, <1>2, <1>3 DEF Source, Stages

\* A service that has returned: its stage has seen its source, the others what
\* they had.
LEMMA SeenBy ==
  ASSUME PipelineType, NEW stage \in Stages,
         seen' = [seen EXCEPT ![stage] = Source(stage)]
  PROVE  /\ seen' \in [Stages -> Int]
         /\ stage # "sync" => \A s \in Stages \ {stage} : Current(s)' <=> Current(s)
         /\ stage \in {"subs", "bills"} => Current(stage)'
         /\ stage = "alerts" /\ Current("bills") => Current(stage)'
         /\ stage = "advice" /\ Current("subs") => Current(stage)'
BY SourceSound DEF PipelineType, Current, Stages

\* A queue takes a job, hands one back, or a job moves on.
LEMMA Enqueued ==
  ASSUME PipelineType, NEW stage \in Stages, jobs' = Enqueue(jobs, stage)
  PROVE  /\ jobs' \in [Stages -> [Points -> Nat]]
         /\ Has(stage, 0)' /\ jobs'[stage][0] = jobs[stage][0] + 1
         /\ \A s \in Stages : \A k \in Points : s # stage \/ k # 0 => jobs'[s][k] = jobs[s][k]
BY DEF PipelineType, Enqueue, Has, Points

LEMMA Left ==
  ASSUME PipelineType, NEW stage \in Stages, NEW k \in Points, Has(stage, k), jobs' = Leave(stage, k)
  PROVE  /\ jobs' \in [Stages -> [Points -> Nat]]
         /\ jobs'[stage][k] = jobs[stage][k] - 1
         /\ \A s \in Stages : \A j \in Points : s # stage \/ j # k => jobs'[s][j] = jobs[s][j]
BY DEF PipelineType, Leave, Has, Points

LEMMA Moved ==
  ASSUME PipelineType, NEW stage \in Stages, NEW k \in Points, NEW n \in Points, n # k,
         Has(stage, k), NEW to, to = Move(stage, k, n)
  PROVE  /\ to \in [Stages -> [Points -> Nat]]
         /\ to[stage][k] = jobs[stage][k] - 1 /\ to[stage][n] = jobs[stage][n] + 1
         /\ \A s \in Stages : \A j \in Points : s # stage \/ j \notin {k, n} => to[s][j] = jobs[s][j]
BY DEF PipelineType, Move, Has, Points


LEMMA FollowUpsAre ==
  /\ FollowUps("sync") = <<"subs", "bills">>
  /\ FollowUps("subs") = <<"alerts", "advice">>
  /\ FollowUps("bills") = <<"alerts">>
  /\ FollowUps("alerts") = <<>> /\ FollowUps("advice") = <<>>
BY DEF FollowUps

LEMMA FollowUpsMany ==
  ASSUME NEW stage \in Stages
  PROVE  /\ stage \in {"sync", "subs"} => Len(FollowUps(stage)) = 2
         /\ stage = "bills" => Len(FollowUps(stage)) = 1
         /\ stage \in {"alerts", "advice"} => Len(FollowUps(stage)) = 0
         /\ FollowUps(stage) = <<>> <=> stage \in {"alerts", "advice"}
<1>1. /\ Len(<<"subs", "bills">>) = 2 /\ Len(<<"alerts", "advice">>) = 2 /\ Len(<<"alerts">>) = 1
      /\ Len(<<>>) = 0
  OBVIOUS
<1>2. QED
  BY <1>1 DEF FollowUps, Stages

LEMMA FollowUpCases ==
  ASSUME NEW stage \in Stages, NEW k \in DOMAIN FollowUps(stage)
  PROVE  \/ stage = "sync" /\ k = 1 /\ FollowUps(stage)[k] = "subs"
         \/ stage = "sync" /\ k = 2 /\ FollowUps(stage)[k] = "bills"
         \/ stage = "subs" /\ k = 1 /\ FollowUps(stage)[k] = "alerts"
         \/ stage = "subs" /\ k = 2 /\ FollowUps(stage)[k] = "advice"
         \/ stage = "bills" /\ k = 1 /\ FollowUps(stage)[k] = "alerts"
BY FollowUpsAre DEF Stages

LEMMA AddSyncOk == ASSUME PipelineInv, AddSync PROVE PipelineInv'
<1>1. "sync" \in Stages /\ PipelineType /\ queued /\ jobs' = Enqueue(jobs, "sync")
      /\ UNCHANGED <<bank, seen, queued, dropped>>
  BY DEF AddSync, PipelineInv, Stages
<1>2. PipelineType' /\ Has("sync", 0)'
  BY <1>1, Enqueued DEF PipelineType
<1>3. QED
  BY <1>1, <1>2 DEF PipelineInv, QueueOwes

\* A service leaves a job that still has its follow-ups to enqueue.
LEMMA ServeOk == ASSUME PipelineInv, NEW stage \in Stages, Serve(stage) PROVE PipelineInv'
<1>1. /\ PipelineType /\ queued /\ Has(stage, 0)
      /\ seen' = [seen EXCEPT ![stage] = Source(stage)]
      /\ UNCHANGED <<bank, queued, dropped>>
  BY DEF Serve, PipelineInv, Has
<1>2. 0 \in Points /\ 1 \in Points
  BY DEF Points
<1>3. /\ jobs' \in [Stages -> [Points -> Nat]]
      /\ \A s \in Stages \ {stage} : \A k \in Points : jobs'[s][k] = jobs[s][k]
      /\ stage \in {"sync", "subs", "bills"} =>
           /\ Has(stage, 1)'
           /\ \A k \in Points : k \notin {0, 1} => jobs'[stage][k] = jobs[stage][k]
  <2>1. CASE stage \in {"sync", "subs", "bills"}
    <3>1. jobs' = Move(stage, 0, 1)
      BY <2>1, FollowUpsMany DEF Serve
    <3>2. jobs[stage][1] \in Nat
      BY <1>1, <1>2 DEF PipelineType
    <3>3. QED
      BY <1>1, <1>2, <3>1, <3>2, Moved DEF Has
  <2>2. CASE stage \in {"alerts", "advice"}
    <3>1. jobs' = Leave(stage, 0)
      BY <2>2, FollowUpsAre DEF Serve
    <3>2. QED
      BY <1>1, <1>2, <2>2, <3>1, Left
  <2>3. QED
    BY <2>1, <2>2 DEF Stages
<1>4. PipelineType'
  BY <1>1, <1>3, SeenBy DEF PipelineType
<1>5. ASSUME ~dropped PROVE QueueOwes'
  <2>1. QueueOwes
    BY <1>1, <1>5 DEF PipelineInv
  <2>2. CASE stage = "sync"
    BY <1>3, <2>2 DEF QueueOwes
  <2>3. ASSUME stage # "sync" PROVE QueueOwes'
    <3>1. \A k \in 0..2 : Has("sync", k)' <=> Has("sync", k)
      BY <1>3, <2>3 DEF Has, Stages, Points
    <3>2. CASE stage = "subs"
      BY <1>1, <1>3, <2>1, <3>1, <3>2, SeenBy DEF QueueOwes, Has, Stages, Points
    <3>3. CASE stage = "bills"
      BY <1>1, <1>3, <2>1, <3>1, <3>3, SeenBy DEF QueueOwes, Has, Stages, Points
    <3>4. CASE stage = "alerts"
      BY <1>1, <1>3, <2>1, <3>1, <3>4, SeenBy DEF QueueOwes, Has, Stages, Points
    <3>5. CASE stage = "advice"
      BY <1>1, <1>3, <2>1, <3>1, <3>5, SeenBy DEF QueueOwes, Has, Stages, Points
    <3>6. QED
      BY <2>3, <3>2, <3>3, <3>4, <3>5 DEF Stages
  <2>4. QED
    BY <2>2, <2>3
<1>6. QED
  BY <1>1, <1>4, <1>5 DEF PipelineInv

LEMMA FollowUpOk ==
  ASSUME PipelineInv, NEW stage \in Stages, NEW k \in Points, FollowUp(stage, k)
  PROVE  PipelineInv'
<1>1. PICK to : to = Move(stage, k, k + 1)
  OBVIOUS
<1>2. PICK next : next = FollowUps(stage)[k]
  OBVIOUS
<1>3. /\ PipelineType /\ Has(stage, k) /\ k \in DOMAIN FollowUps(stage)
      /\ jobs' = Enqueue(to, next) /\ UNCHANGED <<bank, seen, queued, dropped>>
  BY <1>1, <1>2 DEF FollowUp, PipelineInv, Has
<1>4. /\ next \in Stages /\ next # stage
      /\ k \in {1, 2} /\ k + 1 \in Points /\ 0 \in Points
      /\ \/ stage = "sync" /\ k = 1 /\ next = "subs"
         \/ stage = "sync" /\ k = 2 /\ next = "bills"
         \/ stage = "subs" /\ k = 1 /\ next = "alerts"
         \/ stage = "subs" /\ k = 2 /\ next = "advice"
         \/ stage = "bills" /\ k = 1 /\ next = "alerts"
  BY <1>2, <1>3, FollowUpCases DEF Stages, Points
<1>5. /\ to \in [Stages -> [Points -> Nat]]
      /\ to[stage][k + 1] = jobs[stage][k + 1] + 1
      /\ \A s \in Stages : \A j \in Points : s # stage \/ j \notin {k, k + 1} => to[s][j] = jobs[s][j]
  BY <1>1, <1>3, <1>4, Moved
<1>6. /\ jobs' \in [Stages -> [Points -> Nat]]
      /\ jobs'[next][0] = to[next][0] + 1
      /\ \A s \in Stages : \A j \in Points : s # next \/ j # 0 => jobs'[s][j] = to[s][j]
  BY <1>3, <1>4, <1>5 DEF Enqueue
<1>7. queued
  BY <1>3, <1>4 DEF PipelineInv, ChainOwes
<1>8. /\ Has(next, 0)' /\ Has(stage, k + 1)'
      /\ \A s \in Stages : \A j \in Points : Has(s, j) /\ (s # stage \/ j # k) => Has(s, j)'
      /\ \A s \in Stages : Current(s)' <=> Current(s)
  <2>1. \A s \in Stages : \A j \in Points : jobs[s][j] \in Nat /\ to[s][j] \in Nat
    BY <1>3, <1>5 DEF PipelineType
  <2>2. jobs'[next][0] > 0
    BY <1>4, <1>6, <2>1
  <2>3. jobs'[stage][k + 1] = jobs[stage][k + 1] + 1 /\ jobs[stage][k + 1] \in Nat
    BY <1>3, <1>4, <1>5, <1>6, <2>1
  <2>4. ASSUME NEW s \in Stages, NEW j \in Points, jobs[s][j] > 0, s # stage \/ j # k
        PROVE  jobs'[s][j] > 0
    <3>1. to[s][j] > 0
      BY <1>3, <1>5, <2>1, <2>3, <2>4
    <3>2. QED
      BY <1>4, <1>6, <2>1, <2>2, <3>1
  <2>5. QED
    BY <1>3, <2>2, <2>3, <2>4 DEF Has, Current
<1>9. ASSUME QueueOwes PROVE QueueOwes'
  BY <1>4, <1>8, <1>9 DEF QueueOwes, Stages, Points
<1>10. PipelineType'
  BY <1>3, <1>6 DEF PipelineType
<1>11. QED
  BY <1>3, <1>7, <1>9, <1>10 DEF PipelineInv

LEMMA CompleteOk == ASSUME PipelineInv, NEW stage \in Stages, Complete(stage) PROVE PipelineInv'
<1>1. PICK last : last = Len(FollowUps(stage)) + 1
  OBVIOUS
<1>2. /\ PipelineType /\ Has(stage, last) /\ last > 1
      /\ jobs' = Leave(stage, last) /\ UNCHANGED <<bank, seen, queued, dropped>>
  BY <1>1 DEF Complete, PipelineInv, Has
<1>3. /\ last \in Points
      /\ \/ stage \in {"sync", "subs"} /\ last = 3
         \/ stage = "bills" /\ last = 2
  <2>1. last > 1
    BY <1>2
  <2>2. stage \in {"sync", "subs", "bills", "alerts", "advice"}
    BY DEF Stages
  <2>3. \/ stage \in {"sync", "subs"} /\ last = 3
        \/ stage = "bills" /\ last = 2
    <3>1. /\ stage \in {"sync", "subs"} => Len(FollowUps(stage)) = 2
          /\ stage = "bills" => Len(FollowUps(stage)) = 1
          /\ stage \in {"alerts", "advice"} => Len(FollowUps(stage)) = 0
      BY FollowUpsMany
    <3>2. PICK n : n = Len(FollowUps(stage))
      OBVIOUS
    <3>3. last = n + 1
      BY <1>1, <3>2
    <3>4. QED
      BY <2>1, <2>2, <3>1, <3>2, <3>3
  <2>4. QED
    BY <2>3 DEF Points
<1>4. queued
  BY <1>2, <1>3 DEF PipelineInv, ChainOwes
<1>5. /\ jobs' \in [Stages -> [Points -> Nat]]
      /\ \A s \in Stages : \A j \in Points : Has(s, j) /\ (s # stage \/ j # last) => Has(s, j)'
      /\ \A s \in Stages : Current(s)' <=> Current(s)
  BY <1>2, <1>3, Left DEF Has, Current, Stages
<1>6. ASSUME QueueOwes PROVE QueueOwes'
  BY <1>3, <1>5, <1>6 DEF QueueOwes, Stages, Points
<1>7. PipelineType'
  BY <1>2, <1>5 DEF PipelineType
<1>8. QED
  BY <1>2, <1>4, <1>6, <1>7 DEF PipelineInv

LEMMA FailJobOk ==
  ASSUME PipelineInv, NEW stage \in Stages, NEW k \in Points, FailJob(stage, k)
  PROVE  PipelineInv'
<1>1. /\ PipelineType /\ Has(stage, k) /\ queued /\ UNCHANGED <<bank, seen, queued>>
  BY DEF FailJob, PipelineInv, Has
<1>2. CASE jobs' = Leave(stage, k) /\ dropped' = TRUE
  <2>1. jobs' \in [Stages -> [Points -> Nat]]
    BY <1>1, <1>2, Left
  <2>2. dropped' \in BOOLEAN
    BY <1>2, Zenon
  <2>3. PipelineType'
    BY <1>1, <2>1, <2>2 DEF PipelineType
  <2>4. QED
    BY <1>1, <1>2, <2>3 DEF PipelineInv
<1>3. CASE k > 0 /\ jobs' = Move(stage, k, 0) /\ dropped' = dropped
  <2>1. 0 \in Points /\ k # 0
    BY <1>3 DEF Points
  <2>2. PICK to : to = Move(stage, k, 0)
    OBVIOUS
  <2>3. /\ to \in [Stages -> [Points -> Nat]]
        /\ to[stage][0] = jobs[stage][0] + 1
        /\ \A s \in Stages : \A j \in Points : s # stage \/ j \notin {k, 0} => to[s][j] = jobs[s][j]
    BY <1>1, <2>1, <2>2, Moved
  <2>4. /\ Has(stage, 0)'
        /\ \A s \in Stages : \A j \in Points : Has(s, j) /\ (s # stage \/ j # k) => Has(s, j)'
        /\ \A s \in Stages : Current(s)' <=> Current(s)
    <3>1. jobs' = to /\ \A s \in Stages : jobs[s][0] \in Nat
      BY <1>1, <1>3, <2>1, <2>2 DEF PipelineType
    <3>2. QED
      BY <1>1, <2>1, <2>3, <3>1 DEF Has, Current, Stages
  <2>5. ASSUME QueueOwes PROVE QueueOwes'
    BY <2>4, <2>5 DEF QueueOwes, Stages, Points
  <2>6. PipelineType'
    BY <1>1, <1>3, <2>2, <2>3 DEF PipelineType
  <2>7. QED
    BY <1>1, <1>3, <2>5, <2>6 DEF PipelineInv
<1>4. QED
  BY <1>2, <1>3 DEF FailJob


LEMMA NoneDrained ==
  ASSUME PipelineType, Drained, NEW s \in Stages, NEW k \in Points
  PROVE  ~Has(s, k) /\ jobs[s][k] = 0
<1>1. <<s, k>> \in Stages \X Points /\ <<s, k>>[1] = s /\ <<s, k>>[2] = k
  OBVIOUS
<1>2. ~(jobs[s][k] > 0)
  BY <1>1 DEF Drained, Pending
<1>3. jobs[s][k] \in Nat
  BY DEF PipelineType
<1>4. QED
  BY <1>2, <1>3 DEF Has

LEMMA BeginInlineOk == ASSUME PipelineInv, BeginInline PROVE PipelineInv'
<1>1. /\ PipelineType /\ ~queued /\ Drained /\ "sync" \in Stages
      /\ jobs' = Enqueue(jobs, "sync") /\ UNCHANGED <<bank, seen, queued, dropped>>
  BY DEF BeginInline, PipelineInv, Stages
<1>2. /\ jobs' \in [Stages -> [Points -> Nat]]
      /\ jobs'["sync"][0] = jobs["sync"][0] + 1
      /\ \A s \in Stages : \A k \in Points : s # "sync" \/ k # 0 => jobs'[s][k] = jobs[s][k]
  BY <1>1, Enqueued
<1>3. \A s \in Stages : \A k \in Points : jobs[s][k] = 0
  BY <1>1, NoneDrained
<1>4. 0 \in Points
  BY DEF Points
<1>5. /\ jobs'["sync"][0] = 1
      /\ \A s \in Stages : \A k \in Points : s # "sync" \/ k # 0 => jobs'[s][k] = 0
  BY <1>1, <1>2, <1>3, <1>4
<1>6. ChainOwes'
  BY <1>1, <1>4, <1>5 DEF ChainOwes, Has
<1>7. PipelineType'
  BY <1>1, <1>2 DEF PipelineType
<1>8. QED
  BY <1>1, <1>6, <1>7 DEF PipelineInv

\* The one job of a chain goes to the stage after it, or is through.
LEMMA RunInlineOk == ASSUME PipelineInv, NEW stage \in Stages, RunInline(stage) PROVE PipelineInv'
<1>1. PICK to : to = Leave(stage, 0)
  OBVIOUS
<1>2. /\ PipelineType /\ ~queued /\ Has(stage, 0) /\ 0 \in Points /\ ChainOwes
      /\ seen' = [seen EXCEPT ![stage] = Source(stage)]
      /\ jobs' = IF Chain[stage] = "done" THEN to ELSE Enqueue(to, Chain[stage])
      /\ UNCHANGED <<bank, queued, dropped>>
  BY <1>1 DEF RunInline, PipelineInv, Has, Points
<1>3. /\ to \in [Stages -> [Points -> Nat]]
      /\ to[stage][0] = jobs[stage][0] - 1
      /\ \A s \in Stages : \A j \in Points : s # stage \/ j # 0 => to[s][j] = jobs[s][j]
  <2>1. to = [jobs EXCEPT ![stage][0] = @ - 1]
    BY <1>1 DEF Leave
  <2>2. QED
    BY <1>2, <2>1 DEF PipelineType, Has
<1>4. \A s \in Stages : \A j \in Points : to[s][j] = 0
  <2>1. \A s \in Stages : \A j \in Points : jobs[s][j] \in Nat
    BY <1>2 DEF PipelineType
  <2>2. jobs[stage][0] = 1
    BY <1>2 DEF ChainOwes
  <2>3. \A s \in Stages : \A j \in Points : s # stage \/ j # 0 => jobs[s][j] = 0
    BY <1>2, <2>1 DEF ChainOwes, Has
  <2>4. QED
    BY <1>2, <1>3, <2>2, <2>3
<1>5. /\ stage = "sync" => Chain[stage] = "subs"
      /\ stage = "subs" => Chain[stage] = "bills"
      /\ stage = "bills" => Chain[stage] = "alerts"
      /\ stage = "alerts" => Chain[stage] = "advice"
      /\ stage = "advice" => Chain[stage] = "done"
  BY DEF Chain
<1>6. ASSUME NEW next \in Stages, jobs' = Enqueue(to, next)
      PROVE  /\ jobs' \in [Stages -> [Points -> Nat]]
             /\ jobs'[next][0] = 1
             /\ \A s \in Stages : \A j \in Points : s # next \/ j # 0 => jobs'[s][j] = 0
  <2>1. jobs' = [to EXCEPT ![next][0] = @ + 1]
    BY <1>6 DEF Enqueue
  <2>2. QED
    BY <1>2, <1>3, <1>4, <2>1
<1>7. ASSUME NEW next \in Stages, jobs' = Enqueue(to, next)
      PROVE  /\ \A s \in Stages : Has(s, 0)' <=> s = next
             /\ \A s \in Stages : \A k \in Points : Has(s, k)' => k = 0 /\ jobs'[s][0] = 1
             /\ jobs' \in [Stages -> [Points -> Nat]]
  BY <1>2, <1>6, <1>7 DEF Has
<1>8. /\ seen' \in [Stages -> Int]
      /\ stage # "sync" => \A s \in Stages \ {stage} : Current(s)' <=> Current(s)
      /\ stage \in {"subs", "bills"} => Current(stage)'
      /\ stage = "alerts" /\ Current("bills") => Current(stage)'
      /\ stage = "advice" /\ Current("subs") => Current(stage)'
  BY <1>2, SeenBy
<1>9. \A s \in Stages : Has(s, 0) <=> s = stage
  BY <1>2 DEF ChainOwes
<1>10. CASE stage = "sync"
  <2>1. "subs" \in Stages /\ jobs' = Enqueue(to, "subs")
    BY <1>2, <1>5, <1>10 DEF Stages
  <2>2. ChainOwes' /\ PipelineType'
    BY <1>2, <1>7, <1>8, <2>1 DEF ChainOwes, PipelineType, Stages
  <2>3. QED
    BY <1>2, <2>2 DEF PipelineInv
<1>11. CASE stage = "subs"
  <2>1. "bills" \in Stages /\ jobs' = Enqueue(to, "bills")
    BY <1>2, <1>5, <1>11 DEF Stages
  <2>2. ChainOwes' /\ PipelineType'
    BY <1>2, <1>7, <1>8, <1>11, <2>1 DEF ChainOwes, PipelineType, Stages
  <2>3. QED
    BY <1>2, <2>2 DEF PipelineInv
<1>12. CASE stage = "bills"
  <2>1. "alerts" \in Stages /\ jobs' = Enqueue(to, "alerts")
    BY <1>2, <1>5, <1>12 DEF Stages
  <2>2. ~dropped => Current("subs")
    BY <1>2, <1>9, <1>12 DEF ChainOwes, Stages
  <2>3. ~dropped => Current("subs")' /\ Current("bills")'
    BY <1>8, <1>12, <2>2 DEF Stages
  <2>4. \A s \in Stages : Has(s, 0)' <=> s = "alerts"
    BY <1>7, <2>1
  <2>5. ChainOwes' /\ PipelineType'
    BY <1>2, <1>7, <1>8, <2>1, <2>3, <2>4 DEF ChainOwes, PipelineType, Stages
  <2>6. QED
    BY <1>2, <2>5 DEF PipelineInv
<1>13. CASE stage = "alerts"
  <2>1. "advice" \in Stages /\ jobs' = Enqueue(to, "advice")
    BY <1>2, <1>5, <1>13 DEF Stages
  <2>2. ~dropped => Current("subs") /\ Current("bills")
    BY <1>2, <1>9, <1>13 DEF ChainOwes, Stages
  <2>3. ~dropped => Current("subs")' /\ Current("bills")' /\ Current("alerts")'
    BY <1>8, <1>13, <2>2 DEF Stages
  <2>4. \A s \in Stages : Has(s, 0)' <=> s = "advice"
    BY <1>7, <2>1
  <2>5. ChainOwes' /\ PipelineType'
    BY <1>2, <1>7, <1>8, <2>1, <2>3, <2>4 DEF ChainOwes, PipelineType, Stages
  <2>6. QED
    BY <1>2, <2>5 DEF PipelineInv
<1>14. CASE stage = "advice"
  <2>1. jobs' = to
    BY <1>2, <1>5, <1>14
  <2>2. ~dropped => Current("subs") /\ Current("bills") /\ Current("alerts")
    BY <1>2, <1>9, <1>14 DEF ChainOwes, Stages
  <2>3. ~dropped => \A s \in {"subs", "bills", "alerts", "advice"} : Current(s)'
    BY <1>8, <1>14, <2>2 DEF Stages
  <2>4. \A s \in Stages : \A k \in Points : ~Has(s, k)'
    BY <1>4, <2>1 DEF Has
  <2>5. ChainOwes' /\ PipelineType'
    BY <1>2, <1>3, <1>8, <2>1, <2>3, <2>4 DEF ChainOwes, PipelineType, Stages, Points
  <2>6. QED
    BY <1>2, <2>5 DEF PipelineInv
<1>15. QED
  BY <1>10, <1>11, <1>12, <1>13, <1>14 DEF Stages

LEMMA FailInlineOk == ASSUME PipelineInv, NEW stage \in Stages, FailInline(stage) PROVE PipelineInv'
<1>1. /\ PipelineType /\ ~queued /\ Has(stage, 0) /\ 0 \in Points /\ ChainOwes
      /\ jobs' = Leave(stage, 0) /\ dropped' = TRUE /\ UNCHANGED <<bank, seen, queued>>
  BY DEF FailInline, PipelineInv, Has, Points
<1>2. /\ jobs' \in [Stages -> [Points -> Nat]]
      /\ jobs'[stage][0] = jobs[stage][0] - 1
      /\ \A s \in Stages : \A j \in Points : s # stage \/ j # 0 => jobs'[s][j] = jobs[s][j]
  BY <1>1, Left
<1>3. \A s \in Stages : \A j \in Points : ~(jobs'[s][j] > 0)
  <2>1. \A s \in Stages : \A j \in Points : jobs[s][j] \in Nat
    BY <1>1 DEF PipelineType
  <2>2. jobs[stage][0] = 1
    BY <1>1 DEF ChainOwes
  <2>3. \A s \in Stages : \A j \in Points : s # stage \/ j # 0 => jobs[s][j] = 0
    BY <1>1, <2>1 DEF ChainOwes, Has
  <2>4. QED
    BY <1>1, <1>2, <2>2, <2>3
<1>4. ChainOwes'
  BY <1>1, <1>3 DEF ChainOwes, Has, Points
<1>5. dropped' \in BOOLEAN
  BY <1>1, Zenon
<1>6. PipelineType'
  BY <1>1, <1>2, <1>5 DEF PipelineType
<1>7. QED
  BY <1>1, <1>4, <1>6 DEF PipelineInv

LEMMA BankMovesOk == ASSUME PipelineInv, BankMoves \/ UNCHANGED pipelineVars PROVE PipelineInv'
<1>1. PipelineType /\ bank' \in Int /\ UNCHANGED <<seen, queued, jobs, dropped>>
  BY DEF BankMoves, pipelineVars, PipelineInv, PipelineType
<1>2. PipelineType' /\ (QueueOwes => QueueOwes') /\ (ChainOwes => ChainOwes')
  BY <1>1 DEF PipelineType, QueueOwes, ChainOwes, Has, Current
<1>3. QED
  BY <1>1, <1>2 DEF PipelineInv

LEMMA PipelineStep == PipelineInv /\ [PipelineNext]_pipelineVars => PipelineInv'
<1> SUFFICES ASSUME PipelineInv, [PipelineNext]_pipelineVars PROVE PipelineInv'
  OBVIOUS
<1>1. CASE BankMoves \/ UNCHANGED pipelineVars
  BY <1>1, BankMovesOk
<1>2. CASE AddSync
  BY <1>2, AddSyncOk
<1>3. CASE BeginInline
  BY <1>3, BeginInlineOk
<1>4. ASSUME NEW stage \in Stages, JobStep(stage) PROVE PipelineInv'
  BY <1>4, ServeOk, CompleteOk, FollowUpOk DEF JobStep
<1>5. ASSUME NEW stage \in Stages, RunInline(stage) \/ FailInline(stage) PROVE PipelineInv'
  BY <1>5, RunInlineOk, FailInlineOk
<1>6. ASSUME NEW stage \in Stages, NEW k \in Points, FailJob(stage, k) PROVE PipelineInv'
  BY <1>6, FailJobOk
<1>7. QED
  BY <1>1, <1>2, <1>3, <1>4, <1>5, <1>6 DEF PipelineNext

\* For any number of jobs of each stage, however they are ordered, repeated and
\* interleaved, and however long the bank moves on: once the queues are empty and
\* no job was given up, every stage has seen what the last sync found (apps/worker,
\* SyncPipeline.runForItem).
THEOREM NothingOwed == PipelineSpec => []DrainedMeansEvaluated
<1>1. PipelineInv => DrainedMeansEvaluated
  <2> SUFFICES ASSUME PipelineInv, Drained, ~dropped, NEW s \in Stages PROVE Current(s)
    BY DEF DrainedMeansEvaluated, Current
  <2>1. \A t \in Stages : \A k \in Points : ~Has(t, k)
    BY NoneDrained DEF PipelineInv
  <2>2. Current("subs") /\ Current("bills") /\ Current("alerts") /\ Current("advice")
    <3>1. CASE queued
      BY <2>1, <3>1 DEF PipelineInv, QueueOwes, Stages, Points
    <3>2. CASE ~queued
      BY <2>1, <3>2 DEF PipelineInv, ChainOwes, Stages, Points
    <3>3. QED
      BY <3>1, <3>2
  <2>3. Current("sync")
    BY DEF Current
  <2>4. QED
    BY <2>2, <2>3 DEF Stages
<1>2. QED
  BY <1>1, PipelineBegins, PipelineStep, PTL DEF PipelineSpec


--------------------------------------------------------------------------------
(* Seed: the script *)

Joined(T, H, P, F) == T = (H \o P) \o F

InParts(T, H, P, F) ==
  \A i \in 1..20 : T[i] = IF i <= 5 THEN H[i] ELSE IF i <= 17 THEN P[i - 5] ELSE F[i - 17]

LEMMA ThreeParts ==
  ASSUME NEW S, NEW H \in Seq(S), NEW P \in Seq(S), NEW F \in Seq(S),
         Len(H) = 5, Len(P) = 12, Len(F) = 3, NEW T, Joined(T, H, P, F)
  PROVE  /\ Len(T) = 20 /\ DOMAIN T = 1..20
         /\ InParts(T, H, P, F)
<1>1. /\ H \o P \in Seq(S) /\ Len(H \o P) = Len(H) + Len(P)
      /\ \A i \in 1..Len(H) + Len(P) : (H \o P)[i] = IF i <= Len(H) THEN H[i] ELSE P[i - Len(H)]
  BY ConcatProperties, Zenon
<1>2. PICK G : G = H \o P
  OBVIOUS
<1>3. /\ Len(G \o F) = Len(G) + Len(F)
      /\ \A i \in 1..Len(G) + Len(F) : (G \o F)[i] = IF i <= Len(G) THEN G[i] ELSE F[i - Len(G)]
  <2>1. G \in Seq(S)
    BY <1>1, <1>2
  <2>2. QED
    BY <2>1, ConcatProperties, Zenon
<1>4. Len(G) = 17 /\ \A i \in 1..17 : G[i] = IF i <= 5 THEN H[i] ELSE P[i - 5]
  <2>1. Len(H) + Len(P) = 17 /\ Len(G) = Len(H) + Len(P)
    BY <1>1, <1>2
  <2>2. QED
    BY <1>1, <1>2, <2>1
<1>5. Len(G \o F) = 20 /\ \A i \in 1..20 : (G \o F)[i] = IF i <= 17 THEN G[i] ELSE F[i - 17]
  <2>1. Len(G) + Len(F) = 20
    BY <1>4
  <2>2. QED
    BY <1>3, <1>4, <2>1
<1>6. T = G \o F
  BY <1>2 DEF Joined
<1>7. Len(T) = 20 /\ \A i \in 1..20 : T[i] = IF i <= 17 THEN G[i] ELSE F[i - 17]
  BY <1>5, <1>6, Zenon
<1>8. ASSUME NEW i \in 1..20
      PROVE  T[i] = IF i <= 5 THEN H[i] ELSE IF i <= 17 THEN P[i - 5] ELSE F[i - 17]
  <2>1. T[i] = IF i <= 17 THEN G[i] ELSE F[i - 17]
    BY <1>7
  <2>2. i <= 17 => G[i] = IF i <= 5 THEN H[i] ELSE P[i - 5]
    BY <1>4, SMTT(60)
  <2>3. i <= 5 => i <= 17
    OBVIOUS
  <2>4. QED
    BY <2>1, <2>2, <2>3
<1>9. DOMAIN T = 1..20
  <2>1. G \in Seq(S)
    BY <1>1, <1>2
  <2>2. G \o F \in Seq(S)
    BY <2>1, ConcatProperties, Zenon
  <2>3. T \in Seq(S)
    BY <1>6, <2>2, Zenon
  <2>4. DOMAIN T = 1..Len(T)
    BY <2>3, LenProperties, Zenon
  <2>5. QED
    BY <1>7, <2>4, Zenon
<1>10. QED
  BY <1>7, <1>8, <1>9 DEF InParts

LEMMA ScriptIs ==
  /\ Len(Script) = 20 /\ DOMAIN Script = 1..20
  /\ Script[1] = Upsert("streaming_plus") /\ Script[2] = Upsert("city_internet")
  /\ Script[3] = Upsert("agent") /\ Script[4] = Upsert("admin") /\ Script[5] = DeleteDemo
  /\ Script[6] = User("demo", {"consents", "premium"})
  /\ Script[7] = Each("demo", {"gym", "cloud", "daily_ledger"})
  /\ Script[8] = Each("demo", {"internet", "mobile", "power"})
  /\ Script[9] = Once("demo", {"gym_case"}) /\ Script[10] = Once("demo", {"gym_canceled"})
  /\ Script[11] = Once("demo", {"cloud_case"}) /\ Script[12] = Once("demo", {"cloud_requested"})
  /\ Script[13] = Once("demo", {"internet_case"}) /\ Script[14] = Once("demo", {"internet_repriced"})
  /\ Script[15] = Once("demo", {"mobile_case"})
  /\ Script[16] = Once("demo", {"gym_credit", "internet_credit", "manual_credit"})
  /\ Script[17] = Once("demo", {"price_alert", "bill_alert"})
  /\ Script[18] = User("free", {"consents"})
  /\ Script[19] = Once("free", {"streaming", "music"}) /\ Script[20] = Once("free", {"internet"})
<1> DEFINE Ps == {User("demo", {"consents", "premium"}), Each("demo", {"gym", "cloud", "daily_ledger"}),
                  Each("demo", {"internet", "mobile", "power"}),
                  Once("demo", {"gym_case"}), Once("demo", {"gym_canceled"}),
                  Once("demo", {"cloud_case"}), Once("demo", {"cloud_requested"}),
                  Once("demo", {"internet_case"}), Once("demo", {"internet_repriced"}),
                  Once("demo", {"mobile_case"}),
                  Once("demo", {"gym_credit", "internet_credit", "manual_credit"}),
                  Once("demo", {"price_alert", "bill_alert"})}
           Hs == {Upsert("streaming_plus"), Upsert("city_internet"), Upsert("agent"), Upsert("admin"), DeleteDemo}
           Fs == {User("free", {"consents"}), Once("free", {"streaming", "music"}), Once("free", {"internet"})}
<1>1. MainHead \in Seq(Hs) /\ PremiumMember \in Seq(Ps) /\ FreeMember \in Seq(Fs)
  <2>1. MainHead \in Seq(Hs)
    BY DEF MainHead
  <2>2. FreeMember \in Seq(Fs)
    BY DEF FreeMember
  <2>3. PremiumMember \in Seq(Ps)
    BY DEF PremiumMember
  <2>4. QED
    BY <2>1, <2>2, <2>3
<1>2. /\ Len(MainHead) = 5 /\ Len(PremiumMember) = 12 /\ Len(FreeMember) = 3
  BY DEF MainHead, PremiumMember, FreeMember
<1>3. PICK H, P, F, S : /\ H = MainHead /\ P = PremiumMember /\ F = FreeMember
                        /\ S = (Hs \union Ps) \union Fs
  OBVIOUS
<1>4. H \in Seq(S) /\ P \in Seq(S) /\ F \in Seq(S)
  <2> HIDE DEF Hs, Ps, Fs
  <2>1. QED
    BY <1>1, <1>3
<1>5. /\ Len(Script) = 20 /\ DOMAIN Script = 1..20
      /\ InParts(Script, H, P, F)
  <2>1. Script = (H \o P) \o F /\ Len(H) = 5 /\ Len(P) = 12 /\ Len(F) = 3
    BY <1>2, <1>3 DEF Script
  <2>2. Joined(Script, H, P, F)
    BY <2>1, Zenon DEF Joined
  <2>3. Len(H) = 5 /\ Len(P) = 12 /\ Len(F) = 3
    BY <2>1
  <2>4. PICK Z : Z = Script
    OBVIOUS
  <2>5. Joined(Z, H, P, F)
    BY <2>2, <2>4
  <2>6. Len(Z) = 20 /\ DOMAIN Z = 1..20
    BY <1>4, <2>3, <2>5, ThreeParts
  <2>7. InParts(Z, H, P, F)
    BY <1>4, <2>3, <2>5, ThreeParts
  <2>8. QED
    BY <2>4, <2>6, <2>7
<1>7. /\ \A i \in 1..5 : Script[i] = H[i]
      /\ \A i \in 1..12 : Script[i + 5] = P[i]
      /\ \A i \in 1..3 : Script[i + 17] = F[i]
  BY <1>5 DEF InParts
<1>8. /\ Script[1] = H[1] /\ Script[2] = H[2] /\ Script[3] = H[3] /\ Script[4] = H[4] /\ Script[5] = H[5]
      /\ Script[6] = P[1] /\ Script[7] = P[2] /\ Script[8] = P[3] /\ Script[9] = P[4]
      /\ Script[10] = P[5] /\ Script[11] = P[6] /\ Script[12] = P[7] /\ Script[13] = P[8]
      /\ Script[14] = P[9] /\ Script[15] = P[10] /\ Script[16] = P[11] /\ Script[17] = P[12]
      /\ Script[18] = F[1] /\ Script[19] = F[2] /\ Script[20] = F[3]
  BY <1>7
<1>9. /\ H = MainHead /\ P = PremiumMember /\ F = FreeMember
  BY <1>3
<1>10. QED
  BY <1>5, <1>8, <1>9 DEF MainHead, PremiumMember, FreeMember

\* What the proofs need of a statement: what it does, for whom, and that the credits
\* are in one of their own.
Says(i, do, m) == Script[i].do = do /\ Script[i].member = m
NoCredits(i) == Script[i].rows \intersect {"gym_credit", "internet_credit"} = {}

LEMMA ScriptSays ==
  /\ Len(Script) = 20
  /\ Says(1, "upsert", "none") /\ NoCredits(1)
  /\ Says(2, "upsert", "none") /\ NoCredits(2)
  /\ Says(3, "upsert", "none") /\ NoCredits(3)
  /\ Says(4, "upsert", "none") /\ NoCredits(4)
  /\ Says(5, "delete", "none") /\ NoCredits(5)
  /\ Says(6, "user", "demo") /\ NoCredits(6)
  /\ Says(7, "each", "demo") /\ NoCredits(7)
  /\ Says(8, "each", "demo") /\ NoCredits(8)
  /\ Says(9, "once", "demo") /\ NoCredits(9)
  /\ Says(10, "once", "demo") /\ NoCredits(10)
  /\ Says(11, "once", "demo") /\ NoCredits(11)
  /\ Says(12, "once", "demo") /\ NoCredits(12)
  /\ Says(13, "once", "demo") /\ NoCredits(13)
  /\ Says(14, "once", "demo") /\ NoCredits(14)
  /\ Says(15, "once", "demo") /\ NoCredits(15)
  /\ Says(16, "once", "demo")
  /\ Says(17, "once", "demo") /\ NoCredits(17)
  /\ Says(18, "user", "free") /\ NoCredits(18)
  /\ Says(19, "once", "free") /\ NoCredits(19)
  /\ Says(20, "once", "free") /\ NoCredits(20)
  /\ Script[1].rows = {"streaming_plus"} /\ Script[2].rows = {"city_internet"}
  /\ Script[3].rows = {"agent"} /\ Script[4].rows = {"admin"}
  /\ Script[9].rows = {"gym_case"} /\ Script[13].rows = {"internet_case"}
<1>1. Says(1, "upsert", "none") /\ NoCredits(1) /\ Script[1].rows = {"streaming_plus"}
  <2>1. Script[1] = Upsert("streaming_plus")
    BY ScriptIs, Zenon
  <2>2. QED
    BY <2>1 DEF Says, NoCredits, Upsert
<1>2. Says(2, "upsert", "none") /\ NoCredits(2) /\ Script[2].rows = {"city_internet"}
  <2>1. Script[2] = Upsert("city_internet")
    BY ScriptIs, Zenon
  <2>2. QED
    BY <2>1 DEF Says, NoCredits, Upsert
<1>3. Says(3, "upsert", "none") /\ NoCredits(3) /\ Script[3].rows = {"agent"}
  <2>1. Script[3] = Upsert("agent")
    BY ScriptIs, Zenon
  <2>2. QED
    BY <2>1 DEF Says, NoCredits, Upsert
<1>4. Says(4, "upsert", "none") /\ NoCredits(4) /\ Script[4].rows = {"admin"}
  <2>1. Script[4] = Upsert("admin")
    BY ScriptIs, Zenon
  <2>2. QED
    BY <2>1 DEF Says, NoCredits, Upsert
<1>5. Says(5, "delete", "none") /\ NoCredits(5)
  <2>1. Script[5] = DeleteDemo
    BY ScriptIs, Zenon
  <2>2. QED
    BY <2>1 DEF Says, NoCredits, DeleteDemo
<1>6. Says(6, "user", "demo") /\ NoCredits(6)
  <2>1. Script[6] = User("demo", {"consents", "premium"})
    BY ScriptIs, Zenon
  <2>2. QED
    BY <2>1 DEF Says, NoCredits, User
<1>7. Says(7, "each", "demo") /\ NoCredits(7)
  <2>1. Script[7] = Each("demo", {"gym", "cloud", "daily_ledger"})
    BY ScriptIs, Zenon
  <2>2. QED
    BY <2>1 DEF Says, NoCredits, Each
<1>8. Says(8, "each", "demo") /\ NoCredits(8)
  <2>1. Script[8] = Each("demo", {"internet", "mobile", "power"})
    BY ScriptIs, Zenon
  <2>2. QED
    BY <2>1 DEF Says, NoCredits, Each
<1>9. Says(9, "once", "demo") /\ NoCredits(9) /\ Script[9].rows = {"gym_case"}
  <2>1. Script[9] = Once("demo", {"gym_case"})
    BY ScriptIs, Zenon
  <2>2. QED
    BY <2>1 DEF Says, NoCredits, Once
<1>10. Says(10, "once", "demo") /\ NoCredits(10)
  <2>1. Script[10] = Once("demo", {"gym_canceled"})
    BY ScriptIs, Zenon
  <2>2. QED
    BY <2>1 DEF Says, NoCredits, Once
<1>11. Says(11, "once", "demo") /\ NoCredits(11)
  <2>1. Script[11] = Once("demo", {"cloud_case"})
    BY ScriptIs, Zenon
  <2>2. QED
    BY <2>1 DEF Says, NoCredits, Once
<1>12. Says(12, "once", "demo") /\ NoCredits(12)
  <2>1. Script[12] = Once("demo", {"cloud_requested"})
    BY ScriptIs, Zenon
  <2>2. QED
    BY <2>1 DEF Says, NoCredits, Once
<1>13. Says(13, "once", "demo") /\ NoCredits(13) /\ Script[13].rows = {"internet_case"}
  <2>1. Script[13] = Once("demo", {"internet_case"})
    BY ScriptIs, Zenon
  <2>2. QED
    BY <2>1 DEF Says, NoCredits, Once
<1>14. Says(14, "once", "demo") /\ NoCredits(14)
  <2>1. Script[14] = Once("demo", {"internet_repriced"})
    BY ScriptIs, Zenon
  <2>2. QED
    BY <2>1 DEF Says, NoCredits, Once
<1>15. Says(15, "once", "demo") /\ NoCredits(15)
  <2>1. Script[15] = Once("demo", {"mobile_case"})
    BY ScriptIs, Zenon
  <2>2. QED
    BY <2>1 DEF Says, NoCredits, Once
<1>16. Says(16, "once", "demo")
  <2>1. Script[16] = Once("demo", {"gym_credit", "internet_credit", "manual_credit"})
    BY ScriptIs, Zenon
  <2>2. QED
    BY <2>1 DEF Says, NoCredits, Once
<1>17. Says(17, "once", "demo") /\ NoCredits(17)
  <2>1. Script[17] = Once("demo", {"price_alert", "bill_alert"})
    BY ScriptIs, Zenon
  <2>2. QED
    BY <2>1 DEF Says, NoCredits, Once
<1>18. Says(18, "user", "free") /\ NoCredits(18)
  <2>1. Script[18] = User("free", {"consents"})
    BY ScriptIs, Zenon
  <2>2. QED
    BY <2>1 DEF Says, NoCredits, User
<1>19. Says(19, "once", "free") /\ NoCredits(19)
  <2>1. Script[19] = Once("free", {"streaming", "music"})
    BY ScriptIs, Zenon
  <2>2. QED
    BY <2>1 DEF Says, NoCredits, Once
<1>20. Says(20, "once", "free") /\ NoCredits(20)
  <2>1. Script[20] = Once("free", {"internet"})
    BY ScriptIs, Zenon
  <2>2. QED
    BY <2>1 DEF Says, NoCredits, Once
<1>21. Len(Script) = 20
  BY ScriptIs, Zenon
<1>22. QED
  BY <1>1, <1>2, <1>3, <1>4, <1>5, <1>6, <1>7, <1>8, <1>9, <1>10, <1>11, <1>12, <1>13, <1>14, <1>15, <1>16, <1>17, <1>18, <1>19, <1>20, <1>21, Zenon

LEMMA ScriptAt ==
  ASSUME NEW i \in 1..20
  PROVE  /\ Script[i].do = (IF i <= 4 THEN "upsert" ELSE IF i = 5 THEN "delete"
                            ELSE IF i \in {6, 18} THEN "user" ELSE IF i \in {7, 8} THEN "each" ELSE "once")
         /\ Script[i].member = (IF i <= 5 THEN "none" ELSE IF i <= 17 THEN "demo" ELSE "free")
         /\ i # 16 => NoCredits(i)
<1>1. CASE i <= 5
  <2>1. i = 1 \/ i = 2 \/ i = 3 \/ i = 4 \/ i = 5
    BY <1>1
  <2>2. QED
    BY <2>1, ScriptSays DEF Says
<1>2. CASE 5 < i /\ i <= 12
  <2>1. i = 6 \/ i = 7 \/ i = 8 \/ i = 9 \/ i = 10 \/ i = 11 \/ i = 12
    BY <1>2
  <2>2. QED
    BY <2>1, ScriptSays DEF Says
<1>3. CASE 12 < i
  <2>1. i = 13 \/ i = 14 \/ i = 15 \/ i = 16 \/ i = 17 \/ i = 18 \/ i = 19 \/ i = 20
    BY <1>3
  <2>2. QED
    BY <2>1, ScriptSays DEF Says
<1>4. QED
  BY <1>1, <1>2, <1>3

--------------------------------------------------------------------------------
(* Seed: the invariant *)

SeedForm ==
  /\ at \in [Seeders -> 0..22] /\ DOMAIN left = Seeders
  /\ users \in [DemoMembers -> Seeders \union {0}]
  /\ \A r \in Seeders : at[r] \in 7..8 => left[r] \subseteq Script[at[r]].rows

\* A row belongs to the account that stands.
Stands(x) ==
  /\ x.member \in DemoMembers /\ users[x.member] # 0
  /\ x = [account |-> users[x.member], member |-> x.member, row |-> x.row]

\* A run that has come so far without an error has written all that comes before,
\* if the account is still its own; and from the first case on it is, because a
\* case in the table keeps every other run from deleting the members.
WrittenFor(r, m) ==
  /\ \A i \in 1..20 : i < at[r] /\ Script[i].member = m => Owned(r, m, Script[i].rows) \subseteq db
  /\ m = "demo" /\ at[r] \in 7..8 => Owned(r, m, Script[at[r]].rows \ left[r]) \subseteq db

HasWritten(r) ==
  at[r] \in 1..21 =>
    /\ \A m \in DemoMembers : users[m] = r => WrittenFor(r, m)
    /\ \A i \in 1..4 : i < at[r] => Script[i].rows \subseteq shared
    /\ at[r] >= 10 => users["demo"] = r
    /\ at[r] >= 19 => users["free"] = r

CreditsHaveCases ==
  \A x \in db : /\ x.row = "gym_credit" => \E y \in db : y.row = "gym_case"
                /\ x.row = "internet_credit" => \E y \in db : y.row = "internet_case"

SeedInv ==
  /\ SeedForm /\ CreditsHaveCases
  /\ \A x \in db : Stands(x)
  /\ \A r \in Seeders : HasWritten(r)

\* Rows come, and the accounts of a run stay what they are: it keeps what it has.
LEMMA RunsKeep ==
  ASSUME NEW r, HasWritten(r), at'[r] = at[r], left'[r] = left[r],
         db \subseteq db', shared \subseteq shared',
         \A m \in DemoMembers : users'[m] = r <=> users[m] = r
  PROVE  HasWritten(r)'
<1>1. ASSUME NEW m \in DemoMembers, at[r] \in 1..21, users'[m] = r PROVE WrittenFor(r, m)'
  BY <1>1 DEF HasWritten, WrittenFor
<1>2. QED
  BY <1>1 DEF HasWritten, DemoMembers

\* What a run must have done to go on to its next statement.
LEMMA GoesOn ==
  ASSUME SeedForm, NEW r \in Seeders, NEW i \in 0..20, i = at[r], HasWritten(r), MoveOn(r),
         db \subseteq db', shared \subseteq shared', i \in 1..4 => Script[i].rows \subseteq shared',
         \A m \in DemoMembers : users'[m] = r =>
           /\ users[m] = r \/ \A j \in 1..20 : j < i => Script[j].member # m
           /\ i \in 1..20 /\ Script[i].member = m => Owned(r, m, Script[i].rows) \subseteq db',
         i >= 9 => users'["demo"] = r, i >= 18 => users'["free"] = r
  PROVE  /\ at' \in [Seeders -> 0..22] /\ DOMAIN left' = Seeders
         /\ \A s \in Seeders : at'[s] \in 7..8 => left'[s] \subseteq Script[at'[s]].rows
         /\ \A s \in Seeders \ {r} : at'[s] = at[s] /\ left'[s] = left[s]
         /\ HasWritten(r)'
<1>1. Len(Script) = 20
  BY ScriptSays, Zenon
<1>2. /\ at' = [at EXCEPT ![r] = i + 1]
      /\ left' = [left EXCEPT ![r] = IF i < 20 THEN Script[i + 1].rows ELSE {}]
  BY <1>1 DEF MoveOn, SeedForm
<1>3. at'[r] = i + 1 /\ left'[r] = IF i < 20 THEN Script[i + 1].rows ELSE {}
  BY <1>2 DEF SeedForm
<1>4. \A s \in Seeders \ {r} : at'[s] = at[s] /\ left'[s] = left[s]
  BY <1>2 DEF SeedForm
<1>5. at' \in [Seeders -> 0..22] /\ DOMAIN left' = Seeders
  BY <1>2 DEF SeedForm
<1>6. ASSUME NEW s \in Seeders, at'[s] \in 7..8 PROVE left'[s] \subseteq Script[at'[s]].rows
  BY <1>3, <1>4, <1>6 DEF SeedForm
<1>7. ASSUME NEW m \in DemoMembers, users'[m] = r PROVE WrittenFor(r, m)'
  <2>1. ASSUME NEW j \in 1..20, j < at'[r], Script[j].member = m
        PROVE  Owned(r, m, Script[j].rows) \subseteq db'
    <3>1. CASE j = i
      BY <1>7, <2>1, <3>1
    <3>2. CASE j # i
      <4>1. j < i /\ i \in 1..21
        BY <1>3, <2>1, <3>2
      <4>2. users[m] = r
        BY <1>7, <2>1, <4>1
      <4>3. Owned(r, m, Script[j].rows) \subseteq db
        BY <2>1, <4>1, <4>2 DEF HasWritten, WrittenFor
      <4>4. QED
        BY <4>3
    <3>3. QED
      BY <3>1, <3>2
  <2>2. at'[r] \in 7..8 => Owned(r, m, Script[at'[r]].rows \ left'[r]) \subseteq db'
    <3>1. at'[r] \in 7..8 => Script[at'[r]].rows \ left'[r] = {}
      BY <1>3
    <3>2. QED
      BY <3>1 DEF Owned
  <2>3. QED
    BY <2>1, <2>2 DEF WrittenFor
<1>8. \A j \in 1..4 : j < at'[r] => Script[j].rows \subseteq shared'
  <2>1. ASSUME NEW j \in 1..4, j < at'[r] PROVE Script[j].rows \subseteq shared'
    <3>1. CASE j = i
      BY <3>1
    <3>2. CASE j # i
      BY <1>3, <2>1, <3>2 DEF HasWritten
    <3>3. QED
      BY <3>1, <3>2
  <2>2. QED
    BY <2>1
<1>9. (at'[r] >= 10 => users'["demo"] = r) /\ (at'[r] >= 19 => users'["free"] = r)
  BY <1>3
<1>10. HasWritten(r)'
  BY <1>7, <1>8, <1>9 DEF HasWritten
<1>11. QED
  BY <1>4, <1>5, <1>6, <1>10

--------------------------------------------------------------------------------
(* Seed: the steps *)

\* A run that fails promises nothing.
LEMMA FailKeeps ==
  ASSUME SeedInv, NEW r \in Seeders, Fail(r), UNCHANGED <<shared, users, db>>
  PROVE  SeedInv'
<1>1. Len(Script) = 20
  BY ScriptSays, Zenon
<1>2. SeedForm /\ CreditsHaveCases /\ (\A x \in db : Stands(x)) /\ (\A s \in Seeders : HasWritten(s))
  BY DEF SeedInv
<1>3. at' = [at EXCEPT ![r] = 22] /\ left' = [left EXCEPT ![r] = {}]
  BY <1>1 DEF Fail, Died
<1>4. SeedForm'
  BY <1>2, <1>3 DEF SeedForm
<1>5. CreditsHaveCases' /\ \A x \in db' : Stands(x)'
  BY <1>2 DEF CreditsHaveCases, Stands
<1>6. ASSUME NEW s \in Seeders PROVE HasWritten(s)'
  <2>1. CASE s = r
    BY <1>2, <1>3, <2>1 DEF HasWritten, SeedForm
  <2>2. CASE s # r
    <3>1. at'[s] = at[s] /\ left'[s] = left[s]
      BY <1>2, <1>3, <2>2 DEF SeedForm
    <3>2. HasWritten(s)
      BY <1>2
    <3>3. QED
      BY <3>1, <3>2, RunsKeep
  <2>3. QED
    BY <2>1, <2>2
<1>7. QED
  BY <1>4, <1>5, <1>6 DEF SeedInv

\* A statement that adds rows to an account of its run, and is followed by the next.
LEMMA Adds ==
  ASSUME SeedInv, NEW r \in Seeders, NEW i \in 1..20, i = at[r], NEW m, m = Script[i].member,
         m \in DemoMembers, users[m] = r, MoveOn(r), users' = users, shared' = shared,
         NEW rows, rows \subseteq Script[i].rows, db' = db \union Owned(r, m, rows),
         Owned(r, m, Script[i].rows) \subseteq db', i # 18
  PROVE  SeedInv'
<1>1. SeedForm /\ CreditsHaveCases /\ (\A x \in db : Stands(x)) /\ (\A s \in Seeders : HasWritten(s))
  BY DEF SeedInv
<1>2. r # 0 /\ HasWritten(r)
  BY <1>1, SeedAssumption
<1>3. (i >= 9 => users["demo"] = r) /\ (i >= 18 => users["free"] = r)
  <2>1. m = (IF i <= 5 THEN "none" ELSE IF i <= 17 THEN "demo" ELSE "free")
    BY ScriptAt
  <2>2. QED
    BY <1>2, <2>1 DEF HasWritten
<1>4. \A n \in DemoMembers : users'[n] = r =>
        /\ users[n] = r \/ \A j \in 1..20 : j < i => Script[j].member # n
        /\ i \in 1..20 /\ Script[i].member = n => Owned(r, n, Script[i].rows) \subseteq db'
  OBVIOUS
<1>5. /\ db \subseteq db' /\ shared \subseteq shared' /\ i \in 0..20
      /\ i \in 1..4 => Script[i].rows \subseteq shared'
  <2>1. i \in 1..4 => Script[i].rows \subseteq shared'
    BY ScriptAt DEF DemoMembers
  <2>2. QED
    BY <2>1
<1>6. /\ at' \in [Seeders -> 0..22] /\ DOMAIN left' = Seeders
      /\ \A s \in Seeders : at'[s] \in 7..8 => left'[s] \subseteq Script[at'[s]].rows
      /\ \A s \in Seeders \ {r} : at'[s] = at[s] /\ left'[s] = left[s]
      /\ HasWritten(r)'
  <2>1. (i >= 9 => users'["demo"] = r) /\ (i >= 18 => users'["free"] = r)
    BY <1>3
  <2>2. QED
    BY <1>1, <1>2, <1>4, <1>5, <2>1, GoesOn
<1>7. SeedForm'
  BY <1>1, <1>6 DEF SeedForm
<1>8. ASSUME NEW s \in Seeders PROVE HasWritten(s)'
  <2>1. CASE s = r
    BY <1>6, <2>1
  <2>2. CASE s # r
    <3>1. HasWritten(s) /\ at'[s] = at[s] /\ left'[s] = left[s]
      BY <1>1, <1>6, <2>2
    <3>2. QED
      BY <1>5, <3>1, RunsKeep
  <2>3. QED
    BY <2>1, <2>2
<1>9. ASSUME NEW x \in db' PROVE Stands(x)'
  <2>1. CASE x \in db
    BY <1>1, <2>1 DEF Stands
  <2>2. CASE x \in Owned(r, m, rows)
    BY <1>2, <2>2 DEF Stands, Owned
  <2>3. QED
    BY <2>1, <2>2
<1>10. CreditsHaveCases'
  <2>1. ASSUME NEW x \in Owned(r, m, rows), x.row \in {"gym_credit", "internet_credit"}
        PROVE  (\E y \in db : y.row = "gym_case") /\ (\E y \in db : y.row = "internet_case")
    <3>1. x.row \in Script[i].rows
      BY <2>1 DEF Owned
    <3>2. i = 16
      BY <2>1, <3>1, ScriptAt DEF NoCredits
    <3>3. /\ Script[9].member = "demo" /\ Script[13].member = "demo"
          /\ Script[9].rows = {"gym_case"} /\ Script[13].rows = {"internet_case"}
      BY ScriptSays DEF Says
    <3>4. WrittenFor(r, "demo")
      BY <1>2, <1>3, <3>2 DEF HasWritten, DemoMembers
    <3>5. /\ Owned(r, "demo", Script[9].rows) \subseteq db
          /\ Owned(r, "demo", Script[13].rows) \subseteq db
      <4>1. \A j \in 1..20 : j < i /\ Script[j].member = "demo" => Owned(r, "demo", Script[j].rows) \subseteq db
        BY <3>4 DEF WrittenFor
      <4>2. 9 \in 1..20 /\ 13 \in 1..20 /\ 9 < i /\ 13 < i
        BY <3>2
      <4>3. QED
        BY <3>3, <4>1, <4>2
    <3>6. /\ [account |-> r, member |-> "demo", row |-> "gym_case"] \in db
          /\ [account |-> r, member |-> "demo", row |-> "internet_case"] \in db
      BY <3>3, <3>5 DEF Owned
    <3>7. QED
      BY <3>6
  <2>2. QED
    BY <1>1, <2>1 DEF CreditsHaveCases
<1>11. QED
  BY <1>7, <1>8, <1>9, <1>10 DEF SeedInv

LEMMA StartsOk ==
  ASSUME SeedInv, NEW r \in Seeders, Start(r) PROVE SeedInv'
<1>1. SeedForm /\ CreditsHaveCases /\ (\A x \in db : Stands(x)) /\ (\A s \in Seeders : HasWritten(s))
  BY DEF SeedInv
<1>2. PICK i : i = at[r] /\ i = 0
  BY DEF Start
<1>3. MoveOn(r) /\ shared' = shared /\ users' = users /\ db' = db
  BY DEF Start
<1>4. /\ i \in 0..20 /\ db \subseteq db' /\ shared \subseteq shared' /\ (i \in 1..4 => Script[i].rows \subseteq shared')
      /\ (i >= 9 => users'["demo"] = r) /\ (i >= 18 => users'["free"] = r)
      /\ \A m \in DemoMembers : users'[m] = r =>
           /\ users[m] = r \/ \A j \in 1..20 : j < i => Script[j].member # m
           /\ i \in 1..20 /\ Script[i].member = m => Owned(r, m, Script[i].rows) \subseteq db'
  BY <1>2, <1>3
<1>5. /\ at' \in [Seeders -> 0..22] /\ DOMAIN left' = Seeders
      /\ \A s \in Seeders : at'[s] \in 7..8 => left'[s] \subseteq Script[at'[s]].rows
      /\ \A s \in Seeders \ {r} : at'[s] = at[s] /\ left'[s] = left[s]
      /\ HasWritten(r)'
  BY <1>1, <1>2, <1>3, <1>4, GoesOn
<1>6. SeedForm' /\ CreditsHaveCases' /\ \A x \in db' : Stands(x)'
  BY <1>1, <1>3, <1>5 DEF SeedForm, CreditsHaveCases, Stands
<1>7. ASSUME NEW s \in Seeders \ {r} PROVE HasWritten(s)'
  BY <1>1, <1>3, <1>5, RunsKeep
<1>8. QED
  BY <1>5, <1>6, <1>7 DEF SeedInv

LEMMA UpsertSharedOk ==
  ASSUME SeedInv, NEW r \in Seeders, UpsertShared(r) PROVE SeedInv'
<1>1. SeedForm /\ CreditsHaveCases /\ (\A x \in db : Stands(x)) /\ (\A s \in Seeders : HasWritten(s))
  BY DEF SeedInv
<1>2. PICK i \in 1..20 : i = at[r] /\ Script[i].do = "upsert"
  <2>1. Len(Script) = 20
    BY ScriptSays, Zenon
  <2>2. QED
    BY <2>1 DEF UpsertShared, Running, Statement
<1>3. i <= 4 /\ Script[i].member = "none"
  BY <1>2, ScriptAt
<1>4. MoveOn(r) /\ shared' = shared \union Script[i].rows /\ users' = users /\ db' = db
  BY <1>2 DEF UpsertShared, Statement
<1>5. /\ i \in 0..20 /\ db \subseteq db' /\ shared \subseteq shared' /\ (i \in 1..4 => Script[i].rows \subseteq shared')
      /\ (i >= 9 => users'["demo"] = r) /\ (i >= 18 => users'["free"] = r)
      /\ \A m \in DemoMembers : users'[m] = r =>
           /\ users[m] = r \/ \A j \in 1..20 : j < i => Script[j].member # m
           /\ i \in 1..20 /\ Script[i].member = m => Owned(r, m, Script[i].rows) \subseteq db'
  BY <1>3, <1>4 DEF DemoMembers
<1>6. /\ at' \in [Seeders -> 0..22] /\ DOMAIN left' = Seeders
      /\ \A s \in Seeders : at'[s] \in 7..8 => left'[s] \subseteq Script[at'[s]].rows
      /\ \A s \in Seeders \ {r} : at'[s] = at[s] /\ left'[s] = left[s]
      /\ HasWritten(r)'
  BY <1>1, <1>2, <1>4, <1>5, GoesOn
<1>7. SeedForm' /\ CreditsHaveCases' /\ \A x \in db' : Stands(x)'
  BY <1>1, <1>4, <1>6 DEF SeedForm, CreditsHaveCases, Stands
<1>8. ASSUME NEW s \in Seeders \ {r} PROVE HasWritten(s)'
  BY <1>1, <1>4, <1>5, <1>6, RunsKeep
<1>9. QED
  BY <1>6, <1>7, <1>8 DEF SeedInv

LEMMA DeleteMembersOk ==
  ASSUME SeedInv, NEW r \in Seeders, DeleteMembers(r) PROVE SeedInv'
<1>1. CASE HeldByCases
  BY <1>1, FailKeeps DEF DeleteMembers
<1>2. CASE ~HeldByCases
  <2>1. SeedForm /\ CreditsHaveCases /\ (\A x \in db : Stands(x)) /\ (\A s \in Seeders : HasWritten(s))
    BY DEF SeedInv
  <2>2. PICK i \in 1..20 : i = at[r] /\ Script[i].do = "delete"
    <3>1. Len(Script) = 20
      BY ScriptSays, Zenon
    <3>2. QED
      BY <3>1 DEF DeleteMembers, Running, Statement
  <2>3. i = 5 /\ Script[i].member = "none"
    BY <2>2, ScriptAt
  <2>4. MoveOn(r) /\ shared' = shared /\ users' = [m \in DemoMembers |-> 0] /\ db' = {}
    BY <1>2 DEF DeleteMembers
  <2>5. /\ Script[9].member = "demo" /\ Script[9].rows = {"gym_case"}
    BY ScriptSays DEF Says
  <2>6. \A s \in Seeders : s # 0
    BY SeedAssumption
  \* A run past its first case would hold the accounts.
  <2>7. ASSUME NEW s \in Seeders, at[s] \in 1..21 PROVE at[s] < 10
    <3>1. SUFFICES ASSUME at[s] >= 10 PROVE FALSE
      BY <2>7
    <3>2. WrittenFor(s, "demo")
      BY <2>1, <2>7, <3>1 DEF HasWritten, DemoMembers
    <3>3. Owned(s, "demo", Script[9].rows) \subseteq db
      <4>1. PICK j : j = 9
        OBVIOUS
      <4>2. j \in 1..20 /\ j < at[s]
        BY <2>7, <3>1, <4>1
      <4>3. Script[j].member = "demo"
        BY <2>5, <4>1
      <4>4. Owned(s, "demo", Script[j].rows) \subseteq db
        BY <3>2, <4>2, <4>3 DEF WrittenFor
      <4>5. QED
        BY <4>1, <4>4
    <3>4. [account |-> s, member |-> "demo", row |-> "gym_case"] \in db
      BY <2>5, <3>3 DEF Owned
    <3>5. QED
      BY <1>2, <3>4 DEF HeldByCases, Cases
  <2>8. Len(Script) = 20
    BY ScriptSays, Zenon
  <2>9. /\ at' = [at EXCEPT ![r] = 6] /\ left' = [left EXCEPT ![r] = Script[6].rows]
    <3>1. /\ at' = [at EXCEPT ![r] = i + 1]
          /\ left' = [left EXCEPT ![r] = IF i < 20 THEN Script[i + 1].rows ELSE {}]
      BY <2>1, <2>2, <2>4, <2>8 DEF MoveOn, SeedForm
    <3>2. i + 1 = 6 /\ i < 20
      BY <2>3
    <3>3. QED
      BY <3>1, <3>2
  <2>10. SeedForm'
    BY <2>1, <2>4, <2>9 DEF SeedForm
  <2>11. ASSUME NEW s \in Seeders PROVE HasWritten(s)'
    <3>1. \A m \in DemoMembers : users'[m] # s
      BY <2>4, <2>6
    <3>2. at'[s] \in 1..21 => at'[s] < 10
      <4>1. at'[s] = IF s = r THEN 6 ELSE at[s]
        BY <2>1, <2>9 DEF SeedForm
      <4>2. QED
        BY <2>7, <4>1
    <3>3. at'[s] \in 1..21 => \A j \in 1..4 : j < at'[s] => Script[j].rows \subseteq shared'
      <4>1. at'[s] = IF s = r THEN 6 ELSE at[s]
        BY <2>1, <2>9 DEF SeedForm
      <4>2. CASE s = r
        <5>1. \A j \in 1..4 : Script[j].rows \subseteq shared
          <6>1. at[r] = 5 /\ HasWritten(r)
            BY <2>1, <2>2, <2>3
          <6>2. \A j \in 1..4 : j < 5 => Script[j].rows \subseteq shared
            BY <6>1 DEF HasWritten
          <6>3. QED
            BY <6>2
        <5>2. QED
          BY <2>4, <5>1
      <4>3. CASE s # r
        BY <2>1, <2>4, <4>1, <4>3 DEF HasWritten
      <4>4. QED
        BY <4>2, <4>3
    <3>4. at' \in [Seeders -> 0..22]
      BY <2>10 DEF SeedForm
    <3>5. QED
      BY <3>1, <3>2, <3>3, <3>4 DEF HasWritten
  <2>12. CreditsHaveCases' /\ \A x \in db' : Stands(x)'
    BY <2>4 DEF CreditsHaveCases
  <2>13. QED
    BY <2>10, <2>11, <2>12 DEF SeedInv
<1>3. QED
  BY <1>1, <1>2

LEMMA CreateMemberOk ==
  ASSUME SeedInv, NEW r \in Seeders, CreateMember(r) PROVE SeedInv'
<1>1. SeedForm /\ CreditsHaveCases /\ (\A x \in db : Stands(x)) /\ (\A s \in Seeders : HasWritten(s))
  BY DEF SeedInv
<1>2. PICK i \in 1..20 : i = at[r] /\ Script[i].do = "user"
  <2>1. Len(Script) = 20
    BY ScriptSays, Zenon
  <2>2. QED
    BY <2>1 DEF CreateMember, Running, Statement
<1>3. PICK m, rows : m = Script[i].member /\ rows = Script[i].rows
  OBVIOUS
<1>4. i \in {6, 18} /\ m = (IF i = 6 THEN "demo" ELSE "free")
  BY <1>2, <1>3, ScriptAt
<1>5. CASE ~EmailIsFree(m)
  <2>1. Fail(r) /\ UNCHANGED <<shared, users, db>>
    BY <1>2, <1>3, <1>5 DEF CreateMember, Statement
  <2>2. QED
    BY <2>1, FailKeeps
<1>6. CASE EmailIsFree(m)
  <2>1. /\ MoveOn(r) /\ users' = [users EXCEPT ![m] = r] /\ shared' = shared
        /\ db' = db \union Owned(r, m, rows) /\ users[m] = 0
    BY <1>2, <1>3, <1>6 DEF CreateMember, Statement, EmailIsFree
  <2>2. m \in DemoMembers /\ r # 0
    BY <1>4, SeedAssumption DEF DemoMembers
  <2>3. /\ users'[m] = r /\ \A n \in DemoMembers \ {m} : users'[n] = users[n]
    BY <1>1, <2>1, <2>2 DEF SeedForm
  <2>4. i = 18 => users["demo"] = r
    <3>1. HasWritten(r)
      BY <1>1
    <3>2. at[r] = i /\ i \in 1..20
      BY <1>2
    <3>3. at[r] \in 1..21 /\ (i = 18 => at[r] >= 10)
      BY <3>2
    <3>4. QED
      BY <3>1, <3>3, Zenon DEF HasWritten
  <2>5. ASSUME NEW n \in DemoMembers, users'[n] = r
        PROVE  /\ users[n] = r \/ \A j \in 1..20 : j < i => Script[j].member # n
               /\ i \in 1..20 /\ Script[i].member = n => Owned(r, n, Script[i].rows) \subseteq db'
    <3>1. CASE n = m
      <4>1. \A j \in 1..20 : j < i => Script[j].member # m
        BY <1>4, ScriptAt
      <4>2. QED
        BY <1>3, <2>1, <3>1, <4>1
    <3>2. CASE n # m
      BY <1>3, <2>3, <2>5, <3>2
    <3>3. QED
      BY <3>1, <3>2
  <2>6. /\ i \in 0..20 /\ db \subseteq db' /\ shared \subseteq shared'
        /\ (i \in 1..4 => Script[i].rows \subseteq shared')
        /\ (i >= 9 => users'["demo"] = r) /\ (i >= 18 => users'["free"] = r)
    BY <1>4, <2>1, <2>3, <2>4 DEF DemoMembers
  <2>7. /\ at' \in [Seeders -> 0..22] /\ DOMAIN left' = Seeders
        /\ \A s \in Seeders : at'[s] \in 7..8 => left'[s] \subseteq Script[at'[s]].rows
        /\ \A s \in Seeders \ {r} : at'[s] = at[s] /\ left'[s] = left[s]
        /\ HasWritten(r)'
    BY <1>1, <1>2, <2>1, <2>5, <2>6, GoesOn, SMTT(30)
  <2>8. SeedForm'
    BY <1>1, <2>1, <2>7 DEF SeedForm
  <2>9. ASSUME NEW s \in Seeders \ {r} PROVE HasWritten(s)'
    <3>1. \A n \in DemoMembers : users'[n] = s <=> users[n] = s
      BY <2>1, <2>3, SeedAssumption
    <3>2. HasWritten(s) /\ at'[s] = at[s] /\ left'[s] = left[s]
      BY <1>1, <2>7
    <3>3. QED
      BY <2>6, <3>1, <3>2, RunsKeep
  <2>10. ASSUME NEW x \in db' PROVE Stands(x)'
    <3>1. CASE x \in db
      <4>1. Stands(x)
        BY <1>1, <3>1
      <4>2. x.member # m
        BY <2>1, <4>1 DEF Stands
      <4>3. QED
        BY <2>3, <4>1, <4>2 DEF Stands
    <3>2. CASE x \in Owned(r, m, rows)
      BY <2>2, <2>3, <3>2 DEF Stands, Owned
    <3>3. QED
      BY <2>1, <3>1, <3>2
  <2>11. CreditsHaveCases'
    <3>1. NoCredits(i)
      BY <1>4, ScriptAt
    <3>2. \A x \in Owned(r, m, rows) : x.row \notin {"gym_credit", "internet_credit"}
      BY <1>3, <3>1 DEF NoCredits, Owned
    <3>3. QED
      BY <1>1, <2>1, <3>2 DEF CreditsHaveCases
  <2>12. QED
    BY <2>7, <2>8, <2>9, <2>10, <2>11 DEF SeedInv
<1>7. QED
  BY <1>5, <1>6

LEMMA CreateOnceOk ==
  ASSUME SeedInv, NEW r \in Seeders, CreateOnce(r) PROVE SeedInv'
<1>1. SeedForm
  BY DEF SeedInv
<1>2. PICK i \in 1..20 : i = at[r] /\ Script[i].do = "once"
  <2>1. Len(Script) = 20
    BY ScriptSays, Zenon
  <2>2. QED
    BY <2>1 DEF CreateOnce, Running, Statement
<1>3. PICK m, rows : m = Script[i].member /\ rows = Script[i].rows
  OBVIOUS
<1>4. m \in DemoMembers /\ i # 18
  BY <1>2, <1>3, ScriptAt DEF DemoMembers
<1>5. CASE ~AccountStands(r)
  BY <1>5, FailKeeps DEF CreateOnce
<1>6. CASE AccountStands(r)
  <2>1. /\ MoveOn(r) /\ users' = users /\ shared' = shared /\ db' = db \union Owned(r, m, rows)
        /\ users[m] = r
    BY <1>2, <1>3, <1>6 DEF CreateOnce, Statement, AccountStands
  <2>2. rows \subseteq Script[i].rows /\ Owned(r, m, Script[i].rows) \subseteq db'
    BY <1>3, <2>1
  <2>3. QED
    BY <1>2, <1>3, <1>4, <2>1, <2>2, Adds
<1>7. QED
  BY <1>5, <1>6

LEMMA CreateEachOk ==
  ASSUME SeedInv, NEW r \in Seeders, CreateEach(r) PROVE SeedInv'
<1>1. SeedForm /\ CreditsHaveCases /\ (\A x \in db : Stands(x)) /\ (\A s \in Seeders : HasWritten(s))
  BY DEF SeedInv
<1>2. PICK i \in 1..20 : i = at[r] /\ Script[i].do = "each"
  <2>1. Len(Script) = 20
    BY ScriptSays, Zenon
  <2>2. QED
    BY <2>1 DEF CreateEach, Running, Statement
<1>3. PICK m : m = Script[i].member
  OBVIOUS
<1>4. i \in {7, 8} /\ m = "demo" /\ m \in DemoMembers /\ i \in 7..8 /\ i # 18
  BY <1>2, <1>3, ScriptAt DEF DemoMembers
<1>5. CASE ~AccountStands(r)
  BY <1>5, FailKeeps DEF CreateEach
<1>6. CASE AccountStands(r)
  <2>1. PICK row \in left[r] :
          /\ db' = db \union Owned(r, m, {row})
          /\ IF left[r] = {row} THEN MoveOn(r)
             ELSE left' = [left EXCEPT ![r] = left[r] \ {row}] /\ at' = at
    BY <1>2, <1>3, <1>6 DEF CreateEach, Statement
  <2>2. users' = users /\ shared' = shared /\ users[m] = r
    BY <1>2, <1>3, <1>6 DEF CreateEach, Statement, AccountStands
  <2>3. left[r] \subseteq Script[i].rows /\ row \in Script[i].rows
    BY <1>1, <1>2, <1>4, <2>1 DEF SeedForm
  <2>4. Owned(r, m, Script[i].rows \ left[r]) \subseteq db
    <3>1. WrittenFor(r, m)
      BY <1>1, <1>2, <1>4, <2>2 DEF HasWritten
    <3>2. QED
      BY <1>2, <1>4, <3>1 DEF WrittenFor
  <2>5. CASE left[r] = {row}
    <3>1. Owned(r, m, Script[i].rows) \subseteq db'
      BY <2>1, <2>4, <2>5 DEF Owned
    <3>2. PICK rows : rows = {row}
      OBVIOUS
    <3>3. rows \subseteq Script[i].rows /\ db' = db \union Owned(r, m, rows) /\ MoveOn(r)
      BY <2>1, <2>3, <2>5, <3>2
    <3>4. QED
      BY <1>2, <1>3, <1>4, <2>2, <3>1, <3>3, Adds
  <2>6. CASE left[r] # {row}
    <3>1. at' = at /\ left' = [left EXCEPT ![r] = left[r] \ {row}]
      BY <2>1, <2>6
    <3>2. /\ left'[r] = left[r] \ {row} /\ DOMAIN left' = Seeders
          /\ \A s \in Seeders \ {r} : left'[s] = left[s]
      BY <1>1, <3>1 DEF SeedForm
    <3>3. SeedForm'
      BY <1>1, <2>2, <3>1, <3>2 DEF SeedForm
    <3>4. db \subseteq db' /\ shared \subseteq shared'
      BY <2>1, <2>2
    <3>5. ASSUME NEW s \in Seeders \ {r} PROVE HasWritten(s)'
      BY <1>1, <2>2, <3>1, <3>2, <3>4, RunsKeep
    <3>6. HasWritten(r)'
      <4>1. Owned(r, m, Script[i].rows \ left'[r]) \subseteq db'
        BY <2>1, <2>4, <3>2 DEF Owned
      <4>2. ASSUME NEW n \in DemoMembers, users[n] = r PROVE WrittenFor(r, n)'
        <5>1. WrittenFor(r, n)
          <6>1. HasWritten(r) /\ at[r] \in 1..21
            BY <1>1, <1>2
          <6>2. \A k \in DemoMembers : users[k] = r => WrittenFor(r, k)
            BY <6>1, Zenon DEF HasWritten
          <6>3. QED
            BY <4>2, <6>2, Zenon
        <5>2. \A j \in 1..20 : j < at[r] /\ Script[j].member = n => Owned(r, n, Script[j].rows) \subseteq db'
          BY <3>4, <5>1 DEF WrittenFor
        <5>3. QED
          BY <1>2, <1>4, <3>1, <4>1, <5>2 DEF WrittenFor
      <4>3. HasWritten(r)
        BY <1>1
      <4>4. QED
        BY <2>2, <3>1, <4>2, <4>3 DEF HasWritten
    <3>7. ASSUME NEW x \in db' PROVE Stands(x)'
      <4>1. CASE x \in db
        BY <1>1, <2>2, <4>1 DEF Stands
      <4>2. CASE x \in Owned(r, m, {row})
        BY <1>4, <2>2, <4>2, SeedAssumption DEF Stands, Owned
      <4>3. QED
        BY <2>1, <4>1, <4>2
    <3>8. CreditsHaveCases'
      <4>1. NoCredits(i)
        BY <1>4, ScriptAt
      <4>2. \A x \in Owned(r, m, {row}) : x.row \notin {"gym_credit", "internet_credit"}
        BY <2>3, <4>1 DEF NoCredits, Owned
      <4>3. QED
        BY <1>1, <2>1, <4>2 DEF CreditsHaveCases
    <3>9. QED
      BY <3>3, <3>5, <3>6, <3>7, <3>8 DEF SeedInv
  <2>7. QED
    BY <2>5, <2>6
<1>7. QED
  BY <1>5, <1>6

LEMMA SeedStart == SeedInit => SeedInv
BY DEF SeedInit, SeedInv, SeedForm, CreditsHaveCases, HasWritten

LEMMA SeedSteps == SeedInv /\ [SeedNext]_seedVars => SeedInv'
<1> SUFFICES ASSUME SeedInv, [SeedNext]_seedVars PROVE SeedInv'
  OBVIOUS
<1>1. ASSUME NEW r \in Seeders, Start(r) PROVE SeedInv'
  BY <1>1, StartsOk
<1>2. ASSUME NEW r \in Seeders, UpsertShared(r) PROVE SeedInv'
  BY <1>2, UpsertSharedOk
<1>3. ASSUME NEW r \in Seeders, DeleteMembers(r) PROVE SeedInv'
  BY <1>3, DeleteMembersOk
<1>4. ASSUME NEW r \in Seeders, CreateMember(r) PROVE SeedInv'
  BY <1>4, CreateMemberOk
<1>5. ASSUME NEW r \in Seeders, CreateEach(r) PROVE SeedInv'
  BY <1>5, CreateEachOk
<1>6. ASSUME NEW r \in Seeders, CreateOnce(r) PROVE SeedInv'
  BY <1>6, CreateOnceOk
<1>7. ASSUME NEW r \in Seeders, SeederDies(r) PROVE SeedInv'
  BY <1>7, FailKeeps DEF SeederDies
<1>8. CASE UNCHANGED seedVars
  BY <1>8 DEF seedVars, SeedInv, SeedForm, Stands, CreditsHaveCases, HasWritten, WrittenFor
<1>9. QED
  BY <1>1, <1>2, <1>3, <1>4, <1>5, <1>6, <1>7, <1>8 DEF SeedNext

\* However many runs of the seed overlap, repeat and die: rows belong to accounts
\* that stand, credits have their cases, and a run that reported success left both
\* members complete for good (main of seed.ts).
THEOREM SeedHolds == SeedSpec => []SeedIsSound
<1>1. SeedInv => SeedIsSound
  <2> SUFFICES ASSUME SeedInv PROVE SeedIsSound
    OBVIOUS
  <2>1. SeedForm /\ CreditsHaveCases /\ (\A x \in db : Stands(x)) /\ (\A s \in Seeders : HasWritten(s))
    BY DEF SeedInv
  <2>2. \A x, y \in db : x.member = y.member /\ x.row = y.row => x = y
    BY <2>1 DEF Stands
  <2>3. \A x \in db : x.account = users[x.member]
    BY <2>1 DEF Stands
  <2>4. ASSUME NEW row \in DOMAIN Credited, \E x \in db : x.row = row
        PROVE  \E x \in db : x.row = Credited[row]
    BY <2>1, <2>4 DEF CreditsHaveCases, Credited
  <2>5. ASSUME NEW r \in Seeders, at[r] = Succeeded
        PROVE  /\ {s.rows : s \in {t \in ToSet(Script) : t.do = "upsert"}} \subseteq {{x} : x \in shared}
               /\ \A s \in {t \in ToSet(Script) : t.member \in DemoMembers} :
                    Owned(r, s.member, s.rows) \subseteq db
    <3>1. Len(Script) = 20
      BY ScriptSays, Zenon
    <3>2. at[r] = 21 /\ HasWritten(r)
      BY <2>1, <2>5, <3>1 DEF Succeeded
    <3>0. DOMAIN Script = 1..20
      BY ScriptIs, Zenon
    <3>3. \A s \in ToSet(Script) : \E i \in 1..20 : s = Script[i]
      BY <3>0 DEF ToSet
    <3>4. ASSUME NEW s \in ToSet(Script), s.do = "upsert" PROVE \E x \in shared : s.rows = {x}
      <4>1. PICK i \in 1..20 : s = Script[i]
        BY <3>3
      <4>2. i \in 1..4
        BY <3>4, <4>1, ScriptAt
      <4>3. PICK x : Script[i].rows = {x}
        <5>1. i = 1 \/ i = 2 \/ i = 3 \/ i = 4
          BY <4>2
        <5>2. QED
          BY <5>1, ScriptSays
      <4>4. Script[i].rows \subseteq shared
        BY <3>2, <4>2 DEF HasWritten
      <4>5. QED
        BY <4>1, <4>3, <4>4
    <3>5. ASSUME NEW s \in ToSet(Script), s.member \in DemoMembers
          PROVE  Owned(r, s.member, s.rows) \subseteq db
      <4>1. PICK i \in 1..20 : s = Script[i]
        BY <3>3
      <4>2. users[s.member] = r
        BY <3>2, <3>5 DEF HasWritten, DemoMembers
      <4>3. WrittenFor(r, s.member)
        BY <3>2, <3>5, <4>2 DEF HasWritten
      <4>4. QED
        BY <3>2, <4>1, <4>3 DEF WrittenFor
    <3>6. QED
      BY <3>4, <3>5
  <2>6. QED
    BY <2>2, <2>3, <2>4, <2>5 DEF SeedIsSound
<1>2. QED
  BY <1>1, SeedStart, SeedSteps, PTL DEF SeedSpec

--------------------------------------------------------------------------------
(* Widgets: dialogs *)

\* Each dialog is open once.
DialogsType ==
  /\ opened \in Seq(Dialogs)
  /\ \A i, j \in DOMAIN opened : opened[i] = opened[j] => i = j
  /\ borrowed = [d \in Dialogs |-> borrowed[d]]
  /\ crossed \in BOOLEAN

\* Each effect found the button that opens its dialog; the first one found the page
\* free, the others found it locked.
Stacked ==
  \A i \in DOMAIN opened :
    /\ borrowed[opened[i]].focus = On("button", opened[i])
    /\ borrowed[opened[i]].overflow = IF i = 1 THEN "visible" ELSE "hidden"

PageIsFree == overflow = "visible" /\ focus[1] \notin {"panel", "control"}

DialogInv ==
  /\ DialogsType
  /\ ~crossed => /\ Stacked
                 /\ opened = <<>> => PageIsFree
                 /\ opened # <<>> => overflow = "hidden"

LEMMA NoDialogOpen == WidgetsInit => DialogInv
<1> SUFFICES ASSUME WidgetsInit PROVE DialogInv
  OBVIOUS
<1>1. opened = <<>> /\ DOMAIN opened = {} /\ opened \in Seq(Dialogs)
  BY DEF WidgetsInit
<1>2. DialogsType /\ Stacked
  BY <1>1 DEF WidgetsInit, DialogsType, Stacked
<1>3. PageIsFree
  BY DEF WidgetsInit, PageIsFree, ThePage, On
<1>4. QED
  BY <1>1, <1>2, <1>3 DEF DialogInv

LEMMA OpeningStacks ==
  ASSUME DialogInv, NEW d \in Dialogs, OpenDialog(d) PROVE DialogInv'
<1> USE DEF DialogInv, DialogsType
<1>1. opened' = Append(opened, d) /\ opened' \in Seq(Dialogs) /\ opened' # <<>>
      /\ DOMAIN opened' = 1..Len(opened) + 1 /\ DOMAIN opened = 1..Len(opened)
      /\ Len(opened) \in Nat
  BY DEF OpenDialog
<1>2. /\ \A i \in DOMAIN opened : opened'[i] = opened[i] /\ opened'[i] # d
      /\ opened'[Len(opened) + 1] = d
  BY <1>1 DEF OpenDialog, IsOpen
<1>3. borrowed' = [borrowed EXCEPT ![d] = [overflow |-> overflow, focus |-> On("button", d)]]
      /\ overflow' = "hidden" /\ crossed' = crossed
  BY DEF OpenDialog, Lock
<1>4. /\ borrowed'[d].overflow = overflow /\ borrowed'[d].focus = On("button", d)
      /\ borrowed' = [e \in Dialogs |-> borrowed'[e]]
      /\ \A e \in Dialogs : e # d => borrowed'[e] = borrowed[e]
  BY <1>3
<1>5. \A i \in DOMAIN opened : opened[i] \in Dialogs /\ borrowed'[opened'[i]] = borrowed[opened[i]]
  BY <1>1, <1>2, <1>4
<1>6. \A i \in DOMAIN opened' : i \in DOMAIN opened \/ i = Len(opened) + 1
  BY <1>1
<1>7. DialogsType'
  <2>1. \A i, j \in DOMAIN opened' : opened'[i] = opened'[j] => i = j
    BY <1>1, <1>2, <1>6
  <2>2. QED
    BY <1>1, <1>3, <1>4, <2>1
<1>8. ASSUME ~crossed' PROVE Stacked'
  <2>1. Stacked /\ overflow = IF opened = <<>> THEN "visible" ELSE "hidden"
    BY <1>3, <1>8 DEF PageIsFree
  <2>2. opened = <<>> <=> Len(opened) + 1 = 1
    BY <1>1
  <2>3. ASSUME NEW i \in DOMAIN opened'
        PROVE /\ borrowed'[opened'[i]].focus = On("button", opened'[i])
              /\ borrowed'[opened'[i]].overflow = IF i = 1 THEN "visible" ELSE "hidden"
    <3>1. CASE i \in DOMAIN opened
      BY <3>1, <2>1, <1>2, <1>5 DEF Stacked
    <3>2. CASE i = Len(opened) + 1
      BY <3>2, <2>1, <2>2, <1>2, <1>4
    <3>3. QED
      BY <3>1, <3>2, <1>6
  <2>4. QED
    BY <2>3 DEF Stacked, On
<1>9. QED
  BY <1>1, <1>3, <1>7, <1>8

\* A render that reaches one dialog, or a key in it, moves the focus at most.
LEMMA OpenDialogsStay ==
  ASSUME DialogInv, NEW d \in Dialogs, Tab(d) PROVE DialogInv'
<1> USE DEF DialogInv, DialogsType
<1>1. opened' = opened /\ borrowed' = borrowed /\ crossed' = crossed
  BY DEF Tab
<1>2. opened # <<>> /\ overflow' = overflow
  BY DEF Tab, IsOpen
<1>3. DialogsType' /\ (Stacked => Stacked')
  BY <1>1 DEF Stacked, On
<1>4. QED
  BY <1>1, <1>2, <1>3

LEMMA RenderedDialogsStay ==
  ASSUME DialogInv, NEW reached \in SUBSET Dialogs, Rerender(reached) PROVE DialogInv'
<1> USE DEF DialogInv, DialogsType
<1>1. PICK first \in reached, last \in reached :
        /\ \A d \in reached : first <= d /\ d <= last
        /\ borrowed' = [d \in Dialogs |->
             CASE d \notin reached -> borrowed[d]
               [] d = first -> borrowed[last]
               [] OTHER -> [overflow |-> "hidden", focus |-> On("panel", PriorIn(d, reached))]]
        /\ crossed' = (crossed \/ first # last)
  BY DEF Rerender
<1>2. opened' = opened /\ overflow' = "hidden" /\ opened # <<>>
  BY <1>1 DEF Rerender, IsOpen
<1>3. DialogsType'
  BY <1>1, <1>2
<1>4. ASSUME ~crossed' PROVE ~crossed /\ borrowed' = borrowed
  <2>1. first = last /\ ~crossed
    BY <1>1, <1>4
  <2>2. \A d \in reached : d = first
    BY <1>1, <2>1, WidgetsAssumption
  <2>3. \A d \in Dialogs : borrowed'[d] = borrowed[d]
    BY <1>1, <2>1, <2>2
  <2>4. borrowed' = [d \in Dialogs |-> borrowed'[d]]
    BY <1>3
  <2>5. QED
    BY <2>1, <2>3, <2>4
<1>5. ~crossed' => Stacked'
  BY <1>2, <1>4 DEF Stacked, On
<1>6. QED
  BY <1>2, <1>3, <1>5

\* The dialog over all others gives back what it found.
LEMMA ClosingGivesBack ==
  ASSUME DialogInv, NEW d \in Dialogs, CloseDialog(d) PROVE DialogInv'
<1> USE DEF DialogInv, DialogsType
<1>1. PICK k \in DOMAIN opened : opened[k] = d /\ opened' = OpenedWithout(k)
  BY DEF CloseDialog
<1>2. Len(opened) \in Nat /\ DOMAIN opened = 1..Len(opened) /\ k \in 1..Len(opened)
      /\ \A i \in 1..Len(opened) : opened[i] \in Dialogs
  BY <1>1
<1>3. opened' = [i \in 1..Len(opened) - 1 |-> opened[IF i < k THEN i ELSE i + 1]]
  BY <1>1 DEF OpenedWithout
<1>4. opened' \in Seq(Dialogs) /\ Len(opened') = Len(opened) - 1
      /\ DOMAIN opened' = 1..Len(opened) - 1
  <2>1. \A i \in 1..Len(opened) - 1 : opened[IF i < k THEN i ELSE i + 1] \in Dialogs
    BY <1>2
  <2>2. QED
    BY <1>2, <1>3, <2>1
<1>5. ASSUME NEW i \in DOMAIN opened'
      PROVE  LET o == IF i < k THEN i ELSE i + 1
             IN o \in DOMAIN opened /\ opened'[i] = opened[o]
  BY <1>2, <1>3, <1>4
<1>6. borrowed' = borrowed /\ overflow' = borrowed[d].overflow /\ focus' = borrowed[d].focus
      /\ crossed' = (crossed \/ opened[Len(opened)] # d)
  BY <1>1 DEF CloseDialog, GiveBack
<1>7. DialogsType'
  <2>1. ASSUME NEW i \in DOMAIN opened', NEW j \in DOMAIN opened', opened'[i] = opened'[j]
        PROVE  i = j
    <3>1. (IF i < k THEN i ELSE i + 1) = (IF j < k THEN j ELSE j + 1)
      BY <1>5, <2>1
    <3>2. QED
      BY <1>2, <1>4, <3>1
  <2>2. QED
    BY <1>4, <1>6, <2>1
<1>8. ASSUME ~crossed'
      PROVE  /\ Stacked'
             /\ opened' = <<>> => PageIsFree'
             /\ opened' # <<>> => overflow' = "hidden"
  <2>1. Stacked /\ opened[Len(opened)] = d
    BY <1>6, <1>8
  <2>2. k = Len(opened)
    BY <1>1, <1>2, <2>1
  <2>3. \A i \in DOMAIN opened' : opened'[i] = opened[i] /\ i \in DOMAIN opened
    BY <1>2, <1>4, <1>5, <2>2
  <2>4. Stacked'
    BY <1>6, <2>1, <2>3 DEF Stacked, On
  <2>5. overflow' = IF k = 1 THEN "visible" ELSE "hidden"
    BY <1>1, <1>6, <2>1, <2>2 DEF Stacked
  <2>6. opened' = <<>> <=> k = 1
    BY <1>2, <1>4, <2>2
  <2>7. focus' = On("button", d)
    BY <1>1, <1>6, <2>1, <2>2 DEF Stacked
  <2>8. QED
    BY <2>4, <2>5, <2>6, <2>7 DEF PageIsFree, On
<1>9. QED
  BY <1>7, <1>8

LEMMA EscapeGivesBack == ASSUME DialogInv, Escape PROVE DialogInv'
<1> USE DEF DialogInv, DialogsType
<1>1. PICK d \in Dialogs : IsOpen(d) /\ GiveBack(d) /\ crossed' = (crossed \/ opened[1] # d)
  BY DEF Escape
<1>2. opened' = <<>> /\ opened # <<>> /\ borrowed' = borrowed /\ 1 \in DOMAIN opened
  BY DEF Escape
<1>3. PICK k \in DOMAIN opened : opened[k] = d
  BY <1>1 DEF IsOpen
<1>4. focus' = borrowed[d].focus /\ overflow' = borrowed[d].overflow
  BY <1>1, <1>3 DEF GiveBack
<1>5. DialogsType'
  <2>1. DOMAIN opened' = {} /\ opened' \in Seq(Dialogs) /\ crossed' \in BOOLEAN
    BY <1>1, <1>2
  <2>2. QED
    BY <1>2, <2>1
<1>6. ~crossed' => overflow' = "visible" /\ focus' = On("button", d) /\ Stacked'
  <2>1. DOMAIN opened' = {}
    BY <1>2
  <2>2. ~crossed' => Stacked /\ opened[1] = d
    BY <1>1, <1>2
  <2>3. QED
    BY <1>2, <1>4, <2>1, <2>2 DEF Stacked
<1>7. QED
  BY <1>2, <1>5, <1>6 DEF PageIsFree, On

LEMMA DialogStep ==
  ASSUME DialogInv, DialogNext \/ UNCHANGED dialogVars PROVE DialogInv'
<1>1. CASE DialogNext
  BY <1>1, OpeningStacks, OpenDialogsStay, RenderedDialogsStay, ClosingGivesBack, EscapeGivesBack
     DEF DialogNext
<1>2. CASE UNCHANGED dialogVars
  BY <1>2 DEF dialogVars, DialogInv, DialogsType, Stacked, PageIsFree, On
<1>3. QED
  BY <1>1, <1>2

--------------------------------------------------------------------------------
(* Widgets: toasts and themes *)

Themes == {"light", "dark", "system"}
Rendered(p) == theme[p] \notin {"closed", "painted"}

ThemeType ==
  /\ theme \in [Panes -> Themes \union {"closed", "painted"}]
  /\ unsynced \in [Panes -> Themes \union {"none"}]
  /\ preferred \in Themes \union {"none"}
  /\ dark = [p \in Panes |-> dark[p]]

\* Only what was rendered waits for a render; who has heard of the system's
\* preference applied the theme it has; and who was not parted from the stored theme
\* has it, or is about to.
TabFollows(p) ==
  /\ ~Rendered(p) => unsynced[p] = "none"
  /\ Rendered(p) /\ p \notin behind => dark[p] = Resolve(theme[p], systemDark)
  /\ Rendered(p) /\ p \notin parted =>
       IF unsynced[p] = "none" THEN theme[p] = ThemeOr(preferred, "system")
       ELSE unsynced[p] = preferred

ThemeInv == ThemeType /\ \A p \in Panes : TabFollows(p)

LEMMA NoTabOpen == WidgetsInit => ThemeInv
BY DEF WidgetsInit, ThemeInv, ThemeType, TabFollows, Rendered

LEMMA PaneStep ==
  ASSUME ThemeInv, NEW p \in Panes,
         Paint(p) \/ Hydrate(p) \/ SyncTheme(p) \/ SetTheme(p) \/ Follow(p)
  PROVE  ThemeInv'
<1> USE DEF ThemeInv, ThemeType, TabFollows, Rendered, Themes, Resolve, ThemeOr
<1>1. CASE Paint(p)
  BY <1>1 DEF Paint
<1>2. CASE Hydrate(p)
  BY <1>2 DEF Hydrate
<1>3. CASE SyncTheme(p)
  BY <1>3 DEF SyncTheme, ApplyTheme
<1>4. CASE SetTheme(p)
  <2>1. Cycle(theme[p]) \in Themes
    BY DEF Cycle
  <2>2. QED
    BY <1>4, <2>1 DEF SetTheme, ApplyTheme, Ready
<1>5. CASE Follow(p)
  BY <1>5 DEF Follow, ApplyTheme
<1>6. QED
  BY <1>1, <1>2, <1>3, <1>4, <1>5

LEMMA ThemeStep ==
  ASSUME ThemeInv, ThemeNext \/ UNCHANGED themeVars PROVE ThemeInv'
<1>1. CASE SystemChanges
  BY <1>1 DEF SystemChanges, ThemeInv, ThemeType, TabFollows, Rendered
<1>2. CASE UNCHANGED themeVars
  BY <1>2 DEF themeVars, ThemeInv, ThemeType, TabFollows, Rendered
<1>3. QED
  BY <1>1, <1>2, PaneStep DEF ThemeNext

LEMMA TimersHaveToasts ==
  ASSUME timers \subseteq toasts, ToastNext \/ UNCHANGED toastVars PROVE (timers \subseteq toasts)'
BY DEF ToastNext, RaiseToast, Dismiss, toastVars

WidgetsInv == DialogInv /\ ThemeInv /\ timers \subseteq toasts

LEMMA WidgetsKept == WidgetsInit /\ [][WidgetsNext]_widgetsVars => []WidgetsInv
<1>1. WidgetsInit => WidgetsInv
  BY NoDialogOpen, NoTabOpen DEF WidgetsInv, WidgetsInit
<1>2. ASSUME WidgetsInv, [WidgetsNext]_widgetsVars PROVE WidgetsInv'
  <2>1. /\ DialogNext \/ UNCHANGED dialogVars
        /\ ToastNext \/ UNCHANGED toastVars
        /\ ThemeNext \/ UNCHANGED themeVars
    BY <1>2 DEF WidgetsNext, widgetsVars, dialogVars, toastVars, themeVars
  <2>2. QED
    BY <1>2, <2>1, DialogStep, ThemeStep, TimersHaveToasts DEF WidgetsInv
<1>3. QED
  BY <1>1, <1>2, PTL

\* THEOREM. With any number of dialogs, toasts and tabs: dialogs closed in the order
\* opposite to their opening give the page and the focus back, however often each is
\* rendered, unless one render reached two of them; no timer outlives its toast; a tab
\* that has heard of every change shows its theme, the stored one unless another tab
\* chose it since.
THEOREM PageComesBack == WidgetsInit /\ [][WidgetsNext]_widgetsVars => []PageIsGivenBack
<1>1. WidgetsInv => PageIsGivenBack
  <2> SUFFICES ASSUME WidgetsInv PROVE PageIsGivenBack
    OBVIOUS
  <2>1. ~crossed => /\ overflow = "hidden" <=> opened # <<>>
                    /\ opened = <<>> => focus[1] \notin {"panel", "control"}
    BY DEF WidgetsInv, DialogInv, PageIsFree
  <2>2. ASSUME NEW p \in Panes, Ready(p), p \notin behind
        PROVE  /\ dark[p] = Resolve(theme[p], systemDark)
               /\ p \notin parted => theme[p] = ThemeOr(preferred, "system")
    BY <2>2 DEF WidgetsInv, ThemeInv, TabFollows, Ready, Rendered
  <2>3. QED
    BY <2>1, <2>2 DEF PageIsGivenBack, WidgetsInv
<1>2. QED
  BY <1>1, WidgetsKept, PTL

--------------------------------------------------------------------------------
(* Reclaimed: sums of the ledger *)

SavingsEvents == [day : Nat, kind : Kinds, amount : Nat, id : Nat]
LedgerSound(s) == s \in Seq(SavingsEvents) /\ \A i \in 1..Len(s) : s[i].id = i

\* What an event adds to a sum.
Counted(e, kinds, day) == IF e.kind \in kinds /\ e.day >= day THEN e.amount ELSE 0

IsSum(f, s, n, kinds, day) ==
  f = [i \in 0..n |-> IF i = 0 THEN 0
                      ELSE IF s[i].kind \in kinds /\ s[i].day >= day
                           THEN f[i - 1] + s[i].amount ELSE f[i - 1]]

\* The sums of all beginnings, one function.
AddsUp(f, s, n, kinds, day) ==
  /\ \A i \in 0..n : f[i] \in Nat
  /\ f[0] = 0
  /\ \A i \in 1..n : f[i] = f[i - 1] + Counted(s[i], kinds, day)

LEMMA CountedIsNat ==
  ASSUME NEW e \in SavingsEvents, NEW kinds, NEW day PROVE Counted(e, kinds, day) \in Nat
BY DEF SavingsEvents, Counted

LEMMA SumExists ==
  ASSUME NEW s, LedgerSound(s), NEW n \in 0..Len(s), NEW kinds, NEW day
  PROVE  \E f : IsSum(f, s, n, kinds, day)
<1>1. n \in Nat /\ \A i \in 1..n : s[i] \in SavingsEvents
  BY DEF LedgerSound
<1>2. PICK V, a, first : V = Nat /\ a = 0 /\ first = 0
  OBVIOUS
<1>3. PICK F : F = [i \in Nat |-> [v \in Nat |->
                     IF i \in 1..n THEN v + Counted(s[i], kinds, day) ELSE v]]
  OBVIOUS
<1>4. F \in [Nat -> [Nat -> Nat]]
  BY <1>1, <1>3, CountedIsNat
<1>5. PICK h \in [0..n -> Nat] : h[0] = 0 /\ \A i \in 1..n : h[i] = F[i][h[i - 1]]
  <2>1. first \in V /\ a \in Nat /\ a <= n
    BY <1>1, <1>2
  <2>5. F \in [Nat -> [V -> V]]
    BY <1>2, <1>4
  <2>2. \E h \in [a..n -> V] : Computes(h, first, F, a, n)
    BY <1>1, <2>1, <2>5, Recursion
  <2>3. 0 + 1 = 1
    OBVIOUS
  <2>4. QED
    BY <1>2, <2>2, <2>3 DEF Computes
<1>6. ASSUME NEW i \in 1..n PROVE h[i] = h[i - 1] + Counted(s[i], kinds, day)
  <2>1. i \in Nat /\ i - 1 \in 0..n
    BY <1>1
  <2>2. F[i] = [v \in Nat |-> v + Counted(s[i], kinds, day)]
    BY <1>3, <2>1
  <2>3. QED
    BY <1>5, <2>1, <2>2
<1>7. ASSUME NEW i \in 0..n
      PROVE  h[i] = IF i = 0 THEN 0
                    ELSE IF s[i].kind \in kinds /\ s[i].day >= day
                         THEN h[i - 1] + s[i].amount ELSE h[i - 1]
  <2>1. CASE i = 0
    BY <1>5, <2>1
  <2>2. CASE i # 0
    <3>1. i \in 1..n /\ i - 1 \in 0..n
      BY <1>1, <2>2
    <3>2. h[i - 1] + 0 = h[i - 1]
      BY <1>5, <3>1
    <3>3. QED
      BY <1>6, <2>2, <3>1, <3>2 DEF Counted
  <2>3. QED
    BY <2>1, <2>2
<1>8. h = [i \in 0..n |-> IF i = 0 THEN 0
                          ELSE IF s[i].kind \in kinds /\ s[i].day >= day
                               THEN h[i - 1] + s[i].amount ELSE h[i - 1]]
  BY <1>5, <1>7
<1>9. QED
  BY <1>8, Zenon DEF IsSum

LEMMA SumAddsUp ==
  ASSUME NEW s, LedgerSound(s), NEW n \in 0..Len(s), NEW kinds, NEW day, NEW f,
         IsSum(f, s, n, kinds, day)
  PROVE  AddsUp(f, s, n, kinds, day)
<1>1. n \in Nat /\ \A i \in 1..n : s[i] \in SavingsEvents
  BY DEF LedgerSound
<1>2. ASSUME NEW i \in 0..n
      PROVE  f[i] = IF i = 0 THEN 0
                    ELSE IF s[i].kind \in kinds /\ s[i].day >= day
                         THEN f[i - 1] + s[i].amount ELSE f[i - 1]
  BY Zenon DEF IsSum
<1>3. f[0] = 0
  BY <1>1, <1>2
<1>4. PICK S : S = {i \in 0..n : f[i] \in Nat}
  OBVIOUS
<1>5. ASSUME NEW i \in 1..n, f[i - 1] \in Nat
      PROVE  f[i] = f[i - 1] + Counted(s[i], kinds, day) /\ f[i] \in Nat
  <2>1. i \in 0..n /\ i # 0 /\ f[i - 1] + 0 = f[i - 1]
    BY <1>1, <1>5
  <2>2. f[i] = f[i - 1] + Counted(s[i], kinds, day)
    BY <1>2, <2>1 DEF Counted
  <2>3. Counted(s[i], kinds, day) \in Nat
    BY <1>1, CountedIsNat
  <2>4. QED
    BY <1>5, <2>2, <2>3
<1>6. \A i \in 0..n : i \in S
  <2>1. PICK a : a = 0
    OBVIOUS
  <2>2. a \in Nat /\ a \in S /\ a + 1 = 1
    BY <1>1, <1>3, <1>4, <2>1
  <2>3. \A i \in a + 1..n : i - 1 \in S => i \in S
    BY <1>1, <1>4, <1>5, <2>2
  <2>4. \A i \in a..n : i \in S
    BY <1>1, <2>2, <2>3, Climb
  <2>5. QED
    BY <2>1, <2>4
<1>7. \A i \in 1..n : f[i - 1] \in Nat
  <2>1. \A i \in 1..n : i - 1 \in 0..n
    BY <1>1
  <2>2. QED
    BY <1>4, <1>6, <2>1
<1>8. QED
  BY <1>3, <1>4, <1>5, <1>6, <1>7 DEF AddsUp

\* Ledgers that begin alike add up alike.
Alike(s, t, k) == \A i \in 1..k : s[i] = t[i]
LEMMA SumsAgree ==
  ASSUME NEW s, NEW t, NEW f, NEW g, NEW m \in Nat, NEW n \in Nat, NEW k \in Nat, k <= m, k <= n,
         NEW kinds, NEW day, AddsUp(f, s, m, kinds, day), AddsUp(g, t, n, kinds, day),
         Alike(s, t, k)
  PROVE  \A i \in 0..k : f[i] = g[i]
<1>1. PICK S, a : S = {i \in 0..k : f[i] = g[i]} /\ a = 0
  OBVIOUS
<1>2. a \in Nat /\ a \in S /\ a + 1 = 1
  BY <1>1 DEF AddsUp
<1>3. ASSUME NEW i \in 1..k, i - 1 \in S PROVE i \in S
  <2>1. i \in 1..m /\ i \in 1..n /\ i \in 0..k
    OBVIOUS
  <2>2. f[i] = f[i - 1] + Counted(s[i], kinds, day) /\ g[i] = g[i - 1] + Counted(t[i], kinds, day)
    BY <2>1 DEF AddsUp
  <2>3. QED
    BY <1>1, <1>3, <2>1, <2>2 DEF Alike
<1>4. \A i \in a..k : i \in S
  BY <1>2, <1>3, Climb
<1>5. QED
  BY <1>1, <1>4

\* The sum as the model defines it, for a ledger s.
Sum(s, n, kinds, day) == (CHOOSE f : IsSum(f, s, n, kinds, day))[n]

LEMMA SumIs ==
  ASSUME NEW s, LedgerSound(s), NEW n \in 0..Len(s), NEW kinds, NEW day
  PROVE  \E f : AddsUp(f, s, n, kinds, day) /\ Sum(s, n, kinds, day) = f[n]
<1>1. PICK f : f = CHOOSE g : IsSum(g, s, n, kinds, day)
  OBVIOUS
<1>2. IsSum(f, s, n, kinds, day)
  BY <1>1, SumExists
<1>3. AddsUp(f, s, n, kinds, day)
  BY <1>2, SumAddsUp
<1>4. QED
  BY <1>1, <1>3 DEF Sum

LEMMA SumKept ==
  ASSUME NEW s, NEW t, LedgerSound(s), LedgerSound(t), Len(s) <= Len(t),
         \A i \in 1..Len(s) : s[i] = t[i], NEW n \in 0..Len(s), NEW kinds, NEW day
  PROVE  Sum(s, n, kinds, day) = Sum(t, n, kinds, day)
<1>1. n \in 0..Len(t) /\ n \in Nat /\ \A i \in 1..n : s[i] = t[i]
  BY DEF LedgerSound
<1>2. PICK f : AddsUp(f, s, n, kinds, day) /\ Sum(s, n, kinds, day) = f[n]
  BY SumIs
<1>3. PICK g : AddsUp(g, t, n, kinds, day) /\ Sum(t, n, kinds, day) = g[n]
  BY <1>1, SumIs
<1>4. n <= n /\ Alike(s, t, n)
  BY <1>1 DEF Alike
<1>5. \A i \in 0..n : f[i] = g[i]
  BY <1>1, <1>2, <1>3, <1>4, SumsAgree
<1>6. QED
  BY <1>1, <1>2, <1>3, <1>5

\* Sums grow with the ledger.
LEMMA SumGrows ==
  ASSUME NEW s, LedgerSound(s), NEW n \in 0..Len(s), NEW m \in 0..n, NEW kinds, NEW day
  PROVE  /\ Sum(s, m, kinds, day) \in Nat /\ Sum(s, n, kinds, day) \in Nat
         /\ Sum(s, m, kinds, day) <= Sum(s, n, kinds, day)
<1>1. n \in Nat /\ m \in Nat /\ m \in 0..Len(s) /\ m <= n /\ m <= m
      /\ Alike(s, s, m) /\ \A i \in 1..n : s[i] \in SavingsEvents
  BY DEF LedgerSound, Alike
<1>2. PICK f : AddsUp(f, s, n, kinds, day) /\ Sum(s, n, kinds, day) = f[n]
  BY SumIs
<1>3. PICK g : AddsUp(g, s, m, kinds, day) /\ Sum(s, m, kinds, day) = g[m]
  BY <1>1, SumIs
<1>4. \A i \in 0..m : g[i] = f[i]
  BY <1>1, <1>2, <1>3, SumsAgree
<1>5. PICK S : S = {i \in m..n : f[m] <= f[i]}
  OBVIOUS
<1>6. m \in S
  BY <1>1, <1>2, <1>5 DEF AddsUp
<1>7. ASSUME NEW i \in m + 1..n, i - 1 \in S PROVE i \in S
  <2>1. i \in 1..n /\ i - 1 \in 0..n /\ i \in m..n /\ m \in 0..n
    BY <1>1
  <2>2. f[i] = f[i - 1] + Counted(s[i], kinds, day) /\ f[i - 1] \in Nat /\ f[m] \in Nat
    BY <1>2, <2>1 DEF AddsUp
  <2>3. Counted(s[i], kinds, day) \in Nat
    BY <1>1, <2>1, CountedIsNat
  <2>4. QED
    BY <1>5, <1>7, <2>1, <2>2, <2>3
<1>8. \A i \in m..n : i \in S
  BY <1>1, <1>6, <1>7, Climb
<1>9. f[m] <= f[n] /\ f[m] \in Nat /\ f[n] \in Nat /\ g[m] = f[m]
  BY <1>1, <1>2, <1>4, <1>5, <1>8 DEF AddsUp
<1>10. QED
  BY <1>2, <1>3, <1>9

\* The sums by kind make the whole, of which those since a day are a part.
LEMMA SumsCompose ==
  ASSUME NEW s, LedgerSound(s), NEW n \in 0..Len(s), NEW day \in Nat
  PROVE  /\ Sum(s, n, Kinds, 0) = Sum(s, n, {"subscription_canceled"}, 0)
                                    + Sum(s, n, {"manual_adjustment"}, 0)
         /\ Sum(s, n, Kinds, day) <= Sum(s, n, Kinds, 0)
<1>1. n \in Nat /\ \A i \in 1..n : s[i] \in SavingsEvents
  BY DEF LedgerSound
<1>2. PICK A, B : A = {"subscription_canceled"} /\ B = {"manual_adjustment"}
  OBVIOUS
<1>3. PICK f : AddsUp(f, s, n, Kinds, 0) /\ Sum(s, n, Kinds, 0) = f[n]
  BY SumIs
<1>4. PICK g : AddsUp(g, s, n, A, 0) /\ Sum(s, n, A, 0) = g[n]
  BY SumIs
<1>5. PICK h : AddsUp(h, s, n, B, 0) /\ Sum(s, n, B, 0) = h[n]
  BY SumIs
<1>6. PICK e : AddsUp(e, s, n, Kinds, day) /\ Sum(s, n, Kinds, day) = e[n]
  BY SumIs
<1>7. PICK S, a : S = {i \in 0..n : f[i] = g[i] + h[i] /\ e[i] <= f[i]} /\ a = 0
  OBVIOUS
<1>8. a \in Nat /\ a \in S /\ a + 1 = 1
  <2>1. f[0] = 0 /\ g[0] = 0 /\ h[0] = 0 /\ e[0] = 0 /\ 0 \in 0..n
    BY <1>1, <1>3, <1>4, <1>5, <1>6 DEF AddsUp
  <2>2. f[0] = g[0] + h[0] /\ e[0] <= f[0]
    BY <2>1
  <2>3. QED
    BY <1>7, <2>1, <2>2
<1>9. ASSUME NEW i \in 1..n, i - 1 \in S PROVE i \in S
  <2>1. i - 1 \in 0..n /\ i \in 0..n
    BY <1>1
  <2>2. /\ f[i] = f[i - 1] + Counted(s[i], Kinds, 0)
        /\ g[i] = g[i - 1] + Counted(s[i], A, 0)
        /\ h[i] = h[i - 1] + Counted(s[i], B, 0)
        /\ e[i] = e[i - 1] + Counted(s[i], Kinds, day)
        /\ f[i - 1] \in Nat /\ g[i - 1] \in Nat /\ h[i - 1] \in Nat /\ e[i - 1] \in Nat
    BY <1>3, <1>4, <1>5, <1>6, <2>1 DEF AddsUp
  <2>3. s[i] \in SavingsEvents
    BY <1>1
  <2>4. /\ Counted(s[i], Kinds, 0) = Counted(s[i], A, 0) + Counted(s[i], B, 0)
        /\ Counted(s[i], Kinds, day) <= Counted(s[i], Kinds, 0)
        /\ Counted(s[i], Kinds, 0) \in Nat /\ Counted(s[i], A, 0) \in Nat
        /\ Counted(s[i], B, 0) \in Nat /\ Counted(s[i], Kinds, day) \in Nat
    BY <1>2, <2>3 DEF SavingsEvents, Counted, Kinds
  <2>5. f[i - 1] = g[i - 1] + h[i - 1] /\ e[i - 1] <= f[i - 1]
    BY <1>7, <1>9
  <2>6. f[i] = g[i] + h[i] /\ e[i] <= f[i]
    <3>1. PICK fp, gp, hp, ep : fp = f[i - 1] /\ gp = g[i - 1] /\ hp = h[i - 1] /\ ep = e[i - 1]
      OBVIOUS
    <3>2. PICK cf, cg, ch, ce : /\ cf = Counted(s[i], Kinds, 0) /\ cg = Counted(s[i], A, 0)
                                /\ ch = Counted(s[i], B, 0) /\ ce = Counted(s[i], Kinds, day)
      OBVIOUS
    <3>3. /\ fp \in Nat /\ gp \in Nat /\ hp \in Nat /\ ep \in Nat
          /\ fp = gp + hp /\ ep <= fp
      BY <2>2, <2>5, <3>1
    <3>4. /\ cf \in Nat /\ cg \in Nat /\ ch \in Nat /\ ce \in Nat
          /\ cf = cg + ch /\ ce <= cf
      BY <2>4, <3>2
    <3>5. f[i] = fp + cf /\ g[i] = gp + cg /\ h[i] = hp + ch /\ e[i] = ep + ce
      BY <2>2, <3>1, <3>2
    <3>6. QED
      BY <3>3, <3>4, <3>5
  <2>7. QED
    BY <1>7, <2>1, <2>6
<1>10. \A i \in a..n : i \in S
  BY <1>1, <1>8, <1>9, Climb
<1>11. f[n] = g[n] + h[n] /\ e[n] <= f[n]
  BY <1>1, <1>7, <1>10
<1>12. QED
  BY <1>2, <1>3, <1>4, <1>5, <1>6, <1>11

--------------------------------------------------------------------------------
(* Reclaimed: the list *)

\* The position of an event in the list, from 0.
NewerIn(s, i) == {j \in 1..Len(s) : Newer(s[j], s[i])}
Place(s, i) == Cardinality(NewerIn(s, i))

LEMMA EventIs ==
  ASSUME NEW s, LedgerSound(s), NEW i \in 1..Len(s)
  PROVE  s[i] \in SavingsEvents /\ s[i].day \in Nat /\ s[i].id = i /\ i \in Nat
<1>1. s[i] \in SavingsEvents /\ s[i].id = i /\ i \in Nat
  BY DEF LedgerSound
<1>2. QED
  BY <1>1 DEF SavingsEvents

LEMMA PlaceBounds ==
  ASSUME NEW s, LedgerSound(s), NEW i \in 1..Len(s)
  PROVE  /\ IsFiniteSet(NewerIn(s, i)) /\ Place(s, i) \in Nat /\ Place(s, i) < Len(s)
<1>1. PICK n : n = Len(s) /\ n \in Nat
  BY DEF LedgerSound
<1>2. IsFiniteSet(1..n) /\ Cardinality(1..n) = n
  <2>1. PICK one : one = 1 /\ one \in Int /\ n \in Int
    BY <1>1
  <2>2. IsFiniteSet(one..n) /\ Cardinality(one..n) = IF one > n THEN 0 ELSE n - one + 1
    BY <2>1, FS_Interval
  <2>3. (IF one > n THEN 0 ELSE n - one + 1) = n
    BY <1>1, <2>1
  <2>4. QED
    BY <2>1, <2>2, <2>3
<1>3. NewerIn(s, i) \in SUBSET (1..n) /\ i \notin NewerIn(s, i)
  <2>1. ~Newer(s[i], s[i])
    BY EventIs DEF Newer
  <2>2. QED
    BY <1>1, <2>1 DEF NewerIn
<1>4. IsFiniteSet(NewerIn(s, i)) /\ Place(s, i) <= n
      /\ (Cardinality(1..n) = Place(s, i) => 1..n = NewerIn(s, i))
  BY <1>2, <1>3, FS_Subset DEF Place
<1>5. Place(s, i) \in Nat
  BY <1>4, FS_CardinalityType DEF Place
<1>6. QED
  BY <1>1, <1>2, <1>3, <1>4, <1>5

\* No two events have one place.
LEMMA PlacesDiffer ==
  ASSUME NEW s, LedgerSound(s), NEW i \in 1..Len(s), NEW j \in 1..Len(s),
         Place(s, i) = Place(s, j)
  PROVE  i = j
<1> SUFFICES ASSUME NEW k \in 1..Len(s), NEW l \in 1..Len(s), k # l,
                    Newer(s[k], s[l]), Place(s, k) = Place(s, l)
             PROVE  FALSE
  <2>1. /\ s[i].day \in Nat /\ s[j].day \in Nat /\ s[i].id = i /\ s[j].id = j
        /\ i \in Nat /\ j \in Nat
    BY EventIs
  <2>2. i # j => Newer(s[i], s[j]) \/ Newer(s[j], s[i])
    BY <2>1 DEF Newer
  <2>3. QED
    BY <2>2
<1>1. ASSUME NEW m \in 1..Len(s), Newer(s[m], s[k]) PROVE Newer(s[m], s[l])
  <2>1. /\ s[k].day \in Nat /\ s[l].day \in Nat /\ s[m].day \in Nat
        /\ s[k].id \in Nat /\ s[l].id \in Nat /\ s[m].id \in Nat
    BY EventIs
  <2>2. QED
    BY <1>1, <2>1, SMTT(60) DEF Newer
<1>2. NewerIn(s, k) \in SUBSET NewerIn(s, l) /\ k \in NewerIn(s, l)
  BY <1>1 DEF NewerIn
<1>3. k \notin NewerIn(s, k)
  <2>1. ~Newer(s[k], s[k])
    BY EventIs DEF Newer
  <2>2. QED
    BY <2>1 DEF NewerIn
<1>4. IsFiniteSet(NewerIn(s, l))
  BY PlaceBounds
<1>5. NewerIn(s, k) = NewerIn(s, l)
  BY <1>2, <1>4, FS_Subset DEF Place
<1>6. QED
  BY <1>2, <1>3, <1>5

\* An event more moves others back, if at all.
LEMMA PlacesGrow ==
  ASSUME NEW s, NEW t, LedgerSound(s), LedgerSound(t), Len(s) <= Len(t),
         \A i \in 1..Len(s) : s[i] = t[i], NEW i \in 1..Len(s)
  PROVE  Place(s, i) <= Place(t, i)
<1>1. Len(s) \in Nat /\ Len(t) \in Nat /\ i \in 1..Len(t) /\ 1..Len(s) \subseteq 1..Len(t)
  BY DEF LedgerSound
<1>2. NewerIn(s, i) \in SUBSET NewerIn(t, i)
  BY <1>1 DEF NewerIn
<1>3. IsFiniteSet(NewerIn(t, i))
  BY <1>1, PlaceBounds
<1>4. QED
  BY <1>2, <1>3, FS_Subset DEF Place

\* And the list has it there.
LEMMA ListedAtPlace ==
  ASSUME LedgerSound(ledger), NEW i \in 1..Len(ledger)
  PROVE  NewestFirst[Place(ledger, i) + 1] = ledger[i]
<1>1. PICK n, k : n = Len(ledger) /\ n \in Nat /\ DOMAIN ledger = 1..n /\ k = Place(ledger, i) + 1
  BY DEF LedgerSound
<1>2. k \in 1..n /\ k - 1 = Place(ledger, i)
  BY <1>1, PlaceBounds
<1>3. \A j \in 1..n : NewerThan(j) = NewerIn(ledger, j)
  BY <1>1 DEF NewerThan, NewerIn
<1>4. PICK c : c = CHOOSE j \in DOMAIN ledger : Cardinality(NewerThan(j)) = k - 1
  OBVIOUS
<1>5. c \in 1..n /\ Place(ledger, c) = k - 1
  BY <1>1, <1>2, <1>3, <1>4 DEF Place
<1>6. c = i
  BY <1>1, <1>2, <1>5, PlacesDiffer
<1>7. NewestFirst[k] = ledger[c]
  BY <1>1, <1>2, <1>4 DEF NewestFirst
<1>8. QED
  BY <1>1, <1>6, <1>7

\* How many rows the pages before a page have.
Skip(p) == (p - 1) * ListSize

LEMMA SkipIs ==
  /\ Skip(1) = 0
  /\ \A p \in Nat : Skip(p + 1) = Skip(p) + ListSize /\ (p > 0 => Skip(p) \in Nat)
<1>1. Skip(1) = 0
  BY ReclaimedAssumption DEF Skip
<1>2. ASSUME NEW p \in Nat PROVE Skip(p + 1) = Skip(p) + ListSize /\ (p > 0 => Skip(p) \in Nat)
  <2>1. PICK L \in Nat, q \in Int : L = ListSize /\ q = p - 1
    BY ReclaimedAssumption
  <2>2. (q + 1) * L = q * L + L /\ (q >= 0 => q * L \in Nat)
    BY <2>1
  <2>3. p + 1 - 1 = q + 1
    BY <2>1
  <2>4. QED
    BY <2>1, <2>2, <2>3 DEF Skip
<1>3. QED
  BY <1>1, <1>2

\* A reader stops where the list ends.
LEMMA LastPage ==
  ASSUME NEW p \in Nat \ {0}, Len(ledger) \in Nat
  PROVE  p < TotalPages <=> Skip(p + 1) < Len(ledger)
<1>1. PICK L \in Nat \ {0}, n \in Nat : L = ListSize /\ n = Len(ledger)
  BY ReclaimedAssumption
<1>7. PICK q : q = (n + L - 1) \div L
  OBVIOUS
<1>2. q \in Nat /\ q * L <= n + L - 1 /\ n + L - 1 < q * L + L
  <2>1. PICK m \in Nat : m = n + L - 1
    OBVIOUS
  <2>2. q = m \div L
    BY <1>7, <2>1
  <2>3. q \in Int /\ L * q <= m /\ m < L * q + L
    BY <2>2
  <2>4. L * q = q * L
    BY <2>3
  <2>5. q * L <= m /\ m < q * L + L
    BY <2>3, <2>4
  <2>6. q >= 0
    <3>1. q < 0 => q * L + L <= 0
      BY <2>3
    <3>2. QED
      BY <2>3, <2>5, <3>1
  <2>7. QED
    BY <2>1, <2>3, <2>5, <2>6
<1>3. p < TotalPages <=> p < q
  <2>1. TotalPages = Max({1, q})
    BY <1>1, <1>7 DEF TotalPages
  <2>2. PICK x : x = Max({1, q})
    OBVIOUS
  <2>3. x \in {1, q} /\ x >= 1 /\ x >= q
    <3>1. \E y \in {1, q} : \A z \in {1, q} : y >= z
      BY <1>2
    <3>2. QED
      BY <2>2, <3>1 DEF Max
  <2>4. QED
    BY <1>2, <2>1, <2>2, <2>3
<1>4. p < q <=> p * L < n
  <2>1. p < q => p * L <= q * L - L
    BY <1>2
  <2>2. ~(p < q) => q * L <= p * L
    BY <1>2
  <2>3. p * L \in Int /\ q * L \in Int
    BY <1>2
  <2>4. QED
    BY <1>2, <2>1, <2>2, <2>3
<1>5. Skip(p + 1) = p * L
  BY <1>1 DEF Skip
<1>6. QED
  BY <1>1, <1>3, <1>4, <1>5

--------------------------------------------------------------------------------
(* Reclaimed: the invariant *)

\* Each read saw the ledger at one moment since the summary was asked for.
SummarySound ==
  /\ summary = [from |-> summary.from, reads |-> summary.reads, asked |-> summary.asked]
  /\ summary.from \in 0..Len(ledger)
  /\ summary.reads = [r \in DOMAIN summary.reads |-> summary.reads[r]]
  /\ \A r \in DOMAIN summary.reads :
       r \in Reads /\ \E n \in summary.from..Len(ledger) : summary.reads[r] = Answer(r, n)

IsList(s) == \E S : s \in Seq(S)
Lists(s, i) == \E j \in 1..Len(s) : s[j].id = i

\* An event that was there has been listed if its place is before the page, or is in
\* the page that was fetched: places only move back, where the list is still to come.
Reached(i) ==
  /\ page > 0 /\ Place(ledger, i) < Skip(page) => Lists(listed, i)
  /\ page > 0 /\ fetched # NothingYet /\ Place(ledger, i) < Skip(page + 1) =>
       Lists(listed, i) \/ Lists(fetched, i)
  /\ page = 0 => Lists(listed, i)

\* If nothing was recorded meanwhile, pages are full up to the last.
Exact ==
  /\ page > 0 => Len(listed) = Skip(page) /\ Skip(page) <= Len(ledger)
  /\ page > 0 /\ fetched # NothingYet =>
       Len(listed) + Len(fetched) =
         IF Skip(page + 1) < Len(ledger) THEN Skip(page + 1) ELSE Len(ledger)
  /\ page = 0 => Len(listed) = begun

ListSound ==
  /\ IsList(listed) /\ IsList(fetched) /\ page \in Nat /\ begun \in 0..Len(ledger)
  /\ page = 0 => fetched = NothingYet
  /\ \A i \in 1..begun : Reached(i)
  /\ begun = Len(ledger) => Exact

ReclaimedInv == LedgerSound(ledger) /\ SummarySound /\ ListSound

LEMMA NothingReclaimed == ReclaimedInit => ReclaimedInv
<1> SUFFICES ASSUME ReclaimedInit PROVE ReclaimedInv
  OBVIOUS
<1>1. ledger = <<>> /\ Len(ledger) = 0 /\ listed = <<>> /\ page = 0 /\ begun = 0
      /\ fetched = NothingYet
  BY DEF ReclaimedInit
<1>2. LedgerSound(ledger)
  BY <1>1 DEF LedgerSound
<1>3. SummarySound
  BY <1>1 DEF ReclaimedInit, NoSummary, SummarySound
<1>4. IsList(listed) /\ IsList(fetched)
  <2>1. listed \in Seq({}) /\ fetched \in Seq({[id |-> 0]})
    BY <1>1 DEF NothingYet
  <2>2. QED
    BY <2>1, Zenon DEF IsList
<1>5. Exact
  BY <1>1 DEF Exact
<1>6. \A i \in 1..begun : Reached(i)
  BY <1>1
<1>7. QED
  BY <1>1, <1>2, <1>3, <1>4, <1>5, <1>6 DEF ReclaimedInv, ListSound

\* What was answered of a ledger is still so when it has grown.
LEMMA AnswersStay ==
  ASSUME LedgerSound(ledger), LedgerSound(ledger'), Len(ledger) <= Len(ledger'),
         \A i \in 1..Len(ledger) : ledger[i] = ledger'[i], NEW n \in 0..Len(ledger), NEW r
  PROVE  Answer(r, n)' = Answer(r, n)
<1>1. \A kinds, day : SumOf(n, kinds, day) = Sum(ledger, n, kinds, day)
  BY DEF SumOf, Sum, IsSum
<1>2. \A kinds, day : SumOf(n, kinds, day)' = Sum(ledger', n, kinds, day)
  BY DEF SumOf, Sum, IsSum
<1>3. \A kinds, day : Sum(ledger, n, kinds, day) = Sum(ledger', n, kinds, day)
  BY SumKept
<1>4. \A kinds, day : SumOf(n, kinds, day)' = SumOf(n, kinds, day)
  BY <1>1, <1>2, <1>3
<1>5. ByKind(n)' = ByKind(n) /\ ThisMonth(n)' = ThisMonth(n)
  BY <1>4 DEF ByKind, ThisMonth
<1>6. QED
  BY <1>5 DEF Answer

LEMMA LedgerStays ==
  ASSUME LedgerSound(ledger), SummarySound, ledger' = ledger, summary' = summary
  PROVE  LedgerSound(ledger)' /\ SummarySound'
<1>1. \A r, n : Answer(r, n)' = Answer(r, n)
  BY DEF Answer, ByKind, ThisMonth, SumOf
<1>2. LedgerSound(ledger)'
  BY DEF LedgerSound
<1>3. SummarySound'
  BY <1>1 DEF SummarySound
<1>4. QED
  BY <1>2, <1>3

LEMMA ListStays ==
  ASSUME ListSound, UNCHANGED <<ledger, page, fetched, listed, begun>> PROVE ListSound'
BY DEF ListSound, Reached, Exact, Lists, IsList, Skip

LEMMA SkipSteps ==
  ASSUME NEW p \in Nat, p > 0
  PROVE  Skip(p) \in Nat /\ Skip(p + 1) \in Nat /\ Skip(p + 1) = Skip(p) + ListSize
<1>1. Skip(p) \in Nat /\ Skip(p + 1) = Skip(p) + ListSize /\ ListSize \in Nat
  BY SkipIs, ReclaimedAssumption
<1>2. QED
  BY <1>1

LEMMA RecordOk == ASSUME ReclaimedInv, RecordEvent PROVE ReclaimedInv'
<1>1. PICK e, n : /\ e \in SavingsEvents /\ e.id = n + 1 /\ n = Len(ledger)
                  /\ ledger' = Append(ledger, e)
  <2>1. PICK day \in Days, kind \in Kinds, amount \in SavedAmounts :
          ledger' = Append(ledger, [day |-> day, kind |-> kind, amount |-> amount,
                                    id |-> Len(ledger) + 1])
    BY DEF RecordEvent
  <2>2. PICK e : e = [day |-> day, kind |-> kind, amount |-> amount, id |-> Len(ledger) + 1]
    OBVIOUS
  <2>3. Len(ledger) \in Nat
    BY DEF ReclaimedInv, LedgerSound
  <2>4. e \in SavingsEvents /\ e.id = Len(ledger) + 1
    BY <2>1, <2>2, <2>3, ReclaimedAssumption DEF SavingsEvents
  <2>5. QED
    BY <2>1, <2>2, <2>4
<1>2. /\ ledger' \in Seq(SavingsEvents) /\ Len(ledger') = n + 1 /\ n \in Nat
      /\ \A i \in 1..n : ledger'[i] = ledger[i]
      /\ ledger'[n + 1] = e
  BY <1>1 DEF ReclaimedInv, LedgerSound
<1>3. LedgerSound(ledger) /\ LedgerSound(ledger')
  <2>1. \A i \in 1..n + 1 : i \in 1..n \/ i = n + 1
    BY <1>2
  <2>2. \A i \in 1..n : ledger[i].id = i
    BY <1>1 DEF ReclaimedInv, LedgerSound
  <2>3. \A i \in 1..n + 1 : ledger'[i].id = i
    BY <1>1, <1>2, <2>1, <2>2
  <2>4. QED
    BY <1>2, <2>3 DEF ReclaimedInv, LedgerSound
<1>4. /\ Len(ledger) <= Len(ledger') /\ Len(ledger') # begun
      /\ \A i \in 1..Len(ledger) : ledger[i] = ledger'[i]
      /\ begun \in 0..n
  BY <1>1, <1>2 DEF ReclaimedInv, ListSound
<1>5. UNCHANGED <<summary, page, fetched, listed, begun>>
  BY DEF RecordEvent
<1>6. SummarySound'
  <2>1. ASSUME NEW r \in DOMAIN summary.reads
        PROVE  r \in Reads /\ \E m \in summary.from..Len(ledger') : summary.reads[r] = Answer(r, m)'
    <3>1. PICK m \in summary.from..Len(ledger) : r \in Reads /\ summary.reads[r] = Answer(r, m)
      BY DEF ReclaimedInv, SummarySound
    <3>2. m \in 0..Len(ledger) /\ m \in summary.from..Len(ledger')
      BY <1>1, <1>2 DEF ReclaimedInv, SummarySound
    <3>3. Answer(r, m)' = Answer(r, m)
      BY <1>3, <1>4, <3>2, AnswersStay
    <3>4. QED
      BY <3>1, <3>2, <3>3
  <2>2. summary.from \in 0..Len(ledger')
    BY <1>1, <1>2 DEF ReclaimedInv, SummarySound
  <2>3. QED
    BY <1>5, <2>1, <2>2 DEF ReclaimedInv, SummarySound
<1>7. ASSUME NEW i \in 1..begun PROVE Reached(i)'
  <2>1. i \in 1..Len(ledger) /\ i \in 1..Len(ledger')
    BY <1>1, <1>2, <1>4
  <2>2. Place(ledger, i) <= Place(ledger', i)
    BY <1>3, <1>4, <2>1, PlacesGrow
  <2>3. Place(ledger, i) \in Nat /\ Place(ledger', i) \in Nat
    BY <1>3, <2>1, PlaceBounds
  <2>4. page > 0 => Skip(page) \in Nat /\ Skip(page + 1) \in Nat
    <3>1. page \in Nat
      BY DEF ReclaimedInv, ListSound
    <3>2. QED
      BY <3>1, SkipSteps
  <2>5. Reached(i)
    BY DEF ReclaimedInv, ListSound
  <2>6. page' = page /\ listed' = listed /\ fetched' = fetched
        /\ Skip(page)' = Skip(page) /\ Skip(page + 1)' = Skip(page + 1)
    BY <1>5 DEF Skip
  <2>7. QED
    BY <2>2, <2>3, <2>4, <2>5, <2>6 DEF Reached, Lists
<1>8. ListSound'
  <2>1. begun' \in 0..Len(ledger') /\ ~(begun' = Len(ledger'))
    BY <1>2, <1>4, <1>5
  <2>2. QED
    BY <1>5, <1>7, <2>1 DEF ReclaimedInv, ListSound, IsList
<1>9. QED
  BY <1>3, <1>6, <1>8 DEF ReclaimedInv

LEMMA SummaryOk ==
  ASSUME ReclaimedInv, AskSummary \/ \E r \in Reads : ReadSummary(r) PROVE ReclaimedInv'
<1>1. UNCHANGED <<ledger, page, fetched, listed, begun>>
  BY DEF AskSummary, ReadSummary
<1>2. LedgerSound(ledger)' /\ ListSound'
  BY <1>1 DEF ReclaimedInv, ListSound, LedgerSound, Reached, Exact, Lists, IsList, Skip
<1>3. Len(ledger) \in Nat /\ summary.from \in 0..Len(ledger)
  BY DEF ReclaimedInv, LedgerSound, SummarySound
<1>4. \A r, n : Answer(r, n)' = Answer(r, n)
  BY <1>1 DEF Answer, ByKind, ThisMonth, SumOf
<1>5. CASE AskSummary
  <2>1. summary' = [from |-> Len(ledger), reads |-> <<>>, asked |-> TRUE]
    BY <1>5 DEF AskSummary
  <2>2. summary'.reads = <<>> /\ DOMAIN summary'.reads = {} /\ summary'.from = Len(ledger)
    BY <2>1
  <2>3. QED
    BY <1>1, <1>2, <1>3, <2>1, <2>2 DEF ReclaimedInv, SummarySound
<1>6. ASSUME NEW r \in Reads, ReadSummary(r) PROVE SummarySound'
  <2>1. PICK reads : reads = summary.reads
    OBVIOUS
  <2>2. PICK new : new = [x \in DOMAIN reads \union {r} |->
                           IF x = r THEN Answer(r, Len(ledger)) ELSE reads[x]]
    OBVIOUS
  <2>3. summary' = [summary EXCEPT !.reads = new]
    BY <1>6, <2>1, <2>2 DEF ReadSummary
  <2>4. /\ summary'.reads = new /\ summary'.from = summary.from
        /\ summary' = [from |-> summary'.from, reads |-> summary'.reads, asked |-> summary'.asked]
    BY <2>3 DEF ReclaimedInv, SummarySound
  <2>5. DOMAIN new = DOMAIN reads \union {r} /\ new[r] = Answer(r, Len(ledger))
        /\ \A x \in DOMAIN reads \ {r} : new[x] = reads[x]
    BY <2>2
  <2>6. new = [x \in DOMAIN new |-> new[x]]
    BY <2>2
  <2>7. ASSUME NEW x \in DOMAIN new
        PROVE  x \in Reads /\ \E n \in summary.from..Len(ledger) : new[x] = Answer(x, n)
    <3>1. CASE x = r
      <4>1. Len(ledger) \in summary.from..Len(ledger)
        BY <1>3
      <4>2. QED
        BY <1>6, <2>5, <3>1, <4>1
    <3>2. CASE x # r
      BY <2>1, <2>5, <3>2 DEF ReclaimedInv, SummarySound
    <3>3. QED
      BY <3>1, <3>2
  <2>8. QED
    BY <1>1, <1>3, <1>4, <2>4, <2>6, <2>7 DEF SummarySound
<1>7. QED
  BY <1>2, <1>5, <1>6 DEF ReclaimedInv

LEMMA BeginOk == ASSUME ReclaimedInv, BeginList PROVE ReclaimedInv'
<1>1. /\ page = 0 /\ page' = 1 /\ begun' = Len(ledger) /\ listed' = <<>>
      /\ UNCHANGED <<ledger, summary, fetched>>
  BY DEF BeginList
<1>2. fetched = NothingYet /\ Len(ledger) \in Nat
  BY <1>1 DEF ReclaimedInv, ListSound, LedgerSound
<1>3. Skip(page') = 0 /\ Len(listed') = 0
  BY <1>1, SkipIs
<1>4. LedgerSound(ledger)' /\ SummarySound'
  BY <1>1, LedgerStays DEF ReclaimedInv
<1>5. IsList(listed') /\ IsList(fetched')
  <2>1. listed' \in Seq({})
    BY <1>1
  <2>2. QED
    BY <1>1, <2>1, Zenon DEF IsList, ReclaimedInv, ListSound
<1>6. ASSUME NEW i \in 1..Len(ledger) PROVE Reached(i)'
  <2>1. Place(ledger', i) \in Nat /\ Place(ledger', i) >= 0
    BY <1>1, PlaceBounds DEF ReclaimedInv
  <2>2. QED
    BY <1>1, <1>2, <1>3, <2>1 DEF Reached
<1>7. Exact'
  BY <1>1, <1>2, <1>3 DEF Exact
<1>8. ListSound'
  BY <1>1, <1>2, <1>5, <1>6, <1>7 DEF ListSound
<1>9. QED
  BY <1>4, <1>8 DEF ReclaimedInv

\* A page is the part of the list from its skip on.
LEMMA PageHas ==
  ASSUME ReclaimedInv, FindMany
  PROVE  /\ IsList(fetched')
         /\ \A i \in 1..Len(ledger) :
              Place(ledger, i) >= Skip(page) /\ Place(ledger, i) < Skip(page + 1) => Lists(fetched', i)
         /\ Skip(page) <= Len(ledger) =>
              Len(fetched') = (IF Skip(page + 1) < Len(ledger) THEN Skip(page + 1) ELSE Len(ledger))
                                - Skip(page)
<1>1. PICK n, k, L, s : /\ n = Len(ledger) /\ k = Skip(page) /\ L = ListSize /\ s = NewestFirst
                        /\ n \in Nat /\ k \in Nat /\ L \in Nat /\ k + L = Skip(page + 1)
  <2>1. page \in Nat /\ page > 0 /\ Len(ledger) \in Nat /\ ListSize \in Nat
    BY ReclaimedAssumption DEF FindMany, ReclaimedInv, ListSound, LedgerSound
  <2>2. Skip(page) \in Nat /\ Skip(page + 1) = Skip(page) + ListSize
    BY <2>1, SkipSteps
  <2>3. QED
    BY <2>1, <2>2
<1>2. PICK m : m = IF k + L < n THEN k + L ELSE n
  OBVIOUS
<1>3. Min({k + L, n}) = m
  <2>1. PICK x : x = Min({k + L, n})
    OBVIOUS
  <2>2. m \in {k + L, n} /\ m <= k + L /\ m <= n
    BY <1>1, <1>2
  <2>3. \E y \in {k + L, n} : \A z \in {k + L, n} : y <= z
    BY <1>1, <2>2
  <2>4. x \in {k + L, n} /\ x <= k + L /\ x <= n
    BY <2>1, <2>3 DEF Min
  <2>5. QED
    BY <1>1, <2>1, <2>2, <2>4
<1>4. fetched' = SubSeq(s, k + 1, m)
  BY <1>1, <1>3 DEF FindMany, Skip
<1>5. PICK f, S : f = fetched' /\ S = {s[i] : i \in k + 1..m}
  OBVIOUS
<1>6. /\ f \in Seq(S) /\ Len(f) = IF k + 1 <= m THEN m - (k + 1) + 1 ELSE 0
      /\ \A i \in 1..m - (k + 1) + 1 : f[i] = s[k + 1 + i - 1]
  <2>1. PICK b : b = k + 1 /\ b \in Int /\ m \in Int
    BY <1>1, <1>2
  <2>2. \A i \in b..m : s[i] \in S
    BY <1>5, <2>1
  <2>3. /\ SubSeq(s, b, m) \in Seq(S) /\ Len(SubSeq(s, b, m)) = IF b <= m THEN m - b + 1 ELSE 0
        /\ \A i \in 1..m - b + 1 : SubSeq(s, b, m)[i] = s[b + i - 1]
    BY <2>1, <2>2, SubSeqProperties
  <2>4. f = SubSeq(s, b, m)
    BY <1>4, <1>5, <2>1
  <2>5. QED
    BY <2>1, <2>3, <2>4
<1>7. IsList(fetched')
  BY <1>5, <1>6, Zenon DEF IsList
<1>8. ASSUME NEW i \in 1..n, Place(ledger, i) >= k, Place(ledger, i) < k + L
      PROVE  Lists(f, i)
  <2>1. LedgerSound(ledger) /\ i \in 1..Len(ledger)
    BY <1>1 DEF ReclaimedInv
  <2>2. PICK p : p = Place(ledger, i) /\ p \in Nat /\ p < n
    BY <1>1, <2>1, PlaceBounds
  <2>3. s[p + 1] = ledger[i]
    BY <1>1, <2>1, <2>2, ListedAtPlace
  <2>4. PICK j : j = p - k + 1
    OBVIOUS
  <2>5. j \in 1..Len(f) /\ j \in 1..m - (k + 1) + 1 /\ k + 1 + j - 1 = p + 1
    <3>1. PICK l : l = Len(f) /\ l = IF k + 1 <= m THEN m - (k + 1) + 1 ELSE 0
      BY <1>6
    <3>2. p >= k /\ p < k + L
      BY <1>8, <2>2
    <3>3. j \in 1..l /\ j \in 1..m - (k + 1) + 1 /\ k + 1 + j - 1 = p + 1
      <4>1. n \in Nat /\ k \in Nat /\ L \in Nat
        BY <1>1
      <4>2. m \in Nat /\ p + 1 <= m /\ k + 1 <= m
        BY <1>2, <2>2, <3>2, <4>1
      <4>3. l = m - k
        BY <3>1, <4>1, <4>2
      <4>4. QED
        BY <2>2, <2>4, <3>2, <4>1, <4>2, <4>3
    <3>4. QED
      BY <3>1, <3>3
  <2>6. f[j] = ledger[i]
    BY <1>6, <2>3, <2>5
  <2>7. f[j].id = i
    BY <2>1, <2>6, EventIs
  <2>8. QED
    BY <2>5, <2>7 DEF Lists
<1>9. k <= n => Len(f) = m - k
  <2>1. PICK l : l = Len(f) /\ l = IF k + 1 <= m THEN m - (k + 1) + 1 ELSE 0
    BY <1>6
  <2>2. k <= n => l = m - k
    BY <1>1, <1>2, <2>1, SMTT(60)
  <2>3. QED
    BY <2>1, <2>2
<1>10. QED
  BY <1>1, <1>2, <1>5, <1>7, <1>8, <1>9

LEMMA FindOk == ASSUME ReclaimedInv, FindMany PROVE ReclaimedInv'
<1>1. /\ page > 0 /\ fetched = NothingYet /\ UNCHANGED <<ledger, summary, page, listed, begun>>
      /\ page \in Nat /\ begun \in 0..Len(ledger) /\ Len(ledger) \in Nat
  BY DEF FindMany, ReclaimedInv, ListSound, LedgerSound
<1>2. LedgerSound(ledger)' /\ SummarySound'
  BY <1>1, LedgerStays DEF ReclaimedInv
<1>3. /\ Skip(page) \in Nat /\ Skip(page + 1) \in Nat
      /\ Skip(page)' = Skip(page) /\ Skip(page + 1)' = Skip(page + 1)
  BY <1>1, SkipSteps DEF Skip
<1>4. ASSUME NEW i \in 1..begun PROVE Reached(i)'
  <2>1. i \in 1..Len(ledger) /\ Reached(i)
    BY <1>1 DEF ReclaimedInv, ListSound
  <2>2. Place(ledger, i) \in Nat
    BY <2>1, PlaceBounds DEF ReclaimedInv
  <2>3. Place(ledger, i) < Skip(page) \/ Place(ledger, i) >= Skip(page)
    BY <1>3, <2>2
  <2>4. Place(ledger, i) < Skip(page) => Lists(listed, i)
    BY <1>1, <2>1 DEF Reached
  <2>5. Place(ledger, i) < Skip(page + 1) => Lists(listed, i) \/ Lists(fetched', i)
    BY <2>1, <2>3, <2>4, PageHas
  <2>6. Place(ledger', i) = Place(ledger, i) /\ Lists(listed, i)' = Lists(listed, i)
        /\ Lists(fetched, i)' = Lists(fetched', i) /\ page' = page
    BY <1>1 DEF Lists
  <2>7. QED
    BY <1>1, <1>3, <2>4, <2>5, <2>6 DEF Reached
<1>5. begun = Len(ledger) => Exact'
  <2>1. SUFFICES ASSUME begun = Len(ledger) PROVE Exact'
    OBVIOUS
  <2>2. Len(listed) = Skip(page) /\ Skip(page) <= Len(ledger)
    BY <1>1, <2>1 DEF ReclaimedInv, ListSound, Exact
  <2>3. Len(fetched') = (IF Skip(page + 1) < Len(ledger) THEN Skip(page + 1) ELSE Len(ledger))
                          - Skip(page)
    BY <2>2, PageHas
  <2>4. Len(listed) + Len(fetched') =
          IF Skip(page + 1) < Len(ledger) THEN Skip(page + 1) ELSE Len(ledger)
    BY <1>1, <1>3, <2>2, <2>3
  <2>5. QED
    BY <1>1, <1>3, <2>2, <2>4 DEF Exact
<1>6. IsList(fetched')
  BY PageHas
<1>7. ListSound'
  BY <1>1, <1>4, <1>5, <1>6 DEF ReclaimedInv, ListSound, IsList
<1>8. QED
  BY <1>2, <1>7 DEF ReclaimedInv

LEMMA CountOk == ASSUME ReclaimedInv, CountRows PROVE ReclaimedInv'
<1>1. /\ fetched # NothingYet /\ fetched' = NothingYet /\ UNCHANGED <<ledger, summary, begun>>
      /\ page' = IF page < TotalPages THEN page + 1 ELSE 0
      /\ page \in Nat /\ begun \in 0..Len(ledger) /\ Len(ledger) \in Nat
  BY DEF CountRows, ReclaimedInv, ListSound, LedgerSound
<1>2. page > 0 /\ page \in Nat \ {0}
  <2>1. page # 0
    BY <1>1 DEF ReclaimedInv, ListSound
  <2>2. QED
    BY <1>1, <2>1
<1>3. LedgerSound(ledger)' /\ SummarySound'
  BY <1>1, LedgerStays DEF ReclaimedInv
<1>4. PICK c : c = listed \o fetched
  OBVIOUS
<1>5. listed' = c
  BY <1>4, Zenon DEF CountRows
<1>6. /\ IsList(c) /\ Len(c) = Len(listed) + Len(fetched)
      /\ Len(listed) \in Nat /\ Len(fetched) \in Nat
      /\ \A i \in 1..Len(listed) : c[i] = listed[i]
      /\ \A i \in 1..Len(fetched) : c[Len(listed) + i] = fetched[i]
  <2>1. PICK A : listed \in Seq(A)
    BY DEF ReclaimedInv, ListSound, IsList
  <2>2. PICK B : fetched \in Seq(B)
    BY DEF ReclaimedInv, ListSound, IsList
  <2>3. PICK S : S = A \union B
    OBVIOUS
  <2>4. listed \in Seq(S) /\ fetched \in Seq(S)
    BY <2>1, <2>2, <2>3
  <2>5. Len(listed) \in Nat /\ Len(fetched) \in Nat
    BY <2>4
  <2>6. /\ c \in Seq(S) /\ Len(c) = Len(listed) + Len(fetched)
        /\ \A i \in 1..Len(listed) + Len(fetched) :
             c[i] = IF i <= Len(listed) THEN listed[i] ELSE fetched[i - Len(listed)]
    BY <1>4, <2>4, ConcatProperties, Zenon
  <2>7. ASSUME NEW i \in 1..Len(fetched) PROVE c[Len(listed) + i] = fetched[i]
    <3>1. PICK j : j = Len(listed) + i
      OBVIOUS
    <3>2. j \in 1..Len(listed) + Len(fetched) /\ ~(j <= Len(listed)) /\ j - Len(listed) = i
      BY <2>5, <3>1
    <3>3. QED
      BY <2>6, <3>1, <3>2
  <2>8. \A i \in 1..Len(listed) : c[i] = listed[i]
    BY <2>5, <2>6
  <2>9. IsList(c)
    BY <2>6, Zenon DEF IsList
  <2>10. QED
    BY <2>5, <2>6, <2>7, <2>8, <2>9
<1>7. \A i : Lists(listed, i) \/ Lists(fetched, i) => Lists(c, i)
  <2>1. ASSUME NEW i, Lists(listed, i) PROVE Lists(c, i)
    <3>1. PICK j \in 1..Len(listed) : listed[j].id = i
      BY <2>1 DEF Lists
    <3>2. j \in 1..Len(c) /\ c[j].id = i
      BY <1>6, <3>1
    <3>3. QED
      BY <3>2 DEF Lists
  <2>2. ASSUME NEW i, Lists(fetched, i) PROVE Lists(c, i)
    <3>1. PICK j \in 1..Len(fetched) : fetched[j].id = i
      BY <2>2 DEF Lists
    <3>2. Len(listed) + j \in 1..Len(c) /\ c[Len(listed) + j].id = i
      BY <1>6, <3>1
    <3>3. QED
      BY <3>2 DEF Lists
  <2>3. QED
    BY <2>1, <2>2
<1>8. page < TotalPages <=> Skip(page + 1) < Len(ledger)
  BY <1>1, <1>2, LastPage
<1>9. Skip(page) \in Nat /\ Skip(page + 1) \in Nat
  BY <1>1, <1>2, SkipSteps
<1>10. ASSUME NEW i \in 1..begun PROVE Reached(i)'
  <2>1. i \in 1..Len(ledger) /\ Reached(i)
    BY <1>1 DEF ReclaimedInv, ListSound
  <2>2. Place(ledger, i) \in Nat /\ Place(ledger, i) < Len(ledger)
    BY <2>1, PlaceBounds DEF ReclaimedInv
  <2>3. Place(ledger, i) < Skip(page + 1) => Lists(c, i)
    BY <1>1, <1>2, <1>7, <2>1 DEF Reached
  <2>4. Place(ledger', i) = Place(ledger, i) /\ Lists(listed, i)' = Lists(c, i)
    BY <1>1, <1>5 DEF Lists
  <2>5. CASE page < TotalPages
    <3>1. page' = page + 1 /\ Skip(page)' = Skip(page + 1)
      BY <1>1, <2>5 DEF Skip
    <3>2. page' # 0
      BY <1>1, <3>1
    <3>3. QED
      BY <1>1, <2>3, <2>4, <3>1, <3>2 DEF Reached
  <2>6. CASE ~(page < TotalPages)
    <3>1. page' = 0 /\ Place(ledger, i) < Skip(page + 1)
      BY <1>1, <1>8, <1>9, <2>2, <2>6
    <3>2. QED
      BY <2>3, <2>4, <3>1 DEF Reached
  <2>7. QED
    BY <2>5, <2>6
<1>11. begun = Len(ledger) => Exact'
  <2>1. SUFFICES ASSUME begun = Len(ledger) PROVE Exact'
    OBVIOUS
  <2>2. Len(c) = IF Skip(page + 1) < Len(ledger) THEN Skip(page + 1) ELSE Len(ledger)
    BY <1>1, <1>2, <1>6, <2>1 DEF ReclaimedInv, ListSound, Exact
  <2>3. CASE page < TotalPages
    <3>1. page' = page + 1 /\ Skip(page)' = Skip(page + 1) /\ page' # 0
      BY <1>1, <2>3 DEF Skip
    <3>2. QED
      BY <1>1, <1>5, <1>8, <1>9, <2>2, <2>3, <3>1 DEF Exact
  <2>4. CASE ~(page < TotalPages)
    BY <1>1, <1>5, <1>8, <2>1, <2>2, <2>4 DEF Exact
  <2>5. QED
    BY <2>3, <2>4
<1>12. ListSound'
  <2>1. IsList(listed') /\ IsList(fetched') /\ page' \in Nat
    <3>1. fetched' \in Seq({[id |-> 0]})
      BY <1>1 DEF NothingYet
    <3>2. IsList(fetched')
      BY <3>1, Zenon DEF IsList
    <3>3. QED
      BY <1>1, <1>5, <1>6, <3>2
  <2>2. QED
    BY <1>1, <1>10, <1>11, <2>1 DEF ListSound
<1>13. QED
  BY <1>3, <1>12 DEF ReclaimedInv

LEMMA ReclaimedKept ==
  ReclaimedInit /\ [][SummaryNext \/ ListNext]_reclaimedVars => []ReclaimedInv
<1>1. ASSUME ReclaimedInv, UNCHANGED reclaimedVars PROVE ReclaimedInv'
  BY <1>1, LedgerStays, ListStays DEF reclaimedVars, ReclaimedInv
<1>2. ASSUME ReclaimedInv, SummaryNext \/ ListNext PROVE ReclaimedInv'
  BY <1>2, RecordOk, SummaryOk, BeginOk, FindOk, CountOk DEF SummaryNext, ListNext
<1>3. QED
  BY <1>1, <1>2, NothingReclaimed, PTL

\* What the reads say, put together.
LEMMA SummaryAgrees ==
  ASSUME ReclaimedInv, DOMAIN summary.reads = Reads
  PROVE  LET month == summary.reads["thisMonth"]
             all(n) == SumOf(n, Kinds, 0)
         IN  /\ summary.reads["eventCount"] \in summary.from..Len(ledger)
             /\ TotalReclaimed \in all(summary.from)..all(Len(ledger))
             /\ month \in ThisMonth(summary.from)..ThisMonth(Len(ledger))
             /\ summary.from = Len(ledger) => month <= TotalReclaimed
<1>1. PICK from, n, s : /\ from = summary.from /\ n = Len(ledger) /\ s = ledger
                        /\ n \in Nat /\ from \in 0..n /\ LedgerSound(s) /\ n = Len(s)
  BY DEF ReclaimedInv, SummarySound, LedgerSound
<1>2. \A k, kinds, day : SumOf(k, kinds, day) = Sum(s, k, kinds, day)
  BY <1>1 DEF SumOf, Sum, IsSum
<1>3. PICK c \in from..n : summary.reads["eventCount"] = Answer("eventCount", c)
  BY <1>1 DEF ReclaimedInv, SummarySound, Reads
<1>4. PICK k \in from..n : summary.reads["byKind"] = Answer("byKind", k)
  BY <1>1 DEF ReclaimedInv, SummarySound, Reads
<1>5. PICK m \in from..n : summary.reads["thisMonth"] = Answer("thisMonth", m)
  BY <1>1 DEF ReclaimedInv, SummarySound, Reads
<1>6. summary.reads["eventCount"] \in from..n
  BY <1>3 DEF Answer
<1>7. TotalReclaimed = Sum(s, k, Kinds, 0)
  <2>1. TotalReclaimed = ByKind(k)["subscription_canceled"] + ByKind(k)["manual_adjustment"]
    BY <1>4 DEF TotalReclaimed, Answer
  <2>2. /\ ByKind(k)["subscription_canceled"] = SumOf(k, {"subscription_canceled"}, 0)
        /\ ByKind(k)["manual_adjustment"] = SumOf(k, {"manual_adjustment"}, 0)
    BY DEF ByKind, Kinds
  <2>3. k \in 0..Len(s)
    BY <1>1
  <2>4. Sum(s, k, Kinds, 0) = Sum(s, k, {"subscription_canceled"}, 0)
                                + Sum(s, k, {"manual_adjustment"}, 0)
    BY <1>1, <2>3, ReclaimedAssumption, SumsCompose
  <2>5. QED
    BY <1>2, <2>1, <2>2, <2>4
<1>8. summary.reads["thisMonth"] = Sum(s, m, Kinds, MonthStart)
  BY <1>2, <1>5 DEF Answer, ThisMonth
<1>9. ASSUME NEW j \in from..n, NEW day
      PROVE  Sum(s, j, Kinds, day) \in Sum(s, from, Kinds, day)..Sum(s, n, Kinds, day)
  <2>1. j \in 0..Len(s) /\ n \in 0..Len(s) /\ from \in 0..j /\ j \in 0..n
    BY <1>1
  <2>2. /\ Sum(s, from, Kinds, day) \in Nat /\ Sum(s, j, Kinds, day) \in Nat
        /\ Sum(s, from, Kinds, day) <= Sum(s, j, Kinds, day)
    BY <1>1, <2>1, SumGrows
  <2>3. /\ Sum(s, n, Kinds, day) \in Nat
        /\ Sum(s, j, Kinds, day) <= Sum(s, n, Kinds, day)
    BY <1>1, <2>1, SumGrows
  <2>4. QED
    BY <2>2, <2>3
<1>10. TotalReclaimed \in SumOf(from, Kinds, 0)..SumOf(n, Kinds, 0)
  BY <1>2, <1>7, <1>9
<1>11. summary.reads["thisMonth"] \in ThisMonth(from)..ThisMonth(n)
  BY <1>2, <1>8, <1>9 DEF ThisMonth
<1>12. from = n => summary.reads["thisMonth"] <= TotalReclaimed
  <2>1. SUFFICES ASSUME from = n PROVE summary.reads["thisMonth"] <= TotalReclaimed
    OBVIOUS
  <2>2. m = n /\ k = n /\ n \in 0..Len(s)
    BY <1>1, <2>1
  <2>3. Sum(s, n, Kinds, MonthStart) <= Sum(s, n, Kinds, 0)
    BY <1>1, <2>2, ReclaimedAssumption, SumsCompose
  <2>4. QED
    BY <1>7, <1>8, <2>2, <2>3
<1>13. QED
  BY <1>1, <1>6, <1>10, <1>11, <1>12

\* THEOREM. For any amounts, days and page size, and however many events are recorded
\* between the reads: a summary is no more than was reclaimed when it is complete and
\* no less than when it was asked for, and a list read page by page by offset misses
\* no event there was at its beginning, and repeats none if none was recorded
\* meanwhile.
THEOREM LedgerReadsHold ==
  ReclaimedInit /\ [][SummaryNext \/ ListNext]_reclaimedVars => []LedgerIsReadWhole
<1>1. ReclaimedInv => LedgerIsReadWhole
  <2> SUFFICES ASSUME ReclaimedInv PROVE LedgerIsReadWhole
    OBVIOUS
  <2>1. ASSUME page = 0, NEW i \in 1..begun PROVE \E j \in DOMAIN listed : listed[j].id = i
    <3>1. Lists(listed, i) /\ IsList(listed)
      BY <2>1 DEF ReclaimedInv, ListSound, Reached
    <3>2. PICK S : listed \in Seq(S)
      BY <3>1 DEF IsList
    <3>3. DOMAIN listed = 1..Len(listed)
      BY <3>2
    <3>4. QED
      BY <3>1, <3>3 DEF Lists
  <2>2. page = 0 /\ begun = Len(ledger) => Len(listed) = begun
    BY DEF ReclaimedInv, ListSound, Exact
  <2>3. QED
    BY <2>1, <2>2, SummaryAgrees DEF LedgerIsReadWhole
<1>2. QED
  BY <1>1, ReclaimedKept, PTL

--------------------------------------------------------------------------------
(* Calendar: days and months *)

\* The days on which years and months open, counted from March of year 0.
YearOpens(y) == 365 * y + y \div 4 - y \div 100 + y \div 400
MonthOpens(m) == (153 * m + 2) \div 5
Opening(k) == YearOpens(k \div 12) + MonthOpens(k % 12)
LengthOf(k) == Opening(k + 1) - Opening(k)

\* The month of a day.
NumberOf(m) == 12 * m.year + m.month - 2

LEMMA UtcIsOpening ==
  ASSUME NEW y \in Int, NEW mo \in Int, NEW d \in Int
  PROVE  Utc(y, mo, d) = Opening(12 * y + mo - 2) + d - 1
<1>1. PICK k \in Int : k = 12 * y + mo - 2
  OBVIOUS
<1>2. k % 12 = (mo + 10) % 12
  BY <1>1
<1>3. k \div 12 = y + mo \div 12 - (IF mo % 12 < 2 THEN 1 ELSE 0)
  BY <1>1
<1>4. Opening(k) = YearOpens(k \div 12) + MonthOpens((mo + 10) % 12)
  BY <1>2 DEF Opening
<1>5. QED
  BY <1>1, <1>3, <1>4 DEF Utc, YearOpens, MonthOpens

LEMMA YearLasts == ASSUME NEW y \in Int PROVE YearOpens(y + 1) - YearOpens(y) \in 365..366
  BY DEF YearOpens

LEMMA MonthLasts ==
  ASSUME NEW k \in Int
  PROVE  /\ Opening(k) \in Int /\ LengthOf(k) \in 28..31
         /\ k % 12 \in {0, 2, 4, 5, 7, 9, 10} => LengthOf(k) = 31
         /\ k % 12 \in {1, 3, 6, 8} => LengthOf(k) = 30
         /\ k % 12 = 11 => LengthOf(k) \in 28..29
<1>1. PICK y \in Int, m \in 0..11 : y = k \div 12 /\ m = k % 12
  OBVIOUS
<1>2. YearOpens(y) \in Int /\ YearOpens(y + 1) \in Int /\ MonthOpens(m) \in Int
  BY DEF YearOpens, MonthOpens
<1>3. Opening(k) = YearOpens(y) + MonthOpens(m)
  BY <1>1 DEF Opening
<1>4. CASE m = 11
  <2>1. (k + 1) \div 12 = y + 1 /\ (k + 1) % 12 = 0
    BY <1>1, <1>4
  <2>2. Opening(k + 1) = YearOpens(y + 1) + MonthOpens(0)
    BY <2>1, SMT DEF Opening
  <2>3. MonthOpens(0) = 0 /\ MonthOpens(11) = 337
    BY DEF MonthOpens
  <2>4. LengthOf(k) \in 28..29
    BY <1>2, <1>3, <1>4, <2>2, <2>3, YearLasts, SMT DEF LengthOf
  <2>5. QED
    BY <1>1, <1>2, <1>3, <1>4, <2>4
<1>5. CASE m # 11
  <2>1. (k + 1) \div 12 = y /\ (k + 1) % 12 = m + 1
    BY <1>1, <1>5
  <2>2. LengthOf(k) = MonthOpens(m + 1) - MonthOpens(m)
    BY <1>2, <1>3, <2>1 DEF LengthOf, Opening, MonthOpens
  <2>3. /\ m \in {0, 2, 4, 5, 7, 9, 10} => LengthOf(k) = 31
        /\ m \in {1, 3, 6, 8} => LengthOf(k) = 30
    BY <2>2 DEF MonthOpens
  <2>4. QED
    BY <1>1, <1>2, <1>3, <1>5, <2>3
<1>6. QED
  BY <1>4, <1>5


\* The division that finds the year within an era of 400 years.
LEMMA YearFits ==
  ASSUME NEW doe \in Int, NEW q \in Int, NEW a \in Int, NEW b \in Int, NEW c \in Int,
         0 <= doe, doe <= 146096,
         1460 * a <= doe, doe < 1460 * a + 1460,
         36524 * b <= doe, doe < 36524 * b + 36524,
         146096 * c <= doe, doe < 146096 * c + 146096,
         365 * q <= doe - a + b - c, doe - a + b - c < 365 * q + 365
  PROVE  0 <= q /\ q <= 399
OBVIOUS

\* That year has begun.
LEMMA YearHasBegun ==
  ASSUME NEW doe \in Int, NEW q \in Int, NEW a \in Int, NEW b \in Int, NEW c \in Int,
         NEW e \in Int, NEW f \in Int, NEW g \in Int,
         0 <= doe, doe <= 146096,
         1460 * a <= doe, doe < 1460 * a + 1460,
         36524 * b <= doe, doe < 36524 * b + 36524,
         146096 * c <= doe, doe < 146096 * c + 146096,
         365 * q <= doe - a + b - c, doe - a + b - c < 365 * q + 365,
         4 * e <= q, q < 4 * e + 4,
         100 * f <= q, q < 100 * f + 100,
         400 * g <= q, q < 400 * g + 400
  PROVE  365 * q + e - f + g <= doe
BY SMTT(60)

\* And it is not over.
LEMMA YearIsNotOver ==
  ASSUME NEW doe \in Int, NEW q \in Int, NEW a \in Int, NEW b \in Int, NEW c \in Int,
         NEW e \in Int, NEW f \in Int, NEW g \in Int,
         0 <= doe, doe <= 146096,
         1460 * a <= doe, doe < 1460 * a + 1460,
         36524 * b <= doe, doe < 36524 * b + 36524,
         146096 * c <= doe, doe < 146096 * c + 146096,
         365 * q <= doe - a + b - c, doe - a + b - c < 365 * q + 365,
         4 * e <= q + 1, q + 1 < 4 * e + 4,
         100 * f <= q + 1, q + 1 < 100 * f + 100,
         400 * g <= q + 1, q + 1 < 400 * g + 400
  PROVE  doe < 365 * (q + 1) + e - f + g
BY SMTT(60)

\* The year a day of an era belongs to, by the correction for leap days of Month.
YearOf(doe) == (doe - doe \div 1460 + doe \div 36524 - doe \div 146096) \div 365

LEMMA YearOfEra ==
  ASSUME NEW doe \in Int, 0 <= doe, doe <= 146096
  PROVE  YearOf(doe) \in 0..399 /\ YearOpens(YearOf(doe)) <= doe /\ doe < YearOpens(YearOf(doe) + 1)
<1>1. PICK a \in Int : a = doe \div 1460
  BY SMT
<1>2. PICK b \in Int : b = doe \div 36524
  BY SMT
<1>3. PICK c \in Int : c = doe \div 146096
  BY SMT
<1>4. 1460 * a <= doe /\ doe < 1460 * a + 1460
  BY <1>1, SMT
<1>5. 36524 * b <= doe /\ doe < 36524 * b + 36524
  BY <1>2, SMT
<1>6. 146096 * c <= doe /\ doe < 146096 * c + 146096
  BY <1>3, SMT
<1>7. PICK q \in Int : q = (doe - a + b - c) \div 365
  BY SMT
<1>8. YearOf(doe) = q
  BY <1>1, <1>2, <1>3, <1>7, SMT DEF YearOf
<1>9. 365 * q <= doe - a + b - c /\ doe - a + b - c < 365 * q + 365
  BY <1>7, SMT
<1>10. 0 <= q /\ q <= 399
  BY <1>4, <1>5, <1>6, <1>9, YearFits, SMT
<1>11. YearOpens(q) <= doe
  <2>1. PICK e \in Int, f \in Int, g \in Int : e = q \div 4 /\ f = q \div 100 /\ g = q \div 400
    BY SMT
  <2>2. /\ 4 * e <= q /\ q < 4 * e + 4
        /\ 100 * f <= q /\ q < 100 * f + 100
        /\ 400 * g <= q /\ q < 400 * g + 400
    BY <2>1, SMT
  <2>3. 365 * q + e - f + g <= doe
    BY <1>4, <1>5, <1>6, <1>9, <2>2, YearHasBegun, SMT
  <2>4. YearOpens(q) = 365 * q + e - f + g
    BY <2>1, SMT DEF YearOpens
  <2>5. QED
    BY <2>3, <2>4, SMT
<1>12. doe < YearOpens(q + 1)
  <2>1. PICK e \in Int, f \in Int, g \in Int :
          e = (q + 1) \div 4 /\ f = (q + 1) \div 100 /\ g = (q + 1) \div 400
    BY SMT
  <2>2. /\ 4 * e <= q + 1 /\ q + 1 < 4 * e + 4
        /\ 100 * f <= q + 1 /\ q + 1 < 100 * f + 100
        /\ 400 * g <= q + 1 /\ q + 1 < 400 * g + 400
    BY <2>1, SMT
  <2>3. doe < 365 * (q + 1) + e - f + g
    BY <1>4, <1>5, <1>6, <1>9, <2>2, YearIsNotOver, SMT
  <2>4. YearOpens(q + 1) = 365 * (q + 1) + e - f + g
    BY <2>1, SMT DEF YearOpens
  <2>5. QED
    BY <2>3, <2>4, SMT
<1>13. QED
  BY <1>8, <1>10, <1>11, <1>12, SMT

\* A day is not before the opening of its month, and before that of the next.
LEMMA MonthIs ==
  ASSUME NEW d \in Int
  PROVE  /\ Month(d).year \in Int /\ Month(d).month \in 0..11
         /\ Opening(NumberOf(Month(d))) <= d /\ d < Opening(NumberOf(Month(d)) + 1)
<1>1. PICK era \in Int, doe \in Int :
        era = d \div 146097 /\ doe = d % 146097 /\ 0 <= doe /\ doe <= 146096 /\ d = 146097 * era + doe
  BY SMT
<1>2. PICK q \in Int : q = YearOf(doe) /\ 0 <= q /\ q <= 399 /\ YearOpens(q) <= doe /\ doe < YearOpens(q + 1)
  BY <1>1, YearOfEra, SMT
<1>3. PICK y \in Int : y = q + 400 * era
  BY SMT
<1>4. YearOpens(y) = YearOpens(q) + 146097 * era /\ YearOpens(y + 1) = YearOpens(q + 1) + 146097 * era
  BY <1>3, SMT DEF YearOpens
<1>5. PICK doy \in Int : doy = doe - YearOpens(q)
  BY SMT DEF YearOpens
<1>6. doy \in 0..365
  <2>1. YearOpens(q + 1) - YearOpens(q) \in 365..366
    BY YearLasts, SMT
  <2>2. YearOpens(q) \in Int /\ YearOpens(q + 1) \in Int
    BY SMT DEF YearOpens
  <2>3. QED
    BY <1>2, <1>5, <2>1, <2>2, SMT
<1>7. doe - 365 * q - q \div 4 + q \div 100 = doy
  <2>1. q \div 400 = 0
    BY <1>2, SMT
  <2>2. YearOpens(q) = 365 * q + q \div 4 - q \div 100
    BY <2>1, SMT DEF YearOpens
  <2>3. QED
    BY <1>5, <2>2, SMT
<1>8. PICK p \in Int : p = (5 * doy + 2) \div 153
  BY SMT
<1>9. p \in 0..11 /\ MonthOpens(p) <= doy /\ doy < MonthOpens(p + 1)
  BY <1>6, <1>8, SMT DEF MonthOpens
<1>10. Month(d) = [year |-> y + (p + 2) \div 12, month |-> (p + 2) % 12]
  BY <1>1, <1>2, <1>3, <1>7, <1>8, SMT DEF Month, YearOf
<1>11. PICK k \in Int : k = 12 * y + p
  BY SMT
<1>12. NumberOf(Month(d)) = k
  BY <1>9, <1>10, <1>11, SMT DEF NumberOf
<1>13. Opening(k) = YearOpens(y) + MonthOpens(p)
  BY <1>9, <1>11, SMT DEF Opening
<1>14. d = YearOpens(y) + doy
  <2>1. YearOpens(q) \in Int
    BY SMT DEF YearOpens
  <2>2. QED
    BY <1>1, <1>4, <1>5, <2>1, SMT
<1>15. d < Opening(k + 1)
  <2>1. CASE p = 11
    <3>1. (k + 1) \div 12 = y + 1 /\ (k + 1) % 12 = 0
      BY <1>11, <2>1, SMT
    <3>2. Opening(k + 1) = YearOpens(y + 1) + MonthOpens(0)
      BY <3>1, SMT DEF Opening
    <3>3. MonthOpens(0) = 0
      BY SMT DEF MonthOpens
    <3>4. YearOpens(q + 1) \in Int
      BY SMT DEF YearOpens
    <3>5. QED
      BY <1>1, <1>2, <1>4, <3>2, <3>3, <3>4, SMT
  <2>2. CASE p # 11
    <3>1. (k + 1) \div 12 = y /\ (k + 1) % 12 = p + 1
      BY <1>9, <1>11, <2>2, SMT
    <3>2. Opening(k + 1) = YearOpens(y) + MonthOpens(p + 1)
      BY <3>1, SMT DEF Opening
    <3>3. YearOpens(y) \in Int /\ MonthOpens(p + 1) \in Int
      BY <1>9, SMT DEF YearOpens, MonthOpens
    <3>4. QED
      BY <1>9, <1>14, <3>2, <3>3, SMT
  <2>3. QED
    BY <2>1, <2>2
<1>16. Opening(k) <= d
  <2>1. YearOpens(y) \in Int /\ MonthOpens(p) \in Int
    BY <1>9, SMT DEF YearOpens, MonthOpens
  <2>2. QED
    BY <1>9, <1>13, <1>14, <2>1, SMT
<1>17. Month(d).year \in Int /\ Month(d).month \in 0..11
  BY <1>9, <1>10, SMT
<1>18. QED
  BY <1>12, <1>15, <1>16, <1>17, SMT

--------------------------------------------------------------------------------
(* Calendar: due days *)

LEMMA OpeningsClimb ==
  ASSUME NEW k \in Int, NEW j \in Nat
  PROVE  Opening(k + j) >= Opening(k) + 28 * j
<1>1. PICK S : S = {i \in Nat : Opening(k + i) >= Opening(k) + 28 * i}
  OBVIOUS
<1>2. \A i \in Nat : Opening(k + i) \in Int
  BY MonthLasts
<1>3. 0 \in S
  BY <1>1, <1>2, k + 0 = k
<1>4. ASSUME NEW i \in 0 + 1..j, i - 1 \in S PROVE i \in S
  <2>1. PICK l \in Int : l = k + (i - 1) /\ l + 1 = k + i
    OBVIOUS
  <2>2. Opening(l) \in Int /\ LengthOf(l) \in 28..31 /\ Opening(k) \in Int /\ Opening(l + 1) \in Int
    BY MonthLasts
  <2>3. Opening(l) >= Opening(k) + 28 * (i - 1)
    BY <1>1, <1>4, <2>1
  <2>4. Opening(l + 1) >= Opening(k) + 28 * i
    BY <2>2, <2>3 DEF LengthOf
  <2>5. QED
    BY <1>1, <2>1, <2>4
<1>5. \A i \in 0..j : i \in S
  BY <1>3, <1>4, Climb
<1>6. QED
  BY <1>1, <1>5

\* A day is in one month.
LEMMA OneMonth ==
  ASSUME NEW d \in Int, NEW k \in Int, NEW l \in Int,
         Opening(k) <= d, d < Opening(k + 1), Opening(l) <= d, d < Opening(l + 1)
  PROVE  k = l
<1>1. ASSUME NEW m \in Int, NEW n \in Int, m < n, d < Opening(m + 1), Opening(n) <= d PROVE FALSE
  <2>1. PICK j \in Nat : n = m + 1 + j
    BY <1>1
  <2>2. Opening(m + 1 + j) >= Opening(m + 1) + 28 * j
    BY OpeningsClimb
  <2>3. Opening(m + 1) \in Int /\ Opening(n) \in Int
    BY MonthLasts
  <2>4. QED
    BY <1>1, <2>1, <2>2, <2>3
<1>2. QED
  BY <1>1

\* The due day of a month.
Due(k, day) == Opening(k) + (IF day <= LengthOf(k) THEN day ELSE LengthOf(k)) - 1

LEMMA DueIsInMonth ==
  ASSUME NEW k \in Int, NEW day \in 1..31
  PROVE  Due(k, day) \in Int /\ Opening(k) <= Due(k, day) /\ Due(k, day) < Opening(k + 1)
<1>1. Opening(k) \in Int /\ Opening(k + 1) \in Int /\ LengthOf(k) \in 28..31
  BY MonthLasts
<1>2. QED
  BY <1>1 DEF Due, LengthOf

\* Due days are four weeks apart at least.
LEMMA DueDaysApart ==
  ASSUME NEW k \in Int, NEW day \in 1..31
  PROVE  Due(k + 1, day) >= Due(k, day) + 28
<1>1. Opening(k) \in Int /\ Opening(k + 1) \in Int /\ LengthOf(k) \in 28..31 /\ LengthOf(k + 1) \in 28..31
  BY MonthLasts
<1>2. Opening(k + 1) = Opening(k) + LengthOf(k)
  BY <1>1 DEF LengthOf
<1>3. QED
  BY <1>1, <1>2 DEF Due

LEMMA LesserOf ==
  ASSUME NEW a \in Int, NEW b \in Int
  PROVE  Min({a, b}) = IF a <= b THEN a ELSE b
<1>1. PICK m : m = IF a <= b THEN a ELSE b
  OBVIOUS
<1>2. m \in {a, b} /\ \A x \in {a, b} : m <= x
  BY <1>1
<1>3. \A n \in {a, b} : (\A x \in {a, b} : n <= x) => n = m
  BY <1>1
<1>4. QED
  BY <1>1, <1>2, <1>3 DEF Min

LEMMA ClampedIsDue ==
  ASSUME NEW year \in Int, NEW month \in Int, NEW day \in 1..31
  PROVE  ClampedDueDate(year, month, day) = Due(12 * year + month - 2, day)
<1>1. PICK k \in Int : k = 12 * year + month - 2 /\ k + 1 = 12 * year + (month + 1) - 2
  OBVIOUS
<1>2. Opening(k) \in Int /\ Opening(k + 1) \in Int /\ LengthOf(k) \in 28..31
  BY MonthLasts
<1>3. Utc(year, month, 1) = Opening(k) + 1 - 1
  BY <1>1, UtcIsOpening
<1>4. Utc(year, month + 1, 1) = Opening(k + 1) + 1 - 1
  BY <1>1, UtcIsOpening
<1>5. DaysIn(year, month) = LengthOf(k)
  BY <1>2, <1>3, <1>4 DEF DaysIn, LengthOf
<1>6. PICK c \in Int : c = (IF day <= LengthOf(k) THEN day ELSE LengthOf(k))
  BY <1>2
<1>7. Min({day, DaysIn(year, month)}) = c
  BY <1>2, <1>5, <1>6, LesserOf
<1>8. Utc(year, month, c) = Opening(k) + c - 1
  BY <1>1, UtcIsOpening
<1>9. QED
  BY <1>1, <1>6, <1>7, <1>8, Zenon DEF ClampedDueDate, Due

\* A day is the due day of its month.
IsDue(d, day) == d = Due(NumberOf(Month(d)), day)

LEMMA DueIsDue ==
  ASSUME NEW k \in Int, NEW day \in 1..31
  PROVE  IsDue(Due(k, day), day) /\ NumberOf(Month(Due(k, day))) = k
<1>1. PICK d \in Int : d = Due(k, day)
  BY DueIsInMonth
<1>2. PICK m : m = NumberOf(Month(d))
  OBVIOUS
<1>3. m \in Int
  BY <1>2, MonthIs DEF NumberOf
<1>4. Opening(m) <= d /\ d < Opening(m + 1)
  BY <1>2, MonthIs
<1>5. Opening(k) <= d /\ d < Opening(k + 1)
  BY <1>1, DueIsInMonth
<1>6. m = k
  BY <1>3, <1>4, <1>5, OneMonth
<1>7. QED
  BY <1>1, <1>2, <1>6 DEF IsDue

LEMMA MonthlyDueIsDue ==
  ASSUME bill.dueDay \in 1..31, NEW d \in Int
  PROVE  IsMonthlyDue(d) <=> IsDue(d, bill.dueDay)
<1>1. PICK day \in 1..31 : day = bill.dueDay
  OBVIOUS
<1>2. PICK m : m = Month(d)
  OBVIOUS
<1>3. PICK year \in Int, month \in Int : year = m.year /\ month = m.month
  BY <1>2, MonthIs
<1>4. PICK k \in Int : k = 12 * year + month - 2 /\ k + 1 = 12 * year + (month + 1) - 2
  OBVIOUS
<1>5. Opening(k) \in Int /\ Opening(k + 1) \in Int /\ LengthOf(k) \in 28..31
  BY MonthLasts
<1>6. Utc(year, month, 0) = Opening(k) + 0 - 1
  BY <1>4, UtcIsOpening
<1>7. Utc(year, month, 1) = Opening(k) + 1 - 1
  BY <1>4, UtcIsOpening
<1>8. Utc(year, month + 1, 1) = Opening(k + 1) + 1 - 1
  BY <1>4, UtcIsOpening
<1>9. DaysIn(year, month) = LengthOf(k)
  BY <1>5, <1>7, <1>8 DEF DaysIn, LengthOf
<1>10. PICK c \in Int : c = (IF day <= LengthOf(k) THEN day ELSE LengthOf(k))
  BY <1>5
<1>11. Min({day, DaysIn(year, month)}) = c
  BY <1>5, <1>9, <1>10, LesserOf
<1>12. IsMonthlyDue(d) <=> d - Utc(year, month, 0) = c
  BY <1>1, <1>2, <1>3, <1>11, Zenon DEF IsMonthlyDue
<1>13. Due(k, day) = Opening(k) + c - 1
  BY <1>10 DEF Due
<1>14. d - Utc(year, month, 0) = c <=> d = Due(k, day)
  BY <1>5, <1>6, <1>13
<1>15. NumberOf(m) = k
  BY <1>3, <1>4 DEF NumberOf
<1>16. QED
  BY <1>1, <1>2, <1>12, <1>14, <1>15, Zenon DEF IsDue

\* The calendar of a window shows exactly its due days.
LEMMA WindowIsDue ==
  ASSUME NEW day \in 1..31, NEW from \in Int, NEW to \in Int, from <= to
  PROVE  MonthCadence(1, day, from, to) = {d \in from..to : IsDue(d, day)}
<1>1. PICK year \in Int, month \in Int : Month(from).year = year /\ Month(from).month = month
  BY MonthIs
<1>2. PICK f \in Int : f = NumberOf(Month(from)) /\ f = 12 * year + month - 2
  BY <1>1 DEF NumberOf
<1>3. Opening(f) <= from /\ from < Opening(f + 1) /\ Opening(f + 1) \in Int
  <2>1. PICK g \in Int : g = f + 1
    OBVIOUS
  <2>2. Opening(g) \in Int
    BY MonthLasts
  <2>3. Opening(f) <= from /\ from < Opening(f + 1)
    BY <1>2, MonthIs
  <2>4. QED
    BY <2>1, <2>2, <2>3
<1>4. \A i \in Int : ClampedDueDate(year, month - 1 + 1 * i, day) = Due(f - 1 + i, day)
  <2> SUFFICES ASSUME NEW i \in Int
               PROVE  ClampedDueDate(year, month - 1 + 1 * i, day) = Due(f - 1 + i, day)
    OBVIOUS
  <2>1. PICK mo \in Int : mo = month - 1 + 1 * i
    OBVIOUS
  <2>2. ClampedDueDate(year, mo, day) = Due(12 * year + mo - 2, day)
    BY ClampedIsDue
  <2>3. 12 * year + mo - 2 = f - 1 + i
    BY <1>2, <2>1
  <2>4. QED
    BY <2>1, <2>2, <2>3
<1>5. PICK n \in Int : n = 2 + (to - from) \div (28 * 1)
  OBVIOUS
<1>6. PICK found : found = {ClampedDueDate(year, month - 1 + 1 * i, day) : i \in 0..n}
  OBVIOUS
<1>7. MonthCadence(1, day, from, to) = found \intersect from..to
  BY <1>1, <1>6, <1>5, Zenon DEF MonthCadence
<1>8. n >= 2 /\ 28 * (n - 1) > to - from
  BY <1>5
<1>9. ASSUME NEW d \in from..to, d \in found PROVE IsDue(d, day)
  <2>1. PICK i \in 0..n : d = ClampedDueDate(year, month - 1 + 1 * i, day)
    BY <1>6, <1>9
  <2>2. PICK k \in Int : k = f - 1 + i
    OBVIOUS
  <2>3. d = Due(k, day)
    BY <1>4, <2>1, <2>2, i \in Int
  <2>4. QED
    BY <2>3, DueIsDue
<1>10. ASSUME NEW d \in from..to, IsDue(d, day) PROVE d \in found
  <2>1. PICK k \in Int : k = NumberOf(Month(d))
    BY MonthIs DEF NumberOf
  <2>2. Opening(k) <= d /\ d < Opening(k + 1) /\ d = Due(k, day) /\ Opening(k) \in Int /\ Opening(k + 1) \in Int
    BY <1>10, <2>1, MonthIs, MonthLasts DEF IsDue
  <2>3. k >= f
    <3> SUFFICES ASSUME k < f PROVE FALSE
      OBVIOUS
    <3>1. PICK j \in Nat : f = k + 1 + j
      OBVIOUS
    <3>2. Opening(k + 1 + j) >= Opening(k + 1) + 28 * j
      BY k + 1 \in Int, OpeningsClimb
    <3>3. Opening(f) \in Int
      BY MonthLasts
    <3>4. QED
      BY <1>3, <2>2, <3>1, <3>2, <3>3
  <2>4. k - f + 1 <= n
    <3> SUFFICES ASSUME k - f + 1 > n PROVE FALSE
      OBVIOUS
    <3>1. PICK j \in Nat : k = f + 1 + j
      BY <1>8
    <3>2. Opening(f + 1 + j) >= Opening(f + 1) + 28 * j
      BY OpeningsClimb
    <3>3. Opening(k) >= Opening(f + 1) + 28 * j
      BY <3>1, <3>2
    <3>4. j >= n - 1
      BY <3>1
    <3>5. QED
      BY <1>3, <1>8, <2>2, <3>3, <3>4
  <2>5. PICK i \in 0..n : i = k - f + 1 /\ k = f - 1 + i
    BY <2>3, <2>4
  <2>6. d = ClampedDueDate(year, month - 1 + 1 * i, day)
    BY <1>4, <2>2, <2>5, i \in Int
  <2>7. QED
    BY <1>6, <1>5, <2>6
<1>11. QED
  BY <1>7, <1>9, <1>10

\* The next due date is this month's, or else the next month's.
LEMMA NextIsDue ==
  ASSUME NEW day \in 1..31, NEW now \in Int, NEW k \in Int, k = NumberOf(Month(now))
  PROVE  /\ NextDueDate(day, now) = IF Due(k, day) >= now THEN Due(k, day) ELSE Due(k + 1, day)
         /\ WebNextDueDate(day, now) = NextDueDate(day, now)
         /\ Due(k + 1, day) > now
<1>1. PICK year \in Int, month \in Int : Month(now).year = year /\ Month(now).month = month
  BY MonthIs
<1>2. k = 12 * year + month - 2
  BY <1>1 DEF NumberOf
<1>3. PICK a \in Int, b \in Int : a = Due(k, day) /\ b = Due(k + 1, day)
  BY k + 1 \in Int, DueIsInMonth
<1>4. now < Opening(k + 1) /\ Opening(k + 1) \in Int /\ Opening(k + 1) <= b
  BY <1>3, k + 1 \in Int, MonthIs, MonthLasts, DueIsInMonth
<1>5. b > now
  BY <1>4
<1>6. ClampedDueDate(year, month, day) = a
  <2>1. ClampedDueDate(year, month, day) = Due(12 * year + month - 2, day)
    BY ClampedIsDue
  <2>2. QED
    BY <1>2, <1>3, <2>1
<1>7. ClampedDueDate(year, month + 1, day) = b
  <2>1. ClampedDueDate(year, month + 1, day) = Due(12 * year + (month + 1) - 2, day)
    BY month + 1 \in Int, ClampedIsDue
  <2>2. QED
    BY <1>2, <1>3, <2>1
<1>8. WebNextDueDate(day, now) = IF a >= now THEN a ELSE b
  BY <1>1, <1>6, <1>7, Zenon DEF WebNextDueDate
<1>9. PICK c : c = {ClampedDueDate(year, month + i, day) : i \in 0..1}
  OBVIOUS
<1>10. c = {a, b}
  BY <1>6, <1>7, <1>9, month + 0 = month, 0..1 = {0, 1}
<1>11. NextDueDate(day, now) =
         IF \E d \in c : d >= now THEN Min({d \in c : d >= now}) ELSE now + 1
  BY <1>1, <1>9, Zenon DEF NextDueDate
<1>12. NextDueDate(day, now) = Min({d \in c : d >= now})
  BY <1>5, <1>10, <1>11
<1>13. CASE a >= now
  <2>1. {d \in c : d >= now} = {a, b}
    BY <1>5, <1>10, <1>13
  <2>2. a <= b
    BY <1>3, DueDaysApart
  <2>3. Min({a, b}) = a
    BY <2>2, LesserOf
  <2>4. QED
    BY <1>3, <1>5, <1>8, <1>12, <1>13, <2>1, <2>3
<1>14. CASE ~(a >= now)
  <2>1. {d \in c : d >= now} = {b, b}
    BY <1>5, <1>10, <1>14
  <2>2. Min({b, b}) = b
    BY LesserOf
  <2>3. QED
    BY <1>3, <1>5, <1>8, <1>12, <1>14, <2>1, <2>2
<1>15. QED
  BY <1>13, <1>14

\* The reminders of a day are the due days of the next three.
LEMMA RemindersAreDue ==
  ASSUME NEW day \in 1..31, NEW now \in Int
  PROVE  {NextDueDate(day, now)} \intersect {d \in now..(now + 31) : d - now <= ReminderWindow}
           = {d \in now..(now + ReminderWindow) : IsDue(d, day)}
<1>1. PICK k \in Int : k = NumberOf(Month(now))
  BY MonthIs DEF NumberOf
<1>2. PICK a \in Int, b \in Int : a = Due(k, day) /\ b = Due(k + 1, day)
  BY k + 1 \in Int, DueIsInMonth
<1>3. b > now /\ b >= a + 28
  BY <1>1, <1>2, NextIsDue, DueDaysApart
<1>4. PICK next \in Int : next = NextDueDate(day, now)
  BY <1>1, <1>2, NextIsDue
<1>5. next = IF a >= now THEN a ELSE b
  BY <1>1, <1>2, <1>4, NextIsDue
<1>6. IsDue(a, day) /\ IsDue(b, day)
  BY <1>2, DueIsDue
<1>7. ASSUME NEW d \in now..(now + 3), IsDue(d, day) PROVE d = a \/ d = b
  <2>1. PICK l \in Int : l = NumberOf(Month(d))
    BY MonthIs DEF NumberOf
  <2>2. Opening(l) <= d /\ d < Opening(l + 1) /\ d = Due(l, day) /\ Opening(l) \in Int /\ Opening(l + 1) \in Int
    BY <1>7, <2>1, MonthIs, MonthLasts DEF IsDue
  <2>3. Opening(k) <= now /\ now < Opening(k + 1) /\ Opening(k) \in Int /\ Opening(k + 1) \in Int
    BY <1>1, MonthIs, MonthLasts
  <2>4. CASE l < k
    <3>1. PICK j \in Nat : k = l + 1 + j
      BY <2>4
    <3>2. Opening(l + 1 + j) >= Opening(l + 1) + 28 * j
      BY OpeningsClimb
    <3>3. QED
      BY <2>2, <2>3, <3>1, <3>2
  <2>5. CASE l > k + 1
    <3>1. PICK j \in Nat : l = k + 1 + j /\ j >= 1
      BY <2>5
    <3>2. Opening(k + 1 + j) >= Opening(k + 1) + 28 * j
      BY OpeningsClimb
    <3>3. QED
      BY <2>2, <2>3, <3>1, <3>2
  <2>6. CASE l = k \/ l = k + 1
    BY <1>2, <2>2, <2>6
  <2>7. QED
    BY <2>4, <2>5, <2>6
<1>8. ASSUME NEW d \in now..(now + 3), IsDue(d, day) PROVE d = next
  BY <1>3, <1>5, <1>7, <1>8
<1>9. IsDue(next, day)
  BY <1>5, <1>6
<1>10. {next} \intersect {d \in now..(now + 31) : d - now <= 3} = {d \in now..(now + 3) : IsDue(d, day)}
  BY <1>8, <1>9
<1>11. QED
  BY <1>4, <1>10 DEF ReminderWindow

--------------------------------------------------------------------------------
(* Calendar: the history of a subscription *)

\* How long a month may last, from March.
MayLast(m) == IF m \in {0, 2, 4, 5, 7, 9, 10} THEN {31} ELSE IF m = 11 THEN 28..29 ELSE {30}

LEMMA LengthsAre ==
  ASSUME NEW k \in Int
  PROVE  LengthOf(k) \in MayLast(k % 12)
<1>1. k % 12 \in 0..11
  OBVIOUS
<1>2. QED
  BY <1>1, MonthLasts DEF MayLast

\* The due day of a month of so many days, counted from its opening.
Clamped(length, day) == IF day <= length THEN day ELSE length

\* The lengths of five months, of the m-th, and of two more.
Lasting(m, a, b, c, d, e, f, g, h) ==
  /\ a \in MayLast((m + 7) % 12) /\ b \in MayLast((m + 8) % 12) /\ c \in MayLast((m + 9) % 12)
  /\ d \in MayLast((m + 10) % 12) /\ e \in MayLast((m + 11) % 12) /\ f \in MayLast(m)
  /\ g \in MayLast((m + 1) % 12) /\ h \in MayLast((m + 2) % 12)

NearThirty(a, b, c, d, e, f, g, h, day) ==
  /\ a + b + c + d + e - 150 + Clamped(f, day) - Clamped(a, day) \in -3..3
  /\ b + c + d + e - 120 + Clamped(f, day) - Clamped(b, day) \in -3..3
  /\ c + d + e - 90 + Clamped(f, day) - Clamped(c, day) \in -3..3
  /\ d + e - 60 + Clamped(f, day) - Clamped(d, day) \in -3..3
  /\ e - 30 + Clamped(f, day) - Clamped(e, day) \in -3..3
  /\ 30 - f + Clamped(f, day) - Clamped(g, day) \in -3..3
  /\ 60 - f - g + Clamped(f, day) - Clamped(h, day) \in -3..3

\* Five months back and two ahead, thirty days are a month to within three days.
LEMMA ThirtyDaysAMonth ==
  ASSUME NEW m \in 0..11, NEW day \in 1..31,
         NEW a, NEW b, NEW c, NEW d, NEW e, NEW f, NEW g, NEW h,
         Lasting(m, a, b, c, d, e, f, g, h)
  PROVE  NearThirty(a, b, c, d, e, f, g, h, day)
<1>1. CASE m = 0
  <2>1. a = 31 /\ b = 30 /\ c = 31 /\ d = 31 /\ e \in 28..29 /\ f = 31 /\ g = 30 /\ h = 31
    BY <1>1 DEF MayLast, Lasting
  <2>2. QED
    BY <2>1 DEF Clamped, NearThirty
<1>2. CASE m = 1
  <2>1. a = 30 /\ b = 31 /\ c = 31 /\ d \in 28..29 /\ e = 31 /\ f = 30 /\ g = 31 /\ h = 30
    BY <1>2 DEF MayLast, Lasting
  <2>2. QED
    BY <2>1 DEF Clamped, NearThirty
<1>3. CASE m = 2
  <2>1. a = 31 /\ b = 31 /\ c \in 28..29 /\ d = 31 /\ e = 30 /\ f = 31 /\ g = 30 /\ h = 31
    BY <1>3 DEF MayLast, Lasting
  <2>2. QED
    BY <2>1 DEF Clamped, NearThirty
<1>4. CASE m = 3
  <2>1. a = 31 /\ b \in 28..29 /\ c = 31 /\ d = 30 /\ e = 31 /\ f = 30 /\ g = 31 /\ h = 31
    BY <1>4 DEF MayLast, Lasting
  <2>2. QED
    BY <2>1 DEF Clamped, NearThirty
<1>5. CASE m = 4
  <2>1. a \in 28..29 /\ b = 31 /\ c = 30 /\ d = 31 /\ e = 30 /\ f = 31 /\ g = 31 /\ h = 30
    BY <1>5 DEF MayLast, Lasting
  <2>2. QED
    BY <2>1 DEF Clamped, NearThirty
<1>6. CASE m = 5
  <2>1. a = 31 /\ b = 30 /\ c = 31 /\ d = 30 /\ e = 31 /\ f = 31 /\ g = 30 /\ h = 31
    BY <1>6 DEF MayLast, Lasting
  <2>2. QED
    BY <2>1 DEF Clamped, NearThirty
<1>7. CASE m = 6
  <2>1. a = 30 /\ b = 31 /\ c = 30 /\ d = 31 /\ e = 31 /\ f = 30 /\ g = 31 /\ h = 30
    BY <1>7 DEF MayLast, Lasting
  <2>2. QED
    BY <2>1 DEF Clamped, NearThirty
<1>8. CASE m = 7
  <2>1. a = 31 /\ b = 30 /\ c = 31 /\ d = 31 /\ e = 30 /\ f = 31 /\ g = 30 /\ h = 31
    BY <1>8 DEF MayLast, Lasting
  <2>2. QED
    BY <2>1 DEF Clamped, NearThirty
<1>9. CASE m = 8
  <2>1. a = 30 /\ b = 31 /\ c = 31 /\ d = 30 /\ e = 31 /\ f = 30 /\ g = 31 /\ h = 31
    BY <1>9 DEF MayLast, Lasting
  <2>2. QED
    BY <2>1 DEF Clamped, NearThirty
<1>10. CASE m = 9
  <2>1. a = 31 /\ b = 31 /\ c = 30 /\ d = 31 /\ e = 30 /\ f = 31 /\ g = 31 /\ h \in 28..29
    BY <1>10 DEF MayLast, Lasting
  <2>2. QED
    BY <2>1 DEF Clamped, NearThirty
<1>11. CASE m = 10
  <2>1. a = 31 /\ b = 30 /\ c = 31 /\ d = 30 /\ e = 31 /\ f = 31 /\ g \in 28..29 /\ h = 31
    BY <1>11 DEF MayLast, Lasting
  <2>2. QED
    BY <2>1 DEF Clamped, NearThirty
<1>12. CASE m = 11
  <2>1. a = 30 /\ b = 31 /\ c = 30 /\ d = 31 /\ e = 31 /\ f \in 28..29 /\ g = 31 /\ h = 30
    BY <1>12 DEF MayLast, Lasting
  <2>2. QED
    BY <2>1 DEF Clamped, NearThirty
<1>13. QED
  BY <1>1, <1>2, <1>3, <1>4, <1>5, <1>6, <1>7, <1>8, <1>9, <1>10, <1>11, <1>12

\* The dates of the history, reckoned by thirty days, are near the due days.
LEMMA HistoryInStep ==
  ASSUME NEW k \in Int, NEW day \in 1..31, NEW j \in -5..2
  PROVE  Due(k, day) + 30 * j - Due(k + j, day) \in -3..3
<1>1. PICK m \in 0..11 : m = k % 12
  OBVIOUS
<1>2. PICK z \in Int, y \in Int, x \in Int, w \in Int, v \in Int, n \in Int, o \in Int, p \in Int :
        /\ z = k - 5 /\ y = k - 4 /\ x = k - 3 /\ w = k - 2 /\ v = k - 1
        /\ n = k + 1 /\ o = k + 2 /\ p = k + 3
  OBVIOUS
<1>3. /\ z % 12 = (m + 7) % 12 /\ y % 12 = (m + 8) % 12 /\ x % 12 = (m + 9) % 12
      /\ w % 12 = (m + 10) % 12 /\ v % 12 = (m + 11) % 12
      /\ n % 12 = (m + 1) % 12 /\ o % 12 = (m + 2) % 12
  BY <1>1, <1>2
<1>4. /\ LengthOf(z) \in MayLast((m + 7) % 12) /\ LengthOf(y) \in MayLast((m + 8) % 12)
      /\ LengthOf(x) \in MayLast((m + 9) % 12) /\ LengthOf(w) \in MayLast((m + 10) % 12)
      /\ LengthOf(v) \in MayLast((m + 11) % 12) /\ LengthOf(k) \in MayLast(m)
      /\ LengthOf(n) \in MayLast((m + 1) % 12) /\ LengthOf(o) \in MayLast((m + 2) % 12)
  <2>1. /\ LengthOf(z) \in MayLast(z % 12) /\ LengthOf(y) \in MayLast(y % 12)
        /\ LengthOf(x) \in MayLast(x % 12) /\ LengthOf(w) \in MayLast(w % 12)
        /\ LengthOf(v) \in MayLast(v % 12) /\ LengthOf(k) \in MayLast(k % 12)
        /\ LengthOf(n) \in MayLast(n % 12) /\ LengthOf(o) \in MayLast(o % 12)
    BY LengthsAre
  <2>2. QED
    BY <1>1, <1>3, <2>1
<1>5. PICK a, b, c, d, e, f, g, h :
        /\ a = LengthOf(z) /\ b = LengthOf(y) /\ c = LengthOf(x) /\ d = LengthOf(w)
        /\ e = LengthOf(v) /\ f = LengthOf(k) /\ g = LengthOf(n) /\ h = LengthOf(o)
  OBVIOUS
<1>6. PICK first \in Int : first = Opening(z)
  BY MonthLasts
<1>7. /\ a \in 28..31 /\ b \in 28..31 /\ c \in 28..31 /\ d \in 28..31
      /\ e \in 28..31 /\ f \in 28..31 /\ g \in 28..31 /\ h \in 28..31
  BY <1>5, MonthLasts
<1>8. \A i \in Int : Opening(i) \in Int /\ Opening(i + 1) = Opening(i) + LengthOf(i)
  <2> TAKE i \in Int
  <2>1. Opening(i) \in Int /\ Opening(i + 1) \in Int
    BY MonthLasts
  <2>2. QED
    BY <2>1 DEF LengthOf
<1>9. /\ Opening(y) = first + a /\ Opening(x) = first + a + b /\ Opening(w) = first + a + b + c
      /\ Opening(v) = first + a + b + c + d /\ Opening(k) = first + a + b + c + d + e
      /\ Opening(n) = first + a + b + c + d + e + f
      /\ Opening(o) = first + a + b + c + d + e + f + g
  <2>1. y = z + 1 /\ x = y + 1 /\ w = x + 1 /\ v = w + 1 /\ k = v + 1 /\ n = k + 1 /\ o = n + 1
    BY <1>2
  <2>2. /\ Opening(y) = Opening(z) + a /\ Opening(x) = Opening(y) + b /\ Opening(w) = Opening(x) + c
        /\ Opening(v) = Opening(w) + d /\ Opening(k) = Opening(v) + e
        /\ Opening(n) = Opening(k) + f /\ Opening(o) = Opening(n) + g
    BY <1>5, <1>8, <2>1
  <2>3. QED
    BY <1>6, <1>7, <2>2
<1>10. /\ Due(z, day) = Opening(z) + Clamped(a, day) - 1 /\ Due(y, day) = Opening(y) + Clamped(b, day) - 1
       /\ Due(x, day) = Opening(x) + Clamped(c, day) - 1 /\ Due(w, day) = Opening(w) + Clamped(d, day) - 1
       /\ Due(v, day) = Opening(v) + Clamped(e, day) - 1 /\ Due(k, day) = Opening(k) + Clamped(f, day) - 1
       /\ Due(n, day) = Opening(n) + Clamped(g, day) - 1 /\ Due(o, day) = Opening(o) + Clamped(h, day) - 1
  BY <1>5 DEF Due, Clamped
<1>11. NearThirty(a, b, c, d, e, f, g, h, day)
  <2>1. Lasting(m, a, b, c, d, e, f, g, h)
    BY <1>4, <1>5, Zenon DEF Lasting
  <2>2. QED
    BY <2>1, ThirtyDaysAMonth
<1>12. /\ Clamped(a, day) \in Int /\ Clamped(b, day) \in Int /\ Clamped(c, day) \in Int
       /\ Clamped(d, day) \in Int /\ Clamped(e, day) \in Int /\ Clamped(f, day) \in Int
       /\ Clamped(g, day) \in Int /\ Clamped(h, day) \in Int
  BY <1>7 DEF Clamped
<1>13. Due(k, day) + 30 * (-5) - Due(z, day) \in -3..3
  BY <1>6, <1>7, <1>9, <1>10, <1>11, <1>12 DEF NearThirty
<1>14. Due(k, day) + 30 * (-4) - Due(y, day) \in -3..3
  BY <1>6, <1>7, <1>9, <1>10, <1>11, <1>12 DEF NearThirty
<1>15. Due(k, day) + 30 * (-3) - Due(x, day) \in -3..3
  BY <1>6, <1>7, <1>9, <1>10, <1>11, <1>12 DEF NearThirty
<1>16. Due(k, day) + 30 * (-2) - Due(w, day) \in -3..3
  BY <1>6, <1>7, <1>9, <1>10, <1>11, <1>12 DEF NearThirty
<1>17. Due(k, day) + 30 * (-1) - Due(v, day) \in -3..3
  BY <1>6, <1>7, <1>9, <1>10, <1>11, <1>12 DEF NearThirty
<1>18. Due(k, day) + 30 * 0 - Due(k, day) \in -3..3
  BY <1>6, <1>7, <1>9, <1>10, <1>11, <1>12 DEF NearThirty
<1>19. Due(k, day) + 30 * 1 - Due(n, day) \in -3..3
  BY <1>6, <1>7, <1>9, <1>10, <1>11, <1>12 DEF NearThirty
<1>20. Due(k, day) + 30 * 2 - Due(o, day) \in -3..3
  BY <1>6, <1>7, <1>9, <1>10, <1>11, <1>12 DEF NearThirty
<1>21. j = -5 \/ j = -4 \/ j = -3 \/ j = -2 \/ j = -1 \/ j = 0 \/ j = 1 \/ j = 2
  OBVIOUS
<1>22. CASE j = -5
  <2>1. k + j = z
    BY <1>2, <1>22
  <2>2. QED
    BY <1>13, <1>22, <2>1
<1>23. CASE j = -4
  <2>1. k + j = y
    BY <1>2, <1>23
  <2>2. QED
    BY <1>14, <1>23, <2>1
<1>24. CASE j = -3
  <2>1. k + j = x
    BY <1>2, <1>24
  <2>2. QED
    BY <1>15, <1>24, <2>1
<1>25. CASE j = -2
  <2>1. k + j = w
    BY <1>2, <1>25
  <2>2. QED
    BY <1>16, <1>25, <2>1
<1>26. CASE j = -1
  <2>1. k + j = v
    BY <1>2, <1>26
  <2>2. QED
    BY <1>17, <1>26, <2>1
<1>27. CASE j = 0
  <2>1. k + j = k
    BY <1>2, <1>27
  <2>2. QED
    BY <1>18, <1>27, <2>1
<1>28. CASE j = 1
  <2>1. k + j = n
    BY <1>2, <1>28
  <2>2. QED
    BY <1>19, <1>28, <2>1
<1>29. CASE j = 2
  <2>1. k + j = o
    BY <1>2, <1>29
  <2>2. QED
    BY <1>20, <1>29, <2>1
<1>30. QED
  BY <1>21, <1>22, <1>23, <1>24, <1>25, <1>26, <1>27, <1>28, <1>29

\* What a filter keeps of an interval, in its order.
LEMMA KeptInOrder ==
  ASSUME NEW a \in Int, NEW b \in Int, NEW i \in a..b
  PROVE  /\ Cardinality(a..b) = b - a + 1
         /\ Cardinality({j \in a..b : j < i}) = i - a
<1>1. Cardinality(a..b) = b - a + 1
  BY FS_Interval
<1>2. {j \in a..b : j < i} = a..(i - 1)
  OBVIOUS
<1>3. Cardinality(a..(i - 1)) = i - a
  <2>1. PICK c \in Int : c = i - 1
    OBVIOUS
  <2>2. Cardinality(a..c) = IF a > c THEN 0 ELSE c - a + 1
    BY FS_Interval
  <2>3. QED
    BY <2>1, <2>2
<1>4. QED
  BY <1>1, <1>2, <1>3

LEMMA KeptAt ==
  ASSUME NEW a \in Int, NEW b \in Int, NEW k \in 1..(b - a + 1)
  PROVE  (CHOOSE i \in a..b : Cardinality({j \in a..b : j < i}) = k - 1) = a + k - 1
<1>1. \A i \in a..b : Cardinality({j \in a..b : j < i}) = i - a
  BY KeptInOrder
<1>2. PICK x \in a..b : x = a + k - 1
  OBVIOUS
<1>3. \A i \in a..b : Cardinality({j \in a..b : j < i}) = k - 1 <=> i = x
  BY <1>1, <1>2
<1>4. (CHOOSE i \in a..b : Cardinality({j \in a..b : j < i}) = k - 1) = x
  BY <1>3, Zenon
<1>5. QED
  BY <1>2, <1>4

\* The rows of a subscription charged every thirty days, from the first that is kept.
Ahead(i, status) == IF i <= 2 THEN TRUE ELSE IF i = 3 THEN status # "canceled" ELSE FALSE
RowAt(next, status, i) == [date |-> next + 30 * (3 - i), upcoming |-> Ahead(i, status)]
HistoryOf(next, status, first, length) ==
  [k \in 1..length |-> RowAt(next, status, first + k - 1)]

LEMMA RowsAre ==
  ASSUME NEW next \in Int, NEW status
  PROVE  ChargeRows(next, "monthly", status) = [i \in 1..8 |-> RowAt(next, status, i)]
<1>1. PICK up : up = UpcomingChargeDates(next, "monthly", 3)
  OBVIOUS
<1>2. PICK down : down = RecentChargeDates(next, "monthly", 6)
  OBVIOUS
<1>3. up = [i \in 1..3 |-> next + i * 30]
  BY <1>1 DEF UpcomingChargeDates, ChargePeriod
<1>4. down = [i \in 1..6 |-> next - i * 30]
  BY <1>2 DEF RecentChargeDates, ChargePeriod
<1>5. PICK ahead : ahead = SubSeq(up, 1, 2)
  OBVIOUS
<1>6. Len(ahead) = 2 /\ ahead[1] = next + 30 /\ ahead[2] = next + 60
  BY <1>3, <1>5
<1>7. Reverse(ahead)[1] = next + 60 /\ Reverse(ahead)[2] = next + 30
  BY <1>6 DEF Reverse
<1>8. PICK past : past = SubSeq(down, 1, 5)
  OBVIOUS
<1>9. \A i \in 1..5 : past[i] = next - i * 30
  BY <1>4, <1>8
<1>10. PICK rows : rows =
         [i \in 1..8 |->
              IF i <= 2 THEN [date |-> Reverse(ahead)[i], upcoming |-> TRUE]
              ELSE IF i = 3 THEN [date |-> next, upcoming |-> status # "canceled"]
              ELSE [date |-> past[i - 3], upcoming |-> FALSE]]
  OBVIOUS
<1>11. ASSUME NEW i \in 1..8 PROVE rows[i] = RowAt(next, status, i)
  <2>1. CASE i \in 1..2
    <3>1. Reverse(ahead)[i] = next + 30 * (3 - i)
      BY <1>7, <2>1
    <3>2. rows[i] = [date |-> Reverse(ahead)[i], upcoming |-> TRUE]
      BY <1>10, <2>1
    <3>3. i <= 2
      BY <2>1
    <3>4. Ahead(i, status) = TRUE
      BY <3>3, Zenon DEF Ahead
    <3>5. QED
      BY <3>1, <3>2, <3>4, Zenon DEF RowAt
  <2>2. CASE i = 3
    <3>1. rows[i] = [date |-> next, upcoming |-> status # "canceled"]
      BY <1>10, <2>2
    <3>2. ~(i <= 2) /\ next + 30 * (3 - i) = next
      BY <2>2
    <3>3. Ahead(i, status) = (status # "canceled")
      BY <2>2, <3>2, Zenon DEF Ahead
    <3>4. QED
      BY <3>1, <3>2, <3>3, Zenon DEF RowAt
  <2>3. CASE i \in 4..8
    <3>1. past[i - 3] = next + 30 * (3 - i)
      <4>1. PICK j \in 1..5 : j = i - 3
        BY <2>3
      <4>2. QED
        BY <1>9, <4>1
    <3>2. rows[i] = [date |-> past[i - 3], upcoming |-> FALSE]
      BY <1>10, <2>3
    <3>3. ~(i <= 2) /\ i # 3
      BY <2>3
    <3>4. Ahead(i, status) = FALSE
      BY <3>3, Zenon DEF Ahead
    <3>5. QED
      BY <3>1, <3>2, <3>4, Zenon DEF RowAt
  <2>4. QED
    BY <2>1, <2>2, <2>3
<1>12. rows = [i \in 1..8 |-> RowAt(next, status, i)]
  BY <1>10, <1>11, Zenon
<1>13. QED
  BY <1>1, <1>2, <1>5, <1>8, <1>10, <1>12, Zenon DEF ChargeRows

\* The filter of HistoryRows.
KeptRows(rows, status) == {i \in 1..8 : ~rows[i].upcoming \/ status # "canceled"}
Filtered(rows, kept) ==
  [k \in 1..Cardinality(kept) |->
     rows[CHOOSE i \in kept : Cardinality({j \in kept : j < i}) = k - 1]]

\* A row that was charged.
Charged(row) == [row EXCEPT !.upcoming = FALSE]

LEMMA FieldOf ==
  ASSUME NEW due, NEW ahead, NEW row, row = [date |-> due, upcoming |-> ahead]
  PROVE  /\ row.upcoming = ahead /\ row.date = due
         /\ Charged(row) = [date |-> due, upcoming |-> FALSE]
<1>1. DOMAIN row = {"date", "upcoming"} /\ row.upcoming = ahead /\ row.date = due
  OBVIOUS
<1>2. PICK s : s = Charged(row)
  OBVIOUS
<1>3. DOMAIN s = {"date", "upcoming"} /\ s.date = due /\ s.upcoming = FALSE
  BY <1>1, <1>2 DEF Charged
<1>4. s = [date |-> due, upcoming |-> FALSE]
  BY <1>2, <1>3 DEF Charged
<1>5. QED
  BY <1>1, <1>2, <1>4

LEMMA HistoryIs ==
  ASSUME NEW next \in Int, NEW status, NEW first \in {1, 3}, NEW length \in {6, 8},
         first + length = 9, first = 3 <=> status = "canceled"
  PROVE  HistoryRows(next, "monthly", status) = HistoryOf(next, status, first, length)
<1>1. PICK rows : rows = ChargeRows(next, "monthly", status)
  OBVIOUS
<1>2. rows = [i \in 1..8 |-> RowAt(next, status, i)]
  BY <1>1, RowsAre, Zenon
<1>3. PICK kept : kept = {i \in 1..8 : ~rows[i].upcoming \/ status # "canceled"}
  OBVIOUS
<1>4. HistoryRows(next, "monthly", status) =
        [k \in 1..Cardinality(kept) |->
           rows[CHOOSE i \in kept : Cardinality({j \in kept : j < i}) = k - 1]]
  <2>1. HistoryRows(next, "monthly", status) =
          Filtered(ChargeRows(next, "monthly", status), KeptRows(ChargeRows(next, "monthly", status), status))
    BY DEF HistoryRows, Filtered, KeptRows
  <2>2. kept = KeptRows(rows, status)
    BY <1>3 DEF KeptRows
  <2>3. HistoryRows(next, "monthly", status) = Filtered(rows, kept)
    BY <1>1, <2>1, <2>2, Zenon
  <2>4. QED
    BY <2>3, Zenon DEF Filtered
<1>5. kept = first..8
  <2>1. CASE status # "canceled"
    <3>1. kept = 1..8
      BY <1>3, <2>1, Zenon
    <3>2. first = 1
      BY <2>1
    <3>3. QED
      BY <3>1, <3>2
  <2>2. CASE status = "canceled"
    <3>1. ASSUME NEW i \in 1..8 PROVE ~rows[i].upcoming <=> i >= 3
      <4>1. rows[i] = RowAt(next, status, i)
        BY <1>2, Zenon
      <4>2. rows[i].upcoming = Ahead(i, status)
        <5>1. PICK due, ahead : rows[i] = [date |-> due, upcoming |-> ahead] /\ ahead = Ahead(i, status)
          BY <4>1, Zenon DEF RowAt
        <5>2. rows[i].upcoming = ahead
          BY <5>1, FieldOf
        <5>3. QED
          BY <5>1, <5>2
      <4>3. CASE i <= 2
        <5>1. Ahead(i, status) = TRUE
          BY <4>3, Zenon DEF Ahead
        <5>2. ~(i >= 3)
          BY <4>3
        <5>3. QED
          BY <4>2, <5>1, <5>2, Zenon
      <4>4. CASE ~(i <= 2)
        <5>1. Ahead(i, status) = FALSE
          BY <2>2, <4>4, Zenon DEF Ahead
        <5>2. i >= 3
          BY <4>4
        <5>3. QED
          BY <4>2, <5>1, <5>2, Zenon
      <4>5. QED
        BY <4>3, <4>4, Zenon
    <3>2. kept = {i \in 1..8 : i >= 3}
      BY <1>3, <2>2, <3>1, Zenon
    <3>3. QED
      BY <2>2, <3>2
  <2>3. QED
    BY <2>1, <2>2
<1>6. Cardinality(kept) = length
  <2>1. 8 \in first..8 /\ first \in Int
    OBVIOUS
  <2>2. Cardinality(first..8) = 8 - first + 1
    BY <2>1, FS_Interval
  <2>3. QED
    BY <1>5, <2>2
<1>7. ASSUME NEW k \in 1..length
      PROVE  (CHOOSE i \in kept : Cardinality({j \in kept : j < i}) = k - 1) = first + k - 1
  <2>1. k \in 1..(8 - first + 1) /\ first \in Int
    OBVIOUS
  <2>2. (CHOOSE i \in first..8 : Cardinality({j \in first..8 : j < i}) = k - 1) = first + k - 1
    BY <2>1, KeptAt, 8 \in Int, Zenon
  <2>3. QED
    BY <1>5, <2>2, Zenon
<1>8. ASSUME NEW k \in 1..length PROVE rows[first + k - 1] = RowAt(next, status, first + k - 1)
  <2>1. first + k - 1 \in 1..8
    OBVIOUS
  <2>2. QED
    BY <1>2, <2>1, Zenon
<1>9. \A k \in 1..length :
        rows[CHOOSE i \in kept : Cardinality({j \in kept : j < i}) = k - 1] = RowAt(next, status, first + k - 1)
  BY <1>7, <1>8, Zenon
<1>10. QED
  BY <1>4, <1>6, <1>9, Zenon DEF HistoryOf

HistoryIsRight(next, rows) ==
  /\ Len(rows) = 8
  /\ \A i \in 1..8 : rows[i].date = next + 30 * (3 - i)
  /\ HistoryRows(next, "monthly", "canceled") =
       [i \in 1..6 |-> [rows[i + 2] EXCEPT !.upcoming = FALSE]]

LEMMA HistoriesAgree ==
  ASSUME NEW next \in Int, NEW rows, rows = HistoryRows(next, "monthly", "active")
  PROVE  HistoryIsRight(next, rows)
<1>1. rows = HistoryOf(next, "active", 1, 8)
  BY HistoryIs
<1>2. rows = [k \in 1..8 |-> RowAt(next, "active", 1 + k - 1)]
  BY <1>1, Zenon DEF HistoryOf
<1>3. ASSUME NEW i \in 1..8
      PROVE  rows[i] = [date |-> next + 30 * (3 - i), upcoming |-> Ahead(i, "active")]
  <2>1. 1 + i - 1 = i
    OBVIOUS
  <2>2. QED
    BY <1>2, <2>1, Zenon DEF RowAt
<1>4. Len(rows) = 8
  BY <1>2
<1>5. \A i \in 1..8 : rows[i].date = next + 30 * (3 - i)
  <2> SUFFICES ASSUME NEW i \in 1..8 PROVE rows[i].date = next + 30 * (3 - i)
    OBVIOUS
  <2>1. PICK due, ahead : rows[i] = [date |-> due, upcoming |-> ahead] /\ due = next + 30 * (3 - i)
    BY <1>3, Zenon
  <2>2. QED
    BY <2>1, FieldOf, Zenon
<1>6. PICK rest : rest = HistoryRows(next, "monthly", "canceled")
  OBVIOUS
<1>7. rest = HistoryOf(next, "canceled", 3, 6)
  BY <1>6, HistoryIs
<1>8. rest = [k \in 1..6 |-> RowAt(next, "canceled", 3 + k - 1)]
  BY <1>7, Zenon DEF HistoryOf
<1>9. ASSUME NEW i \in 1..6 PROVE rest[i] = Charged(rows[i + 2])
  <2>1. PICK j \in 1..8 : j = 3 + i - 1 /\ j = i + 2
    OBVIOUS
  <2>2. rest[i] = RowAt(next, "canceled", j)
    BY <1>8, <2>1, Zenon
  <2>3. ~(j <= 2)
    BY <2>1
  <2>4. Ahead(j, "canceled") = FALSE
    BY <2>3, Zenon DEF Ahead
  <2>5. rest[i] = [date |-> next + 30 * (3 - j), upcoming |-> FALSE]
    BY <2>2, <2>4, Zenon DEF RowAt
  <2>6. rows[j] = [date |-> next + 30 * (3 - j), upcoming |-> Ahead(j, "active")]
    BY <1>3, Zenon
  <2>7. PICK due, ahead : rows[j] = [date |-> due, upcoming |-> ahead] /\ rest[i] = [date |-> due, upcoming |-> FALSE]
    BY <2>5, <2>6, Zenon
  <2>8. Charged(rows[j]) = [date |-> due, upcoming |-> FALSE]
    BY <2>7, FieldOf, Zenon
  <2>9. QED
    BY <2>1, <2>7, <2>8, Zenon
<1>10. rest = [i \in 1..6 |-> [rows[i + 2] EXCEPT !.upcoming = FALSE]]
  BY <1>8, <1>9, Zenon DEF Charged
<1>11. QED
  BY <1>4, <1>5, <1>6, <1>10, Zenon DEF HistoryIsRight

--------------------------------------------------------------------------------
(* Watch: the invariant *)

CashTypes == {"checking", "savings"}

LargeKey(i) == [type |-> "large_purchase", about |-> i]
LowKey(balance) == [type |-> "low_balance", about |-> balance]

\* What may be announced now: large purchases and low balances of a cash account.
LargeKeys == {LargeKey(i) : i \in {x \in DOMAIN purchases : purchases[x].amount > LargePurchaseThreshold}}
LowKeys == {LowKey(b) : b \in {x \in Balances \union {NoBalance} :
              account.type \in CashTypes /\ x # NoBalance /\ x < LowBalanceThreshold}}

WatchType ==
  /\ account \in [type : AccountTypes, balance : Balances \union {NoBalance}]
  /\ purchases \in Seq([made : Int, stored : Nat, amount : Nat])
  /\ raised \in Seq(LargeKeys \union LowKeys)
  /\ watchDay \in Nat /\ skips \in Nat /\ evaluated \in BOOLEAN

NoneRaisedTwice == \A i, j \in 1..Len(raised) : raised[i] = raised[j] => i = j

IsRaised(key) == \E j \in 1..Len(raised) : raised[j] = key

\* A purchase that may still be announced waits a day for each evaluation that was lost.
LargeInv ==
  \A i \in 1..Len(purchases) :
    LET p == purchases[i] IN
    /\ p.stored <= watchDay
    /\ p.amount > LargePurchaseThreshold /\ p.stored - p.made + skips < LookbackDays
         /\ ~IsRaised(LargeKey(i)) => ~evaluated /\ watchDay - p.stored <= skips

LowInv ==
  evaluated /\ account.type = "checking" /\ account.balance # NoBalance
    /\ account.balance < LowBalanceThreshold => IsRaised(LowKey(account.balance))

WatchInv == WatchType /\ NoneRaisedTwice /\ LargeInv /\ LowInv

LEMMA WatchBegins == WatchInit => WatchInv
<1> SUFFICES ASSUME WatchInit PROVE WatchInv
  OBVIOUS
<1>1. account \in [type : AccountTypes, balance : Balances \union {NoBalance}]
  BY DEF WatchInit
<1>2. purchases = <<>> /\ raised = <<>> /\ watchDay = 0 /\ skips = 0 /\ evaluated = FALSE
  BY DEF WatchInit
<1>3. raised \in Seq(LargeKeys \union LowKeys) /\ purchases \in Seq([made : Int, stored : Nat, amount : Nat])
  BY <1>2, Zenon, EmptySeq
<1>4. WatchType
  BY <1>1, <1>2, <1>3 DEF WatchType
<1>5. NoneRaisedTwice /\ LargeInv /\ LowInv
  BY <1>2 DEF NoneRaisedTwice, LargeInv, LowInv
<1>6. QED
  BY <1>4, <1>5 DEF WatchInv

LEMMA StorePurchaseOk == ASSUME WatchInv, StorePurchase PROVE WatchInv'
<1>1. PICK age \in Ages, amount \in PurchaseAmounts :
        purchases' = Append(purchases, [made |-> watchDay - age, stored |-> watchDay, amount |-> amount])
  BY DEF StorePurchase
<1>2. UNCHANGED <<account, raised, watchDay, skips>> /\ evaluated' = FALSE
  BY DEF StorePurchase
<1>3. WatchType
  BY DEF WatchInv
<1>4. age \in Nat /\ amount \in Nat
  BY WatchAssumption
<1>5. PICK p : p = [made |-> watchDay - age, stored |-> watchDay, amount |-> amount]
  OBVIOUS
<1>6. p \in [made : Int, stored : Nat, amount : Nat] /\ p.stored = watchDay
  BY <1>3, <1>4, <1>5 DEF WatchType
<1>7. purchases' = Append(purchases, p)
  BY <1>1, <1>5
<1>8. /\ purchases' \in Seq([made : Int, stored : Nat, amount : Nat])
      /\ Len(purchases') = Len(purchases) + 1 /\ Len(purchases) \in Nat
      /\ \A i \in 1..Len(purchases) : purchases'[i] = purchases[i]
      /\ purchases'[Len(purchases) + 1] = p
      /\ DOMAIN purchases = 1..Len(purchases) /\ DOMAIN purchases' = 1..Len(purchases')
  BY <1>3, <1>6, <1>7 DEF WatchType
<1>9. raised' \in Seq(LargeKeys \union LowKeys)'
  <2>1. LargeKeys \subseteq LargeKeys'
    BY <1>8 DEF LargeKeys
  <2>2. LowKeys' = LowKeys
    BY <1>2 DEF LowKeys
  <2>3. QED
    BY <1>2, <1>3, <2>1, <2>2 DEF WatchType
<1>10. WatchType'
  BY <1>2, <1>3, <1>8, <1>9 DEF WatchType
<1>11. NoneRaisedTwice'
  BY <1>2 DEF WatchInv, NoneRaisedTwice
<1>12. LargeInv'
  <2> SUFFICES ASSUME NEW i \in 1..Len(purchases')
               PROVE  /\ purchases'[i].stored <= watchDay'
                      /\ evaluated' = FALSE /\ (~IsRaised(LargeKey(i))' =>
                           (purchases'[i].amount > LargePurchaseThreshold
                              /\ purchases'[i].stored - purchases'[i].made + skips' < LookbackDays
                              => watchDay' - purchases'[i].stored <= skips'))
    BY DEF LargeInv
  <2>1. CASE i = Len(purchases) + 1
    <3>1. purchases'[i] = p
      BY <1>8, <2>1
    <3>2. QED
      BY <1>2, <1>3, <1>6, <3>1 DEF WatchType
  <2>2. CASE i \in 1..Len(purchases)
    <3>1. purchases'[i] = purchases[i]
      BY <1>8, <2>2
    <3>2. IsRaised(LargeKey(i))' <=> IsRaised(LargeKey(i))
      BY <1>2 DEF IsRaised, LargeKey
    <3>3. QED
      BY <1>2, <2>2, <3>1, <3>2 DEF WatchInv, LargeInv
  <2>3. i = Len(purchases) + 1 \/ i \in 1..Len(purchases)
    BY <1>8
  <2>4. QED
    BY <2>1, <2>2, <2>3, Zenon
<1>13. LowInv'
  BY <1>2 DEF LowInv
<1>14. QED
  BY <1>10, <1>11, <1>12, <1>13 DEF WatchInv

LEMMA RefreshBalanceOk == ASSUME WatchInv, RefreshBalance PROVE WatchInv'
<1>1. PICK balance \in Balances \union {NoBalance} : account' = [account EXCEPT !.balance = balance]
  BY DEF RefreshBalance
<1>2. UNCHANGED <<purchases, raised, watchDay, skips>> /\ evaluated' = FALSE
  BY DEF RefreshBalance
<1>3. WatchType
  BY DEF WatchInv
<1>4. account' \in [type : AccountTypes, balance : Balances \union {NoBalance}] /\ account'.type = account.type
  BY <1>1, <1>3 DEF WatchType
<1>5. LargeKeys' = LargeKeys /\ LowKeys' = LowKeys
  BY <1>2, <1>4 DEF LargeKeys, LowKeys
<1>6. WatchType'
  BY <1>2, <1>3, <1>4, <1>5 DEF WatchType
<1>7. NoneRaisedTwice'
  BY <1>2 DEF WatchInv, NoneRaisedTwice
<1>8. LargeInv'
  <2>1. \A key : IsRaised(key)' <=> IsRaised(key)
    BY <1>2 DEF IsRaised
  <2>2. QED
    BY <1>2, <2>1 DEF WatchInv, LargeInv, LargeKey
<1>9. QED
  BY <1>2, <1>6, <1>7, <1>8 DEF WatchInv, LowInv

LEMMA DayEndsOk == ASSUME WatchInv, DayEnds PROVE WatchInv'
<1>1. /\ UNCHANGED <<account, purchases, raised>> /\ evaluated' = FALSE
      /\ watchDay' = watchDay + 1 /\ skips' = IF evaluated THEN skips ELSE skips + 1
  BY DEF DayEnds
<1>2. WatchType
  BY DEF WatchInv
<1>3. LargeKeys' = LargeKeys /\ LowKeys' = LowKeys
  BY <1>1 DEF LargeKeys, LowKeys
<1>4. WatchType'
  <2>1. watchDay' \in Nat /\ skips' \in Nat /\ evaluated' \in BOOLEAN
    <3>1. watchDay \in Nat /\ skips \in Nat
      BY <1>2 DEF WatchType
    <3>2. skips' \in {skips, skips + 1}
      BY <1>1, Zenon
    <3>3. skips' \in Nat
      BY <3>1, <3>2
    <3>4. watchDay' = watchDay + 1 /\ evaluated' = FALSE
      BY <1>1, Zenon
    <3>5. watchDay' \in Nat
      BY <3>1, <3>4
    <3>6. evaluated' \in BOOLEAN
      BY <3>4, Zenon
    <3>7. QED
      BY <3>3, <3>5, <3>6, Zenon
  <2>2. raised' \in Seq(LargeKeys \union LowKeys)'
    BY <1>1, <1>2, <1>3 DEF WatchType
  <2>3. account' = account /\ purchases' = purchases
    BY <1>1
  <2>4. QED
    BY <1>2, <2>1, <2>2, <2>3 DEF WatchType
<1>5. NoneRaisedTwice'
  BY <1>1 DEF WatchInv, NoneRaisedTwice
<1>6. LargeInv'
  <2>1. ASSUME NEW i \in 1..Len(purchases)
        PROVE  /\ purchases[i].stored <= watchDay'
               /\ purchases[i].amount > LargePurchaseThreshold
                    /\ purchases[i].stored - purchases[i].made + skips' < LookbackDays
                    /\ ~IsRaised(LargeKey(i)) => watchDay' - purchases[i].stored <= skips'
    <3>1. PICK p : p = purchases[i]
      OBVIOUS
    <3>2. p \in [made : Int, stored : Nat, amount : Nat]
      <4>1. purchases \in Seq([made : Int, stored : Nat, amount : Nat])
        BY <1>2 DEF WatchType
      <4>2. QED
        BY <3>1, <4>1, ElementOfSeq, Zenon
    <3>3. PICK made \in Int, stored \in Nat : made = p.made /\ stored = p.stored
      BY <3>2
    <3>4. /\ stored <= watchDay
          /\ p.amount > LargePurchaseThreshold /\ stored - made + skips < LookbackDays
               /\ ~IsRaised(LargeKey(i)) => ~evaluated /\ watchDay - stored <= skips
      BY <3>1, <3>3 DEF WatchInv, LargeInv
    <3>5. watchDay \in Nat /\ skips \in Nat
      BY <1>2 DEF WatchType
    <3>6. PICK large \in BOOLEAN, key \in BOOLEAN :
            /\ large <=> p.amount > LargePurchaseThreshold
            /\ key <=> IsRaised(LargeKey(i))
      BY Zenon
    <3>7. PICK was \in BOOLEAN : was <=> evaluated
      BY Zenon
    <3>8. large /\ stored - made + skips < 7 /\ ~key => ~was /\ watchDay - stored <= skips
      BY <3>4, <3>6, <3>7 DEF LookbackDays
    <3>9. watchDay' = watchDay + 1 /\ skips' = IF was THEN skips ELSE skips + 1
      BY <1>1, <3>7
    <3>10. large /\ stored - made + skips' < 7 /\ ~key => watchDay' - stored <= skips'
      BY <3>5, <3>8, <3>9
    <3>11. stored <= watchDay'
      BY <3>4, <3>5, <3>9
    <3>12. QED
      BY <3>1, <3>3, <3>6, <3>10, <3>11 DEF LookbackDays
  <2>2. \A key : IsRaised(key)' <=> IsRaised(key)
    BY <1>1 DEF IsRaised
  <2>3. QED
    BY <1>1, <2>1, <2>2 DEF LargeInv, LargeKey
<1>7. QED
  BY <1>1, <1>4, <1>5, <1>6 DEF WatchInv, LowInv

\* A finite set as a sequence: each element once.
LEMMA SetToSeqForm ==
  ASSUME NEW S, IsFiniteSet(S)
  PROVE  /\ SetToSeq(S) \in Seq(S)
         /\ \A i, j \in 1..Len(SetToSeq(S)) : SetToSeq(S)[i] = SetToSeq(S)[j] => i = j
         /\ \A x \in S : \E i \in 1..Len(SetToSeq(S)) : SetToSeq(S)[i] = x
<1>1. PICK n \in Nat : n = Cardinality(S)
  BY FS_CardinalityType
<1>2. \E f \in [1..n -> S] : IsInjective(f)
  <2>1. PICK f : f \in Bijection(1..n, S)
    BY <1>1, FS_CardinalityType DEF ExistsBijection
  <2>2. f \in [1..n -> S] /\ IsInjective(f)
    BY <2>1 DEF Bijection, Injection
  <2>3. QED
    BY <2>2
<1>3. PICK f : f = SetToSeq(S)
  OBVIOUS
<1>4. f \in [1..n -> S] /\ IsInjective(f)
  BY <1>1, <1>2, <1>3 DEF SetToSeq
<1>5. f \in Seq(S) /\ Len(f) = n
  BY <1>4
<1>6. \A i, j \in 1..n : f[i] = f[j] => i = j
  BY <1>4 DEF IsInjective
<1>7. \A x \in S : \E i \in 1..n : f[i] = x
  <2>1. f \in Injection(1..n, S)
    BY <1>4 DEF Injection
  <2>2. Cardinality(1..n) = Cardinality(S)
    BY <1>1, FS_Interval
  <2>3. f \in Surjection(1..n, S)
    BY <2>1, <2>2, FS_Injection
  <2>4. QED
    BY <2>3 DEF Surjection
<1>8. QED
  BY <1>3, <1>5, <1>6, <1>7

\* Sequences without repetitions that share nothing, joined.
LEMMA JoinedOnce ==
  ASSUME NEW m \in Nat, NEW n \in Nat, NEW r, NEW t, NEW c,
         \A i \in 1..(m + n) : c[i] = IF i <= m THEN r[i] ELSE t[i - m],
         \A x, y \in 1..m : r[x] = r[y] => x = y,
         \A x, y \in 1..n : t[x] = t[y] => x = y,
         \A x \in 1..m, y \in 1..n : r[x] # t[y]
  PROVE  \A i, j \in 1..(m + n) : c[i] = c[j] => i = j
<1> SUFFICES ASSUME NEW i \in 1..(m + n), NEW j \in 1..(m + n), c[i] = c[j] PROVE i = j
  OBVIOUS
<1>1. \A x \in 1..(m + n) : \/ x \in 1..m /\ c[x] = r[x]
                            \/ x - m \in 1..n /\ c[x] = t[x - m]
  <2> TAKE x \in 1..(m + n)
  <2>1. CASE x <= m
    BY <2>1
  <2>2. CASE ~(x <= m)
    BY <2>2
  <2>3. QED
    BY <2>1, <2>2
<1>2. CASE i \in 1..m /\ c[i] = r[i] /\ j \in 1..m /\ c[j] = r[j]
  BY <1>2
<1>3. CASE i \in 1..m /\ c[i] = r[i] /\ j - m \in 1..n /\ c[j] = t[j - m]
  BY <1>3
<1>4. CASE i - m \in 1..n /\ c[i] = t[i - m] /\ j \in 1..m /\ c[j] = r[j]
  BY <1>4
<1>5. CASE i - m \in 1..n /\ c[i] = t[i - m] /\ j - m \in 1..n /\ c[j] = t[j - m]
  <2>1. i - m = j - m
    BY <1>5
  <2>2. QED
    BY <2>1
<1>6. QED
  BY <1>1, <1>2, <1>3, <1>4, <1>5

\* A purchase stored so late that it has just so many evaluations left is not older
\* than what the next one looks back.
LEMMA StillInSight ==
  ASSUME NEW made \in Int, NEW stored \in Nat, NEW now \in Nat, NEW lost \in Nat,
         stored - made + lost < 7, now - stored <= lost
  PROVE  made >= now - 6 /\ made >= now - 7
OBVIOUS

LEMMA EvaluateUserOk == ASSUME WatchInv, EvaluateUser PROVE WatchInv'
<1>1. PICK cut \in {watchDay - LookbackDays, watchDay - LookbackDays + 1} :
        raised' = raised \o SetToSeq({d \in FindLowBalanceAccounts({account}) \union FindLargePurchases(Recent(cut)) :
                                        d \notin ToSet(raised)})
  BY DEF EvaluateUser
<1>2. UNCHANGED <<account, purchases, watchDay, skips>> /\ evaluated' = TRUE
  BY DEF EvaluateUser
<1>3. WatchType
  BY DEF WatchInv
<1>4. PICK low, large : low = FindLowBalanceAccounts({account}) /\ large = FindLargePurchases(Recent(cut))
  OBVIOUS
<1>5. low = {LowKey(account.balance) : x \in {y \in {1} : /\ account.type \in CashTypes /\ account.balance # NoBalance
                                                          /\ account.balance < LowBalanceThreshold}}
  BY <1>4 DEF FindLowBalanceAccounts, LowKey, CashTypes
<1>6. large = {LargeKey(i) : i \in {x \in DOMAIN purchases : purchases[x].made >= cut
                                                         /\ purchases[x].amount > LargePurchaseThreshold}}
  BY <1>4 DEF FindLargePurchases, Recent, LargeKey
<1>7. low \subseteq LowKeys /\ large \subseteq LargeKeys
  <2>1. account.balance \in Balances \union {NoBalance}
    BY <1>3 DEF WatchType
  <2>2. low \subseteq LowKeys
    BY <1>5, <2>1 DEF LowKeys
  <2>3. large \subseteq LargeKeys
    BY <1>6 DEF LargeKeys
  <2>4. QED
    BY <2>2, <2>3
<1>8. IsFiniteSet(low \union large)
  <2>1. IsFiniteSet(low)
    <3>1. low \subseteq {LowKey(account.balance)} /\ IsFiniteSet({LowKey(account.balance)})
      BY <1>5, FS_Singleton
    <3>2. QED
      BY <3>1, FS_Subset
  <2>2. IsFiniteSet(large)
    <3>1. DOMAIN purchases = 1..Len(purchases) /\ Len(purchases) \in Nat
      BY <1>3 DEF WatchType
    <3>2. PICK ids : ids = {x \in DOMAIN purchases : purchases[x].made >= cut
                                                         /\ purchases[x].amount > LargePurchaseThreshold}
      OBVIOUS
    <3>3. IsFiniteSet(1..Len(purchases))
      BY <3>1, FS_Interval
    <3>4. IsFiniteSet(ids)
      BY <3>1, <3>2, <3>3, FS_Subset
    <3>5. PICK f : f = [i \in ids |-> LargeKey(i)]
      OBVIOUS
    <3>6. f \in Surjection(ids, large)
      BY <1>6, <3>2, <3>5 DEF Surjection
    <3>7. QED
      BY <3>4, <3>6, FS_Surjection
  <2>3. QED
    BY <2>1, <2>2, FS_Union
<1>9. PICK new : new = {d \in low \union large : d \notin ToSet(raised)}
  OBVIOUS
<1>10. PICK t : t = SetToSeq(new)
  OBVIOUS
<1>11. /\ t \in Seq(new)
       /\ \A i, j \in 1..Len(t) : t[i] = t[j] => i = j
       /\ \A x \in new : \E i \in 1..Len(t) : t[i] = x
  <2>1. IsFiniteSet(new)
    BY <1>8, <1>9, FS_Subset
  <2>2. QED
    BY <1>10, <2>1, SetToSeqForm
<1>12. PICK keys : keys = LargeKeys \union LowKeys
  OBVIOUS
<1>13. PICK c : c = raised \o t
  OBVIOUS
<1>14. raised' = c
  BY <1>1, <1>4, <1>9, <1>10, <1>13, Zenon
<1>15. raised \in Seq(keys) /\ t \in Seq(keys)
  BY <1>3, <1>7, <1>9, <1>11, <1>12 DEF WatchType
<1>16. /\ c \in Seq(keys) /\ Len(c) = Len(raised) + Len(t)
       /\ \A i \in 1..(Len(raised) + Len(t)) :
            c[i] = IF i <= Len(raised) THEN raised[i] ELSE t[i - Len(raised)]
  BY <1>13, <1>15, ConcatProperties, Zenon
<1>17. Len(raised) \in Nat /\ Len(t) \in Nat /\ DOMAIN raised = 1..Len(raised)
  BY <1>15
<1>18. ToSet(raised) = {raised[i] : i \in 1..Len(raised)}
  BY <1>17 DEF ToSet
<1>19. \A i \in 1..Len(t) : t[i] \in new
  BY <1>11
<1>20. \A i \in 1..Len(raised), j \in 1..Len(t) : raised[i] # t[j]
  BY <1>9, <1>18, <1>19
<1>21. \A i, j \in 1..Len(c) : c[i] = c[j] => i = j
  <2>1. \A x, y \in 1..Len(raised) : raised[x] = raised[y] => x = y
    BY DEF WatchInv, NoneRaisedTwice
  <2>2. PICK m, n, r : m = Len(raised) /\ n = Len(t) /\ r = raised
    OBVIOUS
  <2>3. \A i, j \in 1..(m + n) : c[i] = c[j] => i = j
    <3>1. \A x \in 1..(m + n) : c[x] = IF x <= m THEN r[x] ELSE t[x - m]
      BY <1>16, <2>2, Zenon
    <3>2. \A x, y \in 1..m : r[x] = r[y] => x = y
      BY <2>1, <2>2, Zenon
    <3>3. \A x, y \in 1..n : t[x] = t[y] => x = y
      BY <1>11, <2>2, Zenon
    <3>4. \A x \in 1..m, y \in 1..n : r[x] # t[y]
      BY <1>20, <2>2, Zenon
    <3>5. m \in Nat /\ n \in Nat
      BY <1>17, <2>2
    <3>6. QED
      BY <3>1, <3>2, <3>3, <3>4, <3>5, JoinedOnce
  <2>4. QED
    BY <1>16, <2>2, <2>3
<1>22. ASSUME NEW key, IsRaised(key) \/ key \in low \union large PROVE IsRaised(key)'
  <2>1. \A x \in 1..Len(raised) : c[x] = raised[x] /\ x \in 1..Len(c)
    BY <1>16, <1>17
  <2>2. CASE IsRaised(key)
    BY <1>14, <2>1, <2>2 DEF IsRaised
  <2>3. CASE ~IsRaised(key) /\ key \in low \union large
    <3>1. key \in new
      BY <1>9, <1>18, <2>3 DEF IsRaised
    <3>2. PICK x \in 1..Len(t) : t[x] = key
      BY <1>11, <3>1
    <3>3. PICK y \in 1..Len(c) : y = x + Len(raised) /\ y \in 1..(Len(raised) + Len(t)) /\ ~(y <= Len(raised))
      BY <1>16, <1>17
    <3>4. y - Len(raised) = x
      BY <1>17, <3>3
    <3>5. c[y] = key
      BY <1>16, <3>2, <3>3, <3>4
    <3>6. QED
      BY <1>14, <3>5 DEF IsRaised
  <2>4. QED
    BY <1>22, <2>2, <2>3
<1>23. LargeKeys' = LargeKeys /\ LowKeys' = LowKeys
  BY <1>2 DEF LargeKeys, LowKeys
<1>24. WatchType'
  <2>1. raised' \in Seq(LargeKeys \union LowKeys)'
    BY <1>12, <1>14, <1>16, <1>23
  <2>2. account' = account /\ purchases' = purchases /\ watchDay' = watchDay /\ skips' = skips /\ evaluated' \in BOOLEAN
    BY <1>2
  <2>3. QED
    BY <1>3, <2>1, <2>2 DEF WatchType
<1>25. NoneRaisedTwice'
  BY <1>14, <1>21 DEF NoneRaisedTwice
<1>26. LargeInv'
  <2> SUFFICES ASSUME NEW i \in 1..Len(purchases)
               PROVE  /\ purchases[i].stored <= watchDay
                      /\ purchases[i].amount > LargePurchaseThreshold
                           /\ purchases[i].stored - purchases[i].made + skips < LookbackDays
                           => IsRaised(LargeKey(i))'
    BY <1>2 DEF LargeInv, LargeKey
  <2>1. PICK p : p = purchases[i]
    OBVIOUS
  <2>2. p \in [made : Int, stored : Nat, amount : Nat]
    <3>1. purchases \in Seq([made : Int, stored : Nat, amount : Nat])
      BY <1>3 DEF WatchType
    <3>2. QED
      BY <2>1, <3>1, ElementOfSeq, Zenon
  <2>3. PICK made \in Int, stored \in Nat : made = p.made /\ stored = p.stored
    BY <2>2
  <2>4. /\ stored <= watchDay
        /\ p.amount > LargePurchaseThreshold /\ stored - made + skips < LookbackDays
             /\ ~IsRaised(LargeKey(i)) => watchDay - stored <= skips
    BY <2>1, <2>3 DEF WatchInv, LargeInv
  <2>5. watchDay \in Nat /\ skips \in Nat
    BY <1>3 DEF WatchType
  <2>6. ASSUME p.amount > LargePurchaseThreshold, stored - made + skips < 7, ~IsRaised(LargeKey(i))
        PROVE  LargeKey(i) \in large
    <3>1. watchDay - stored <= skips
      BY <2>4, <2>6 DEF LookbackDays
    <3>2. made >= watchDay - 6 /\ made >= watchDay - 7
      <4>1. made \in Int /\ stored \in Nat /\ stored - made + skips < 7
        BY <2>3, <2>6
      <4>2. QED
        BY <2>5, <3>1, <4>1, StillInSight, Zenon
    <3>3. cut = watchDay - 7 \/ cut = watchDay - 6
      BY <2>5 DEF LookbackDays
    <3>4. made >= cut
      BY <3>2, <3>3
    <3>5. i \in DOMAIN purchases
      BY <1>3 DEF WatchType
    <3>6. QED
      BY <1>6, <2>1, <2>3, <2>6, <3>4, <3>5
  <2>7. QED
    BY <1>22, <2>1, <2>3, <2>4, <2>6 DEF LookbackDays
<1>27. LowInv'
  <2> SUFFICES ASSUME account.type = "checking", account.balance # NoBalance, account.balance < LowBalanceThreshold,
                      NEW balance, balance = account.balance
               PROVE  IsRaised(LowKey(balance))'
    BY <1>2 DEF LowInv, LowKey
  <2>1. LowKey(balance) \in low
    BY <1>5 DEF CashTypes
  <2>2. PICK key : key = LowKey(balance)
    OBVIOUS
  <2>3. IsRaised(key)'
    BY <1>22, <2>1, <2>2
  <2>4. QED
    BY <2>2, <2>3, Zenon
<1>28. QED
  BY <1>24, <1>25, <1>26, <1>27 DEF WatchInv

LEMMA WatchStep == WatchInv /\ [WatchNext]_watchVars => WatchInv'
<1> SUFFICES ASSUME WatchInv, [WatchNext]_watchVars PROVE WatchInv'
  OBVIOUS
<1>1. CASE UNCHANGED watchVars
  <2>1. /\ account' = account /\ purchases' = purchases /\ raised' = raised
        /\ watchDay' = watchDay /\ evaluated' = evaluated /\ skips' = skips
    BY <1>1 DEF watchVars
  <2>2. WatchType' /\ NoneRaisedTwice' /\ LargeInv' /\ LowInv'
    BY <2>1 DEF WatchInv, WatchType, LargeKeys, LowKeys, NoneRaisedTwice, LargeInv, LowInv, IsRaised, LargeKey, LowKey
  <2>3. QED
    BY <2>2 DEF WatchInv
<1>2. QED
  BY <1>1, StorePurchaseOk, RefreshBalanceOk, DayEndsOk, EvaluateUserOk, Zenon DEF WatchNext

LEMMA WatchKeeps == WatchInv => WatchIsKept
<1> SUFFICES ASSUME WatchInv PROVE WatchIsKept
  OBVIOUS
<1>1. WatchType /\ NoneRaisedTwice /\ LargeInv /\ LowInv
  BY DEF WatchInv
<1>2. PICK keys : keys = ToSet(raised)
  OBVIOUS
<1>3. Len(raised) \in Nat /\ DOMAIN raised = 1..Len(raised) /\ raised \in [1..Len(raised) -> keys]
  <2>1. Len(raised) \in Nat /\ DOMAIN raised = 1..Len(raised)
    BY <1>1 DEF WatchType
  <2>2. raised = [i \in 1..Len(raised) |-> raised[i]]
    BY <1>1, <2>1 DEF WatchType
  <2>3. QED
    BY <1>2, <2>1, <2>2 DEF ToSet
<1>4. \A key : key \in keys <=> IsRaised(key)
  BY <1>2, <1>3 DEF ToSet, IsRaised
<1>5. Cardinality(keys) = Len(raised)
  <2>1. raised \in Bijection(1..Len(raised), keys)
    BY <1>1, <1>2, <1>3 DEF NoneRaisedTwice, ToSet, Bijection, Injection, Surjection, IsInjective
  <2>2. IsFiniteSet(1..Len(raised)) /\ Cardinality(1..Len(raised)) = Len(raised)
    BY <1>3, FS_Interval
  <2>3. QED
    BY <2>1, <2>2, FS_Bijection DEF ExistsBijection
<1>6. \A key \in keys : key \in LargeKeys \union LowKeys
  BY <1>1, <1>3, <1>4 DEF WatchType, IsRaised
<1>7. \A i \in DOMAIN purchases :
        /\ LargeKey(i) \in keys => purchases[i].amount > LargePurchaseThreshold
        /\ /\ purchases[i].amount > LargePurchaseThreshold
           /\ purchases[i].stored - purchases[i].made + skips < LookbackDays
           /\ watchDay > purchases[i].stored + skips
           => LargeKey(i) \in keys
  <2> TAKE i \in DOMAIN purchases
  <2>1. i \in 1..Len(purchases)
    BY <1>1 DEF WatchType
  <2>2. LargeKey(i) \in keys => purchases[i].amount > LargePurchaseThreshold
    BY <1>6 DEF LargeKeys, LowKeys, LargeKey, LowKey
  <2>3. purchases[i] \in [made : Int, stored : Nat, amount : Nat]
    <3>1. purchases \in Seq([made : Int, stored : Nat, amount : Nat])
      BY <1>1 DEF WatchType
    <3>2. QED
      BY <2>1, <3>1, ElementOfSeq, Zenon
  <2>4. PICK stored \in Nat : stored = purchases[i].stored
    BY <2>3
  <2>5. watchDay \in Nat /\ skips \in Nat
    BY <1>1 DEF WatchType
  <2>6. watchDay > stored + skips => ~(watchDay - stored <= skips)
    BY <2>5
  <2>7. QED
    BY <1>1, <1>4, <2>1, <2>2, <2>4, <2>6 DEF LargeInv
<1>8. evaluated /\ account.type = "checking" /\ account.balance # NoBalance =>
        (account.balance < LowBalanceThreshold <=> LowKey(account.balance) \in keys)
  <2>1. LowKey(account.balance) \in keys => account.balance < LowBalanceThreshold
    BY <1>6 DEF LargeKeys, LowKeys, LargeKey, LowKey
  <2>2. QED
    BY <1>1, <1>4, <2>1, Zenon DEF LowInv
<1>9. account.type = "credit_card" => \A k \in keys : k.type = "large_purchase"
  BY <1>6 DEF LargeKeys, LowKeys, LargeKey, LowKey, CashTypes
<1>10. QED
  BY <1>2, <1>5, <1>7, <1>8, <1>9, Zenon DEF WatchIsKept, LargeKey, LowKey

--------------------------------------------------------------------------------
(* Days: the theorem *)

CalendarInv ==
  /\ bill \in [cadence : Cadences, dueDay : DueDays]
  /\ started \in Nat /\ today \in Nat /\ started <= today
  /\ reminded = {d \in started..(today + ReminderWindow) : IsMonthlyDue(d)}

LEMMA RemindersFollow ==
  ASSUME bill \in [cadence : Cadences, dueDay : DueDays], NEW now \in Int
  PROVE  FindUpcomingBills(now) = {d \in now..(now + ReminderWindow) : IsMonthlyDue(d)}
<1>1. bill.dueDay \in 1..31
  BY CalendarAssumption
<1>2. PICK day \in 1..31 : day = bill.dueDay
  BY <1>1
<1>3. FindUpcomingBills(now) = {d \in now..(now + ReminderWindow) : IsDue(d, day)}
  BY <1>2, RemindersAreDue DEF FindUpcomingBills
<1>4. \A d \in now..(now + ReminderWindow) : IsMonthlyDue(d) <=> IsDue(d, day)
  BY <1>1, <1>2, MonthlyDueIsDue
<1>5. QED
  BY <1>3, <1>4

LEMMA CalendarBegins == CalendarInit => CalendarInv
<1> SUFFICES ASSUME CalendarInit PROVE CalendarInv
  OBVIOUS
<1>1. bill \in [cadence : Cadences, dueDay : DueDays] /\ started \in Nat /\ today = started
  BY CalendarAssumption DEF CalendarInit
<1>2. PICK now \in Int : now = started
  BY <1>1
<1>3. FindUpcomingBills(now) = {d \in now..(now + ReminderWindow) : IsMonthlyDue(d)}
  BY <1>1, RemindersFollow
<1>4. reminded = {d \in started..(today + ReminderWindow) : IsMonthlyDue(d)}
  BY <1>1, <1>2, <1>3 DEF CalendarInit
<1>5. QED
  BY <1>1, <1>4 DEF CalendarInv

LEMMA CalendarStep == CalendarInv /\ [NextDay]_calendarVars => CalendarInv'
<1> SUFFICES ASSUME CalendarInv, [NextDay]_calendarVars PROVE CalendarInv'
  OBVIOUS
<1>1. CASE NextDay
  <2>1. bill' = bill /\ started' = started /\ today' = today + 1
        /\ reminded' = reminded \union FindUpcomingBills(today + 1)
    BY <1>1 DEF NextDay
  <2>2. started \in Nat /\ today \in Nat /\ started <= today
    BY DEF CalendarInv
  <2>3. PICK due : due = {d \in Int : IsMonthlyDue(d)}
    OBVIOUS
  <2>4. reminded = due \intersect started..(today + 3)
    BY <2>2, <2>3 DEF CalendarInv, ReminderWindow
  <2>5. PICK now \in Int : now = today + 1
    BY <2>2
  <2>6. FindUpcomingBills(now) = due \intersect now..(now + 3)
    <3>1. FindUpcomingBills(now) = {d \in now..(now + 3) : IsMonthlyDue(d)}
      BY RemindersFollow DEF CalendarInv, ReminderWindow
    <3>2. QED
      BY <2>3, <3>1
  <2>7. started..(today + 3) \union now..(now + 3) = started..(today' + 3)
    BY <2>1, <2>2, <2>5
  <2>8. reminded' = due \intersect started..(today' + 3)
    BY <2>1, <2>4, <2>5, <2>6, <2>7
  <2>9. {d \in started..(today' + 3) : IsMonthlyDue(d)'} = due \intersect started..(today' + 3)
    <3>1. \A d : IsMonthlyDue(d)' <=> IsMonthlyDue(d)
      BY <2>1 DEF IsMonthlyDue
    <3>2. started..(today' + 3) \subseteq Int
      BY <2>1, <2>2
    <3>3. QED
      BY <2>3, <3>1, <3>2
  <2>10. reminded' = {d \in started..(today + ReminderWindow) : IsMonthlyDue(d)}'
    BY <2>1, <2>8, <2>9 DEF ReminderWindow
  <2>11. QED
    BY <2>1, <2>2, <2>10 DEF CalendarInv
<1>2. CASE UNCHANGED calendarVars
  <2>1. bill' = bill /\ started' = started /\ today' = today /\ reminded' = reminded
    BY <1>2 DEF calendarVars
  <2>2. QED
    BY <2>1 DEF CalendarInv, IsMonthlyDue
<1>3. QED
  BY <1>1, <1>2

LEMMA DueDatesHold == CalendarInv => DueDatesAreExact
<1> SUFFICES ASSUME CalendarInv, bill.cadence = "monthly"
             PROVE  /\ IsMonthlyDue(today) =>
                         LET rows == HistoryRows(today, "monthly", "active")
                             m == Month(today)
                         IN /\ Len(rows) = 8
                            /\ \A i \in 1..8 :
                                 rows[i].date - ClampedDueDate(m.year, m.month + 3 - i, bill.dueDay) \in -3..3
                            /\ rows[4].date = PreviousChargeDate(today, "monthly")
                            /\ HistoryRows(today, "monthly", "canceled") =
                                 [i \in 1..6 |-> [rows[i + 2] EXCEPT !.upcoming = FALSE]]
                    /\ Upcoming(today) = {d \in (today - OverdueLookback)..(today + Horizon) : IsMonthlyDue(d)}
                    /\ reminded = {d \in started..(today + ReminderWindow) : IsMonthlyDue(d)}
                    /\ WebNextDueDate(bill.dueDay, today) = NextDueDate(bill.dueDay, today)
  BY DEF DueDatesAreExact
<1>1. bill.dueDay \in 1..31 /\ today \in Int
  <2>1. bill \in [cadence : Cadences, dueDay : DueDays] /\ today \in Nat
    BY DEF CalendarInv
  <2>2. bill.dueDay \in DueDays
    BY <2>1
  <2>3. bill.dueDay \in 1..31
    BY <2>2, CalendarAssumption, Zenon
  <2>4. QED
    BY <2>1, <2>3
<1>2. PICK day \in 1..31, now \in Int : day = bill.dueDay /\ now = today
  BY <1>1
<1>3. \A d \in Int : IsMonthlyDue(d) <=> IsDue(d, day)
  BY <1>1, <1>2, MonthlyDueIsDue
<1>4. PICK k \in Int : k = NumberOf(Month(now))
  BY MonthIs DEF NumberOf
<1>5. WebNextDueDate(day, now) = NextDueDate(day, now)
  BY <1>4, NextIsDue
<1>6. Upcoming(now) = {d \in (now - OverdueLookback)..(now + Horizon) : IsMonthlyDue(d)}
  <2>1. PICK from \in Int, to \in Int : from = now - OverdueLookback /\ to = now + Horizon /\ from <= to
    BY CalendarAssumption DEF OverdueLookback
  <2>2. Upcoming(now) = BillOccurrences("monthly", day, from, to)
    BY <1>2, <2>1, Zenon DEF Upcoming
  <2>3. "monthly" \in DOMAIN MonthStep /\ MonthStep["monthly"] = 1
    BY DEF MonthStep
  <2>4. Upcoming(now) = MonthCadence(1, day, from, to)
    BY <2>2, <2>3, Zenon DEF BillOccurrences
  <2>5. MonthCadence(1, day, from, to) = {d \in from..to : IsDue(d, day)}
    BY <2>1, WindowIsDue
  <2>6. {d \in from..to : IsDue(d, day)} = {d \in from..to : IsMonthlyDue(d)}
    BY <1>3
  <2>7. QED
    BY <2>1, <2>4, <2>5, <2>6, Zenon
<1>7. ASSUME IsMonthlyDue(now), NEW rows, rows = HistoryRows(now, "monthly", "active"),
             NEW m, m = Month(now)
      PROVE  /\ Len(rows) = 8
             /\ \A i \in 1..8 : rows[i].date - ClampedDueDate(m.year, m.month + 3 - i, day) \in -3..3
             /\ rows[4].date = PreviousChargeDate(now, "monthly")
             /\ HistoryRows(now, "monthly", "canceled") =
                  [i \in 1..6 |-> [rows[i + 2] EXCEPT !.upcoming = FALSE]]
  <2>0. HistoryIsRight(now, rows)
    BY <1>7, HistoriesAgree, Zenon
  <2>1. /\ Len(rows) = 8
        /\ \A i \in 1..8 : rows[i].date = now + 30 * (3 - i)
        /\ HistoryRows(now, "monthly", "canceled") =
             [i \in 1..6 |-> [rows[i + 2] EXCEPT !.upcoming = FALSE]]
    BY <2>0, Zenon DEF HistoryIsRight
  <2>2. PICK year \in Int, month \in Int : year = m.year /\ month = m.month
    BY <1>7, MonthIs
  <2>3. k = 12 * year + month - 2
    BY <1>4, <1>7, <2>2 DEF NumberOf
  <2>4. now = Due(k, day)
    BY <1>3, <1>4, <1>7 DEF IsDue
  <2>5. ASSUME NEW i \in 1..8
        PROVE  rows[i].date - ClampedDueDate(m.year, m.month + 3 - i, day) \in -3..3
    <3>1. PICK j \in -5..2 : j = 3 - i
      OBVIOUS
    <3>2. PICK mo \in Int : mo = month + 3 - i /\ 12 * year + mo - 2 = k + j
      BY <2>3, <3>1
    <3>3. ClampedDueDate(year, mo, day) = Due(k + j, day)
      <4>1. ClampedDueDate(year, mo, day) = Due(12 * year + mo - 2, day)
        BY ClampedIsDue
      <4>2. QED
        BY <3>2, <4>1
    <3>4. rows[i].date = Due(k, day) + 30 * j
      BY <2>1, <2>4, <3>1
    <3>5. Due(k, day) + 30 * j - Due(k + j, day) \in -3..3
      BY HistoryInStep
    <3>6. ClampedDueDate(m.year, m.month + 3 - i, day) = Due(k + j, day)
      BY <2>2, <3>2, <3>3
    <3>7. PICK a \in Int, b \in Int : a = Due(k, day) + 30 * j /\ b = Due(k + j, day)
      <4>1. Due(k, day) \in Int /\ Due(k + j, day) \in Int
        BY k + j \in Int, DueIsInMonth
      <4>2. QED
        BY <4>1
    <3>8. rows[i].date - ClampedDueDate(m.year, m.month + 3 - i, day) = a - b
      BY <3>4, <3>6, <3>7, Zenon
    <3>9. a - b \in -3..3
      <4>1. PICK e \in Int : e = Due(k, day) /\ a = e + 30 * j
        BY <3>7, DueIsInMonth
      <4>2. e + 30 * j - b \in -3..3
        BY <3>5, <3>7, <4>1, Zenon
      <4>3. QED
        BY <3>7, <4>1, <4>2
    <3>10. QED
      BY <3>8, <3>9, Zenon
  <2>6. rows[4].date = PreviousChargeDate(now, "monthly")
    BY <2>1 DEF PreviousChargeDate, ChargePeriod
  <2>7. QED
    BY <2>1, <2>5, <2>6, Zenon
<1>8. reminded = {d \in started..(today + ReminderWindow) : IsMonthlyDue(d)}
  BY DEF CalendarInv
<1>9. QED
  BY <1>2, <1>5, <1>6, <1>7, <1>8, Zenon

\* Over all its days a member finds due dates exact, wherever they are reckoned, and
\* is told every standing fact once: for every day of the month, start and horizon, for
\* any purchases, however late, and however many evaluations were lost.
THEOREM DaysHold == DaysSpec => []DaysAreKept
<1>1. CalendarSpec => []CalendarInv
  BY CalendarBegins, CalendarStep, PTL DEF CalendarSpec
<1>2. WatchSpec => []WatchInv
  BY WatchBegins, WatchStep, PTL DEF WatchSpec
<1>3. CalendarInv /\ WatchInv => DaysAreKept
  BY DueDatesHold, WatchKeeps, Zenon DEF DaysAreKept
<1>4. QED
  BY <1>1, <1>2, <1>3, PTL DEF DaysSpec

--------------------------------------------------------------------------------
(* Money: rounding *)

LEMMA GreaterOf ==
  ASSUME NEW a \in Int, NEW b \in Int
  PROVE  Max({a, b}) = IF a >= b THEN a ELSE b
<1>1. PICK m : m = IF a >= b THEN a ELSE b
  OBVIOUS
<1>2. m \in {a, b} /\ \A x \in {a, b} : m >= x
  BY <1>1
<1>3. \A n \in {a, b} : (\A x \in {a, b} : n >= x) => n = m
  BY <1>1
<1>4. QED
  BY <1>1, <1>2, <1>3 DEF Max

\* What is rounded lies half a unit off at most.
LEMMA RoundedIs ==
  ASSUME NEW n \in Nat, NEW d \in Nat \ {0}
  PROVE  /\ Rounded(n, d) \in Nat
         /\ (2 * d) * Rounded(n, d) <= 2 * n + d
         /\ 2 * n + d < (2 * d) * Rounded(n, d) + 2 * d
<1>1. PICK e \in Nat, m \in Nat : e = 2 * d /\ m = 2 * n + d /\ e > 0
  OBVIOUS
<1>2. PICK q : q = m \div e
  OBVIOUS
<1>3. q \in Int /\ e * q <= m /\ m < e * q + e
  BY <1>1, <1>2
<1>4. q >= 0
  <2>1. SUFFICES ASSUME q <= -1 PROVE FALSE
    BY <1>3
  <2>2. e * q <= e * (-1)
    BY <1>1, <1>3, <2>1
  <2>3. QED
    BY <1>1, <1>3, <2>2
<1>5. Rounded(n, d) = q
  BY <1>1, <1>2 DEF Rounded
<1>6. QED
  BY <1>1, <1>3, <1>4, <1>5

LEMMA TwelfthIs ==
  ASSUME NEW n \in Nat
  PROVE  /\ Rounded(n, 12) \in Nat
         /\ 24 * Rounded(n, 12) <= 2 * n + 12 /\ 2 * n + 12 < 24 * Rounded(n, 12) + 24
<1>1. 12 \in Nat \ {0} /\ 2 * 12 = 24
  OBVIOUS
<1>2. QED
  BY <1>1, RoundedIs

LEMMA HundredthIs ==
  ASSUME NEW n \in Nat
  PROVE  /\ Rounded(n, 100) \in Nat
         /\ 200 * Rounded(n, 100) <= 2 * n + 100 /\ 2 * n + 100 < 200 * Rounded(n, 100) + 200
<1>1. 100 \in Nat \ {0} /\ 2 * 100 = 200
  OBVIOUS
<1>2. QED
  BY <1>1, RoundedIs

LEMMA TwelfthOfYear ==
  ASSUME NEW m \in Nat, NEW y, y = 12 * m
  PROVE  Rounded(y, 12) = m
<1>1. PICK R \in Nat : R = Rounded(y, 12)
  BY TwelfthIs
<1>2. 24 * R <= 2 * y + 12 /\ 2 * y + 12 < 24 * R + 24
  BY <1>1, TwelfthIs
<1>3. R <= m /\ m <= R
  BY <1>2
<1>4. QED
  BY <1>1, <1>3

Everywhen == {"weekly", "biweekly", "monthly", "quarterly", "annual"}

\* What a row costs a month, as the engine reckons it and as the dashboard does.
CostsAbout(m, w, c, d, periods) ==
  /\ m \in Nat /\ w \in Nat /\ c \in Nat
  /\ 2 * (m * d) - 974 * c <= d /\ 974 * c - 2 * (m * d) <= d
  /\ 12 * w - periods * c <= 6 /\ periods * c - 12 * w <= 6

LEMMA CostsAre ==
  ASSUME NEW c \in Nat, NEW cad \in Everywhen
  PROVE  CostsAbout(MonthlyEquivalentCents(c, cad), WebMonthlyEquivalentCents(c, cad), c,
                    CadenceDays[cad], PeriodsPerYear[cad])
<1>1. PICK d \in Nat \ {0}, periods \in Nat :
         d = CadenceDays[cad] /\ periods = PeriodsPerYear[cad]
  BY DEF Everywhen, CadenceDays, PeriodsPerYear
<1>2. CadenceDays["monthly"] = 487
  BY DEF CadenceDays
<1>3. PICK n \in Nat, p \in Nat : n = c * 487 /\ p = c * periods
  OBVIOUS
<1>4. PICK m \in Nat, w \in Nat : m = Rounded(n, d) /\ w = Rounded(p, 12)
  BY RoundedIs, TwelfthIs
<1>5. m = MonthlyEquivalentCents(c, cad) /\ w = WebMonthlyEquivalentCents(c, cad)
  BY <1>1, <1>2, <1>3, <1>4 DEF MonthlyEquivalentCents, WebMonthlyEquivalentCents
<1>6. (2 * d) * m <= 2 * n + d /\ 2 * n + d < (2 * d) * m + 2 * d
  BY <1>4, RoundedIs
<1>7. 24 * w <= 2 * p + 12 /\ 2 * p + 12 < 24 * w + 24
  BY <1>4, TwelfthIs
<1>8. (2 * d) * m = 2 * (m * d) /\ periods * c = p
  BY <1>3
<1>9. m * d \in Int
  OBVIOUS
<1>10. 12 * w - p <= 6 /\ p - 12 * w <= 6
  BY <1>7
<1>11. 2 * (m * d) - 974 * c <= d /\ 974 * c - 2 * (m * d) <= d
  BY <1>3, <1>6, <1>8, <1>9
<1>12. QED
  BY <1>1, <1>5, <1>8, <1>10, <1>11 DEF CostsAbout

\* A year of it, both ways.
YearsAgree(m, w, c, d) ==
  /\ 2 * Abs((12 * m) * d - c * 5844) <= 12 * d
  /\ Abs(12 * m - 12 * w) * d <= 12 * d + 20 * c

LEMMA YearIs ==
  ASSUME NEW m, NEW w, NEW c, NEW cad \in Everywhen,
         CostsAbout(m, w, c, CadenceDays[cad], PeriodsPerYear[cad])
  PROVE  YearsAgree(m, w, c, CadenceDays[cad])
<1>1. CASE cad = "weekly"
  <2>1. CadenceDays[cad] = 112 /\ PeriodsPerYear[cad] = 52
    BY <1>1 DEF CadenceDays, PeriodsPerYear
  <2>2. QED
    BY <2>1, SMT DEF CostsAbout, YearsAgree, Abs
<1>2. CASE cad = "biweekly"
  <2>1. CadenceDays[cad] = 224 /\ PeriodsPerYear[cad] = 26
    BY <1>2 DEF CadenceDays, PeriodsPerYear
  <2>2. QED
    BY <2>1, SMT DEF CostsAbout, YearsAgree, Abs
<1>3. CASE cad = "monthly"
  <2>1. CadenceDays[cad] = 487 /\ PeriodsPerYear[cad] = 12
    BY <1>3 DEF CadenceDays, PeriodsPerYear
  <2>2. QED
    BY <2>1, SMT DEF CostsAbout, YearsAgree, Abs
<1>4. CASE cad = "quarterly"
  <2>1. CadenceDays[cad] = 1461 /\ PeriodsPerYear[cad] = 4
    BY <1>4 DEF CadenceDays, PeriodsPerYear
  <2>2. QED
    BY <2>1, SMT DEF CostsAbout, YearsAgree, Abs
<1>5. CASE cad = "annual"
  <2>1. CadenceDays[cad] = 5844 /\ PeriodsPerYear[cad] = 1
    BY <1>5 DEF CadenceDays, PeriodsPerYear
  <2>2. QED
    BY <2>1, SMT DEF CostsAbout, YearsAgree, Abs
<1>6. QED
  BY <1>1, <1>2, <1>3, <1>4, <1>5 DEF Everywhen

--------------------------------------------------------------------------------
(* Money: sums and counts of a few rows *)

Partial(s, i) ==
  IF i = 0 THEN 0 ELSE IF i = 1 THEN s[1] ELSE IF i = 2 THEN s[1] + s[2] ELSE s[1] + s[2] + s[3]

LEMMA SumOfFew ==
  ASSUME NEW n \in 0..3, NEW s \in [1..n -> Nat]
  PROVE  SumSeq(s) = Partial(s, n)
<1>1. Len(s) = n
  <2>1. s \in Seq(Nat)
    BY SeqDef
  <2>2. Len(s) \in Nat /\ 1..Len(s) = 1..n
    BY <2>1, LenProperties
  <2>3. QED
    BY <2>2
<1>2. \A i \in 1..n : s[i] \in Nat
  OBVIOUS
<1>3. PICK h : h = [i \in 0..n |-> Partial(s, i)]
  OBVIOUS
<1>4. \A i \in 0..n : h[i] = Partial(s, i)
  BY <1>3
<1>5. \A i \in 0..n : h[i] = IF i = 0 THEN 0 ELSE h[i - 1] + s[i]
  <2> SUFFICES ASSUME NEW i \in 0..n, i # 0 PROVE h[i] = h[i - 1] + s[i]
    BY <1>4 DEF Partial
  <2>1. i - 1 \in 0..n /\ i \in {1, 2, 3}
    OBVIOUS
  <2>2. h[i] = Partial(s, i) /\ h[i - 1] = Partial(s, i - 1)
    BY <1>4, <2>1
  <2>3. Partial(s, i) = Partial(s, i - 1) + s[i]
    BY <1>2, <2>1 DEF Partial
  <2>4. QED
    BY <2>2, <2>3
<1>6. h = [i \in 0..n |-> IF i = 0 THEN 0 ELSE h[i - 1] + s[i]]
  BY <1>3, <1>5
<1>7. PICK g : g = CHOOSE f : f = [i \in 0..n |-> IF i = 0 THEN 0 ELSE f[i - 1] + s[i]]
  OBVIOUS
<1>8. g = [i \in 0..n |-> IF i = 0 THEN 0 ELSE g[i - 1] + s[i]]
  BY <1>6, <1>7
<1>9. SumSeq(s) = g[n]
  BY <1>1, <1>7 DEF SumSeq
<1>10. \A i \in 0..n : g[i] = IF i = 0 THEN 0 ELSE g[i - 1] + s[i]
  BY <1>8
<1>11. g[0] = 0
  BY <1>10
<1>12. n >= 1 => g[1] = s[1]
  BY <1>2, <1>10, <1>11
<1>13. n >= 2 => g[2] = s[1] + s[2]
  BY <1>10, <1>12
<1>14. n = 3 => g[3] = s[1] + s[2] + s[3]
  BY <1>10, <1>13
<1>15. QED
  BY <1>9, <1>11, <1>12, <1>13, <1>14 DEF Partial

One(b) == IF b THEN 1 ELSE 0

LEMMA CountWithOne ==
  ASSUME NEW T, IsFiniteSet(T), NEW x, x \notin T, NEW b \in BOOLEAN,
         NEW U, U = IF b THEN T \union {x} ELSE T
  PROVE  IsFiniteSet(U) /\ Cardinality(U) = Cardinality(T) + One(b) /\ Cardinality(T) \in Nat
<1>1. Cardinality(T) \in Nat
  BY FS_CardinalityType
<1>2. CASE b
  <2>1. U = T \union {x} /\ One(b) = 1
    BY <1>2 DEF One
  <2>2. QED
    BY <1>1, <2>1, FS_AddElement
<1>3. CASE ~b
  <2>1. U = T /\ One(b) = 0
    BY <1>3 DEF One
  <2>2. QED
    BY <1>1, <2>1
<1>4. QED
  BY <1>2, <1>3

LEMMA CountOfFew ==
  ASSUME NEW S \in SUBSET (1..3)
  PROVE  Cardinality(S) = One(1 \in S) + One(2 \in S) + One(3 \in S)
<1>1. PICK A : A = S \intersect {1}
  OBVIOUS
<1>2. PICK B : B = S \intersect {1, 2}
  OBVIOUS
<1>3. IsFiniteSet({}) /\ Cardinality({}) = 0
  BY FS_EmptySet
<1>4. IsFiniteSet(A) /\ Cardinality(A) = 0 + One(1 \in S)
  <2>1. A = IF 1 \in S THEN {} \union {1} ELSE {}
    BY <1>1
  <2>2. (1 \in S) \in BOOLEAN /\ 1 \notin {}
    OBVIOUS
  <2>3. QED
    BY <1>3, <2>1, <2>2, CountWithOne
<1>5. IsFiniteSet(B) /\ Cardinality(B) = Cardinality(A) + One(2 \in S)
  <2>1. B = IF 2 \in S THEN A \union {2} ELSE A
    BY <1>1, <1>2
  <2>2. (2 \in S) \in BOOLEAN /\ 2 \notin A
    BY <1>1
  <2>3. QED
    BY <1>4, <2>1, <2>2, CountWithOne
<1>6. Cardinality(S) = Cardinality(B) + One(3 \in S)
  <2>1. S \subseteq {1, 2, 3} /\ 3 \notin B /\ Cardinality(B) \in Nat
    BY <1>2, <1>5, FS_CardinalityType
  <2>2. CASE 3 \in S
    <3>1. S = B \union {3}
      BY <1>2, <2>1, <2>2, Zenon
    <3>2. Cardinality(B \union {3}) = Cardinality(B) + 1
      BY <1>5, <2>1, FS_AddElement
    <3>3. QED
      BY <2>2, <3>1, <3>2 DEF One
  <2>3. CASE 3 \notin S
    <3>1. S = B
      BY <1>2, <2>1, <2>3, Zenon
    <3>2. QED
      BY <2>1, <2>3, <3>1 DEF One
  <2>4. QED
    BY <2>2, <2>3
<1>7. One(1 \in S) \in Int
  BY DEF One
<1>8. QED
  BY <1>4, <1>5, <1>6, <1>7

\* A set of numbers from one on that has all below each of its own is an interval.
LEMMA CountOfPrefix ==
  ASSUME NEW n \in Nat, NEW S \in SUBSET (1..n),
         \A x \in S : \A y \in 1..n : y <= x => y \in S
  PROVE  Cardinality(S) \in 0..n /\ S = 1..Cardinality(S)
<1>1. CASE S = {}
  BY <1>1, FS_EmptySet
<1>2. CASE S # {}
  <2>1. S \in SUBSET (0..n)
    OBVIOUS
  <2>2. PICK x \in S : \A y \in S : y <= x
    BY <1>2, <2>1, GreatestElement
  <2>3. S = 1..x /\ x \in 1..n
    <3>1. x \in 1..n /\ \A y \in 1..n : y <= x => y \in S
      BY <2>2
    <3>2. \A y \in 1..x : y \in 1..n /\ y <= x
      BY <3>1
    <3>3. 1..x \subseteq S
      BY <3>1, <3>2
    <3>4. S \subseteq 1..x
      BY <2>2, <3>1
    <3>5. QED
      BY <3>1, <3>3, <3>4
  <2>4. Cardinality(1..x) = x
    BY <2>3, FS_Interval
  <2>5. QED
    BY <2>3, <2>4
<1>3. QED
  BY <1>1, <1>2

--------------------------------------------------------------------------------
(* Money: the rot score *)

\* Squares order what they are squares of.
LEMMA SquaresOrder ==
  ASSUME NEW a \in Int, NEW b \in Nat, a * a <= b * b
  PROVE  a <= b
<1> SUFFICES ASSUME b < a PROVE FALSE
  OBVIOUS
<1>1. b * b <= b * a
  OBVIOUS
<1>2. b * a < a * a
  OBVIOUS
<1>3. QED
  BY <1>1, <1>2

LEMMA SquaresGrow ==
  ASSUME NEW a \in Nat, NEW b \in Nat, a <= b
  PROVE  a * a <= b * b
<1>1. a * a <= a * b
  OBVIOUS
<1>2. a * b <= b * b
  OBVIOUS
<1>3. QED
  BY <1>1, <1>2

\* What a member used, up to the benchmark.
Counts(used) == IF used <= 20 THEN used ELSE 20

LEMMA CountsIs ==
  ASSUME NEW used \in Nat
  PROVE  Min({used, BenchmarkHours}) = Counts(used) /\ Counts(used) \in 0..20
<1>1. Min({used, 20}) = IF used <= 20 THEN used ELSE 20
  BY LesserOf
<1>2. QED
  BY <1>1 DEF Counts, BenchmarkHours

\* The score is the greatest that is not above by half what it rounds: b is its
\* distance from the top, in half points.
ScoreSound(r, b, u) ==
  /\ r \in 0..100 /\ b = 201 - 2 * r
  /\ 2000 * u <= b * b
  /\ r < 100 => (b - 2) * (b - 2) < 2000 * u

LEMMA ScoreIs ==
  ASSUME NEW used \in Nat
  PROVE  ScoreSound(RotScore(used), 201 - 2 * RotScore(used), Counts(used))
<1>1. PICK u \in 0..20 : u = Counts(used)
  BY CountsIs
<1>2. PICK S : S = {s \in 1..100 : 2000 * u <= (201 - 2 * s) * (201 - 2 * s)}
  OBVIOUS
<1>3. ASSUME NEW x \in S, NEW y \in 1..100, y <= x PROVE y \in S
  <2>1. PICK p \in Nat, q \in Nat : p = 201 - 2 * x /\ q = 201 - 2 * y
    BY <1>2
  <2>2. p <= q
    BY <1>2, <1>3, <2>1
  <2>3. p * p <= q * q
    BY <2>2, SquaresGrow
  <2>4. 2000 * u <= p * p
    BY <1>2, <2>1
  <2>5. 2000 * u <= q * q
    BY <1>1, <2>3, <2>4
  <2>6. QED
    BY <1>2, <2>1, <2>5
<1>4. PICK r : r = Cardinality(S)
  OBVIOUS
<1>5. r \in 0..100 /\ S = 1..r
  <2>1. 100 \in Nat /\ S \in SUBSET (1..100)
    BY <1>2
  <2>2. \A x \in S : \A y \in 1..100 : y <= x => y \in S
    BY <1>3
  <2>3. QED
    BY <1>4, <2>1, <2>2, CountOfPrefix
<1>6. RotScore(used) = r
  <2>1. Min({used, BenchmarkHours}) = u
    BY <1>1, CountsIs
  <2>2. S = {s \in 1..100 : 2000 * Min({used, BenchmarkHours}) <= (201 - 2 * s) * (201 - 2 * s)}
    BY <1>2, <2>1
  <2>3. QED
    BY <1>4, <2>2 DEF RotScore
<1>7. PICK b \in Nat : b = 201 - 2 * r
  BY <1>5
<1>8. 2000 * u <= b * b
  <2>1. CASE r = 0
    BY <1>1, <1>7, <2>1
  <2>2. CASE r # 0
    <3>1. r \in S
      BY <1>5, <2>2
    <3>2. 2000 * u <= (201 - 2 * r) * (201 - 2 * r)
      BY <1>2, <3>1
    <3>3. QED
      BY <1>7, <3>2
  <2>3. QED
    BY <2>1, <2>2
<1>9. r < 100 => (b - 2) * (b - 2) < 2000 * u
  <2> SUFFICES ASSUME r < 100 PROVE (b - 2) * (b - 2) < 2000 * u
    OBVIOUS
  <2>1. PICK s \in 1..100 : s = r + 1
    BY <1>5
  <2>2. s \notin S
    BY <1>5, <2>1
  <2>3. ~(2000 * u <= (201 - 2 * s) * (201 - 2 * s))
    BY <1>2, <2>2
  <2>4. 201 - 2 * s = b - 2
    BY <1>5, <1>7, <2>1
  <2>5. QED
    BY <1>1, <2>3, <2>4
<1>10. QED
  BY <1>1, <1>5, <1>6, <1>7, <1>8, <1>9 DEF ScoreSound

\* What is wasted is rounded likewise: a is its distance from the price, in half cents.
WasteSound(w, a, c, u) ==
  /\ w \in 0..c /\ a = 2 * c + 1 - 2 * w
  /\ (c * c) * u <= 5 * (a * a)
  /\ w < c => 5 * ((a - 2) * (a - 2)) < (c * c) * u

LEMMA WasteIs ==
  ASSUME NEW c \in Nat, NEW used \in Nat
  PROVE  WasteSound(Wasted(c, used), 2 * c + 1 - 2 * Wasted(c, used), c, Counts(used))
<1>1. PICK u \in 0..20 : u = Counts(used)
  BY CountsIs
<1>2. PICK k \in Nat : k = (c * c) * u
  OBVIOUS
<1>3. PICK S : S = {w \in 1..c : NotAbove(w, c, u)}
  OBVIOUS
<1>4. ASSUME NEW w \in Nat, NEW a \in Int, a = 2 * c + 1 - 2 * w
      PROVE NotAbove(w, c, u) <=> k <= 5 * (a * a)
  <2>1. (5 * a) * a = 5 * (a * a)
    OBVIOUS
  <2>2. c * c * u = k
    BY <1>2
  <2>3. QED
    BY <1>4, <2>1, <2>2 DEF NotAbove
<1>5. ASSUME NEW x \in S, NEW y \in 1..c, y <= x PROVE y \in S
  <2>1. PICK p \in Nat, q \in Nat : p = 2 * c + 1 - 2 * x /\ q = 2 * c + 1 - 2 * y
    BY <1>3
  <2>2. p <= q /\ x \in Nat /\ NotAbove(x, c, u)
    BY <1>3, <1>5, <2>1
  <2>3. p * p <= q * q
    BY <2>2, SquaresGrow
  <2>4. k <= 5 * (p * p)
    BY <1>4, <2>1, <2>2
  <2>5. p * p \in Int /\ q * q \in Int
    OBVIOUS
  <2>6. k <= 5 * (q * q)
    BY <2>3, <2>4, <2>5
  <2>7. NotAbove(y, c, u)
    BY <1>4, <2>1, <2>6
  <2>8. QED
    BY <1>3, <2>7
<1>6. PICK w : w = Cardinality(S)
  OBVIOUS
<1>7. w \in 0..c /\ S = 1..w
  BY <1>3, <1>5, <1>6, CountOfPrefix
<1>8. Wasted(c, used) = w
  BY <1>1, <1>3, <1>6, CountsIs DEF Wasted
<1>9. PICK a \in Nat : a = 2 * c + 1 - 2 * w
  BY <1>7
<1>10. k <= 5 * (a * a)
  <2>1. CASE w = 0
    <3>1. PICK d \in Nat : d = 2 * c
      OBVIOUS
    <3>2. d <= a
      BY <1>9, <2>1, <3>1
    <3>3. d * d <= a * a
      BY <3>2, SquaresGrow
    <3>4. d * d = 4 * (c * c)
      BY <3>1
    <3>5. (c * c) * u <= (c * c) * 20
      <4>1. PICK e \in Nat : e = c * c
        OBVIOUS
      <4>2. e * u <= e * 20
        OBVIOUS
      <4>3. QED
        BY <4>1, <4>2
    <3>6. a * a \in Int /\ c * c \in Int
      OBVIOUS
    <3>7. QED
      BY <1>2, <3>3, <3>4, <3>5, <3>6
  <2>2. CASE w # 0
    <3>1. w \in S /\ w \in Nat
      BY <1>7, <2>2
    <3>2. NotAbove(w, c, u)
      BY <1>3, <3>1
    <3>3. QED
      BY <1>4, <1>9, <3>1, <3>2
  <2>3. QED
    BY <2>1, <2>2
<1>11. w < c => 5 * ((a - 2) * (a - 2)) < k
  <2> SUFFICES ASSUME w < c PROVE 5 * ((a - 2) * (a - 2)) < k
    OBVIOUS
  <2>1. PICK v \in Nat, z \in Int : v = w + 1 /\ z = a - 2 /\ v \in 1..c
    BY <1>7
  <2>2. v \notin S
    BY <1>7, <2>1
  <2>3. ~NotAbove(v, c, u)
    BY <1>3, <2>1, <2>2
  <2>4. z = 2 * c + 1 - 2 * v
    BY <1>7, <1>9, <2>1
  <2>5. ~(k <= 5 * (z * z))
    BY <1>4, <2>3, <2>4
  <2>6. z * z \in Int
    OBVIOUS
  <2>7. QED
    BY <2>1, <2>5, <2>6
<1>12. QED
  BY <1>1, <1>2, <1>7, <1>8, <1>9, <1>10, <1>11 DEF WasteSound

\* Of squares with a common factor: if 5 x^2 <= c^2 u and 2000 u <= y^2 then 100 x <= c y.
LEMMA RootsCompare ==
  ASSUME NEW x \in Int, NEW y \in Nat, NEW c \in Nat, NEW u \in Nat,
         5 * (x * x) <= (c * c) * u, 2000 * u <= y * y
  PROVE  100 * x <= c * y
<1>1. PICK e \in Nat, k \in Nat, z \in Nat, v \in Nat :
         e = c * c /\ k = e * u /\ z = x * x /\ v = y * y
  <2>1. x * x \in Nat
    OBVIOUS
  <2>2. QED
    BY <2>1
<1>2. e * (2000 * u) <= e * v
  <2>1. PICK m \in Nat : m = 2000 * u
    OBVIOUS
  <2>2. m <= v
    BY <1>1, <2>1
  <2>3. e * m <= e * v
    BY <2>2
  <2>4. QED
    BY <2>1, <2>3
<1>3. e * (2000 * u) = 2000 * k
  BY <1>1
<1>4. 10000 * z <= e * v
  <2>1. e * v \in Int
    OBVIOUS
  <2>2. QED
    BY <1>1, <1>2, <1>3, <2>1
<1>5. PICK p \in Int, q \in Nat : p = 100 * x /\ q = c * y
  OBVIOUS
<1>6. p * p = 10000 * z
  BY <1>1, <1>5
<1>7. q * q = e * v
  BY <1>1, <1>5
<1>8. p * p <= q * q
  BY <1>4, <1>6, <1>7
<1>9. p <= q
  BY <1>8, SquaresOrder
<1>10. QED
  BY <1>5, <1>9

LEMMA RootsCompareBack ==
  ASSUME NEW x \in Int, NEW y \in Nat, NEW c \in Nat, NEW u \in Nat,
         x * x <= 2000 * u, (c * c) * u <= 5 * (y * y)
  PROVE  c * x <= 100 * y
<1>1. PICK e \in Nat, k \in Nat, z \in Nat, v \in Nat :
         e = c * c /\ k = e * u /\ z = x * x /\ v = y * y
  <2>1. x * x \in Nat
    OBVIOUS
  <2>2. QED
    BY <2>1
<1>2. e * z <= e * (2000 * u)
  <2>1. PICK m \in Nat : m = 2000 * u
    OBVIOUS
  <2>2. z <= m
    BY <1>1, <2>1
  <2>3. e * z <= e * m
    BY <2>2
  <2>4. QED
    BY <2>1, <2>3
<1>3. e * (2000 * u) = 2000 * k
  BY <1>1
<1>4. e * z <= 10000 * v
  <2>1. e * z \in Int
    OBVIOUS
  <2>2. QED
    BY <1>1, <1>2, <1>3, <2>1
<1>5. PICK p \in Int, q \in Nat : p = c * x /\ q = 100 * y
  OBVIOUS
<1>6. p * p = e * z
  BY <1>1, <1>5
<1>7. q * q = 10000 * v
  BY <1>1, <1>5
<1>8. p * p <= q * q
  BY <1>4, <1>6, <1>7
<1>9. p <= q
  BY <1>8, SquaresOrder
<1>10. QED
  BY <1>5, <1>9

\* What is wasted is the score's share of the price.
LEMMA SharesAgree ==
  ASSUME NEW r, NEW w, NEW a, NEW b, NEW c \in Nat, NEW u \in Nat,
         ScoreSound(r, b, u), WasteSound(w, a, c, u)
  PROVE  2 * Abs(100 * w - r * c) <= 100 + c
<1>1. r \in 0..100 /\ w \in 0..c /\ a \in Nat /\ b \in Nat /\ a >= 1 /\ b >= 1
      /\ a = 2 * c + 1 - 2 * w /\ b = 201 - 2 * r
  BY DEF ScoreSound, WasteSound
<1>2. c * (b - 2) <= 100 * a
  <2>1. CASE r = 100
    <3>1. b - 2 = -1
      BY <1>1, <2>1
    <3>2. c * (b - 2) = -c
      BY <3>1
    <3>3. QED
      BY <1>1, <3>2
  <2>2. CASE r < 100
    <3>1. PICK x \in Int, k \in Int : x = b - 2 /\ k = x * x
      BY <1>1
    <3>2. k < 2000 * u
      BY <2>2, <3>1 DEF ScoreSound
    <3>3. x * x <= 2000 * u
      BY <3>1, <3>2
    <3>4. (c * c) * u <= 5 * (a * a)
      BY DEF WasteSound
    <3>5. c * x <= 100 * a
      BY <1>1, <3>3, <3>4, RootsCompareBack
    <3>6. QED
      BY <3>1, <3>5
  <2>3. QED
    BY <1>1, <2>1, <2>2
<1>3. 100 * (a - 2) <= c * b
  <2>1. CASE w = c
    <3>1. a = 1
      BY <1>1, <2>1
    <3>2. c * b >= 0 /\ c * b \in Int
      BY <1>1
    <3>3. QED
      BY <3>1, <3>2
  <2>2. CASE w < c
    <3>1. PICK x \in Int, k \in Int, e \in Int : x = a - 2 /\ k = x * x /\ e = (c * c) * u
      BY <1>1
    <3>2. 5 * k < e
      BY <2>2, <3>1 DEF WasteSound
    <3>3. 5 * (x * x) <= (c * c) * u
      BY <3>1, <3>2
    <3>4. 2000 * u <= b * b
      BY DEF ScoreSound
    <3>5. 100 * x <= c * b
      BY <1>1, <3>3, <3>4, RootsCompare
    <3>6. QED
      BY <3>1, <3>5
  <2>3. QED
    BY <1>1, <2>1, <2>2
<1>4. PICK p \in Int : p = r * c
  BY <1>1
<1>5. c * b = 201 * c - 2 * p /\ c * (b - 2) = 199 * c - 2 * p
  BY <1>1, <1>4
<1>6. 2 * (100 * w - p) <= 100 + c /\ 2 * (p - 100 * w) <= 100 + c
  BY <1>1, <1>2, <1>3, <1>5
<1>7. QED
  BY <1>1, <1>4, <1>6 DEF Abs

\* Who uses all there is wastes nothing.
LEMMA FullUseWastesNothing ==
  ASSUME NEW c \in Nat, NEW used \in Nat, used >= 20
  PROVE  Wasted(c, used) = 0
<1>1. PICK w, a : w = Wasted(c, used) /\ a = 2 * c + 1 - 2 * w
  OBVIOUS
<1>2. WasteSound(w, a, c, 20)
  <2>1. Counts(used) = 20
    BY DEF Counts
  <2>2. QED
    BY <1>1, <2>1, WasteIs
<1>3. w \in 0..c /\ a \in Nat
  BY <1>1, <1>2 DEF WasteSound
<1>4. (c * c) * 20 <= 5 * (a * a)
  BY <1>2 DEF WasteSound
<1>5. PICK d \in Nat : d = 2 * c
  OBVIOUS
<1>6. d * d <= a * a
  <2>1. d * d = 4 * (c * c) /\ c * c \in Int /\ a * a \in Int
    BY <1>3, <1>5
  <2>2. QED
    BY <1>4, <2>1
<1>7. d <= a
  BY <1>3, <1>6, SquaresOrder
<1>8. QED
  BY <1>1, <1>3, <1>5, <1>7

--------------------------------------------------------------------------------
(* Money: portfolios *)

\* Two rows of a portfolio.
PairOf(items, c, u, d, v) ==
  /\ DOMAIN items = 1..2
  /\ items[1].cents = c /\ items[1].used = u /\ items[2].cents = d /\ items[2].used = v

LEMMA PairHasTwo ==
  ASSUME NEW items, DOMAIN items = 1..2
  PROVE  items # <<>>
<1>1. SUFFICES ASSUME items = <<>> PROVE FALSE
  OBVIOUS
<1>2. DOMAIN items = {}
  BY <1>1, EmptySeq, LenProperties
<1>3. 1 \in DOMAIN items
  OBVIOUS
<1>4. QED
  BY <1>2, <1>3

InTier(used, tier) == One(Tier(RotScore(used)) = tier)

LEMMA TierCount ==
  ASSUME NEW items, NEW c, NEW u, NEW d, NEW v, PairOf(items, c, u, d, v), NEW tier
  PROVE  Cardinality({i \in DOMAIN items : Tier(RotScore(items[i].used)) = tier})
           = InTier(u, tier) + InTier(v, tier)
<1>1. PICK S : S = {i \in DOMAIN items : Tier(RotScore(items[i].used)) = tier}
  OBVIOUS
<1>2. S \in SUBSET (1..3) /\ 3 \notin S
  BY <1>1 DEF PairOf
<1>3. 1 \in S <=> Tier(RotScore(u)) = tier
  BY <1>1 DEF PairOf
<1>4. 2 \in S <=> Tier(RotScore(v)) = tier
  BY <1>1 DEF PairOf
<1>5. One(1 \in S) = InTier(u, tier) /\ One(2 \in S) = InTier(v, tier) /\ One(3 \in S) = 0
  BY <1>2, <1>3, <1>4 DEF One, InTier
<1>6. One(1 \in S) \in Int /\ One(2 \in S) \in Int
  BY DEF One
<1>7. Cardinality(S) = One(1 \in S) + One(2 \in S) + One(3 \in S)
  BY <1>2, CountOfFew
<1>8. QED
  BY <1>1, <1>5, <1>6, <1>7

LEMMA SumOfTwo ==
  ASSUME NEW s, NEW x \in Nat, NEW y \in Nat, s = [i \in 1..2 |-> IF i = 1 THEN x ELSE y]
  PROVE  SumSeq(s) = x + y
<1>1. s \in [1..2 -> Nat] /\ s[1] = x /\ s[2] = y
  OBVIOUS
<1>2. 2 \in 0..3
  OBVIOUS
<1>3. SumSeq(s) = Partial(s, 2)
  BY <1>1, <1>2, SumOfFew
<1>4. QED
  BY <1>1, <1>3 DEF Partial

LEMMA SumOfThree ==
  ASSUME NEW s, NEW x \in Nat, NEW y \in Nat, NEW z \in Nat,
         s = [i \in 1..3 |-> IF i = 1 THEN x ELSE IF i = 2 THEN y ELSE z]
  PROVE  SumSeq(s) = x + y + z
<1>1. s \in [1..3 -> Nat] /\ s[1] = x /\ s[2] = y /\ s[3] = z
  OBVIOUS
<1>2. 3 \in 0..3
  OBVIOUS
<1>3. SumSeq(s) = Partial(s, 3)
  BY <1>1, <1>2, SumOfFew
<1>4. QED
  BY <1>1, <1>3 DEF Partial

LEMMA PortfolioOfTwo ==
  ASSUME NEW items, NEW c \in Nat, NEW u \in Nat, NEW d \in Nat, NEW v \in Nat,
         PairOf(items, c, u, d, v), c + d > 0
  PROVE  SummarizePortfolio(items) =
           [total |-> c + d,
            high |-> InTier(u, "high_rot") + InTier(v, "high_rot"),
            moderate |-> InTier(u, "moderate_rot") + InTier(v, "moderate_rot"),
            healthy |-> InTier(u, "healthy") + InTier(v, "healthy"),
            wasted |-> Wasted(c, u) + Wasted(d, v),
            average |-> Rounded(RotScore(u) * c + RotScore(v) * d, c + d)]
<1>1. PICK q \in Nat, r \in Nat : q = RotScore(u) /\ r = RotScore(v)
  <2>1. RotScore(u) \in 0..100 /\ RotScore(v) \in 0..100
    BY ScoreIs DEF ScoreSound
  <2>2. QED
    BY <2>1
<1>2. PICK w \in Nat, x \in Nat : w = Wasted(c, u) /\ x = Wasted(d, v)
  <2>1. Wasted(c, u) \in 0..c /\ Wasted(d, v) \in 0..d
    BY WasteIs DEF WasteSound
  <2>2. QED
    BY <2>1
<1>3. PICK qc \in Nat, rd \in Nat : qc = q * c /\ rd = r * d
  OBVIOUS
<1>4. SumSeq([i \in DOMAIN items |-> items[i].cents]) = c + d
  <2>1. [i \in DOMAIN items |-> items[i].cents] = [i \in 1..2 |-> IF i = 1 THEN c ELSE d]
    BY DEF PairOf
  <2>2. QED
    BY <2>1, SumOfTwo
<1>5. SumSeq([i \in DOMAIN items |-> RotScore(items[i].used) * items[i].cents]) = qc + rd
  <2>1. [i \in DOMAIN items |-> RotScore(items[i].used) * items[i].cents]
          = [i \in 1..2 |-> IF i = 1 THEN qc ELSE rd]
    BY <1>1, <1>3 DEF PairOf
  <2>2. QED
    BY <2>1, SumOfTwo
<1>6. SumSeq([i \in DOMAIN items |-> Wasted(items[i].cents, items[i].used)]) = w + x
  <2>1. [i \in DOMAIN items |-> Wasted(items[i].cents, items[i].used)]
          = [i \in 1..2 |-> IF i = 1 THEN w ELSE x]
    BY <1>2 DEF PairOf
  <2>2. QED
    BY <2>1, SumOfTwo
<1>7. items # <<>>
  BY PairHasTwo DEF PairOf
<1>8. PICK H, M, L :
        /\ H = Cardinality({i \in DOMAIN items : Tier(RotScore(items[i].used)) = "high_rot"})
        /\ M = Cardinality({i \in DOMAIN items : Tier(RotScore(items[i].used)) = "moderate_rot"})
        /\ L = Cardinality({i \in DOMAIN items : Tier(RotScore(items[i].used)) = "healthy"})
  OBVIOUS
<1>9. /\ H = InTier(u, "high_rot") + InTier(v, "high_rot")
      /\ M = InTier(u, "moderate_rot") + InTier(v, "moderate_rot")
      /\ L = InTier(u, "healthy") + InTier(v, "healthy")
  BY <1>8, TierCount
<1>10. SummarizePortfolio(items) =
         [total |-> c + d, high |-> H, moderate |-> M, healthy |-> L, wasted |-> w + x,
          average |-> Rounded(qc + rd, c + d)]
  BY <1>4, <1>5, <1>6, <1>7, <1>8 DEF SummarizePortfolio
<1>11. QED
  BY <1>1, <1>2, <1>3, <1>9, <1>10

Average(q, c, r, d) == Rounded(q * c + r * d, c + d)

\* An average weighted by price lies between what it averages.
LEMMA AverageBetween ==
  ASSUME NEW q \in Nat, NEW r \in Nat, NEW c \in Nat, NEW d \in Nat, c + d > 0,
         NEW low \in Nat, NEW top \in Nat, low <= q, low <= r, q <= top, r <= top
  PROVE  Average(q, c, r, d) \in low..top
<1>1. PICK t \in Nat \ {0}, x \in Nat : t = c + d /\ x = q * c + r * d
  OBVIOUS
<1>2. PICK R \in Nat : R = Rounded(x, t)
  BY RoundedIs
<1>3. (2 * t) * R <= 2 * x + t /\ 2 * x + t < (2 * t) * R + 2 * t
  BY <1>2, RoundedIs
<1>4. low * c <= q * c /\ low * d <= r * d /\ q * c <= top * c /\ r * d <= top * d
  OBVIOUS
<1>5. low * t <= x /\ x <= top * t
  <2>1. low * t = low * c + low * d /\ top * t = top * c + top * d
    BY <1>1
  <2>2. q * c \in Int /\ r * d \in Int /\ low * c \in Int /\ low * d \in Int
        /\ top * c \in Int /\ top * d \in Int
    OBVIOUS
  <2>3. QED
    BY <1>1, <1>4, <2>1, <2>2
<1>6. PICK y \in Int, l \in Int, h \in Int : y = t * R /\ l = low * t /\ h = top * t
  OBVIOUS
<1>7. 2 * y <= 2 * x + t /\ 2 * x + t < 2 * y + 2 * t
  <2>1. (2 * t) * R = 2 * y
    BY <1>6
  <2>2. QED
    BY <1>3, <2>1
<1>8. R <= top
  <2>1. SUFFICES ASSUME R >= top + 1 PROVE FALSE
    OBVIOUS
  <2>2. t * (top + 1) <= t * R /\ t * (top + 1) = h + t
    BY <1>6, <2>1
  <2>3. QED
    BY <1>5, <1>6, <1>7, <2>2
<1>9. R >= low
  <2>1. SUFFICES ASSUME R + 1 <= low PROVE FALSE
    OBVIOUS
  <2>2. t * (R + 1) <= t * low /\ t * (R + 1) = y + t /\ t * low = l
    BY <1>6, <2>1
  <2>3. QED
    BY <1>5, <1>6, <1>7, <2>2
<1>10. QED
  BY <1>1, <1>2, <1>8, <1>9 DEF Average

LEMMA RotHolds ==
  ASSUME price \in Nat, hours \in Nat
  PROVE  RotIsConsistent
<1> SUFFICES ASSUME price > 0 PROVE RotIsConsistent
  BY DEF RotIsConsistent
<1>1. PICK w \in Nat, q \in Nat : w = Wasted(price, hours) /\ q = RotScore(hours) /\ w <= price
  <2>1. Wasted(price, hours) \in 0..price /\ RotScore(hours) \in 0..100
    BY ScoreIs, WasteIs DEF ScoreSound, WasteSound
  <2>2. QED
    BY <2>1
<1>2. PICK x \in Nat, r \in Nat : x = Wasted(9, 5) /\ r = RotScore(5) /\ x <= 9
  <2>1. 9 \in Nat /\ 5 \in Nat
    OBVIOUS
  <2>2. PICK c \in Nat, u \in Nat : c = 9 /\ u = 5
    BY <2>1
  <2>3. Wasted(c, u) \in 0..c /\ RotScore(u) \in 0..100
    BY ScoreIs, WasteIs DEF ScoreSound, WasteSound
  <2>4. QED
    BY <2>2, <2>3
<1>3. 2 * Abs(100 * w - q * price) <= 100 + price
  <2>1. Counts(hours) \in Nat
    BY DEF Counts
  <2>2. QED
    BY <1>1, <2>1, ScoreIs, WasteIs, SharesAgree
<1>4. hours >= BenchmarkHours => ComputeRotScore(price, hours).captured = price
  <2> SUFFICES ASSUME hours >= 20 PROVE ComputeRotScore(price, hours).captured = price
    BY DEF BenchmarkHours
  <2>1. Wasted(price, hours) = 0
    BY FullUseWastesNothing
  <2>2. ComputeRotScore(price, hours).captured = price - Wasted(price, hours)
    BY DEF ComputeRotScore
  <2>3. QED
    BY <2>1, <2>2
<1>5. PairOf(Portfolio, price, hours, 9, 5)
  BY DEF PairOf, Portfolio
<1>6. PICK p : p = SummarizePortfolio(Portfolio)
  OBVIOUS
<1>7. /\ p.total = price + 9 /\ p.wasted = w + x
      /\ p.average = Rounded(q * price + r * 9, price + 9)
  <2>1. price + 9 > 0 /\ 9 \in Nat /\ 5 \in Nat
    OBVIOUS
  <2>2. p = [total |-> price + 9,
             high |-> InTier(hours, "high_rot") + InTier(5, "high_rot"),
             moderate |-> InTier(hours, "moderate_rot") + InTier(5, "moderate_rot"),
             healthy |-> InTier(hours, "healthy") + InTier(5, "healthy"),
             wasted |-> Wasted(price, hours) + Wasted(9, 5),
             average |-> Rounded(RotScore(hours) * price + RotScore(5) * 9, price + 9)]
    BY <1>5, <1>6, <2>1, PortfolioOfTwo
  <2>3. QED
    BY <1>1, <1>2, <2>2
<1>8. p.wasted \in 0..p.total
  BY <1>1, <1>2, <1>7
<1>9. p.average \in Min({q, r})..Max({q, r})
  <2>1. PICK low \in Nat, top \in Nat :
          /\ low = IF q <= r THEN q ELSE r
          /\ top = IF q >= r THEN q ELSE r
    OBVIOUS
  <2>2. low <= q /\ low <= r /\ q <= top /\ r <= top
    BY <2>1
  <2>3. 9 \in Nat /\ price + 9 > 0
    OBVIOUS
  <2>4. Average(q, price, r, 9) \in low..top
    BY <2>2, <2>3, AverageBetween
  <2>5. Min({q, r}) = low /\ Max({q, r}) = top
    BY <2>1, LesserOf, GreaterOf
  <2>6. QED
    BY <1>7, <2>4, <2>5 DEF Average
<1>10. QED
  BY <1>1, <1>2, <1>3, <1>4, <1>6, <1>8, <1>9 DEF RotIsConsistent

--------------------------------------------------------------------------------
(* Money: what the pages reckon apart *)

MoneyType == price \in Nat /\ hours \in Nat /\ cadence \in Everywhen

WebCents == WebMonthlyEquivalentCents(price, cadence)
OtherCents == WebMonthlyEquivalentCents(9, "weekly")

LEMMA WebCostsAre ==
  ASSUME MoneyType
  PROVE  WebCents \in Nat /\ OtherCents \in Nat /\ OtherCents > 0
<1>1. CostsAbout(MonthlyEquivalentCents(price, cadence), WebCents, price,
                 CadenceDays[cadence], PeriodsPerYear[cadence])
  BY CostsAre DEF MoneyType, WebCents
<1>2. CostsAbout(MonthlyEquivalentCents(9, "weekly"), OtherCents, 9,
                 CadenceDays["weekly"], PeriodsPerYear["weekly"])
  <2>1. 9 \in Nat /\ "weekly" \in Everywhen
    BY DEF Everywhen
  <2>2. QED
    BY <2>1, CostsAre DEF OtherCents
<1>3. PeriodsPerYear["weekly"] = 52
  BY DEF PeriodsPerYear
<1>4. QED
  BY <1>1, <1>2, <1>3 DEF CostsAbout

LEMMA SumOfOne ==
  ASSUME NEW s, NEW x \in Nat, s = [i \in 1..1 |-> x]
  PROVE  SumSeq(s) = x
<1>1. s \in [1..1 -> Nat] /\ s[1] = x
  OBVIOUS
<1>2. 1 \in 0..3
  OBVIOUS
<1>3. SumSeq(s) = Partial(s, 1)
  BY <1>1, <1>2, SumOfFew
<1>4. QED
  BY <1>1, <1>3 DEF Partial

LEMMA BookingHolds ==
  ASSUME MoneyType
  PROVE  CancellationBooksAYear
<1>1. PICK m, w, d : /\ m = MonthlyEquivalentCents(price, cadence) /\ w = WebCents
                     /\ d = CadenceDays[cadence]
  OBVIOUS
<1>2. CostsAbout(m, w, price, d, PeriodsPerYear[cadence])
  BY <1>1, CostsAre DEF MoneyType, WebCents
<1>3. YearsAgree(m, w, price, d)
  BY <1>1, <1>2, YearIs DEF MoneyType
<1>4. PICK subs : subs = <<[id |-> 1, cents |-> price, cadence |-> cadence, status |-> "active"]>>
  OBVIOUS
<1>5. DOMAIN subs = 1..1 /\ subs[1].status = "active" /\ subs[1].cents = price
      /\ subs[1].cadence = cadence
  BY <1>4
<1>6. PICK s : s = [i \in DOMAIN subs |->
                      IF subs[i].status = "active"
                      THEN WebMonthlyEquivalentCents(subs[i].cents, subs[i].cadence) ELSE 0]
  OBVIOUS
<1>7. s = [i \in 1..1 |-> w]
  BY <1>1, <1>5, <1>6 DEF WebCents
<1>8. SumSeq(s) = w
  BY <1>2, <1>7, SumOfOne DEF CostsAbout
<1>9. SummarizeSubscriptions(subs).yearly = 12 * w
  BY <1>6, <1>8 DEF SummarizeSubscriptions
<1>10. CancellationSavingsCents(price, cadence) = 12 * m
  BY <1>1 DEF CancellationSavingsCents
<1>11. CadenceDays["annual"] = 5844
  BY DEF CadenceDays
<1>12. QED
  BY <1>1, <1>3, <1>4, <1>9, <1>10, <1>11 DEF CancellationBooksAYear, YearsAgree

\* The member's subscriptions.
LEMMA HeldIs ==
  ASSUME NEW status
  PROVE  /\ DOMAIN Held(status) = 1..3 /\ Len(Held(status)) = 3
         /\ Held(status)[1].id = 1 /\ Held(status)[1].status = status
         /\ Held(status)[1].cents = price /\ Held(status)[1].cadence = cadence
         /\ Held(status)[2].id = 2 /\ Held(status)[2].status = "active"
         /\ Held(status)[2].cents = 9 /\ Held(status)[2].cadence = "weekly"
         /\ Held(status)[3].id = 3 /\ Held(status)[3].status = "paused"
BY DEF Held

Living(status) == IF status = "active" THEN {1, 2} ELSE {2}

LEMMA StatusCounts ==
  ASSUME NEW status \in {"active", "canceled"}, NEW held, held = Held(status)
  PROVE  /\ WithStatus(held, "active") = Living(status)
         /\ Cardinality(WithStatus(held, "active")) = 1 + One(status = "active")
         /\ Cardinality(WithStatus(held, "paused")) = 1
         /\ Cardinality(WithStatus(held, "canceled")) = One(status = "canceled")
<1>1. WithStatus(held, "active") = Living(status)
  BY HeldIs DEF WithStatus, Living
<1>2. WithStatus(held, "paused") = {3}
  BY HeldIs DEF WithStatus
<1>3. WithStatus(held, "canceled") = IF status = "canceled" THEN {1} ELSE {}
  BY HeldIs DEF WithStatus
<1>4. Cardinality({3}) = 1 /\ Cardinality({2}) = 1 /\ Cardinality({1}) = 1
      /\ Cardinality({}) = 0
  BY FS_Singleton, FS_EmptySet
<1>5. Cardinality({1, 2}) = 2
  <2>1. {1, 2} \in SUBSET (1..3)
    OBVIOUS
  <2>2. One(1 \in {1, 2}) = 1 /\ One(2 \in {1, 2}) = 1 /\ One(3 \in {1, 2}) = 0
    BY DEF One
  <2>3. QED
    BY <2>1, <2>2, CountOfFew
<1>6. QED
  BY <1>1, <1>2, <1>3, <1>4, <1>5 DEF Living, One

\* What the living cost a month.
SpendOf(status) == IF status = "active" THEN WebCents + OtherCents ELSE OtherCents

LEMMA SpendIs ==
  ASSUME MoneyType, NEW status \in {"active", "canceled"}
  PROVE  SummarizeSubscriptions(Held(status)).monthly = SpendOf(status)
<1>1. PICK held : held = Held(status)
  OBVIOUS
<1>2. PICK w \in Nat, x \in Nat : w = WebCents /\ x = OtherCents
  BY WebCostsAre
<1>3. PICK s : s = [i \in DOMAIN held |->
                      IF held[i].status = "active"
                      THEN WebMonthlyEquivalentCents(held[i].cents, held[i].cadence) ELSE 0]
  OBVIOUS
<1>4. PICK y \in Nat : y = IF status = "active" THEN w ELSE 0
  OBVIOUS
<1>5. s = [i \in 1..3 |-> IF i = 1 THEN y ELSE IF i = 2 THEN x ELSE 0]
  <2>1. DOMAIN held = 1..3
    BY <1>1, HeldIs
  <2>2. s[1] = y
    BY <1>1, <1>2, <1>3, <1>4, HeldIs DEF WebCents
  <2>3. s[2] = x
    BY <1>1, <1>2, <1>3, HeldIs DEF OtherCents
  <2>4. s[3] = 0
    BY <1>1, <1>3, HeldIs
  <2>5. QED
    BY <1>3, <2>1, <2>2, <2>3, <2>4
<1>6. SumSeq(s) = y + x + 0
  <2>1. 0 \in Nat
    OBVIOUS
  <2>2. QED
    BY <1>5, <2>1, SumOfThree
<1>7. SummarizeSubscriptions(held).monthly = SumSeq(s)
  BY <1>3 DEF SummarizeSubscriptions
<1>8. QED
  BY <1>1, <1>2, <1>4, <1>6, <1>7 DEF SpendOf

\* What the member owes.
LEMMA OwedIs ==
  /\ DOMAIN Owed = 1..3 /\ Len(Owed) = 3
  /\ Owed[1].last = price /\ Owed[1].cadence = cadence
  /\ Owed[1].negotiable = TRUE /\ Owed[1].projected = price
  /\ Owed[2].last = 5 /\ Owed[2].cadence = "monthly"
  /\ Owed[2].negotiable = TRUE /\ Owed[2].projected = 12 * hours + 7
  /\ Owed[3].last = 3 /\ Owed[3].cadence = "annual"
  /\ Owed[3].negotiable = FALSE /\ Owed[3].projected = 0
BY DEF Owed

LEMMA SpendHolds ==
  ASSUME MoneyType
  PROVE  SpendAgrees
<1>1. PICK held, flagged : held = Held("active") /\ flagged = {1, 3}
  OBVIOUS
<1>2. PICK w \in Nat, x \in Nat : w = WebCents /\ x = OtherCents
  BY WebCostsAre
<1>3. PICK s : s = [i \in DOMAIN held |->
                      IF held[i].status = "active" /\ held[i].id \in flagged
                      THEN WebMonthlyEquivalentCents(held[i].cents, held[i].cadence) ELSE 0]
  OBVIOUS
<1>4. s = [i \in 1..3 |-> IF i = 1 THEN w ELSE IF i = 2 THEN 0 ELSE 0]
  <2>1. DOMAIN held = 1..3
    BY <1>1, HeldIs
  <2>2. s[1] = w
    BY <1>1, <1>2, <1>3, HeldIs DEF WebCents
  <2>3. s[2] = 0 /\ s[3] = 0
    BY <1>1, <1>3, HeldIs
  <2>4. QED
    BY <1>3, <2>1, <2>2, <2>3
<1>5. SumSeq(s) = w
  <2>1. 0 \in Nat
    OBVIOUS
  <2>2. SumSeq(s) = w + 0 + 0
    BY <1>4, <2>1, SumOfThree
  <2>3. QED
    BY <2>2
<1>6. PICK bills : bills = <<>>
  OBVIOUS
<1>7. PICK t : t = [i \in DOMAIN bills |->
                      IF bills[i].negotiable THEN Rounded(bills[i].projected, 12) ELSE 0]
  OBVIOUS
<1>8. SumSeq(t) = 0
  <2>1. DOMAIN bills = {}
    BY <1>6, EmptySeq, LenProperties
  <2>2. t \in [1..0 -> Nat] /\ 0 \in 0..3
    BY <1>7, <2>1
  <2>3. QED
    BY <2>2, SumOfFew DEF Partial
<1>9. PotentialMonthlySavings(held, flagged, bills) = w
  BY <1>2, <1>3, <1>5, <1>7, <1>8 DEF PotentialMonthlySavings
<1>10. SummarizeSubscriptions(Held("active")).monthly = w + x
  BY <1>2, SpendIs DEF SpendOf
<1>11. SummarizeSubscriptions(Held("canceled")).monthly = x
  BY <1>2, SpendIs DEF SpendOf
<1>12. PICK figures : figures = SummarizeSubscriptions(held)
  OBVIOUS
<1>13. figures.active = 2 /\ figures.paused = 1 /\ figures.canceled = 0
  <2>1. /\ Cardinality(WithStatus(held, "active")) = 2
        /\ Cardinality(WithStatus(held, "paused")) = 1
        /\ Cardinality(WithStatus(held, "canceled")) = 0
    BY <1>1, StatusCounts DEF One
  <2>2. QED
    BY <1>12, <2>1 DEF SummarizeSubscriptions
<1>14. PICK overview : overview = Overview(held, {}, Owed)
  OBVIOUS
<1>15. overview.active = 2 /\ overview.notActive = 1
  BY <1>12, <1>13, <1>14 DEF Overview
<1>16. SummarizeSubscriptions(Held("active")).monthly
         - SummarizeSubscriptions(Held("canceled")).monthly = w
  BY <1>10, <1>11
<1>17. PotentialMonthlySavings(Held("active"), {1, 3}, <<>>) = w
  BY <1>1, <1>6, <1>9, Zenon
<1>18. Overview(Held("active"), {}, Owed).active + Overview(Held("active"), {}, Owed).notActive
         = Len(Held("active"))
  <2>1. overview.active + overview.notActive = 3
    BY <1>15
  <2>2. Len(Held("active")) = 3
    BY HeldIs
  <2>3. QED
    BY <1>1, <1>14, <2>1, <2>2, Zenon
<1>19. QED
  BY <1>16, <1>17, <1>18, Zenon DEF SpendAgrees

LEMMA SavingsHold ==
  ASSUME MoneyType
  PROVE  SavingsAgree
<1>1. PICK m \in Nat : m = MonthlyEquivalentCents(price, cadence)
  BY CostsAre DEF MoneyType, CostsAbout
<1>2. PICK events : events = <<[kind |-> "subscription_canceled",
                                cents |-> CancellationSavingsCents(price, cadence)],
                               [kind |-> "fee_refunded", cents |-> 7]>>
  OBVIOUS
<1>3. CancellationSavingsCents(price, cadence) = 12 * m
  BY <1>1 DEF CancellationSavingsCents
<1>4. /\ DOMAIN events = 1..2
      /\ events[1].kind = "subscription_canceled" /\ events[1].cents = 12 * m
      /\ events[2].kind = "fee_refunded" /\ events[2].cents = 7
  BY <1>2, <1>3
<1>5. PICK y \in Nat, z \in Nat : y = 12 * m /\ z = 7
  OBVIOUS
<1>6. SumSeq([i \in DOMAIN events |-> events[i].cents]) = y + z
  <2>1. [i \in DOMAIN events |-> events[i].cents] = [i \in 1..2 |-> IF i = 1 THEN y ELSE z]
    BY <1>4, <1>5
  <2>2. QED
    BY <2>1, SumOfTwo
<1>7. SumSeq([i \in DOMAIN events |->
                IF events[i].kind # "fee_refunded" THEN events[i].cents ELSE 0]) = y
  <2>1. PICK s : s = [i \in DOMAIN events |->
                IF events[i].kind # "fee_refunded" THEN events[i].cents ELSE 0]
    OBVIOUS
  <2>2. s = [i \in 1..2 |-> IF i = 1 THEN y ELSE 0] /\ 0 \in Nat
    BY <1>4, <1>5, <2>1
  <2>3. SumSeq(s) = y + 0
    BY <2>2, SumOfTwo
  <2>4. QED
    BY <2>1, <2>3
<1>8. Rounded(y, 12) = m
  BY <1>5, TwelfthOfYear
<1>9. PICK savings : savings = SavingsSummary(events)
  OBVIOUS
<1>10. savings.total = y + z /\ savings.monthlyRunRate = m /\ savings.yearlyProjected = y
  BY <1>6, <1>7, <1>8, <1>9 DEF SavingsSummary
<1>11. QED
  BY <1>1, <1>2, <1>5, <1>9, <1>10 DEF SavingsAgree

\* Rounding together or apart.
LEMMA RoundedApart ==
  ASSUME NEW x \in Nat, NEW y \in Nat
  PROVE  Abs(Rounded(x + y, 100) - (Rounded(x, 100) + Rounded(y, 100))) <= 1
<1>1. PICK p \in Nat, q \in Nat, r \in Nat, z \in Nat :
        z = x + y /\ p = Rounded(z, 100) /\ q = Rounded(x, 100) /\ r = Rounded(y, 100)
  <2>1. PICK z \in Nat : z = x + y
    OBVIOUS
  <2>2. Rounded(x, 100) \in Nat /\ Rounded(y, 100) \in Nat /\ Rounded(z, 100) \in Nat
    BY HundredthIs
  <2>3. QED
    BY <2>1, <2>2
<1>2. 200 * p <= 2 * z + 100 /\ 2 * z + 100 < 200 * p + 200
  BY <1>1, HundredthIs
<1>3. 200 * q <= 2 * x + 100 /\ 2 * x + 100 < 200 * q + 200
  BY <1>1, HundredthIs
<1>4. 200 * r <= 2 * y + 100 /\ 2 * y + 100 < 200 * r + 200
  BY <1>1, HundredthIs
<1>5. p - (q + r) <= 1 /\ (q + r) - p <= 1
  BY <1>1, <1>2, <1>3, <1>4
<1>6. QED
  BY <1>1, <1>5 DEF Abs

LEMMA EstimatesAgree ==
  ASSUME NEW m \in Nat, NEW n \in Nat
  PROVE  Abs(EstimatedNegotiationSavings(m + n)
             - (EstimatedNegotiationSavings(m) + EstimatedNegotiationSavings(n))) <= 1
<1>1. PICK x \in Nat, y \in Nat : x = m * 12 * 15 /\ y = n * 12 * 15
  OBVIOUS
<1>2. (m + n) * 12 * 15 = x + y
  BY <1>1
<1>3. QED
  BY <1>1, <1>2, RoundedApart DEF EstimatedNegotiationSavings

LEMMA BillsHold ==
  ASSUME MoneyType
  PROVE  BillsAgree
<1>1. PICK charged, awaited :
        /\ charged = [last |-> price, expected |-> 5, cadence |-> cadence]
        /\ awaited = [last |-> Null, expected |-> hours, cadence |-> "monthly"]
  OBVIOUS
<1>2. BillAmount(charged) = price /\ charged.cadence = cadence
      /\ BillAmount(awaited) = hours /\ awaited.cadence = "monthly"
  BY <1>1 DEF BillAmount, Null, MoneyType
<1>3. PICK m \in Nat, n \in Nat : /\ m = MonthlyEquivalentCents(price, cadence)
                                  /\ n = MonthlyEquivalentCents(hours, "monthly")
  <2>1. "monthly" \in Everywhen
    BY DEF Everywhen
  <2>2. QED
    BY <2>1, CostsAre DEF MoneyType, CostsAbout
<1>4. BillNegotiationPotential(<<charged, awaited>>).annual = EstimatedNegotiationSavings(m + n)
  <2>1. PICK bills : bills = <<charged, awaited>>
    OBVIOUS
  <2>2. DOMAIN bills = 1..2 /\ bills[1] = charged /\ bills[2] = awaited
    BY <2>1
  <2>3. PICK s : s = [i \in DOMAIN bills |->
                        MonthlyEquivalentCents(BillAmount(bills[i]), bills[i].cadence)]
    OBVIOUS
  <2>4. s = [i \in 1..2 |-> IF i = 1 THEN m ELSE n]
    BY <1>2, <1>3, <2>2, <2>3
  <2>5. SumSeq(s) = m + n
    BY <2>4, SumOfTwo
  <2>6. QED
    BY <2>1, <2>3, <2>5 DEF BillNegotiationPotential
<1>5. BillNegotiationPotential(<<charged>>).annual = EstimatedNegotiationSavings(m)
  <2>1. PICK bills : bills = <<charged>>
    OBVIOUS
  <2>2. DOMAIN bills = 1..1 /\ bills[1] = charged
    BY <2>1
  <2>3. PICK s : s = [i \in DOMAIN bills |->
                        MonthlyEquivalentCents(BillAmount(bills[i]), bills[i].cadence)]
    OBVIOUS
  <2>4. s = [i \in 1..1 |-> m]
    BY <1>2, <1>3, <2>2, <2>3
  <2>5. SumSeq(s) = m
    BY <2>4, SumOfOne
  <2>6. QED
    BY <2>1, <2>3, <2>5 DEF BillNegotiationPotential
<1>6. BillNegotiationPotential(<<awaited>>).annual = EstimatedNegotiationSavings(n)
  <2>1. PICK bills : bills = <<awaited>>
    OBVIOUS
  <2>2. DOMAIN bills = 1..1 /\ bills[1] = awaited
    BY <2>1
  <2>3. PICK s : s = [i \in DOMAIN bills |->
                        MonthlyEquivalentCents(BillAmount(bills[i]), bills[i].cadence)]
    OBVIOUS
  <2>4. s = [i \in 1..1 |-> n]
    BY <1>2, <1>3, <2>2, <2>3
  <2>5. SumSeq(s) = n
    BY <2>4, SumOfOne
  <2>6. QED
    BY <2>1, <2>3, <2>5 DEF BillNegotiationPotential
<1>7. Abs(BillNegotiationPotential(<<charged, awaited>>).annual
          - (BillNegotiationPotential(<<charged>>).annual
               + BillNegotiationPotential(<<awaited>>).annual)) <= 1
  BY <1>4, <1>5, <1>6, EstimatesAgree
<1>8. PICK held, nobody : held = Held("active") /\ nobody = {}
  OBVIOUS
<1>9. PICK a \in Nat, b \in Nat, p \in Nat, q \in Nat :
        p = price /\ q = 12 * hours + 7 /\ a = Rounded(p, 12) /\ b = Rounded(q, 12)
  <2>1. price \in Nat /\ 12 * hours + 7 \in Nat
    BY DEF MoneyType
  <2>2. PICK p \in Nat, q \in Nat : p = price /\ q = 12 * hours + 7
    BY <2>1
  <2>3. Rounded(p, 12) \in Nat /\ Rounded(q, 12) \in Nat
    BY TwelfthIs
  <2>4. QED
    BY <2>2, <2>3
<1>10. 24 * a <= 2 * p + 12 /\ 2 * p + 12 < 24 * a + 24
  BY <1>9, TwelfthIs
<1>11. 24 * b <= 2 * q + 12 /\ 2 * q + 12 < 24 * b + 24
  BY <1>9, TwelfthIs
<1>12. PotentialMonthlySavings(held, nobody, Owed) = a + b
  <2>1. PICK s : s = [i \in DOMAIN held |->
                        IF held[i].status = "active" /\ held[i].id \in nobody
                        THEN WebMonthlyEquivalentCents(held[i].cents, held[i].cadence) ELSE 0]
    OBVIOUS
  <2>2. s = [i \in 1..3 |-> IF i = 1 THEN 0 ELSE IF i = 2 THEN 0 ELSE 0] /\ 0 \in Nat
    BY <1>8, <2>1, HeldIs
  <2>3. SumSeq(s) = 0 + 0 + 0
    BY <2>2, SumOfThree
  <2>4. PICK t : t = [i \in DOMAIN Owed |->
                        IF Owed[i].negotiable THEN Rounded(Owed[i].projected, 12) ELSE 0]
    OBVIOUS
  <2>5. t = [i \in 1..3 |-> IF i = 1 THEN a ELSE IF i = 2 THEN b ELSE 0]
    <3>1. t[1] = a
      BY <1>9, <2>4, OwedIs
    <3>2. t[2] = b
      BY <1>9, <2>4, OwedIs
    <3>3. t[3] = 0
      BY <2>4, OwedIs
    <3>4. DOMAIN Owed = 1..3
      BY OwedIs
    <3>5. QED
      BY <2>4, <3>1, <3>2, <3>3, <3>4
  <2>6. SumSeq(t) = a + b + 0
    BY <2>2, <2>5, SumOfThree
  <2>7. QED
    BY <2>1, <2>3, <2>4, <2>6 DEF PotentialMonthlySavings
<1>13. SumSeq([i \in DOMAIN Owed |-> IF Owed[i].negotiable THEN Owed[i].projected ELSE 0]) = p + q
  <2>1. PICK s : s = [i \in DOMAIN Owed |->
                        IF Owed[i].negotiable THEN Owed[i].projected ELSE 0]
    OBVIOUS
  <2>2. s = [i \in 1..3 |-> IF i = 1 THEN p ELSE IF i = 2 THEN q ELSE 0] /\ 0 \in Nat
    <3>1. s[1] = p /\ s[2] = q /\ s[3] = 0 /\ DOMAIN Owed = 1..3
      BY <1>9, <2>1, OwedIs
    <3>2. QED
      BY <2>1, <3>1
  <2>3. SumSeq(s) = p + q + 0
    BY <2>2, SumOfThree
  <2>4. QED
    BY <2>1, <2>3
<1>14. PICK l \in Nat : l = IF cadence = "monthly" THEN p ELSE 0
  OBVIOUS
<1>15. SumSeq([i \in DOMAIN Owed |-> IF Owed[i].cadence = "monthly" THEN Owed[i].last ELSE 0])
         = l + 5
  <2>1. PICK s : s = [i \in DOMAIN Owed |->
                        IF Owed[i].cadence = "monthly" THEN Owed[i].last ELSE 0]
    OBVIOUS
  <2>2. /\ s = [i \in 1..3 |-> IF i = 1 THEN l ELSE IF i = 2 THEN 5 ELSE 0]
        /\ 0 \in Nat /\ 5 \in Nat
    <3>1. s[1] = l /\ s[2] = 5 /\ s[3] = 0 /\ DOMAIN Owed = 1..3
      BY <1>9, <1>14, <2>1, OwedIs
    <3>2. QED
      BY <2>1, <3>1
  <2>3. SumSeq(s) = l + 5 + 0
    BY <2>2, SumOfThree
  <2>4. QED
    BY <2>1, <2>3
<1>16. SumSeq([i \in DOMAIN Owed |-> Owed[i].last]) = p + 5 + 3
  <2>1. PICK s : s = [i \in DOMAIN Owed |-> Owed[i].last]
    OBVIOUS
  <2>2. /\ s = [i \in 1..3 |-> IF i = 1 THEN p ELSE IF i = 2 THEN 5 ELSE 3]
        /\ 3 \in Nat /\ 5 \in Nat
    <3>1. s[1] = p /\ s[2] = 5 /\ s[3] = 3 /\ DOMAIN Owed = 1..3
      BY <1>9, <2>1, OwedIs
    <3>2. QED
      BY <2>1, <3>1
  <2>3. SumSeq(s) = p + 5 + 3
    BY <2>2, SumOfThree
  <2>4. QED
    BY <2>1, <2>3
<1>17. Cardinality({i \in DOMAIN Owed : Owed[i].negotiable}) = 2
  <2>1. PICK S : S = {i \in DOMAIN Owed : Owed[i].negotiable}
    OBVIOUS
  <2>2. S \in SUBSET (1..3) /\ 1 \in S /\ 2 \in S /\ 3 \notin S
    BY <2>1, OwedIs
  <2>3. One(1 \in S) = 1 /\ One(2 \in S) = 1 /\ One(3 \in S) = 0
    BY <2>2 DEF One
  <2>4. QED
    BY <2>1, <2>2, <2>3, CountOfFew
<1>18. PICK overview, sum : overview = Overview(held, nobody, Owed) /\ sum = BillsPage(Owed)
  OBVIOUS
<1>19. /\ overview.potential = a + b /\ overview.negotiable = 2
       /\ overview.billsPerMonth = p + 5 + 3
  BY <1>12, <1>16, <1>17, <1>18 DEF Overview
<1>20. sum.monthly = l + 5 /\ sum.projection = p + q
  BY <1>13, <1>15, <1>18 DEF BillsPage
<1>21. Abs(12 * (a + b) - (p + q)) <= 6 * 2 /\ p + 5 + 3 >= l + 5
  <2>1. 12 * (a + b) - (p + q) <= 12 /\ (p + q) - 12 * (a + b) <= 12
    BY <1>10, <1>11
  <2>2. QED
    BY <1>14, <2>1 DEF Abs
<1>22. QED
  BY <1>1, <1>7, <1>8, <1>18, <1>19, <1>20, <1>21 DEF BillsAgree

\* The portfolio of the member's subscriptions.
LEMMA ActiveKept ==
  ASSUME NEW held, held = Held("active")
  PROVE  /\ DOMAIN Kept(held, WithStatus(held, "active")) = 1..2
         /\ Kept(held, WithStatus(held, "active"))[1] = held[1]
         /\ Kept(held, WithStatus(held, "active"))[2] = held[2]
<1>1. WithStatus(held, "active") = 1..2 /\ Cardinality(WithStatus(held, "active")) = 2
  BY StatusCounts DEF Living, One
<1>2. PICK kept : kept = [k \in 1..2 |->
        held[CHOOSE i \in 1..2 : Cardinality({j \in 1..2 : j < i}) = k - 1]]
  OBVIOUS
<1>3. Kept(held, WithStatus(held, "active")) = kept
  <2>1. Cardinality(1..2) = 2
    BY <1>1
  <2>2. Kept(held, 1..2) = kept
    BY <1>2, <2>1 DEF Kept
  <2>3. QED
    BY <1>1, <2>2
<1>4. ASSUME NEW k \in 1..2 PROVE kept[k] = held[k]
  <2>1. k \in 1..(2 - 1 + 1) /\ 1 \in Int /\ 2 \in Int
    OBVIOUS
  <2>2. (CHOOSE i \in 1..2 : Cardinality({j \in 1..2 : j < i}) = k - 1) = 1 + k - 1
    BY <2>1, KeptAt
  <2>3. kept[k] = held[CHOOSE i \in 1..2 : Cardinality({j \in 1..2 : j < i}) = k - 1]
    BY <1>2
  <2>4. 1 + k - 1 = k
    OBVIOUS
  <2>5. QED
    BY <2>2, <2>3, <2>4, Zenon
<1>5. kept[1] = held[1] /\ kept[2] = held[2] /\ DOMAIN kept = 1..2
  BY <1>2, <1>4
<1>6. QED
  BY <1>3, <1>5

LEMMA HeldPortfolio ==
  ASSUME MoneyType, NEW held, held = Held("active")
  PROVE  \E items : /\ PairOf(items, WebCents, hours, OtherCents, 5)
                    /\ PortfolioRotSummary(held, Used) = SummarizePortfolio(items)
<1>1. PICK active : active = Kept(held, WithStatus(held, "active"))
  OBVIOUS
<1>2. DOMAIN active = 1..2 /\ active[1] = held[1] /\ active[2] = held[2]
  BY <1>1, ActiveKept
<1>3. PICK items : items = [i \in DOMAIN active |->
        [cents |-> WebMonthlyEquivalentCents(active[i].cents, active[i].cadence),
         used |-> Used[active[i].id]]]
  OBVIOUS
<1>4. PortfolioRotSummary(held, Used) = SummarizePortfolio(items)
  BY <1>1, <1>3 DEF PortfolioRotSummary
<1>5. Used[1] = hours /\ Used[2] = 5
  BY DEF Used
<1>6. items[1].cents = WebCents /\ items[1].used = hours
  BY <1>2, <1>3, <1>5, HeldIs DEF WebCents
<1>7. items[2].cents = OtherCents /\ items[2].used = 5
  BY <1>2, <1>3, <1>5, HeldIs DEF OtherCents
<1>8. DOMAIN items = 1..2
  BY <1>2, <1>3
<1>9. PairOf(items, WebCents, hours, OtherCents, 5)
  BY <1>6, <1>7, <1>8 DEF PairOf
<1>10. QED
  BY <1>4, <1>9

\* Every score has one tier.
LEMMA OneTier ==
  ASSUME NEW used
  PROVE  InTier(used, "high_rot") + InTier(used, "moderate_rot") + InTier(used, "healthy") = 1
         /\ InTier(used, "high_rot") \in 0..1 /\ InTier(used, "moderate_rot") \in 0..1
         /\ InTier(used, "healthy") \in 0..1
<1>1. Tier(RotScore(used)) \in {"high_rot", "moderate_rot", "healthy"}
  BY DEF Tier
<1>2. QED
  BY <1>1 DEF InTier, One

LEMMA CardIs ==
  ASSUME MoneyType, NEW held, held = Held("active"),
         NEW card, card = [i \in DOMAIN held |-> RotScoreCard(held[i], Used[held[i].id])]
  PROVE  /\ DOMAIN card = 1..3
         /\ card[1].tier = Tier(RotScore(hours)) /\ card[1].leak = Wasted(WebCents, hours)
         /\ card[1].leakPerYear = 12 * Wasted(WebCents, hours)
         /\ card[2].tier = Tier(RotScore(5)) /\ card[2].leak = Wasted(OtherCents, 5)
         /\ card[2].leakPerYear = 12 * Wasted(OtherCents, 5)
<1>1. Used[1] = hours /\ Used[2] = 5
  BY DEF Used
<1>2. DOMAIN held = 1..3
  BY HeldIs
<1>3. card[1] = RotScoreCard(held[1], hours) /\ card[2] = RotScoreCard(held[2], 5)
  BY <1>1, <1>2, HeldIs
<1>4. CalculateSubscriptionRot(held[1], hours) = ComputeRotScore(WebCents, hours)
  BY HeldIs DEF CalculateSubscriptionRot, WebCents
<1>5. CalculateSubscriptionRot(held[2], 5) = ComputeRotScore(OtherCents, 5)
  BY HeldIs DEF CalculateSubscriptionRot, OtherCents
<1>6. ASSUME NEW sub, NEW u, NEW c, CalculateSubscriptionRot(sub, u) = ComputeRotScore(c, u)
      PROVE /\ RotScoreCard(sub, u).tier = Tier(RotScore(u))
            /\ RotScoreCard(sub, u).leak = Wasted(c, u)
            /\ RotScoreCard(sub, u).leakPerYear = 12 * Wasted(c, u)
  <2>1. PICK rot : rot = CalculateSubscriptionRot(sub, u)
    OBVIOUS
  <2>2. rot.tier = Tier(RotScore(u)) /\ rot.wasted = Wasted(c, u)
    BY <1>6, <2>1 DEF ComputeRotScore
  <2>3. RotScoreCard(sub, u) = [tier |-> rot.tier, score |-> rot.score, leak |-> rot.wasted,
                                leakPerYear |-> 12 * rot.wasted]
    BY <2>1 DEF RotScoreCard
  <2>4. QED
    BY <2>2, <2>3
<1>7. /\ card[1].tier = Tier(RotScore(hours)) /\ card[1].leak = Wasted(WebCents, hours)
      /\ card[1].leakPerYear = 12 * Wasted(WebCents, hours)
  BY <1>3, <1>4, <1>6
<1>8. /\ card[2].tier = Tier(RotScore(5)) /\ card[2].leak = Wasted(OtherCents, 5)
      /\ card[2].leakPerYear = 12 * Wasted(OtherCents, 5)
  BY <1>3, <1>5, <1>6
<1>9. QED
  BY <1>2, <1>7, <1>8

LEMMA HighAverage ==
  ASSUME NEW q \in 60..100, NEW r \in 60..100, NEW c \in Nat, NEW d \in Nat, c + d > 0
  PROVE  Tier(Rounded(q * c + r * d, c + d)) = "high_rot"
<1>1. PICK low \in Nat, top \in Nat :
        low = 60 /\ top = 100 /\ low <= q /\ low <= r /\ q <= top /\ r <= top
        /\ q \in Nat /\ r \in Nat
  OBVIOUS
<1>2. Average(q, c, r, d) \in low..top
  BY <1>1, AverageBetween, ZenonT(40)
<1>3. Average(q, c, r, d) >= 60
  BY <1>1, <1>2
<1>4. QED
  BY <1>3 DEF Tier, Average

LEMMA BannerHolds ==
  ASSUME MoneyType
  PROVE  BannerAgrees
<1>1. PICK held, card : /\ held = Held("active")
                        /\ card = [i \in DOMAIN held |-> RotScoreCard(held[i], Used[held[i].id])]
  OBVIOUS
<1>2. PICK c \in Nat, d \in Nat : c = WebCents /\ d = OtherCents /\ c + d > 0
  BY WebCostsAre
<1>3. hours \in Nat /\ 5 \in Nat
  BY DEF MoneyType
<1>4. PICK w \in Nat, x \in Nat : w = Wasted(c, hours) /\ x = Wasted(d, 5)
  <2>1. Wasted(c, hours) \in 0..c /\ Wasted(d, 5) \in 0..d
    BY <1>3, WasteIs DEF WasteSound
  <2>2. QED
    BY <2>1
<1>5. PICK q \in Nat, r \in Nat : q = RotScore(hours) /\ r = RotScore(5) /\ q <= 100 /\ r <= 100
  <2>1. RotScore(hours) \in 0..100 /\ RotScore(5) \in 0..100
    BY <1>3, ScoreIs DEF ScoreSound
  <2>2. QED
    BY <2>1
<1>6. PICK p : p = PortfolioRotSummary(held, Used)
  OBVIOUS
<1>7. p = [total |-> c + d,
           high |-> InTier(hours, "high_rot") + InTier(5, "high_rot"),
           moderate |-> InTier(hours, "moderate_rot") + InTier(5, "moderate_rot"),
           healthy |-> InTier(hours, "healthy") + InTier(5, "healthy"),
           wasted |-> w + x,
           average |-> Rounded(q * c + r * d, c + d)]
  <2>1. PICK items : /\ PairOf(items, c, hours, d, 5)
                     /\ p = SummarizePortfolio(items)
    BY <1>1, <1>2, <1>6, HeldPortfolio
  <2>2. QED
    BY <1>2, <1>3, <1>4, <1>5, <2>1, PortfolioOfTwo
<1>8. PICK active : active = WithStatus(held, "active")
  OBVIOUS
<1>9. active = {1, 2} /\ Cardinality(active) = 2
  BY <1>1, <1>8, StatusCounts DEF Living, One
<1>10. DOMAIN held = 1..3
  BY <1>1, HeldIs
<1>11. /\ DOMAIN card = 1..3
       /\ card[1].tier = Tier(q) /\ card[1].leak = w /\ card[1].leakPerYear = 12 * w
       /\ card[2].tier = Tier(r) /\ card[2].leak = x /\ card[2].leakPerYear = 12 * x
  BY <1>1, <1>2, <1>4, <1>5, CardIs
<1>12. SumSeq([i \in DOMAIN held |-> IF i \in active THEN card[i].leak ELSE 0]) = w + x
  <2>1. PICK s : s = [i \in DOMAIN held |-> IF i \in active THEN card[i].leak ELSE 0]
    OBVIOUS
  <2>2. s = [i \in 1..3 |-> IF i = 1 THEN w ELSE IF i = 2 THEN x ELSE 0] /\ 0 \in Nat
    <3>1. s[1] = w /\ s[2] = x /\ s[3] = 0
      BY <1>9, <1>10, <1>11, <2>1
    <3>2. QED
      BY <1>10, <2>1, <3>1
  <2>3. SumSeq(s) = w + x + 0
    BY <2>2, SumOfThree
  <2>4. QED
    BY <2>1, <2>3
<1>13. SumSeq([i \in DOMAIN held |-> IF i \in active THEN card[i].leakPerYear ELSE 0])
         = 12 * (w + x)
  <2>1. PICK s : s = [i \in DOMAIN held |-> IF i \in active THEN card[i].leakPerYear ELSE 0]
    OBVIOUS
  <2>2. PICK y \in Nat, z \in Nat : y = 12 * w /\ z = 12 * x
    OBVIOUS
  <2>3. s = [i \in 1..3 |-> IF i = 1 THEN y ELSE IF i = 2 THEN z ELSE 0] /\ 0 \in Nat
    <3>1. s[1] = y /\ s[2] = z /\ s[3] = 0
      BY <1>9, <1>10, <1>11, <2>1, <2>2
    <3>2. QED
      BY <1>10, <2>1, <3>1
  <2>4. SumSeq(s) = y + z + 0
    BY <2>2, <2>3, SumOfThree
  <2>5. QED
    BY <2>1, <2>2, <2>4
<1>14. PICK banner : banner = RotBanner(held, Used)
  OBVIOUS
<1>15. /\ banner.tier = Tier(p.average) /\ banner.leakage = w + x
       /\ banner.high = InTier(hours, "high_rot") + InTier(5, "high_rot") /\ banner.of = 2
  <2>1. SummarizeSubscriptions(held).active = 2
    BY <1>8, <1>9 DEF SummarizeSubscriptions
  <2>2. banner.tier = Tier(p.average) /\ banner.leakage = p.wasted /\ banner.high = p.high
        /\ banner.of = 2
    BY <1>6, <1>14, <2>1 DEF RotBanner
  <2>3. QED
    BY <1>7, <2>2
<1>16. Cardinality({i \in active : card[i].tier = "high_rot"})
         = InTier(hours, "high_rot") + InTier(5, "high_rot")
  <2>1. PICK S : S = {i \in active : card[i].tier = "high_rot"}
    OBVIOUS
  <2>2. S \in SUBSET (1..3) /\ 3 \notin S
    BY <1>9, <2>1
  <2>3. (1 \in S <=> Tier(q) = "high_rot") /\ (2 \in S <=> Tier(r) = "high_rot")
    BY <1>9, <1>11, <2>1
  <2>4. One(1 \in S) = InTier(hours, "high_rot") /\ One(2 \in S) = InTier(5, "high_rot")
        /\ One(3 \in S) = 0
    BY <1>5, <2>2, <2>3 DEF One, InTier
  <2>5. One(1 \in S) \in Int /\ One(2 \in S) \in Int
    BY DEF One
  <2>6. Cardinality(S) = One(1 \in S) + One(2 \in S) + One(3 \in S)
    BY <2>2, CountOfFew
  <2>7. QED
    BY <2>1, <2>4, <2>5, <2>6
<1>17. p.total = SummarizeSubscriptions(held).monthly
  <2>1. SummarizeSubscriptions(held).monthly = c + d
    BY <1>1, <1>2, SpendIs DEF SpendOf
  <2>2. QED
    BY <1>7, <2>1
<1>18. p.high + p.moderate + p.healthy = 2
  <2>1. PICK h1 \in Int, h2 \in Int, m1 \in Int, m2 \in Int, l1 \in Int, l2 \in Int :
          /\ h1 = InTier(hours, "high_rot") /\ h2 = InTier(5, "high_rot")
          /\ m1 = InTier(hours, "moderate_rot") /\ m2 = InTier(5, "moderate_rot")
          /\ l1 = InTier(hours, "healthy") /\ l2 = InTier(5, "healthy")
          /\ h1 + m1 + l1 = 1 /\ h2 + m2 + l2 = 1
    BY OneTier DEF InTier, One
  <2>2. p.high = h1 + h2 /\ p.moderate = m1 + m2 /\ p.healthy = l1 + l2
    BY <1>7, <2>1
  <2>3. QED
    BY <2>1, <2>2
<1>19. banner.high = banner.of => banner.tier = "high_rot"
  <2> SUFFICES ASSUME banner.high = 2 PROVE Tier(p.average) = "high_rot"
    BY <1>15
  <2>1. InTier(hours, "high_rot") \in 0..1 /\ InTier(5, "high_rot") \in 0..1
        /\ InTier(hours, "high_rot") + InTier(5, "high_rot") = 2
    BY <1>15, OneTier
  <2>2. InTier(hours, "high_rot") = 1 /\ InTier(5, "high_rot") = 1
    BY <2>1
  <2>3. Tier(q) = "high_rot" /\ Tier(r) = "high_rot"
    BY <1>5, <2>2 DEF InTier, One
  <2>4. q \in 60..100 /\ r \in 60..100
    BY <1>5, <2>3 DEF Tier
  <2>5. Tier(Rounded(q * c + r * d, c + d)) = "high_rot"
    BY <1>2, <2>4, HighAverage, ZenonT(40)
  <2>6. QED
    BY <1>7, <2>5
<1>20. p.wasted = w + x
  BY <1>7
<1>21. QED
  BY <1>1, <1>6, <1>8, <1>12, <1>13, <1>14, <1>15, <1>16, <1>17, <1>18, <1>19, <1>20
     DEF BannerAgrees

--------------------------------------------------------------------------------
(* Money and fees: for every price, cadence, use and saving *)

LEMMA MoneyHolds ==
  ASSUME MoneyType
  PROVE  MoneyIsConsistent
BY BookingHolds, RotHolds, SpendHolds, BannerHolds, SavingsHold, BillsHold
   DEF MoneyIsConsistent, PagesAgree, MoneyType

LEMMA MoneyStep ==
  ASSUME MoneyType, [MoneyNext]_moneyVars
  PROVE  MoneyType'
BY DEF MoneyType, MoneyNext, UseAnHour, PriceRises, moneyVars

\* A share of a saving, rounded.
LEMMA ShareIs ==
  ASSUME NEW s \in Nat, NEW p \in 35..60
  PROVE  /\ 100 * Fee(s, p) - s * p \in -49..50
         /\ Fee(s, p) \in 0..s
         /\ FeePreview(s, p) = Fee(s, p)
<1>1. PICK x \in Nat : x = s * p
  OBVIOUS
<1>2. x <= 60 * s
  <2>1. s * p <= s * 60
    OBVIOUS
  <2>2. QED
    BY <1>1, <2>1
<1>3. PICK q : q = (x + 50) \div 100
  OBVIOUS
<1>4. q \in Int /\ 100 * q <= x + 50 /\ x + 50 < 100 * q + 100
  BY <1>3
<1>5. q >= 0 /\ q <= s /\ 100 * q - x <= 50 /\ 100 * q - x >= -49
  BY <1>2, <1>4
<1>6. Fee(s, p) = q
  BY <1>1, <1>3, <1>4, <1>5 DEF Fee, RoundHalfUpPercent
<1>7. PICK t, r : t = x \div 100 /\ r = x % 100
  OBVIOUS
<1>8. t \in Int /\ r \in 0..99 /\ x = 100 * t + r
  BY <1>7
<1>9. q = t + (IF r >= 50 THEN 1 ELSE 0)
  BY <1>4, <1>8
<1>10. FeePreview(s, p) = q
  BY <1>1, <1>7, <1>9 DEF FeePreview
<1>11. QED
  BY <1>1, <1>4, <1>5, <1>6, <1>10

SettlementType == saving \in Nat /\ pct \in MinFee..MaxFee

LEMMA FeesHold ==
  ASSUME SettlementType
  PROVE  FeeIsNearestCent
<1>1. saving \in Nat /\ pct \in 35..60
  BY DEF SettlementType, MinFee, MaxFee
<1>2. FeeChoices \subseteq MinFee..MaxFee
  BY DEF FeeChoices, MinFee, MaxFee
<1>3. QED
  BY <1>1, <1>2, ShareIs DEF FeeIsNearestCent

\* For every saving at every fee of the band the fee is the nearest cent and what the
\* dialog showed; and for every price, cadence and use, what is booked, shown, wasted and
\* scored agree (settleNegotiation, monthly-equivalent.ts, rot/index.ts, the pages).
THEOREM RoundingHolds == RoundingSpec => []RoundingIsSound
<1>1. SettlementInit => SettlementType
  BY DEF SettlementInit, SettlementType
<1>2. SettlementType /\ [Raise]_settlementVars => SettlementType'
  BY DEF SettlementType, Raise, settlementVars
<1>3. MoneyInit => MoneyType
  BY MoneyAssumption DEF MoneyInit, MoneyType, Everywhen
<1>4. MoneyType /\ [MoneyNext]_moneyVars => MoneyType'
  BY MoneyStep
<1>5. SettlementType /\ MoneyType => RoundingIsSound
  BY FeesHold, MoneyHolds DEF RoundingIsSound
<1>6. QED
  BY <1>1, <1>2, <1>3, <1>4, <1>5, PTL DEF RoundingSpec, SettlementSpec, MoneySpec

--------------------------------------------------------------------------------
(* Bank adapters: the plan of a history *)

Whats == {"rent", "cloud", "insurance", "payroll", "purchase"}
Dues == [what : Whats, day : Int]
Drafts == [plan : Seq(Dues), used : Nat, ahead : BOOLEAN]

LEMMA PushKeeps ==
  ASSUME NEW h \in Drafts, NEW what \in Whats, NEW day \in Int
  PROVE  /\ Push(h, what, day) \in Drafts
         /\ Push(h, what, day).used = h.used /\ Push(h, what, day).ahead = h.ahead
<1>1. PICK e : e = [what |-> what, day |-> day]
  OBVIOUS
<1>2. e \in Dues
  BY <1>1 DEF Dues
<1>3. h.plan \in Seq(Dues)
  BY DEF Drafts
<1>4. PICK p : p = Append(h.plan, e) /\ p \in Seq(Dues)
  BY <1>2, <1>3, AppendProperties, Zenon
<1>5. Push(h, what, day) = [h EXCEPT !.plan = p]
  BY <1>1, <1>4, Zenon DEF Push
<1>6. QED
  BY <1>4, <1>5 DEF Drafts

\* Recurring charges use no numbers.
LEMMA ChargeKeeps ==
  ASSUME NEW h \in Drafts, NEW i \in 1..3, NEW back, NEW month \in Int
  PROVE  /\ Charge(h, i, back, month) \in Drafts
         /\ Charge(h, i, back, month).used = h.used
         /\ Charge(h, i, back, month).ahead = h.ahead
<1>1. PICK s : s = Series[i]
  OBVIOUS
<1>2. s.what \in Whats /\ s.day \in Nat
  BY <1>1 DEF Series, Whats
<1>3. PICK d : d = DayOf(month, IF s.day > MonthDays THEN MonthDays ELSE s.day)
  OBVIOUS
<1>4. d \in Int
  BY <1>2, <1>3, BankAdaptersAssumption DEF DayOf
<1>5. Charge(h, i, back, month) \in {h, Push(h, s.what, d)}
  BY <1>1, <1>3 DEF Charge
<1>6. QED
  BY <1>2, <1>4, <1>5, PushKeeps

\* A token's numbers.
LEMMA DrawIs ==
  ASSUME NEW token \in Streams, NEW n \in Nat, n > 0
  PROVE  Draw(token, n) \in Nat
<1>1. PICK m : m = Len(token) /\ m \in Nat \ {0} /\ token \in Seq(Nat)
  BY BankAdaptersAssumption, LenProperties
<1>2. ((n - 1) % m) + 1 \in 1..m
  BY <1>1
<1>3. token[((n - 1) % m) + 1] \in Nat
  BY <1>1, <1>2, ElementOfSeq, Zenon
<1>4. QED
  BY <1>1, <1>3 DEF Draw

PurchaseDay(h, token, month) == DayOf(month, 1 + (Draw(token, h.used + 1) % MonthDays))

LEMMA PurchaseIs ==
  ASSUME NEW token \in Streams, NEW h \in Drafts, NEW month \in Int, NEW now \in Int
  PROVE  /\ PurchaseDay(h, token, month) \in Int
         /\ Purchase(h, token, month, now) \in Drafts
         /\ Purchase(h, token, month, now) =
              IF PurchaseDay(h, token, month) > now
              THEN [Push(h, "purchase", PurchaseDay(h, token, month))
                      EXCEPT !.used = @ + 1, !.ahead = TRUE]
              ELSE [Push(h, "purchase", PurchaseDay(h, token, month)) EXCEPT !.used = @ + 2]
         /\ Purchase(h, token, month, now).ahead
              <=> h.ahead \/ PurchaseDay(h, token, month) > now
<1>1. PICK d : d = PurchaseDay(h, token, month)
  OBVIOUS
<1>2. Draw(token, h.used + 1) \in Nat
  BY DrawIs DEF Drafts
<1>3. d \in Int
  BY <1>1, <1>2, BankAdaptersAssumption DEF PurchaseDay, DayOf
<1>4. PICK g : g = Push(h, "purchase", d)
  OBVIOUS
<1>5. g \in Drafts /\ g.ahead = h.ahead
  BY <1>3, <1>4, PushKeeps DEF Whats
<1>6. Purchase(h, token, month, now) =
        IF d > now THEN [g EXCEPT !.used = @ + 1, !.ahead = TRUE]
        ELSE [g EXCEPT !.used = @ + 2]
  BY <1>1, <1>4, Zenon DEF Purchase, PurchaseDay
<1>7. CASE d > now
  <2>1. PICK r : r = [g EXCEPT !.used = @ + 1, !.ahead = TRUE]
    OBVIOUS
  <2>2. r \in Drafts
    <3>1. /\ g \in [plan : Seq(Dues), used : Nat, ahead : BOOLEAN]
          /\ r.plan = g.plan /\ r.used = g.used + 1
      BY <1>5, <2>1 DEF Drafts
    <3>2. r = [plan |-> g.plan, used |-> g.used + 1, ahead |-> TRUE]
      BY <2>1, <3>1
    <3>3. QED
      BY <3>1, <3>2 DEF Drafts
  <2>4. r.ahead
    BY <1>5, <2>1, Zenon DEF Drafts
  <2>3. QED
    BY <1>1, <1>3, <1>4, <1>6, <1>7, <2>1, <2>2, <2>4, Zenon
<1>8. CASE ~(d > now)
  <2>1. PICK r : r = [g EXCEPT !.used = @ + 2]
    OBVIOUS
  <2>2. r \in Drafts /\ r.ahead = h.ahead
    BY <1>5, <2>1 DEF Drafts
  <2>3. QED
    BY <1>1, <1>3, <1>4, <1>6, <1>8, <2>1, <2>2, Zenon
<1>9. QED
  BY <1>7, <1>8

\* While no purchase is ahead, a later day makes the same of a month.
LEMMA PurchaseSame ==
  ASSUME NEW token \in Streams, NEW h \in Drafts, NEW month \in Int,
         NEW from \in Int, NEW to \in Int, from <= to,
         ~Purchase(h, token, month, from).ahead
  PROVE  /\ ~h.ahead /\ Purchase(h, token, month, to) = Purchase(h, token, month, from)
<1>1. PICK d : d = PurchaseDay(h, token, month)
  OBVIOUS
<1>2. d \in Int /\ ~h.ahead /\ ~(d > from)
  BY <1>1, PurchaseIs
<1>3. ~(d > to)
  BY <1>2
<1>4. PICK r : r = [Push(h, "purchase", d) EXCEPT !.used = @ + 2]
  OBVIOUS
<1>5. Purchase(h, token, month, from) = r
  BY <1>1, <1>2, <1>4, PurchaseIs, Zenon
<1>6. Purchase(h, token, month, to) = r
  BY <1>1, <1>3, <1>4, PurchaseIs, Zenon
<1>7. QED
  BY <1>2, <1>5, <1>6

\* A month before its purchases, and what it becomes with them.
Paid(h, back, month) ==
  [Push(Charge(Charge(Charge(h, 1, back, month), 2, back, month), 3, back, month),
        "payroll", DayOf(month, 1)) EXCEPT !.used = @ + 1]
WithPurchases(g, token, month, now) ==
  IF Draw(token, g.used) % 2 = 0 THEN Purchase(g, token, month, now)
  ELSE Purchase(Purchase(g, token, month, now), token, month, now)

LEMMA PaidIs ==
  ASSUME NEW h \in Drafts, NEW back, NEW month \in Int
  PROVE  Paid(h, back, month) \in Drafts /\ Paid(h, back, month).ahead = h.ahead
<1>1. PICK a : a = Charge(h, 1, back, month)
  OBVIOUS
<1>2. a \in Drafts /\ a.ahead = h.ahead
  BY <1>1, ChargeKeeps
<1>3. PICK b : b = Charge(a, 2, back, month)
  OBVIOUS
<1>4. b \in Drafts /\ b.ahead = h.ahead
  BY <1>2, <1>3, ChargeKeeps
<1>5. PICK c : c = Charge(b, 3, back, month)
  OBVIOUS
<1>6. c \in Drafts /\ c.ahead = h.ahead
  BY <1>4, <1>5, ChargeKeeps
<1>7. PICK d : d = DayOf(month, 1) /\ d \in Int
  BY BankAdaptersAssumption DEF DayOf
<1>8. PICK e : e = Push(c, "payroll", d)
  OBVIOUS
<1>9. e \in Drafts /\ e.ahead = h.ahead
  BY <1>6, <1>7, <1>8, PushKeeps DEF Whats
<1>10. Paid(h, back, month) = [e EXCEPT !.used = @ + 1]
  BY <1>1, <1>3, <1>5, <1>7, <1>8, Zenon DEF Paid
<1>11. PICK r : r = [e EXCEPT !.used = @ + 1]
  OBVIOUS
<1>12. r \in Drafts /\ r.ahead = h.ahead
  BY <1>9, <1>11 DEF Drafts
<1>13. QED
  BY <1>10, <1>11, <1>12, Zenon

LEMMA AddMonthIs ==
  ASSUME NEW h, NEW token, NEW back, NEW now
  PROVE  AddMonth(h, token, back, now) =
           WithPurchases(Paid(h, back, MonthOf(now) - back), token, MonthOf(now) - back, now)
BY Zenon DEF AddMonth, WithPurchases, Paid

LEMMA MonthOfIs ==
  ASSUME NEW now \in Nat
  PROVE  MonthOf(now) \in Nat
BY BankAdaptersAssumption DEF MonthOf

LEMMA WithPurchasesIs ==
  ASSUME NEW token \in Streams, NEW g \in Drafts, NEW month \in Int, NEW now \in Int
  PROVE  WithPurchases(g, token, month, now) \in Drafts
<1>1. PICK a : a = Purchase(g, token, month, now)
  OBVIOUS
<1>2. a \in Drafts
  BY <1>1, PurchaseIs
<1>3. PICK b : b = Purchase(a, token, month, now)
  OBVIOUS
<1>4. b \in Drafts
  BY <1>2, <1>3, PurchaseIs
<1>5. WithPurchases(g, token, month, now) \in {a, b}
  BY <1>1, <1>3 DEF WithPurchases
<1>6. QED
  BY <1>2, <1>4, <1>5

LEMMA WithPurchasesSame ==
  ASSUME NEW token \in Streams, NEW g \in Drafts, NEW month \in Int,
         NEW from \in Int, NEW to \in Int, from <= to,
         ~WithPurchases(g, token, month, from).ahead
  PROVE  ~g.ahead /\ WithPurchases(g, token, month, to) = WithPurchases(g, token, month, from)
<1>1. PICK a : a = Purchase(g, token, month, from)
  OBVIOUS
<1>2. a \in Drafts
  BY <1>1, PurchaseIs
<1>3. CASE Draw(token, g.used) % 2 = 0
  <2>1. WithPurchases(g, token, month, from) = a
    BY <1>1, <1>3 DEF WithPurchases
  <2>2. ~g.ahead /\ Purchase(g, token, month, to) = a
    BY <1>1, <2>1, PurchaseSame
  <2>3. QED
    BY <1>3, <2>1, <2>2 DEF WithPurchases
<1>4. CASE ~(Draw(token, g.used) % 2 = 0)
  <2>1. PICK b : b = Purchase(a, token, month, from)
    OBVIOUS
  <2>2. WithPurchases(g, token, month, from) = b
    BY <1>1, <1>4, <2>1 DEF WithPurchases
  <2>3. ~a.ahead /\ Purchase(a, token, month, to) = b
    BY <1>2, <2>1, <2>2, PurchaseSame
  <2>4. ~g.ahead /\ Purchase(g, token, month, to) = a
    BY <1>1, <2>3, PurchaseSame
  <2>5. QED
    BY <1>4, <2>2, <2>3, <2>4 DEF WithPurchases
<1>5. QED
  BY <1>3, <1>4

LEMMA AddMonthSame ==
  ASSUME NEW token \in Streams, NEW h \in Drafts, NEW back \in Nat,
         NEW from \in Nat, NEW to \in Nat, from <= to, MonthOf(from) = MonthOf(to)
  PROVE  /\ AddMonth(h, token, back, from) \in Drafts
         /\ ~AddMonth(h, token, back, from).ahead =>
              ~h.ahead /\ AddMonth(h, token, back, to) = AddMonth(h, token, back, from)
<1>1. PICK m : m = MonthOf(from) - back /\ m \in Int
  BY MonthOfIs
<1>2. PICK g : g = Paid(h, back, m)
  OBVIOUS
<1>3. g \in Drafts /\ g.ahead = h.ahead
  BY <1>1, <1>2, PaidIs
<1>4. /\ AddMonth(h, token, back, from) = WithPurchases(g, token, m, from)
      /\ AddMonth(h, token, back, to) = WithPurchases(g, token, m, to)
  BY <1>1, <1>2, AddMonthIs, Zenon
<1>5. WithPurchases(g, token, m, from) \in Drafts
  BY <1>1, <1>3, WithPurchasesIs
<1>6. ~WithPurchases(g, token, m, from).ahead =>
        ~g.ahead /\ WithPurchases(g, token, m, to) = WithPurchases(g, token, m, from)
  BY <1>1, <1>3, WithPurchasesSame
<1>7. QED
  BY <1>3, <1>4, <1>5, <1>6, Zenon

\* Within a month without purchases ahead, every day has one plan.
LEMMA BuiltSame ==
  ASSUME NEW token \in Streams, NEW from \in Nat, NEW to \in Nat, from <= to,
         MonthOf(from) = MonthOf(to)
  PROVE  /\ Built(token, from) \in Drafts
         /\ ~Built(token, from).ahead => Built(token, to) = Built(token, from)
<1>1. Nothing \in Drafts
  BY EmptySeq, Zenon DEF Nothing, Drafts
<1>2. PICK one, nought : one = MonthsOfHistory /\ nought = 0 /\ one \in Nat /\ nought \in Nat
  BY DEF MonthsOfHistory
<1>3. PICK a : a = AddMonth(Nothing, token, one, from)
  OBVIOUS
<1>4. a \in Drafts /\ (~a.ahead => AddMonth(Nothing, token, one, to) = a)
  BY <1>1, <1>2, <1>3, AddMonthSame
<1>5. PICK b : b = AddMonth(a, token, nought, from)
  OBVIOUS
<1>6. b \in Drafts /\ (~b.ahead => ~a.ahead /\ AddMonth(a, token, nought, to) = b)
  BY <1>2, <1>4, <1>5, AddMonthSame
<1>7. Built(token, from) = b
  BY <1>2, <1>3, <1>5, Zenon DEF Built
<1>8. ~b.ahead => Built(token, to) = b
  BY <1>2, <1>4, <1>6, Zenon DEF Built
<1>9. QED
  BY <1>6, <1>7, <1>8, Zenon

--------------------------------------------------------------------------------
(* Bank adapters: the order of a history *)

Plans == Seq(Dues)
\* The place of an entry among those made.
Rank(p, made, i) == Cardinality(Until(p, made, i))
Before(p, i, j) == p[i].day < p[j].day \/ (p[i].day = p[j].day /\ i < j)

LEMMA MadeIs ==
  ASSUME NEW p \in Plans, NEW now \in Nat
  PROVE  /\ IsFiniteSet(Made(p, now)) /\ Cardinality(Made(p, now)) \in Nat
         /\ \A i \in Made(p, now) : i \in Nat /\ p[i].day \in Int /\ p[i].day <= now
<1>1. PICK n : n = Len(p) /\ n \in Nat /\ DOMAIN p = 1..n
  BY LenProperties, Zenon DEF Plans
<1>2. PICK one : one = 1 /\ one \in Int /\ n \in Int
  BY <1>1
<1>3. IsFiniteSet(one..n)
  BY <1>2, FS_Interval
<1>4. Made(p, now) \in SUBSET (one..n)
  BY <1>1, <1>2, Zenon DEF Made
<1>5. IsFiniteSet(Made(p, now)) /\ Cardinality(Made(p, now)) \in Nat
  BY <1>3, <1>4, FS_Subset, FS_CardinalityType
<1>6. ASSUME NEW i \in Made(p, now) PROVE i \in Nat /\ p[i].day \in Int /\ p[i].day <= now
  <2>1. i \in 1..n /\ p[i].day <= now
    BY <1>1, <1>6 DEF Made
  <2>2. p[i] \in Dues
    BY <1>1, <2>1, ElementOfSeq, Zenon DEF Plans
  <2>3. QED
    BY <2>1, <2>2 DEF Dues
<1>7. QED
  BY <1>5, <1>6

LEMMA RankBounds ==
  ASSUME NEW p \in Plans, NEW now \in Nat, NEW made, made = Made(p, now), NEW i \in made
  PROVE  /\ IsFiniteSet(Until(p, made, i)) /\ i \in Until(p, made, i)
         /\ Rank(p, made, i) \in 1..Cardinality(made)
<1>1. IsFiniteSet(made) /\ Cardinality(made) \in Nat /\ i \in Nat /\ p[i].day \in Int
  BY MadeIs
<1>2. Until(p, made, i) \in SUBSET made
  BY DEF Until
<1>3. i \in Until(p, made, i)
  BY <1>1 DEF Until
<1>4. /\ IsFiniteSet(Until(p, made, i)) /\ Rank(p, made, i) <= Cardinality(made)
      /\ Rank(p, made, i) \in Nat
  BY <1>1, <1>2, FS_Subset, FS_CardinalityType DEF Rank
<1>5. Rank(p, made, i) # 0
  BY <1>3, <1>4, FS_EmptySet, Zenon DEF Rank
<1>6. QED
  BY <1>1, <1>3, <1>4, <1>5

LEMMA RanksGrow ==
  ASSUME NEW p \in Plans, NEW now \in Nat, NEW made, made = Made(p, now),
         NEW i \in made, NEW j \in made, Before(p, i, j)
  PROVE  Rank(p, made, i) < Rank(p, made, j)
<1>1. \A k \in made : k \in Nat /\ p[k].day \in Int
  BY MadeIs
<1>2. Until(p, made, i) \in SUBSET Until(p, made, j) /\ j \notin Until(p, made, i)
  <2>1. ASSUME NEW k \in Until(p, made, i) PROVE k \in Until(p, made, j) /\ k # j
    <3>1. k \in made /\ (p[k].day < p[i].day \/ (p[k].day = p[i].day /\ k <= i))
      BY <2>1 DEF Until
    <3>2. PICK a, b, c : a = p[i].day /\ b = p[j].day /\ c = p[k].day
      OBVIOUS
    <3>3. /\ a \in Int /\ b \in Int /\ c \in Int /\ i \in Nat /\ j \in Nat /\ k \in Nat
          /\ c < a \/ (c = a /\ k <= i)
          /\ a < b \/ (a = b /\ i < j)
      BY <1>1, <3>1, <3>2 DEF Before
    <3>4. (c < b \/ (c = b /\ k <= j)) /\ k # j
      BY <3>3, <3>2
    <3>5. QED
      BY <3>1, <3>2, <3>4, Zenon DEF Until
  <2>2. QED
    BY <2>1
<1>3. IsFiniteSet(Until(p, made, j)) /\ j \in Until(p, made, j)
  BY RankBounds
<1>4. Rank(p, made, i) <= Rank(p, made, j)
  BY <1>2, <1>3, FS_Subset, Zenon DEF Rank
<1>5. Rank(p, made, i) # Rank(p, made, j)
  <2>1. SUFFICES ASSUME Rank(p, made, i) = Rank(p, made, j) PROVE FALSE
    OBVIOUS
  <2>2. Until(p, made, j) = Until(p, made, i)
    BY <1>2, <1>3, <2>1, FS_Subset, Zenon DEF Rank
  <2>3. QED
    BY <1>2, <1>3, <2>2, Zenon
<1>6. Rank(p, made, i) \in Nat /\ Rank(p, made, j) \in Nat
  <2>1. Rank(p, made, i) \in 1..Cardinality(made) /\ Rank(p, made, j) \in 1..Cardinality(made)
    BY RankBounds
  <2>2. Cardinality(made) \in Nat
    BY MadeIs
  <2>3. QED
    BY <2>1, <2>2
<1>7. QED
  BY <1>4, <1>5, <1>6

LEMMA RanksDiffer ==
  ASSUME NEW p \in Plans, NEW now \in Nat, NEW made, made = Made(p, now),
         NEW i \in made, NEW j \in made
  PROVE  /\ Rank(p, made, i) = Rank(p, made, j) => i = j
         /\ Rank(p, made, i) < Rank(p, made, j) => Before(p, i, j)
<1>1. i \in Nat /\ j \in Nat /\ p[i].day \in Int /\ p[j].day \in Int
  BY MadeIs
<1>2. Before(p, i, j) \/ Before(p, j, i) \/ i = j
  <2>1. PICK a, b : a = p[i].day /\ b = p[j].day
    OBVIOUS
  <2>2. a < b \/ (a = b /\ i < j) \/ b < a \/ (b = a /\ j < i) \/ i = j
    BY <1>1, <2>1
  <2>3. QED
    BY <2>1, <2>2, Zenon DEF Before
<1>3. Before(p, i, j) => Rank(p, made, i) < Rank(p, made, j)
  BY RanksGrow
<1>4. Before(p, j, i) => Rank(p, made, j) < Rank(p, made, i)
  BY RanksGrow
<1>5. Rank(p, made, i) \in Nat /\ Rank(p, made, j) \in Nat
  <2>1. Rank(p, made, i) \in 1..Cardinality(made) /\ Rank(p, made, j) \in 1..Cardinality(made)
    BY RankBounds
  <2>2. Cardinality(made) \in Nat
    BY MadeIs
  <2>3. QED
    BY <2>1, <2>2
<1>6. QED
  BY <1>2, <1>3, <1>4, <1>5

\* Every place is taken.
LEMMA RanksFill ==
  ASSUME NEW p \in Plans, NEW now \in Nat, NEW made, made = Made(p, now),
         NEW k \in 1..Cardinality(made)
  PROVE  \E i \in made : Rank(p, made, i) = k
<1>1. IsFiniteSet(made) /\ Cardinality(made) \in Nat
  BY MadeIs
<1>2. PICK n, T, one : n = Cardinality(made) /\ T = one..n /\ one = 1 /\ one \in Int /\ n \in Int
  BY <1>1
<1>3. IsFiniteSet(T) /\ Cardinality(T) = n
  <2>1. IsFiniteSet(T) /\ Cardinality(T) = IF one > n THEN 0 ELSE n - one + 1
    BY <1>2, FS_Interval
  <2>2. (IF one > n THEN 0 ELSE n - one + 1) = n
    BY <1>1, <1>2
  <2>3. QED
    BY <2>1, <2>2
<1>4. PICK f : f = [i \in made |-> Rank(p, made, i)]
  OBVIOUS
<1>5. \A i \in made : Rank(p, made, i) \in T
  BY <1>2, RankBounds
<1>6. f \in [made -> T]
  BY <1>4, <1>5
<1>7. \A i, j \in made : f[i] = f[j] => i = j
  <2>1. ASSUME NEW i \in made, NEW j \in made, f[i] = f[j] PROVE i = j
    <3>1. Rank(p, made, i) = Rank(p, made, j)
      BY <1>4, <2>1
    <3>2. QED
      BY <3>1, RanksDiffer
  <2>2. QED
    BY <2>1
<1>8. f \in Injection(made, T)
  BY <1>6, <1>7, Zenon DEF Injection, IsInjective
<1>9. f \in Surjection(made, T)
  BY <1>2, <1>3, <1>8, FS_Injection, Zenon
<1>10. \E i \in made : f[i] = k
  BY <1>2, <1>9, Zenon DEF Surjection
<1>11. QED
  BY <1>4, <1>10, Zenon

\* The order has every entry at its rank.
LEMMA SortedIs ==
  ASSUME NEW p \in Plans, NEW now \in Nat, NEW made, made = Made(p, now),
         NEW k \in 1..Cardinality(made)
  PROVE  /\ Sorted(p, made)[k] \in made
         /\ Rank(p, made, Sorted(p, made)[k]) = k
         /\ \A i \in made : Rank(p, made, i) = k => Sorted(p, made)[k] = i
<1>1. PICK c : c = CHOOSE i \in made : Cardinality(Until(p, made, i)) = k
  OBVIOUS
<1>2. c \in made /\ Cardinality(Until(p, made, c)) = k
  <2>1. PICK i \in made : Rank(p, made, i) = k
    BY RanksFill
  <2>2. Cardinality(Until(p, made, i)) = k
    BY <2>1, Zenon DEF Rank
  <2>3. QED
    BY <1>1, <2>1, <2>2, Zenon
<1>3. Sorted(p, made)[k] = c
  BY <1>1 DEF Sorted
<1>4. Rank(p, made, c) = k
  BY <1>2, Zenon DEF Rank
<1>5. \A i \in made : Rank(p, made, i) = k => c = i
  BY <1>2, <1>4, RanksDiffer
<1>6. QED
  BY <1>2, <1>3, <1>4, <1>5, Zenon

\* A later day adds entries behind the others and moves none.
LEMMA RankStays ==
  ASSUME NEW p \in Plans, NEW from \in Nat, NEW to \in Nat, from <= to,
         NEW i \in Made(p, from)
  PROVE  /\ i \in Made(p, to)
         /\ Rank(p, Made(p, from), i) = Rank(p, Made(p, to), i)
<1>1. /\ \A j \in Made(p, from) : p[j].day \in Int /\ p[j].day <= from
      /\ \A j \in Made(p, to) : p[j].day \in Int /\ p[j].day <= to
  BY MadeIs
<1>2. i \in DOMAIN p /\ p[i].day \in Int /\ p[i].day <= from
  BY <1>1 DEF Made
<1>3. i \in Made(p, to)
  BY <1>2 DEF Made
<1>4. \A j \in Made(p, from) : j \in Made(p, to)
  <2>1. ASSUME NEW j \in Made(p, from) PROVE j \in Made(p, to)
    <3>1. j \in DOMAIN p /\ p[j].day \in Int /\ p[j].day <= from
      BY <1>1 DEF Made
    <3>2. QED
      BY <3>1 DEF Made
  <2>2. QED
    BY <2>1
<1>5. \A j \in Made(p, to) : p[j].day <= p[i].day => j \in Made(p, from)
  <2>1. ASSUME NEW j \in Made(p, to), p[j].day <= p[i].day PROVE j \in Made(p, from)
    <3>1. j \in DOMAIN p /\ p[j].day \in Int
      BY <1>1, <2>1 DEF Made
    <3>2. p[j].day <= from
      BY <1>2, <2>1, <3>1
    <3>3. QED
      BY <3>1, <3>2 DEF Made
  <2>2. QED
    BY <2>1
<1>6. Until(p, Made(p, from), i) = Until(p, Made(p, to), i)
  <2>1. ASSUME NEW j \in Until(p, Made(p, from), i) PROVE j \in Until(p, Made(p, to), i)
    BY <1>4, <2>1, Zenon DEF Until
  <2>2. ASSUME NEW j \in Until(p, Made(p, to), i) PROVE j \in Until(p, Made(p, from), i)
    <3>1. j \in Made(p, to) /\ (p[j].day < p[i].day \/ (p[j].day = p[i].day /\ j <= i))
      BY <2>2 DEF Until
    <3>2. p[j].day <= p[i].day
      BY <1>1, <1>2, <3>1
    <3>3. QED
      BY <1>5, <3>1, <3>2, Zenon DEF Until
  <2>3. QED
    BY <2>1, <2>2
<1>7. QED
  BY <1>3, <1>6, Zenon DEF Rank

LEMMA OrderGrows ==
  ASSUME NEW p \in Plans, NEW from \in Nat, NEW to \in Nat, from <= to
  PROVE  /\ Made(p, from) \subseteq Made(p, to)
         /\ Cardinality(Made(p, from)) <= Cardinality(Made(p, to))
         /\ \A k \in 1..Cardinality(Made(p, from)) :
              Sorted(p, Made(p, to))[k] = Sorted(p, Made(p, from))[k]
<1>1. PICK A, B : A = Made(p, from) /\ B = Made(p, to)
  OBVIOUS
<1>2. A \in SUBSET B /\ IsFiniteSet(B) /\ Cardinality(A) \in Nat /\ Cardinality(B) \in Nat
  BY <1>1, RankStays, MadeIs
<1>3. Cardinality(A) <= Cardinality(B)
  BY <1>2, FS_Subset
<1>4. ASSUME NEW k \in 1..Cardinality(A) PROVE Sorted(p, B)[k] = Sorted(p, A)[k]
  <2>1. PICK i : i = Sorted(p, A)[k] /\ i \in A /\ Rank(p, A, i) = k
    BY <1>1, <1>4, SortedIs
  <2>2. i \in B /\ Rank(p, B, i) = k
    BY <1>1, <2>1, RankStays, Zenon
  <2>3. k \in 1..Cardinality(B)
    BY <1>2, <1>3
  <2>4. Sorted(p, B)[k] = i
    BY <1>1, <2>2, <2>3, SortedIs
  <2>5. QED
    BY <2>1, <2>4
<1>5. QED
  BY <1>1, <1>2, <1>3, <1>4, Zenon

\* Numbers follow the order of making, and only grow.
LEMMA NumbersGrow ==
  ASSUME NEW p \in Plans, NEW now \in Nat, NEW made, made = Made(p, now), NEW i \in made
  PROVE  /\ Number(made, i) \in Nat
         /\ \A j \in made : i < j => Number(made, i) < Number(made, j)
         /\ \A less \in SUBSET made : Number(less, i) \in Nat /\ Number(less, i) <= Number(made, i)
<1>1. IsFiniteSet(made) /\ \A j \in made : j \in Nat
  BY MadeIs
<1>2. PICK S : S = {j \in made : j <= i}
  OBVIOUS
<1>3. S \in SUBSET made /\ IsFiniteSet(S) /\ Number(made, i) = Cardinality(S)
      /\ Cardinality(S) \in Nat
  BY <1>1, <1>2, FS_Subset, FS_CardinalityType DEF Number
<1>4. ASSUME NEW j \in made, i < j PROVE Number(made, i) < Number(made, j)
  <2>1. PICK T : T = {l \in made : l <= j}
    OBVIOUS
  <2>2. T \in SUBSET made /\ IsFiniteSet(T) /\ Number(made, j) = Cardinality(T)
        /\ Cardinality(T) \in Nat
    BY <1>1, <2>1, FS_Subset, FS_CardinalityType DEF Number
  <2>3. S \in SUBSET T /\ j \in T /\ j \notin S
    BY <1>1, <1>2, <1>4, <2>1
  <2>4. Cardinality(S) <= Cardinality(T) /\ (Cardinality(T) = Cardinality(S) => T = S)
    BY <2>2, <2>3, FS_Subset
  <2>5. Cardinality(T) # Cardinality(S)
    BY <2>3, <2>4
  <2>6. QED
    BY <1>3, <2>2, <2>4, <2>5
<1>5. ASSUME NEW less \in SUBSET made
      PROVE  Number(less, i) \in Nat /\ Number(less, i) <= Number(made, i)
  <2>1. PICK R : R = {j \in less : j <= i}
    OBVIOUS
  <2>2. R \in SUBSET S
    BY <1>2, <2>1
  <2>3. IsFiniteSet(R) /\ Cardinality(R) <= Cardinality(S) /\ Cardinality(R) \in Nat
    BY <1>3, <2>2, FS_Subset, FS_CardinalityType
  <2>4. QED
    BY <1>3, <2>1, <2>3 DEF Number
<1>6. QED
  BY <1>3, <1>4, <1>5

--------------------------------------------------------------------------------
(* Bank adapters: what was read of a history *)

Size(p, now) == Cardinality(Made(p, now))

LEMMA HistorySizes ==
  ASSUME NEW p \in Plans, NEW now \in Nat
  PROVE  /\ Size(p, now) \in Nat
         /\ DOMAIN History(p, now) = 1..Size(p, now) /\ Len(History(p, now)) = Size(p, now)
<1>1. PICK n, made, order : /\ n = Size(p, now) /\ made = Made(p, now)
                            /\ order = Sorted(p, made) /\ n \in Nat
  BY MadeIs DEF Size
<1>2. n = Cardinality(made)
  BY <1>1 DEF Size
<1>3. PICK h : h = [k \in 1..n |-> [what |-> p[order[k]].what, day |-> p[order[k]].day,
                                    seq |-> Number(made, order[k])]]
  OBVIOUS
<1>4. History(p, now) = h
  BY <1>1, <1>2, <1>3, Zenon DEF History
<1>5. DOMAIN h = 1..n
  BY <1>3
<1>6. Len(h) = n
  <2>1. PICK T : T = {h[j] : j \in 1..n}
    OBVIOUS
  <2>2. h \in [1..n -> T]
    BY <1>3, <2>1
  <2>3. h \in Seq(T)
    BY <1>1, <2>2, SeqDef
  <2>4. Len(h) \in Nat /\ DOMAIN h = 1..Len(h)
    BY <2>3, LenProperties, Zenon
  <2>5. QED
    BY <1>1, <1>5, <2>4
<1>7. QED
  BY <1>1, <1>4, <1>5, <1>6, Zenon

LEMMA RowIs ==
  ASSUME NEW p \in Plans, NEW now \in Nat, NEW k \in 1..Size(p, now),
         NEW o, o = Sorted(p, Made(p, now))[k]
  PROVE  /\ o \in Made(p, now)
         /\ History(p, now)[k].what = p[o].what /\ History(p, now)[k].day = p[o].day
         /\ History(p, now)[k].seq = Number(Made(p, now), o)
<1>1. PICK n, made, order : /\ n = Size(p, now) /\ made = Made(p, now)
                            /\ order = Sorted(p, made)
  OBVIOUS
<1>2. n = Cardinality(made) /\ k \in 1..n /\ o = order[k]
  BY <1>1 DEF Size
<1>3. PICK h : h = [j \in 1..n |-> [what |-> p[order[j]].what, day |-> p[order[j]].day,
                                    seq |-> Number(made, order[j])]]
  OBVIOUS
<1>4. History(p, now) = h
  BY <1>1, <1>2, <1>3, Zenon DEF History
<1>5. o \in made
  BY <1>1, <1>2, SortedIs
<1>6. h[k].what = p[o].what /\ h[k].day = p[o].day /\ h[k].seq = Number(made, o)
  BY <1>2, <1>3
<1>7. QED
  BY <1>1, <1>4, <1>5, <1>6

LEMMA HistoryGrows ==
  ASSUME NEW p \in Plans, NEW from \in Nat, NEW to \in Nat, from <= to
  PROVE  /\ Size(p, from) <= Size(p, to)
         /\ \A k \in 1..Size(p, from) :
              /\ k \in 1..Size(p, to)
              /\ History(p, from)[k].what = History(p, to)[k].what
              /\ History(p, from)[k].day = History(p, to)[k].day
<1>1. PICK m, n : m = Size(p, from) /\ n = Size(p, to) /\ m \in Nat /\ n \in Nat
  BY HistorySizes
<1>2. m <= n
  BY <1>1, OrderGrows, Zenon DEF Size
<1>3. ASSUME NEW k \in 1..m
      PROVE  /\ k \in 1..n
             /\ History(p, from)[k].what = History(p, to)[k].what
             /\ History(p, from)[k].day = History(p, to)[k].day
  <2>1. k \in 1..n
    BY <1>1, <1>2
  <2>2. k \in 1..Cardinality(Made(p, from)) /\ k \in 1..Size(p, from) /\ k \in 1..Size(p, to)
    BY <1>1, <2>1 DEF Size
  <2>5. PICK o : o = Sorted(p, Made(p, from))[k] /\ o = Sorted(p, Made(p, to))[k]
    BY <2>2, OrderGrows
  <2>3. History(p, from)[k].what = p[o].what /\ History(p, from)[k].day = p[o].day
    BY <2>2, <2>5, RowIs
  <2>4. History(p, to)[k].what = p[o].what /\ History(p, to)[k].day = p[o].day
    BY <2>2, <2>5, RowIs
  <2>6. QED
    BY <2>1, <2>3, <2>4
<1>4. QED
  BY <1>1, <1>2, <1>3, Zenon

\* No entry of a later place is one that an earlier day had before.
LEMMA EntriesDiffer ==
  ASSUME NEW p \in Plans, NEW day \in Nat, NEW to \in Nat, day <= to,
         NEW k \in 1..Size(p, day), NEW l \in 1..Size(p, to), k < l
  PROVE  History(p, day)[k] # History(p, to)[l]
<1>1. SUFFICES ASSUME History(p, day)[k] = History(p, to)[l] PROVE FALSE
  OBVIOUS
<1>2. PICK A, B : A = Made(p, day) /\ B = Made(p, to)
  OBVIOUS
<1>3. k \in 1..Size(p, to) /\ A \in SUBSET B
  BY <1>2, HistoryGrows, OrderGrows, Zenon
<1>4. PICK i : i = Sorted(p, A)[k] /\ i = Sorted(p, B)[k]
  BY <1>2, OrderGrows, Zenon DEF Size
<1>5. i \in A /\ History(p, day)[k].day = p[i].day /\ History(p, day)[k].seq = Number(A, i)
  BY <1>2, <1>4, RowIs
<1>6. PICK j : j = Sorted(p, B)[l]
  OBVIOUS
<1>7. j \in B /\ History(p, to)[l].day = p[j].day /\ History(p, to)[l].seq = Number(B, j)
  BY <1>2, <1>6, RowIs
<1>8. i \in B /\ Rank(p, B, i) = k /\ Rank(p, B, j) = l
  <2>1. k \in 1..Cardinality(B) /\ l \in 1..Cardinality(B) /\ i \in B
    BY <1>2, <1>3, <1>5 DEF Size
  <2>2. QED
    BY <1>2, <1>4, <1>6, <2>1, SortedIs
<1>9. Before(p, i, j)
  BY <1>2, <1>7, <1>8, RanksDiffer
<1>10. p[i].day = p[j].day /\ Number(A, i) = Number(B, j)
  BY <1>1, <1>5, <1>7
<1>11. i < j
  <2>1. p[i].day \in Int
    BY <1>2, <1>5, MadeIs
  <2>2. QED
    BY <1>9, <1>10, <2>1 DEF Before
<1>12. /\ Number(A, i) \in Nat /\ Number(A, i) <= Number(B, i)
       /\ Number(B, i) \in Nat /\ Number(B, i) < Number(B, j)
  BY <1>2, <1>3, <1>7, <1>8, <1>11, NumbersGrow
<1>13. QED
  BY <1>10, <1>12

\* What is delivered was in a history since the first page, and unless the cursor was
\* lost, before it; what is before the cursor was delivered.
OnlyRead(p, from, to, c, D, again) ==
  \A e \in D : \E d \in from..to : \E k \in 1..Size(p, d) :
     e = History(p, d)[k] /\ (again \/ k <= c)
AllRead(p, to, c, D) ==
  \A k \in 1..c : \E e \in D : e.what = History(p, to)[k].what /\ e.day = History(p, to)[k].day
Read(p, from, to, c, D, again) ==
  /\ c \in 0..Size(p, to) /\ IsFiniteSet(D)
  /\ OnlyRead(p, from, to, c, D, again)
  /\ AllRead(p, to, c, D)
  /\ again \/ Cardinality(D) = c

LEMMA ReadNothing ==
  ASSUME NEW p \in Plans, NEW now \in Nat, NEW again
  PROVE  Read(p, now, now, 0, {}, again)
<1>1. Size(p, now) \in Nat
  BY HistorySizes
<1>2. IsFiniteSet({}) /\ Cardinality({}) = 0
  BY FS_EmptySet
<1>3. QED
  BY <1>1, <1>2 DEF Read, OnlyRead, AllRead

LEMMA ReadAfresh ==
  ASSUME NEW p, NEW from, NEW to, NEW c, NEW D, NEW again,
         Size(p, to) \in Nat, Read(p, from, to, c, D, again)
  PROVE  Read(p, from, to, 0, D, TRUE)
<1>1. 0 \in 0..Size(p, to)
  OBVIOUS
<1>2. OnlyRead(p, from, to, 0, D, TRUE)
  BY Zenon DEF Read, OnlyRead
<1>3. AllRead(p, to, 0, D)
  BY DEF AllRead
<1>4. QED
  BY <1>1, <1>2, <1>3, Zenon DEF Read

LEMMA ReadLater ==
  ASSUME NEW p \in Plans, NEW from \in Nat, NEW to \in Nat, NEW c, NEW D, NEW again,
         Read(p, from, to, c, D, again)
  PROVE  Read(p, from, to + 1, c, D, again)
<1>1. PICK next : next = to + 1 /\ next \in Nat /\ to <= next /\ from..to \subseteq from..next
  OBVIOUS
<1>2. Size(p, to) <= Size(p, next) /\ Size(p, to) \in Nat /\ Size(p, next) \in Nat
  BY <1>1, HistoryGrows, HistorySizes
<1>3. c \in 0..Size(p, next) /\ 1..c \subseteq 1..Size(p, to)
  BY <1>2 DEF Read
<1>4. OnlyRead(p, from, next, c, D, again)
  BY <1>1, Zenon DEF Read, OnlyRead
<1>5. AllRead(p, next, c, D)
  <2>1. ASSUME NEW k \in 1..c
        PROVE \E e \in D : e.what = History(p, next)[k].what /\ e.day = History(p, next)[k].day
    <3>1. PICK e \in D : e.what = History(p, to)[k].what /\ e.day = History(p, to)[k].day
      BY Zenon DEF Read, AllRead
    <3>2. /\ History(p, to)[k].what = History(p, next)[k].what
          /\ History(p, to)[k].day = History(p, next)[k].day
      BY <1>1, <1>3, HistoryGrows, Zenon
    <3>3. QED
      BY <3>1, <3>2, Zenon
  <2>2. QED
    BY <2>1, Zenon DEF AllRead
<1>6. QED
  BY <1>1, <1>3, <1>4, <1>5, Zenon DEF Read

\* The rows that a page has.
Page(p, now, c) == (c + 1)..(c + PageSize) \intersect DOMAIN History(p, now)

LEMMA PageIs ==
  ASSUME NEW p \in Plans, NEW now \in Nat, NEW c \in Nat
  PROVE  /\ IsFiniteSet(Page(p, now, c)) /\ Cardinality(Page(p, now, c)) \in Nat
         /\ c <= Size(p, now) =>
              Page(p, now, c) = (c + 1)..(c + Cardinality(Page(p, now, c)))
              /\ c + Cardinality(Page(p, now, c)) <= Size(p, now)
<1>1. PICK n : n = Size(p, now) /\ n \in Nat /\ DOMAIN History(p, now) = 1..n
  BY HistorySizes
<1>2. PICK P, a, b : P = Page(p, now, c) /\ a = c + 1 /\ b = IF c + PageSize <= n THEN c + PageSize ELSE n
  OBVIOUS
<1>3. a \in Int /\ b \in Int /\ PageSize \in Nat \ {0}
  BY <1>1, <1>2, BankAdaptersAssumption
<1>4. P = a..b
  BY <1>1, <1>2, <1>3 DEF Page
<1>5. IsFiniteSet(a..b) /\ Cardinality(a..b) = IF a > b THEN 0 ELSE b - a + 1
  BY <1>3, FS_Interval
<1>6. Cardinality(P) \in Nat /\ IsFiniteSet(P)
  BY <1>3, <1>4, <1>5
<1>7. ASSUME c <= n PROVE P = (c + 1)..(c + Cardinality(P)) /\ c + Cardinality(P) <= n
  <2>1. c + Cardinality(P) = b
    BY <1>1, <1>2, <1>3, <1>4, <1>5, <1>7
  <2>2. b <= n
    BY <1>1, <1>2, <1>3
  <2>3. QED
    BY <1>2, <1>4, <2>1, <2>2
<1>8. QED
  BY <1>1, <1>2, <1>6, <1>7

\* Rows of one history are all different.
LEMMA RowsCount ==
  ASSUME NEW p \in Plans, NEW now \in Nat, NEW P \in SUBSET (1..Size(p, now)), IsFiniteSet(P)
  PROVE  LET rows == {History(p, now)[k] : k \in P}
         IN  IsFiniteSet(rows) /\ Cardinality(rows) = Cardinality(P)
<1>1. PICK R : R = {History(p, now)[k] : k \in P}
  OBVIOUS
<1>2. PICK f : f = [k \in P |-> History(p, now)[k]]
  OBVIOUS
<1>3. f \in [P -> R]
  BY <1>1, <1>2
<1>4. \A k, l \in P : f[k] = f[l] => k = l
  <2>1. ASSUME NEW k \in P, NEW l \in P, f[k] = f[l], k # l PROVE FALSE
    <3>1. k \in 1..Size(p, now) /\ l \in 1..Size(p, now) /\ now <= now
      OBVIOUS
    <3>2. k < l \/ l < k
      BY <2>1, <3>1, HistorySizes
    <3>3. History(p, now)[k] # History(p, now)[l]
      BY <3>1, <3>2, EntriesDiffer
    <3>4. QED
      BY <1>2, <2>1, <3>3
  <2>2. QED
    BY <2>1
<1>5. \A e \in R : \E k \in P : f[k] = e
  BY <1>1, <1>2
<1>6. f \in Bijection(P, R)
  BY <1>3, <1>4, <1>5, Zenon DEF Bijection, Injection, IsInjective, Surjection
<1>7. ExistsBijection(P, R)
  BY <1>6, Zenon DEF ExistsBijection
<1>8. QED
  BY <1>1, <1>7, FS_Bijection, Zenon

LEMMA ReadPage ==
  ASSUME NEW p \in Plans, NEW from \in Nat, NEW to \in Nat, from <= to,
         NEW c \in Nat, NEW D, NEW again, Read(p, from, to, c, D, again)
  PROVE  Read(p, from, to, c + Cardinality(Page(p, to, c)),
              D \union {History(p, to)[k] : k \in Page(p, to, c)}, again)
<1>1. PICK n : n = Size(p, to) /\ n \in Nat /\ c <= n
  BY HistorySizes DEF Read
<1>2. PICK P, q, R, E : /\ P = Page(p, to, c) /\ q = c + Cardinality(P)
                        /\ R = {History(p, to)[k] : k \in P} /\ E = D \union R
  OBVIOUS
<1>3. /\ IsFiniteSet(P) /\ Cardinality(P) \in Nat /\ P = (c + 1)..q /\ q \in Nat
      /\ c <= q /\ q <= n
  <2>1. IsFiniteSet(P) /\ Cardinality(P) \in Nat
    BY <1>2, PageIs
  <2>2. P = (c + 1)..q /\ q <= n
    BY <1>1, <1>2, PageIs, Zenon
  <2>3. QED
    BY <1>2, <2>1, <2>2
<1>4. P \in SUBSET (1..n) /\ to \in from..to
  BY <1>1, <1>3
<1>5. IsFiniteSet(R) /\ Cardinality(R) = Cardinality(P)
  <2>1. P \in SUBSET (1..Size(p, to))
    BY <1>1, <1>4
  <2>2. PICK rows : rows = {History(p, to)[k] : k \in P}
    OBVIOUS
  <2>3. IsFiniteSet(rows) /\ Cardinality(rows) = Cardinality(P)
    BY <1>3, <2>1, <2>2, RowsCount
  <2>4. QED
    BY <1>2, <2>2, <2>3
<1>6. IsFiniteSet(D)
  BY DEF Read
<1>7. OnlyRead(p, from, to, q, E, again)
  <2>1. ASSUME NEW e \in D
        PROVE  \E d \in from..to : \E k \in 1..Size(p, d) : e = History(p, d)[k] /\ (again \/ k <= q)
    <3>1. PICK d \in from..to : \E k \in 1..Size(p, d) : e = History(p, d)[k] /\ (again \/ k <= c)
      BY Zenon DEF Read, OnlyRead
    <3>2. PICK k \in 1..Size(p, d) : e = History(p, d)[k] /\ (again \/ k <= c)
      BY <3>1
    <3>3. again \/ k <= q
      BY <1>3, <3>2
    <3>4. QED
      BY <3>2, <3>3
  <2>2. ASSUME NEW e \in R
        PROVE  \E d \in from..to : \E k \in 1..Size(p, d) : e = History(p, d)[k] /\ (again \/ k <= q)
    <3>1. PICK k \in P : e = History(p, to)[k]
      BY <1>2, <2>2
    <3>2. k \in 1..Size(p, to) /\ k <= q
      BY <1>1, <1>3, <1>4
    <3>3. QED
      BY <1>4, <3>1, <3>2, Zenon
  <2>3. QED
    BY <1>2, <2>1, <2>2, Zenon DEF OnlyRead
<1>8. AllRead(p, to, q, E)
  <2>1. ASSUME NEW k \in 1..q
        PROVE \E e \in E : e.what = History(p, to)[k].what /\ e.day = History(p, to)[k].day
    <3>1. CASE k \in 1..c
      <4>1. PICK e \in D : e.what = History(p, to)[k].what /\ e.day = History(p, to)[k].day
        BY <3>1, Zenon DEF Read, AllRead
      <4>2. QED
        BY <1>2, <4>1, Zenon
    <3>2. CASE k \in P
      <4>1. History(p, to)[k] \in E
        BY <1>2, <3>2
      <4>2. QED
        BY <4>1, Zenon
    <3>3. QED
      BY <1>3, <3>1, <3>2
  <2>2. QED
    BY <2>1, Zenon DEF AllRead
<1>9. again \/ Cardinality(E) = q
  <2>1. SUFFICES ASSUME ~again PROVE Cardinality(E) = q
    OBVIOUS
  <2>2. Cardinality(D) = c
    BY <2>1 DEF Read
  <2>3. D \intersect R = {}
    <3>1. ASSUME NEW e \in D, e \in R PROVE FALSE
      <4>1. PICK d \in from..to : \E k \in 1..Size(p, d) : e = History(p, d)[k] /\ (again \/ k <= c)
        BY <3>1, Zenon DEF Read, OnlyRead
      <4>2. PICK k \in 1..Size(p, d) : e = History(p, d)[k] /\ (again \/ k <= c)
        BY <4>1
      <4>3. PICK l \in P : e = History(p, to)[l]
        BY <1>2, <3>1
      <4>4. k <= c /\ d \in Nat /\ d <= to /\ l \in 1..Size(p, to) /\ c < l
        BY <1>1, <1>3, <1>4, <2>1, <4>2
      <4>5. Size(p, d) \in Nat
        BY <4>4, HistorySizes
      <4>6. k < l
        BY <4>4, <4>5, <1>3
      <4>7. History(p, d)[k] # History(p, to)[l]
        BY <4>4, <4>6, EntriesDiffer
      <4>8. QED
        BY <4>2, <4>3, <4>7
    <3>2. QED
      BY <3>1
  <2>4. Cardinality(E) = Cardinality(D) + Cardinality(R) - Cardinality(D \intersect R)
    BY <1>2, <1>5, <1>6, FS_Union
  <2>5. Cardinality({}) = 0
    BY FS_EmptySet
  <2>6. Cardinality(E) = c + Cardinality(P) - 0
    BY <1>5, <2>2, <2>3, <2>4, <2>5, Zenon
  <2>7. QED
    BY <1>2, <1>3, <2>6
<1>10. IsFiniteSet(E)
  BY <1>2, <1>5, <1>6, FS_Union
<1>11. q \in 0..Size(p, to)
  BY <1>1, <1>3
<1>12. QED
  BY <1>2, <1>7, <1>8, <1>9, <1>10, <1>11, Zenon DEF Read

\* All read: the occurrences are those of the history.
LEMMA ReadToTheEnd ==
  ASSUME NEW p \in Plans, NEW from \in Nat, NEW to \in Nat, NEW D, NEW again,
         Read(p, from, to, Size(p, to), D, again)
  PROVE  Occurrences(D) = Occurrences({History(p, to)[k] : k \in DOMAIN History(p, to)})
<1>1. PICK n, H : /\ n = Size(p, to) /\ DOMAIN History(p, to) = 1..n
                  /\ H = {History(p, to)[k] : k \in 1..n} /\ n \in Nat
  BY HistorySizes
<1>2. ASSUME NEW e \in D PROVE \E f \in H : e.what = f.what /\ e.day = f.day
  <2>1. PICK d \in from..to : \E k \in 1..Size(p, d) : e = History(p, d)[k]
    BY Zenon DEF Read, OnlyRead
  <2>2. PICK k \in 1..Size(p, d) : e = History(p, d)[k]
    BY <2>1
  <2>3. d \in Nat /\ d <= to
    OBVIOUS
  <2>4. /\ k \in 1..n /\ History(p, d)[k].what = History(p, to)[k].what
        /\ History(p, d)[k].day = History(p, to)[k].day
    BY <1>1, <2>3, HistoryGrows, Zenon
  <2>5. History(p, to)[k] \in H
    BY <1>1, <2>4
  <2>6. QED
    BY <2>2, <2>4, <2>5, Zenon
<1>3. ASSUME NEW f \in H PROVE \E e \in D : e.what = f.what /\ e.day = f.day
  <2>1. PICK k \in 1..n : f = History(p, to)[k]
    BY <1>1, <1>3
  <2>2. QED
    BY <1>1, <2>1, Zenon DEF Read, AllRead
<1>4. Occurrences(D) = Occurrences(H)
  <2>1. ASSUME NEW o \in Occurrences(D) PROVE o \in Occurrences(H)
    <3>1. PICK e \in D : o = [what |-> e.what, day |-> e.day]
      BY <2>1, Zenon DEF Occurrences
    <3>2. PICK f \in H : e.what = f.what /\ e.day = f.day
      BY <1>2
    <3>3. QED
      BY <3>1, <3>2, Zenon DEF Occurrences
  <2>2. ASSUME NEW o \in Occurrences(H) PROVE o \in Occurrences(D)
    <3>1. PICK f \in H : o = [what |-> f.what, day |-> f.day]
      BY <2>2, Zenon DEF Occurrences
    <3>2. PICK e \in D : e.what = f.what /\ e.day = f.day
      BY <1>3
    <3>3. QED
      BY <3>1, <3>2, Zenon DEF Occurrences
  <2>3. QED
    BY <2>1, <2>2
<1>5. QED
  BY <1>1, <1>4, Zenon

--------------------------------------------------------------------------------
(* Bank adapters: the invariants *)

LEMMA MonthsFollow ==
  ASSUME NEW a \in Nat, NEW b \in Nat, NEW c \in Nat, a <= b, b <= c,
         MonthOf(a) = MonthOf(c)
  PROVE  MonthOf(a) = MonthOf(b)
<1>1. PICK m : m = MonthDays /\ m \in Nat \ {0}
  BY BankAdaptersAssumption
<1>2. PICK q : q = a \div m /\ q \in Nat
  BY <1>1
<1>3. PICK s : s = b \div m /\ s \in Nat
  BY <1>1
<1>4. q * m <= a /\ c < q * m + m
  BY <1>1, <1>2 DEF MonthOf
<1>5. s * m <= b /\ b < s * m + m
  BY <1>1, <1>3
<1>6. q = s
  BY <1>1, <1>2, <1>3, <1>4, <1>5
<1>7. QED
  BY <1>1, <1>2, <1>3, <1>6 DEF MonthOf

PlanOf(token, first) == Built(token, first).plan
QuietMonth(token, first, now) ==
  first # 0 /\ MonthOf(now) = MonthOf(first) /\ ~Built(token, first).ahead

LEMMA PlanIs ==
  ASSUME NEW token \in Streams, NEW first \in Nat, NEW now \in Nat, first <= now
  PROVE  /\ PlanOf(token, first) \in Plans
         /\ QuietMonth(token, first, now) =>
              /\ PlanOf(token, now) = PlanOf(token, first)
              /\ BuildHistory(token, now) = History(PlanOf(token, first), now)
<1>1. Built(token, first) \in Drafts
  BY BuiltSame
<1>2. PlanOf(token, first) \in Plans
  BY <1>1 DEF PlanOf, Plans, Drafts
<1>3. ASSUME QuietMonth(token, first, now)
      PROVE  /\ PlanOf(token, now) = PlanOf(token, first)
             /\ BuildHistory(token, now) = History(PlanOf(token, first), now)
  <2>1. Built(token, now) = Built(token, first)
    BY <1>3, BuiltSame DEF QuietMonth
  <2>2. QED
    BY <2>1, Zenon DEF PlanOf, BuildHistory
<1>4. QED
  BY <1>2, <1>3

\* What the built-in bank keeps: the cursor and the deliveries of the quiet month.
SandboxTypes ==
  /\ stream \in Streams /\ date \in Nat \ {0} /\ cursor \in Nat
  /\ firstDay \in Nat /\ firstDay <= date
  /\ firstDay = 0 => cursor = 0 /\ delivered = {}
ReadSoFar ==
  QuietMonth(stream, firstDay, date) =>
    /\ Read(PlanOf(stream, firstDay), firstDay, date, cursor, delivered, restarted)
    /\ caughtUp => cursor = Size(PlanOf(stream, firstDay), date)
SandboxIn == SandboxTypes /\ ReadSoFar

LEMMA SandboxStarts == SandboxInit => SandboxIn
<1> SUFFICES ASSUME SandboxInit PROVE SandboxIn
  OBVIOUS
<1>1. SandboxTypes
  BY BankAdaptersAssumption DEF SandboxInit, SandboxTypes, MonthsOfHistory
<1>2. ReadSoFar
  BY DEF SandboxInit, ReadSoFar, QuietMonth
<1>3. QED
  BY <1>1, <1>2 DEF SandboxIn

LEMMA TomorrowKeeps ==
  ASSUME SandboxIn, Tomorrow
  PROVE  SandboxIn'
<1>1. /\ stream \in Streams /\ date \in Nat \ {0} /\ cursor \in Nat
      /\ firstDay \in Nat /\ firstDay <= date
      /\ firstDay = 0 => cursor = 0 /\ delivered = {}
  BY DEF SandboxIn, SandboxTypes
<1>2. /\ date' = date + 1 /\ caughtUp' = FALSE /\ stream' = stream /\ cursor' = cursor
      /\ delivered' = delivered /\ firstDay' = firstDay /\ restarted' = restarted
  BY DEF Tomorrow
<1>3. SandboxTypes'
  BY <1>1, <1>2 DEF SandboxTypes
<1>4. ASSUME QuietMonth(stream, firstDay, date + 1)
      PROVE  Read(PlanOf(stream, firstDay), firstDay, date + 1, cursor, delivered, restarted)
  <2>1. QuietMonth(stream, firstDay, date)
    <3>1. date + 1 \in Nat /\ date \in Nat /\ date <= date + 1
      BY <1>1
    <3>2. MonthOf(firstDay) = MonthOf(date)
      BY <1>1, <1>4, <3>1, MonthsFollow DEF QuietMonth
    <3>3. QED
      BY <1>4, <3>2 DEF QuietMonth
  <2>2. Read(PlanOf(stream, firstDay), firstDay, date, cursor, delivered, restarted)
    BY <2>1 DEF SandboxIn, ReadSoFar
  <2>3. PlanOf(stream, firstDay) \in Plans
    BY <1>1, PlanIs
  <2>4. QED
    BY <1>1, <2>2, <2>3, ReadLater
<1>5. ReadSoFar'
  BY <1>2, <1>4, Zenon DEF ReadSoFar
<1>6. QED
  BY <1>3, <1>5 DEF SandboxIn

LEMMA SyncKeeps ==
  ASSUME SandboxIn, SyncTransactions
  PROVE  SandboxIn'
<1>1. /\ stream \in Streams /\ date \in Nat \ {0} /\ cursor \in Nat
      /\ firstDay \in Nat /\ firstDay <= date
      /\ firstDay = 0 => cursor = 0 /\ delivered = {}
  BY DEF SandboxIn, SandboxTypes
<1>2. PICK q : q = PlanOf(stream, date) /\ q \in Plans
  BY <1>1, PlanIs
<1>3. PICK P, c, D, first :
        /\ P = Page(q, date, cursor) /\ c = cursor + Cardinality(P)
        /\ D = delivered \union {History(q, date)[k] : k \in P}
        /\ first = IF firstDay = 0 THEN date ELSE firstDay
  OBVIOUS
<1>4. /\ stream' = stream /\ date' = date /\ restarted' = restarted /\ cursor' = c
      /\ delivered' = D /\ firstDay' = first /\ caughtUp' = (c >= Len(History(q, date)))
  <2>1. BuildHistory(stream, date) = History(q, date)
    BY <1>2, Zenon DEF BuildHistory, PlanOf
  <2>2. /\ stream' = stream /\ date' = date /\ restarted' = restarted
        /\ firstDay' = IF firstDay = 0 THEN date ELSE firstDay
    BY DEF SyncTransactions
  <2>3. /\ cursor' = cursor + Cardinality(Page(q, date, cursor))
        /\ delivered' = delivered \union {History(q, date)[k] : k \in Page(q, date, cursor)}
        /\ caughtUp' = (cursor' >= Len(History(q, date)))
    BY <2>1, Zenon DEF SyncTransactions, Page
  <2>4. QED
    BY <1>3, <2>2, <2>3, Zenon
<1>5. c \in Nat
  <2>1. Cardinality(P) \in Nat
    BY <1>1, <1>2, <1>3, PageIs
  <2>2. QED
    BY <1>1, <1>3, <2>1
<1>6. first \in Nat \ {0} /\ first <= date /\ (firstDay # 0 => first = firstDay)
  BY <1>1, <1>3
<1>7. SandboxTypes'
  BY <1>1, <1>4, <1>5, <1>6 DEF SandboxTypes
<1>8. ASSUME QuietMonth(stream, first, date)
      PROVE  /\ Read(PlanOf(stream, first), first, date, c, D, restarted)
             /\ c >= Len(History(q, date)) => c = Size(PlanOf(stream, first), date)
  <2>1. q = PlanOf(stream, first)
    BY <1>1, <1>2, <1>6, <1>8, PlanIs
  <2>2. Read(q, first, date, cursor, delivered, restarted)
    <3>1. CASE firstDay = 0
      <4>1. cursor = 0 /\ delivered = {} /\ first = date
        BY <1>1, <1>3, <3>1
      <4>2. Read(q, date, date, 0, {}, restarted)
        BY <1>1, <1>2, ReadNothing
      <4>3. QED
        BY <4>1, <4>2
    <3>2. CASE firstDay # 0
      <4>1. first = firstDay
        BY <1>6, <3>2
      <4>2. QED
        BY <1>8, <2>1, <4>1 DEF SandboxIn, ReadSoFar
    <3>3. QED
      BY <3>1, <3>2
  <2>3. Read(q, first, date, c, D, restarted)
    BY <1>1, <1>2, <1>3, <1>6, <2>2, ReadPage
  <2>4. c <= Size(q, date)
    BY <2>3 DEF Read
  <2>5. Len(History(q, date)) = Size(q, date) /\ Size(q, date) \in Nat
    BY <1>1, <1>2, HistorySizes
  <2>6. QED
    BY <1>5, <2>1, <2>3, <2>4, <2>5
<1>9. ReadSoFar'
  BY <1>4, <1>8, Zenon DEF ReadSoFar
<1>10. QED
  BY <1>7, <1>9 DEF SandboxIn

LEMMA CursorLost ==
  ASSUME SandboxIn, ParseCursor
  PROVE  SandboxIn'
<1>1. /\ stream \in Streams /\ date \in Nat \ {0} /\ cursor \in Nat
      /\ firstDay \in Nat /\ firstDay <= date
      /\ firstDay = 0 => cursor = 0 /\ delivered = {}
  BY DEF SandboxIn, SandboxTypes
<1>2. /\ cursor > 0 /\ cursor' = 0 /\ restarted' = TRUE /\ caughtUp' = FALSE
      /\ stream' = stream /\ date' = date /\ delivered' = delivered /\ firstDay' = firstDay
  BY DEF ParseCursor
<1>3. SandboxTypes'
  BY <1>1, <1>2 DEF SandboxTypes
<1>4. ASSUME QuietMonth(stream, firstDay, date)
      PROVE  Read(PlanOf(stream, firstDay), firstDay, date, 0, delivered, TRUE)
  <2>1. Size(PlanOf(stream, firstDay), date) \in Nat
    BY <1>1, PlanIs, HistorySizes
  <2>2. QED
    BY <1>4, <2>1, ReadAfresh, Zenon DEF SandboxIn, ReadSoFar
<1>5. ReadSoFar'
  BY <1>2, <1>4, Zenon DEF ReadSoFar
<1>6. QED
  BY <1>3, <1>5 DEF SandboxIn

LEMMA SandboxKept == SandboxIn /\ [SandboxNext]_sandboxVars => SandboxIn'
<1>1. ASSUME SandboxIn, UNCHANGED sandboxVars PROVE SandboxIn'
  BY <1>1, Zenon DEF sandboxVars, SandboxIn, SandboxTypes, ReadSoFar
<1>2. QED
  BY <1>1, TomorrowKeeps, SyncKeeps, CursorLost, Zenon DEF SandboxNext

LEMMA HistoryIsReadOnce ==
  ASSUME SandboxIn, firstDay # 0, MonthOf(date) = MonthOf(firstDay),
         ~Built(stream, firstDay).ahead
  PROVE  /\ caughtUp => Occurrences(delivered) = Occurrences(Entries(stream, date))
         /\ ~restarted => Cardinality(delivered) = cursor
<1>1. stream \in Streams /\ date \in Nat /\ firstDay \in Nat /\ firstDay <= date
  BY DEF SandboxIn, SandboxTypes
<1>2. PICK p : p = PlanOf(stream, firstDay)
  OBVIOUS
<1>3. QuietMonth(stream, firstDay, date)
  BY DEF QuietMonth
<1>4. p \in Plans /\ BuildHistory(stream, date) = History(p, date)
  BY <1>1, <1>2, <1>3, PlanIs
<1>5. Read(p, firstDay, date, cursor, delivered, restarted) /\ (caughtUp => cursor = Size(p, date))
  BY <1>2, <1>3 DEF SandboxIn, ReadSoFar
<1>6. Entries(stream, date) = {History(p, date)[k] : k \in DOMAIN History(p, date)}
  BY <1>4, Zenon DEF Entries
<1>7. ASSUME caughtUp PROVE Occurrences(delivered) = Occurrences(Entries(stream, date))
  <2>1. Read(p, firstDay, date, Size(p, date), delivered, restarted)
    BY <1>5, <1>7, Zenon
  <2>2. QED
    BY <1>1, <1>4, <1>6, <2>1, ReadToTheEnd
<1>8. ~restarted => Cardinality(delivered) = cursor
  BY <1>5 DEF Read
<1>9. QED
  BY <1>7, <1>8

--------------------------------------------------------------------------------
(* Bank adapters: names *)

AskersOf(b) == {s \in Lookups : lookups[s] = b}
NamesTypes ==
  /\ names \in [Banks -> {"unset", "named", "null"}] /\ asked \in [Banks -> Nat]
  /\ lookups \in [Lookups -> Banks \union {"idle"}]
\* While a name is unknown, everyone who asked for it still waits.
NamesIn ==
  /\ NamesTypes
  /\ \A b \in Banks : /\ asked[b] <= Cardinality(Lookups)
                      /\ names[b] = "unset" => asked[b] = Cardinality(AskersOf(b))

LEMMA NamesStart == NamesInit => NamesIn
<1> SUFFICES ASSUME NamesInit PROVE NamesIn
  OBVIOUS
<1>1. Cardinality(Lookups) \in Nat /\ Cardinality({}) = 0
  BY BankAdaptersAssumption, FS_CardinalityType, FS_EmptySet
<1>2. \A b \in Banks : AskersOf(b) = {}
  BY BankAdaptersAssumption DEF NamesInit, AskersOf
<1>3. QED
  BY <1>1, <1>2 DEF NamesInit, NamesIn, NamesTypes

LEMMA AskersAreFew ==
  ASSUME NEW b
  PROVE  /\ IsFiniteSet(AskersOf(b)) /\ Cardinality(AskersOf(b)) \in Nat
         /\ Cardinality(AskersOf(b)) <= Cardinality(Lookups) /\ Cardinality(Lookups) \in Nat
<1>1. AskersOf(b) \in SUBSET Lookups
  BY DEF AskersOf
<1>2. QED
  BY <1>1, BankAdaptersAssumption, FS_Subset, FS_CardinalityType

LEMMA AskKeeps ==
  ASSUME NamesIn, NEW s \in Lookups, NEW b \in Banks, AskName(s, b)
  PROVE  NamesIn'
<1>1. /\ names \in [Banks -> {"unset", "named", "null"}] /\ asked \in [Banks -> Nat]
      /\ lookups \in [Lookups -> Banks \union {"idle"}]
  BY DEF NamesIn, NamesTypes
<1>2. /\ lookups[s] = "idle" /\ names[b] = "unset" /\ names' = names
      /\ lookups' = [lookups EXCEPT ![s] = b] /\ asked' = [asked EXCEPT ![b] = @ + 1]
  BY DEF AskName
<1>3. "idle" \notin Banks
  BY BankAdaptersAssumption
<1>4. NamesTypes'
  BY <1>1, <1>2 DEF NamesTypes
<1>5. PICK A : A = AskersOf(b) /\ IsFiniteSet(A) /\ Cardinality(A) \in Nat
  BY AskersAreFew
<1>6. AskersOf(b)' = A \union {s} /\ s \notin A
  BY <1>1, <1>2, <1>3, <1>5 DEF AskersOf
<1>7. Cardinality(A \union {s}) = Cardinality(A) + 1
  BY <1>5, <1>6, FS_AddElement
<1>8. asked[b] = Cardinality(A)
  BY <1>2, <1>5 DEF NamesIn
<1>9. A \union {s} \in SUBSET Lookups
  BY <1>5 DEF AskersOf
<1>10. Cardinality(A \union {s}) <= Cardinality(Lookups)
  BY <1>9, BankAdaptersAssumption, FS_Subset
<1>11. \A x \in Banks : x # b => AskersOf(x)' = AskersOf(x) /\ asked'[x] = asked[x]
  BY <1>1, <1>2, <1>3 DEF AskersOf
<1>12. asked'[b] = Cardinality(A) + 1
  BY <1>1, <1>2, <1>8
<1>13. ASSUME NEW x \in Banks
       PROVE  /\ asked'[x] <= Cardinality(Lookups)
              /\ names'[x] = "unset" => asked'[x] = Cardinality(AskersOf(x)')
  <2>1. CASE x = b
    BY <1>6, <1>7, <1>10, <1>12, <2>1
  <2>2. CASE x # b
    BY <1>2, <1>11, <2>2 DEF NamesIn
  <2>3. QED
    BY <2>1, <2>2
<1>14. QED
  BY <1>4, <1>13, Zenon DEF NamesIn

LEMMA KeepKeeps ==
  ASSUME NamesIn, NEW s \in Lookups, KeepName(s)
  PROVE  NamesIn'
<1>1. /\ names \in [Banks -> {"unset", "named", "null"}] /\ asked \in [Banks -> Nat]
      /\ lookups \in [Lookups -> Banks \union {"idle"}]
  BY DEF NamesIn, NamesTypes
<1>2. PICK answer \in {"named", "null"} : names' = [names EXCEPT ![lookups[s]] = answer]
  BY DEF KeepName
<1>3. lookups[s] # "idle" /\ lookups' = [lookups EXCEPT ![s] = "idle"] /\ asked' = asked
  BY DEF KeepName
<1>4. PICK b \in Banks : b = lookups[s]
  BY <1>1, <1>3
<1>5. NamesTypes'
  BY <1>1, <1>2, <1>3 DEF NamesTypes
<1>6. names'[b] # "unset" /\ \A x \in Banks : x # b => names'[x] = names[x]
  BY <1>1, <1>2, <1>4
<1>7. \A x \in Banks : x # b => AskersOf(x)' = AskersOf(x)
  BY <1>1, <1>3, <1>4, BankAdaptersAssumption DEF AskersOf
<1>8. ASSUME NEW x \in Banks
      PROVE  /\ asked'[x] <= Cardinality(Lookups)
             /\ names'[x] = "unset" => asked'[x] = Cardinality(AskersOf(x)')
  BY <1>3, <1>6, <1>7, Zenon DEF NamesIn
<1>9. QED
  BY <1>5, <1>8, Zenon DEF NamesIn

LEMMA ProcessRestarts ==
  ASSUME RestartProcess
  PROVE  NamesIn'
<1>1. Cardinality(Lookups) \in Nat /\ Cardinality({}) = 0
  BY BankAdaptersAssumption, FS_CardinalityType, FS_EmptySet
<1>2. \A b \in Banks : AskersOf(b)' = {}
  BY BankAdaptersAssumption DEF RestartProcess, AskersOf
<1>3. QED
  BY <1>1, <1>2 DEF RestartProcess, NamesIn, NamesTypes

LEMMA NamesKept == NamesIn /\ [NamesNext]_nameVars => NamesIn'
<1>1. ASSUME NamesIn, UNCHANGED nameVars PROVE NamesIn'
  BY <1>1, Zenon DEF nameVars, NamesIn, NamesTypes, AskersOf
<1>2. QED
  BY <1>1, AskKeeps, KeepKeeps, ProcessRestarts, Zenon DEF NamesNext

\* A sync that caught up with the built-in bank has every entry once, on every token
\* and day of a month without purchases ahead; and no sync asks for a name twice.
THEOREM BankAdaptersHold == BankSpec => []BankAdaptersAreSound
<1>1. SandboxInit => SandboxIn
  BY SandboxStarts
<1>2. SandboxIn /\ [SandboxNext]_sandboxVars => SandboxIn'
  BY SandboxKept
<1>3. NamesInit => NamesIn
  BY NamesStart
<1>4. NamesIn /\ [NamesNext]_nameVars => NamesIn'
  BY NamesKept
<1>5. SandboxIn /\ NamesIn => BankAdaptersAreSound
  BY HistoryIsReadOnce, Zenon DEF BankAdaptersAreSound, NamesIn
<1>6. QED
  BY <1>1, <1>2, <1>3, <1>4, <1>5, PTL DEF BankSpec
================================================================================
