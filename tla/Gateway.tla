--------------------------------- MODULE Gateway ---------------------------------
(***************************************************************************)
(* The way of a request through the API: the routes with their guards, and *)
(* what changes around a request between its guards and its service - the  *)
(* membership ends, the account is scheduled for deletion, a token expires,*)
(* a sign-in signs what it checked before, staff are demoted. Requests do  *)
(* not meet here, so one slot shows them all, and one sign-in at a time is *)
(* under way; what services do with each other is in their own modules.    *)
(***************************************************************************)
EXTENDS Integers, FiniteSets

CONSTANTS TokenLife,   \* lifetime of a member's access token
          MaxClock     \* BOUND: ticks of the clock

ASSUME GatewayAssumption == TokenLife \in Nat /\ MaxClock \in Nat

VARIABLES
  clock,
  issued,     \* when the member's newest access token was signed, or NoTime
  signing,    \* a sign-in or refresh is between its check and its signature
  deleted,    \* when the account was scheduled for deletion, or NoTime
  overtaken,  \* history: it was scheduled between such a check and the signature
  entitled,   \* the mirror gives the member premium
  staffRole,  \* of the staff account, or "inactive"
  staffToken, \* whether a staff token is out
  visit,      \* the request on its way
  outcome     \* what became of the last one

accountVars == <<issued, signing, deleted, overtaken>>
staffVars == <<staffRole, staffToken>>
gatewayVars == <<clock, accountVars, entitled, staffVars, visit, outcome>>

NoTime == -1
Quiet == [at |-> "none"]

--------------------------------------------------------------------------------
(* Routes: the file, or the part of it that asks for more than its guard,  *)
(* who is let in, whether something is written. A guard that is neither of *)
(* the first four is a capability of staff.                                *)

Route(file, guard, writes) == [file |-> file, guard |-> guard, writes |-> writes]
MemberRoutes(file) == {Route(file, "member", FALSE), Route(file, "member", TRUE)}

HealthRoutes == {Route("health", "none", FALSE)}
AuthRoutes == {Route("auth", "none", TRUE), Route("auth", "member", FALSE)}
SubscriptionRoutes == MemberRoutes("subscriptions")
\* The profile and what is recorded on it; the deletion and the list of consents.
UserRoutes == MemberRoutes("profile") \union MemberRoutes("users")
BillRoutes == MemberRoutes("bills")
AccountRoutes == MemberRoutes("accounts")
PlaidRoutes == {Route("plaid", "member", TRUE)}
TransactionRoutes == MemberRoutes("transactions")
AiRoutes == {Route("ai", "member", FALSE)}
SavingsRoutes == MemberRoutes("savings")
PremiumRoutes == MemberRoutes("premium") \union {Route("upgrade", "member", TRUE)}
WebhookRoutes == {Route("webhook", "signature", TRUE)}
\* Working on a case is paid for; reading about one's own cases is not.
CancellationRoutes ==
  {Route("cancellations", "member", FALSE), Route("cancellations", "premium", TRUE)}
BugNegotiationRoutes == MemberRoutes("negotiations")
NegotiationRoutes ==
  {Route("negotiations", "member", FALSE), Route("negotiations", "premium", TRUE)}
AdminRoutes ==
  {Route("staff_auth", "none", TRUE), Route("staff_auth", "staff", FALSE),
   Route("cases", "cases.read", FALSE), Route("cases", "cases.write", TRUE),
   Route("members", "members.read", FALSE),
   Route("merchants", "merchants.read", FALSE), Route("merchants", "merchants.write", TRUE),
   Route("audit", "audit.read", FALSE)}

Routes ==
  UNION {HealthRoutes, AuthRoutes, SubscriptionRoutes, UserRoutes, BillRoutes, AccountRoutes,
         PlaidRoutes, TransactionRoutes, AiRoutes, SavingsRoutes, PremiumRoutes, WebhookRoutes,
         CancellationRoutes, NegotiationRoutes, AdminRoutes}

Capabilities(rank) ==
  LET agent == {"staff", "cases.read", "cases.write", "members.read", "merchants.read"}
      finance == agent \union {"merchants.write"}
  IN  CASE rank = "agent" -> agent
        [] rank = "finance_ops" -> finance
        [] rank = "admin" -> finance \union {"audit.read"}
        [] OTHER -> {}

Concierge == {"cancellations", "negotiations"}
MemberGuards == {"member", "premium"}
OfStaff(r) == r.guard \notin MemberGuards \union {"none", "signature"}

--------------------------------------------------------------------------------
(* A request *)

\* With no token, a member's or one of staff, or the provider's signature.
RequestArrives(r) ==
  /\ visit = Quiet
  /\ \E bearer \in {"none", "member", "staff", "signature"} :
       /\ bearer = "member" => issued # NoTime
       /\ bearer = "staff" => staffToken
       /\ visit' = [at |-> "arrived", route |-> r, bearer |-> bearer,
                    wasEntitled |-> entitled, admitted |-> clock]
  /\ outcome' = Quiet
  /\ UNCHANGED <<clock, accountVars, entitled, staffVars>>

Answered(status, wrote) ==
  /\ visit' = Quiet
  /\ outcome' = [at |-> "answered", route |-> visit.route, bearer |-> visit.bearer,
                 status |-> status, wrote |-> wrote,
                 wasEntitled |-> visit.wasEntitled, admitted |-> visit.admitted]

Pass(point) ==
  /\ visit' = [visit EXCEPT !.at = point, !.admitted = clock]
  /\ UNCHANGED outcome

\* requireAuth: the token alone decides, no row is read.
TokenIsValid == visit.bearer = "member" /\ clock <= issued + TokenLife

RequireAuth ==
  /\ visit.at = "arrived" /\ visit.route.guard \in MemberGuards
  /\ IF TokenIsValid
     THEN Pass(IF visit.route.guard = "premium" THEN "authenticated" ELSE "admitted")
     ELSE Answered(401, FALSE)
  /\ UNCHANGED <<clock, accountVars, entitled, staffVars>>

\* requirePremium, after requireAuth.
RequirePremium ==
  /\ visit.at = "authenticated"
  /\ IF entitled
     THEN visit' = [visit EXCEPT !.at = "admitted"] /\ UNCHANGED outcome
     ELSE Answered(403, FALSE)
  /\ UNCHANGED <<clock, accountVars, entitled, staffVars>>

\* requireCapability: the token, then the account and its rank of this moment.
RequireCapability ==
  /\ visit.at = "arrived" /\ OfStaff(visit.route)
  /\ IF visit.bearer # "staff" \/ staffRole = "inactive" THEN Answered(401, FALSE)
     ELSE IF visit.route.guard \in Capabilities(staffRole) THEN Pass("admitted")
     ELSE Answered(403, FALSE)
  /\ UNCHANGED <<clock, accountVars, entitled, staffVars>>

\* Routes without a guard, and the webhook, whose signature is one.
PassOpen ==
  /\ visit.at = "arrived" /\ visit.route.guard \in {"none", "signature"}
  /\ IF visit.route.guard = "signature" /\ visit.bearer # "signature"
     THEN Answered(401, FALSE) ELSE Pass("admitted")
  /\ UNCHANGED <<clock, accountVars, entitled, staffVars>>

\* The profile, "me" and an upgrade ask whether the account is closing before they
\* go on, the others do not.
AsksForClosing(r) == r.file \in {"profile", "upgrade"} \/ (r.file = "auth" /\ r.guard = "member")

\* What a service throws as an AppError: a case that another may not move is 403.
Refusals(r) ==
  {400, 404, 409}
    \union (IF r.file \in Concierge \union {"cases"} /\ r.writes THEN {403} ELSE {})
    \union (IF r.file \in {"auth", "staff_auth"} /\ r.guard = "none" THEN {401} ELSE {})

\* The body is parsed, the account is read: a closing one is turned away.
ReadAccount ==
  /\ visit.at = "admitted" /\ AsksForClosing(visit.route)
  /\ \/ \E status \in {400, 404, 500} : Answered(status, FALSE)
     \/ deleted # NoTime /\ Answered(IF visit.route.file = "profile" THEN 403 ELSE 400, FALSE)
     \/ deleted = NoTime /\ visit' = [visit EXCEPT !.at = "asked"] /\ UNCHANGED outcome
  /\ UNCHANGED <<clock, accountVars, entitled, staffVars>>

\* The service answers, refuses, or throws something that is not an AppError,
\* perhaps after it wrote.
AnswerRequest ==
  /\ visit.at \in {"admitted", "asked"} /\ (visit.at = "asked" <=> AsksForClosing(visit.route))
  /\ \/ \E status \in Refusals(visit.route) : Answered(status, FALSE)
     \/ \E wrote \in {FALSE, visit.route.writes} : Answered(500, wrote)
     \/ Answered(200, visit.route.writes)
  /\ UNCHANGED <<clock, accountVars, entitled, staffVars>>

--------------------------------------------------------------------------------
(* What changes meanwhile *)

\* login and refresh: refused once the account is closing; the password, the audit
\* and the rotation are awaited after that, and what throws there signs nothing.
CheckAccount ==
  /\ ~signing /\ deleted = NoTime /\ signing' = TRUE
  /\ UNCHANGED <<clock, issued, deleted, overtaken, entitled, staffVars, visit, outcome>>

\* issueTokens: the account is read once more, but only for its name.
IssueToken ==
  /\ signing /\ signing' = FALSE
  /\ issued' \in {clock, issued}
  /\ UNCHANGED <<clock, deleted, overtaken, entitled, staffVars, visit, outcome>>

RequestDeletion ==
  /\ issued # NoTime /\ deleted = NoTime
  /\ deleted' = clock /\ overtaken' = signing
  /\ UNCHANGED <<clock, issued, signing, entitled, staffVars, visit, outcome>>

PremiumChanges ==
  /\ entitled' = ~entitled
  /\ visit' = IF visit.at \in {"arrived", "authenticated"}
              THEN [visit EXCEPT !.wasEntitled = @ \/ entitled'] ELSE visit
  /\ UNCHANGED <<clock, accountVars, staffVars, outcome>>

StaffChanges ==
  /\ \E rank \in {"agent", "finance_ops", "admin", "inactive"} : staffRole' = rank
  /\ staffToken' = (staffToken \/ staffRole' # "inactive")
  /\ UNCHANGED <<clock, accountVars, entitled, visit, outcome>>

TickClock ==
  /\ clock < MaxClock /\ clock' = clock + 1
  /\ UNCHANGED <<accountVars, entitled, staffVars, visit, outcome>>

--------------------------------------------------------------------------------
GatewayInit ==
  /\ clock = 0 /\ issued = NoTime /\ signing = FALSE
  /\ deleted = NoTime /\ overtaken = FALSE /\ entitled = FALSE
  /\ staffRole = "inactive" /\ staffToken = FALSE
  /\ visit = Quiet /\ outcome = Quiet

GatewayNext ==
  \/ \E r \in Routes : RequestArrives(r)
  \/ RequireAuth \/ RequirePremium \/ RequireCapability \/ PassOpen
  \/ ReadAccount \/ AnswerRequest
  \/ CheckAccount \/ IssueToken \/ RequestDeletion \/ PremiumChanges \/ StaffChanges \/ TickClock
GatewaySpec == GatewayInit /\ [][GatewayNext]_gatewayVars

--------------------------------------------------------------------------------
(* Properties *)

\* Whatever ends around a request: a case is worked on only for a member who was
\* entitled at some moment of that request, while no read of a member's own data is
\* refused for want of premium ("Reads only require authentication",
\* cancellations/routes.ts), only the profile of an account that is closing; a
\* member whose account is closing is let in no longer than a token lives ("access
\* tokens die within TTL", users/service.ts), counted from the last signature if a
\* sign-in was checked before and signed after, and where a service asks, only a
\* request of before the closing still writes; and neither realm's token opens a
\* route of the other (plugins/auth.ts).
AdmissionIsSound ==
  outcome # Quiet =>
    /\ outcome.wrote /\ outcome.route.file \in Concierge => outcome.wasEntitled
    /\ outcome.status = 403 /\ ~outcome.route.writes =>
         OfStaff(outcome.route) \/ (outcome.route.file = "profile" /\ deleted # NoTime)
    /\ outcome.bearer = "member" /\ outcome.wrote /\ deleted # NoTime =>
         /\ outcome.route.guard \in MemberGuards
              => outcome.admitted <= (IF overtaken THEN issued ELSE deleted) + TokenLife
         /\ AsksForClosing(outcome.route) => outcome.admitted <= deleted
    /\ outcome.status \notin {401, 403} =>
         /\ outcome.route.guard \in MemberGuards => outcome.bearer = "member"
         /\ OfStaff(outcome.route) => outcome.bearer = "staff"
================================================================================
