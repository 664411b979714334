------------------------------- MODULE CaseRules -------------------------------
(***************************************************************************)
(* The pure rules of @reclaimr/core that both concierge case services      *)
(* consult before they touch the database: which status may follow which,  *)
(* who may make the move (packages/core/src/cases/state-machine.ts), and   *)
(* how a confirmed saving splits into our fee and the member's share       *)
(* (packages/core/src/money/case-money.ts).                                *)
(***************************************************************************)
EXTENDS Integers, Sequences

CaseKinds == {"cancellation", "negotiation"}

CaseActors == {"member", "concierge", "system"}

CaseStatuses == {"submitted", "in_review", "in_progress", "offer_pending",
                 "succeeded", "failed", "canceled"}

\* TERMINAL_CASE_STATUSES: a case here has been resolved.
TerminalCaseStatuses == {"succeeded", "failed", "canceled"}

\* One entry of a transition map: the target and the actors permitted.
To(status, actors) == [to |-> status, actors |-> actors]

MemberWithdraw == To("canceled", {"member"})

\* No transition leaves a resolved case.
Resolved == {}

CancellationTransitions ==
  [submitted     |-> {To("in_review", {"concierge", "system"}), MemberWithdraw},
   in_review     |-> {To("in_progress", {"concierge"}),
                      To("failed", {"concierge"}), MemberWithdraw},
   in_progress   |-> {To("succeeded", {"concierge"}),
                      To("failed", {"concierge"}), MemberWithdraw},
   offer_pending |-> Resolved,
   succeeded     |-> Resolved,
   failed        |-> Resolved,
   canceled      |-> Resolved]

NegotiationTransitions ==
  [submitted     |-> {To("in_review", {"concierge", "system"}), MemberWithdraw},
   in_review     |-> {To("in_progress", {"concierge"}),
                      To("failed", {"concierge"}), MemberWithdraw},
   in_progress   |-> {To("offer_pending", {"concierge"}),
                      To("failed", {"concierge"}), MemberWithdraw},
   offer_pending |-> {To("succeeded", {"member"}),
                      To("failed", {"member", "concierge"}),
                      To("in_progress", {"concierge"}), MemberWithdraw},
   succeeded     |-> Resolved,
   failed        |-> Resolved,
   canceled      |-> Resolved]

\* Wrong variant: a failed case re-opened by staff.
BugFailedReopens(kind) ==
  [NegotiationTransitions EXCEPT !.failed = {To("in_progress", {"concierge"})}]

TransitionsFor(kind) ==
  IF kind = "cancellation" THEN CancellationTransitions
                           ELSE NegotiationTransitions

\* checkTransition: "illegal" (409) when no entry leads to the target,
\* "forbidden_actor" (403) when one does but not for this actor.
CheckTransition(kind, from, to, actor) ==
  LET candidates == {t \in TransitionsFor(kind)[from] : t.to = to}
  IN IF candidates = {} THEN "illegal"
     ELSE IF \A t \in candidates : actor \notin t.actors THEN "forbidden_actor"
     ELSE "ok"

CanTransition(kind, from, to, actor) ==
  CheckTransition(kind, from, to, actor) = "ok"

--------------------------------------------------------------------------------
\* Wrong variant: Math.ceil.
BugRoundUp(cents, pct) == (cents * pct + 99) \div 100

\* Math.round of the quotient for a non-negative amount: half-up.
RoundHalfUpPercent(cents, pct) == (cents * pct + 50) \div 100

\* The success fee settleNegotiation charges, clamped to the saving itself.
Fee(confirmed, pct) ==
  LET raw == RoundHalfUpPercent(confirmed, pct)
  IN IF raw > confirmed THEN confirmed ELSE raw

\* What the member keeps, and what the ledger records.
Net(confirmed, pct) == confirmed - Fee(confirmed, pct)
================================================================================
