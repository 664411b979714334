--------------------------------- MODULE Advice ---------------------------------
(***************************************************************************)
(* The cached advice about one subscription: AlternativeAdvisorService,    *)
(* run by jobs of the worker or inside a sync, beside the subscription's   *)
(* own changes and its removal (SubscriptionService).  A job reads the     *)
(* subscription and the catalog, asks the model, and upserts one row.      *)
(* What the model answers is any list of option ids: off the catalog,      *)
(* dearer, or twice the same.                                              *)
(***************************************************************************)
EXTENDS Integers, Sequences, SequencesExt, FiniteSets

CONSTANTS AdviceJobs,    \* workers
          Options,       \* catalog options that match the subscription
          OffCatalog,    \* an id the model makes up
          MonthlyPrice,  \* price of each option
          MemberPrices,  \* monthly equivalents the subscription may cost
          MaxPicks,      \* MAX_PICKS
          MaxAnswer,     \* BOUND: picks in an answer
          MaxMemberChanges     \* BOUND: changes to the subscription

ASSUME AdviceAssumption ==
  /\ OffCatalog \notin Options
  /\ MonthlyPrice \in [Options -> Nat] /\ MemberPrices \subseteq Nat
  /\ MaxPicks \in Nat /\ MaxAnswer \in Nat /\ MaxMemberChanges \in Nat

VARIABLES
  member,     \* status and monthly price of the subscription, or Gone
  advice,     \* the row of ai_suggestions: its picks, and the price they rest on
  queue,      \* queued aiGenerate jobs
  generation, \* what each worker is at
  removing,   \* the removal is between its two deletions
  memberChanges, \* bound
  wasRead     \* history: a job was under way when the subscription went

adviceVars == <<member, advice, queue, generation, removing, memberChanges, wasRead>>

Gone == [status |-> "gone", price |-> 0]
NoAdvice == [picks |-> <<>>, price |-> 0]
Waiting == [at |-> "idle", price |-> 0, picks |-> <<>>]
Advisable == {"active", "paused"}
Answers == UNION {[1..n -> Options \union {OffCatalog}] : n \in 0..MaxAnswer}

Worthwhile(option, price) == option \in Options /\ price > MonthlyPrice[option]
\* An option of the answer is taken if it is in the catalog, cheaper, new, and
\* there is room.
Pick(picks, o, price) ==
  IF Worthwhile(o, price) /\ ~Contains(picks, o) /\ Len(picks) < MaxPicks
  THEN Append(picks, o) ELSE picks
BuildContent(answer, price) ==
  LET picked[n \in 0..Len(answer)] ==
        IF n = 0 THEN <<>> ELSE Pick(picked[n - 1], answer[n], price)
  IN picked[Len(answer)]

AdviceInit ==
  /\ member \in [status : {"active"}, price : MemberPrices]
  /\ advice = NoAdvice
  /\ queue = 0
  /\ generation = [w \in AdviceJobs |-> Waiting]
  /\ removing = FALSE /\ memberChanges = 0 /\ wasRead = FALSE

\* After a detection; BOUND: one job waits for a worker at a time.
EnqueueForUser ==
  /\ member.status \in Advisable /\ queue = 0
  /\ queue' = 1
  /\ UNCHANGED <<member, advice, generation, removing, memberChanges, wasRead>>

\* A job reads the subscription; without it there is nothing to say.
Generate(w) ==
  /\ queue > 0 /\ generation[w].at = "idle"
  /\ queue' = 0
  /\ generation' = IF member = Gone THEN generation
                   ELSE [generation EXCEPT ![w] = [at |-> "model", price |-> member.price, picks |-> <<>>]]
  /\ UNCHANGED <<member, advice, removing, memberChanges, wasRead>>

\* The model answers; with nothing cheaper the cached advice is left as it is.
ModelAnswers(w) ==
  /\ generation[w].at = "model"
  /\ \E answer \in Answers :
       LET picks == BuildContent(answer, generation[w].price)
       IN generation' = [generation EXCEPT ![w] = IF picks = <<>> THEN Waiting
                                                  ELSE [@ EXCEPT !.at = "write", !.picks = picks]]
  /\ UNCHANGED <<member, advice, queue, removing, memberChanges, wasRead>>

\* The model cannot be reached or its answer cannot be read: the job is run
\* again, or given up.
ModelFails(w) ==
  /\ generation[w].at = "model"
  /\ generation' = [generation EXCEPT ![w] = Waiting]
  /\ queue' \in {queue, 1}
  /\ UNCHANGED <<member, advice, removing, memberChanges, wasRead>>

Upsert(w) ==
  /\ generation[w].at = "write"
  /\ advice' = [picks |-> generation[w].picks, price |-> generation[w].price]
  /\ generation' = [generation EXCEPT ![w] = Waiting]
  /\ UNCHANGED <<member, queue, removing, memberChanges, wasRead>>

\* Detection or the member changes the price or the status.
ChangeSubscription ==
  /\ member # Gone /\ memberChanges < MaxMemberChanges
  /\ member' \in [status : {"active", "paused", "canceled"}, price : MemberPrices] \ {member}
  /\ memberChanges' = memberChanges + 1
  /\ UNCHANGED <<advice, queue, generation, removing, wasRead>>

\* Wrong variant: the advice is deleted first.
BugDeleteFirst == advice' = NoAdvice /\ member' = member
\* SubscriptionService.remove: the subscription, then its advice.
DeleteFirst == member' = Gone /\ advice' = advice
RemoveSubscription ==
  /\ member # Gone /\ ~removing
  /\ DeleteFirst
  /\ removing' = TRUE
  /\ wasRead' = \E w \in AdviceJobs : generation[w].at # "idle"
  /\ UNCHANGED <<queue, generation, memberChanges>>

RemoveAdvice ==
  /\ removing
  /\ member' = Gone
  /\ advice' = IF member = Gone THEN NoAdvice ELSE advice
  /\ removing' = FALSE
  /\ UNCHANGED <<queue, generation, memberChanges, wasRead>>

AdviceNext ==
  \/ EnqueueForUser \/ ChangeSubscription \/ RemoveSubscription \/ RemoveAdvice
  \/ \E w \in AdviceJobs : Generate(w) \/ ModelAnswers(w) \/ ModelFails(w) \/ Upsert(w)

AdviceSpec == AdviceInit /\ [][AdviceNext]_adviceVars

--------------------------------------------------------------------------------
(* Properties *)

\* Whatever the model answers, the member is shown at most MAX_PICKS different
\* options of the catalog, each cheaper than a price the subscription had.
PicksAreSavings ==
  /\ Len(advice.picks) <= MaxPicks
  /\ \A i \in DOMAIN advice.picks : Worthwhile(advice.picks[i], advice.price)
  /\ IsInjective(advice.picks)

\* And advice outlives its subscription ("forever - unreadable, but growing",
\* subscriptions/service.ts:86-88) only where a job that had read the
\* subscription was under way when it was removed.
AdviceIsSound ==
  /\ PicksAreSavings
  /\ (member = Gone /\ ~removing /\ ~wasRead) => advice = NoAdvice
================================================================================
