-------------------------------- MODULE Pipeline --------------------------------
(***************************************************************************)
(* From new bank data to alerts and advice: the stages of apps/worker,     *)
(* each a job that runs its service and then enqueues what follows, and    *)
(* the chain that SyncPipeline runs inside a request when no queue is      *)
(* configured.  Each service is one step here - TransactionSync, Detection *)
(* and Bills take them apart - and what it did is the version of the data  *)
(* it saw.                                                                 *)
(***************************************************************************)
EXTENDS Integers, Sequences, FiniteSets, FiniteSetsExt

CONSTANTS MaxVersion,     \* BOUND: versions of the bank's data
          MaxJobFaults    \* BOUND: failures and crashes

ASSUME PipelineAssumption ==
  /\ MaxVersion \in Nat /\ MaxJobFaults \in Nat

VARIABLES
  bank,     \* version of the data at the bank
  seen,     \* the version each stage has worked on
  queued,   \* Redis is configured
  jobs,     \* how many jobs of each stage are at each point
  jobFaults,
  dropped   \* history: work was given up

pipelineVars == <<bank, seen, queued, jobs, jobFaults, dropped>>

Stages == {"sync", "subs", "bills", "alerts", "advice"}
\* A job waits at point 0; at point k + 1 its service has returned and k of its
\* follow-ups are enqueued.
Points == 0..3
Pending == {at \in Stages \X Points : jobs[at[1]][at[2]] > 0}
Drained == Pending = {}

\* What a stage works on: the version found by the one it depends on.
Source(stage) ==
  CASE stage = "sync" -> bank
    [] stage \in {"subs", "bills"} -> seen["sync"]
    [] stage = "alerts" -> Min({seen["sync"], seen["bills"]})
    [] stage = "advice" -> seen["subs"]

\* Wrong variant: the bill stage leaves the alerts to the other one.
BugFollowUps(stage) ==
  CASE stage = "sync" -> <<"subs", "bills">> [] stage = "subs" -> <<"alerts", "advice">>
    [] OTHER -> <<>>
\* Wrong variant: neither detection enqueues the alerts.
BugNoAlerts(stage) ==
  CASE stage = "sync" -> <<"subs", "bills">> [] stage = "subs" -> <<"advice">> [] OTHER -> <<>>
\* The jobs a processor enqueues when its service returns, in order.
FollowUps(stage) ==
  CASE stage = "sync" -> <<"subs", "bills">>
    [] stage = "subs" -> <<"alerts", "advice">>
    [] stage = "bills" -> <<"alerts">>
    [] OTHER -> <<>>

\* The chain of SyncPipeline.runForItem, in order.
Chain == [sync |-> "subs", subs |-> "bills", bills |-> "alerts", alerts |-> "advice",
          advice |-> "done"]

Enqueue(to, stage) == [to EXCEPT ![stage][0] = @ + 1]
Leave(stage, k) == [jobs EXCEPT ![stage][k] = @ - 1]
Move(stage, from, to) == [jobs EXCEPT ![stage][from] = @ - 1, ![stage][to] = @ + 1]

\* The sweep, or a member who asks for a sync; BOUND: when the one before is
\* through all stages, or through its sync and the bank has news.
AddSync ==
  /\ queued
  /\ Drained \/ (bank > seen["sync"] /\ \A k \in Points : jobs["sync"][k] = 0)
  /\ jobs' = Enqueue(jobs, "sync")
  /\ UNCHANGED <<bank, seen, queued, jobFaults, dropped>>

\* A stage nothing follows is complete with its service.
Serve(stage) ==
  /\ queued /\ jobs[stage][0] > 0
  /\ seen' = [seen EXCEPT ![stage] = Source(stage)]
  /\ jobs' = IF FollowUps(stage) = <<>> THEN Leave(stage, 0) ELSE Move(stage, 0, 1)
  /\ UNCHANGED <<bank, queued, jobFaults, dropped>>

\* One call of the producer per follow-up; the job is complete after the last.
FollowUp(stage, k) ==
  /\ k \in DOMAIN FollowUps(stage) /\ jobs[stage][k] > 0
  /\ jobs' = Enqueue(Move(stage, k, k + 1), FollowUps(stage)[k])
  /\ UNCHANGED <<bank, seen, queued, jobFaults, dropped>>

Complete(stage) ==
  LET last == Len(FollowUps(stage)) + 1
  IN /\ last > 1 /\ jobs[stage][last] > 0
     /\ jobs' = Leave(stage, last)
     /\ UNCHANGED <<bank, seen, queued, jobFaults, dropped>>

\* The service, a call of the producer or the process fails: the whole job is
\* run again, unless that was the last of its attempts (any failure may be).  A
\* sync whose bank asks for a new login ends without follow-ups the same way.
FailJob(stage, k) ==
  /\ queued /\ jobs[stage][k] > 0 /\ jobFaults < MaxJobFaults
  /\ jobFaults' = jobFaults + 1
  /\ \/ k > 0 /\ jobs' = Move(stage, k, 0) /\ UNCHANGED dropped
     \/ jobs' = Leave(stage, k) /\ dropped' = TRUE
  /\ UNCHANGED <<bank, seen, queued>>

\* Without a queue, a request runs the chain itself.
BeginInline ==
  /\ ~queued /\ Drained
  /\ jobs' = Enqueue(jobs, "sync")
  /\ UNCHANGED <<bank, seen, queued, jobFaults, dropped>>

RunInline(stage) ==
  /\ ~queued /\ jobs[stage][0] > 0
  /\ seen' = [seen EXCEPT ![stage] = Source(stage)]
  /\ jobs' = IF Chain[stage] = "done" THEN Leave(stage, 0) ELSE Enqueue(Leave(stage, 0), Chain[stage])
  /\ UNCHANGED <<bank, queued, jobFaults, dropped>>

\* A failure ends the request; one of the advice is swallowed.
FailInline(stage) ==
  /\ ~queued /\ jobs[stage][0] > 0 /\ jobFaults < MaxJobFaults
  /\ jobFaults' = jobFaults + 1
  /\ dropped' = TRUE
  /\ jobs' = Leave(stage, 0)
  /\ UNCHANGED <<bank, seen, queued>>

BankMoves == bank < MaxVersion /\ bank' = bank + 1 /\ UNCHANGED <<seen, queued, jobs, jobFaults, dropped>>

PipelineInit ==
  /\ bank = 0 /\ seen = [s \in Stages |-> 0]
  /\ queued \in BOOLEAN
  /\ jobs = [s \in Stages |-> [k \in Points |-> 0]]
  /\ jobFaults = 0 /\ dropped = FALSE

\* A live worker moves some job of the stage on.
JobStep(stage) == Serve(stage) \/ Complete(stage) \/ \E k \in Points : FollowUp(stage, k)

PipelineNext ==
  \/ BankMoves \/ AddSync \/ BeginInline
  \/ \E stage \in Stages : \/ JobStep(stage) \/ RunInline(stage) \/ FailInline(stage)
                           \/ \E k \in Points : FailJob(stage, k)

\* The sweep is a daily cron; each stage has a worker of its own that is restarted.
PipelineFairness ==
  /\ WF_pipelineVars(AddSync)
  /\ \A stage \in Stages : WF_pipelineVars(JobStep(stage))

PipelineSpec == PipelineInit /\ [][PipelineNext]_pipelineVars /\ PipelineFairness

--------------------------------------------------------------------------------
(* Properties *)

\* Unless a job was given up, empty queues mean that what is stored has been
\* through every stage: alerts saw the bills of the last detection, advice the
\* subscriptions - however the jobs were ordered, repeated and interleaved.
DrainedMeansEvaluated ==
  (Drained /\ ~dropped) => \A s \in Stages : seen[s] = seen["sync"]

\* With the daily sweep, new data reaches the alerts although jobs fail and are
\* given up.
NewDataIsEvaluated ==
  \A v \in 1..MaxVersion : (queued /\ bank >= v) ~> (seen["alerts"] >= v)
================================================================================
