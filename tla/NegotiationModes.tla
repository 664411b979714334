---------------------------- MODULE NegotiationModes ----------------------------
(***************************************************************************)
(* Negotiation, when requests do not overlap: what the comments of         *)
(* negotiations/service.ts promise.  A behaviour is either several         *)
(* requests on one case, or one request at a time over all the cases.      *)
(***************************************************************************)
EXTENDS Negotiation

VARIABLE mode

modeVars == <<mode, vars>>

ModeInit == Init /\ mode \in {"races", "serial"}

OneCase == \A c, d \in Cases : cases[c] # NoRow /\ cases[d] # NoRow => c = d
OneRequest == \A r, s \in Requests : req[r] # Idle /\ req[s] # Idle => r = s

ModeNext ==
  /\ Next /\ UNCHANGED mode
  /\ mode = "races" => OneCase'
  /\ mode = "serial" => OneRequest'

ModeSpec == ModeInit /\ [][ModeNext]_modeVars

\* One request at a time, the rows keep what the comments promise: a credit has
\* a case that explains it, a bill one open case, and the columns of a row agree.
SerialRows ==
  mode = "serial" => CreditExplainedByCase /\ OneOpenCasePerBill /\ RowConsistent

\* One request at a time, so does every write: it leaves a resolved case alone,
\* keeps the events of a timeline, and an approval takes effect.
SerialWrites ==
  [][mode = "serial" => ResolvedStays /\ TimelineGrows /\ ApprovalApplies]_modeVars
================================================================================
