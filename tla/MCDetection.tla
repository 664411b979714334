------------------------------- MODULE MCDetection -------------------------------
(***************************************************************************)
(* Subscription detection, the life of bills and the curation of merchants *)
(* by staff: a behaviour is one of them, the others stay as they begin.    *)
(***************************************************************************)
EXTENDS Detection, Bills, Staff, TLC

CONSTANTS r1, r2

VARIABLE part

\* Slots are interchangeable.
MCSymmetry == Permutations({r1, r2})

PartsInit ==
  /\ part \in {"subscriptions", "bills", "staff"}
  /\ DetectionInit /\ BillsInit /\ StaffInit
  /\ part # "staff" => role = "agent"

PartsNext ==
  /\ UNCHANGED part
  /\ \/ part = "subscriptions" /\ DetectionNext /\ UNCHANGED <<billsVars, staffVars>>
     \/ part = "bills" /\ BillsNext /\ UNCHANGED <<detectionVars, staffVars>>
     \/ part = "staff" /\ StaffNext /\ UNCHANGED <<detectionVars, billsVars>>

PartsSpec == PartsInit /\ [][PartsNext]_<<part, detectionVars, billsVars, staffVars>>
================================================================================
