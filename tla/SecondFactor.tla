------------------------------ MODULE SecondFactor ------------------------------
(***************************************************************************)
(* One sign-in of a member of staff: the code their device shows, by its   *)
(* own clock, is typed and verified by the clock of the API some seconds   *)
(* later.                                                                  *)
(***************************************************************************)
EXTENDS Integers

CONSTANTS Period,     \* seconds a code is shown
          DriftSteps, \* steps of drift tolerated on each side
          Starts,     \* BOUND: seconds at which the device is looked at
          Drifts,     \* BOUND: what the device's clock is ahead of the API's
          MaxTyping   \* BOUND: seconds until the code arrives

ASSUME SecondFactorAssumption ==
  /\ Period \in Nat \ {0} /\ DriftSteps \in Nat /\ MaxTyping \in Nat
  /\ Starts \subseteq Nat /\ Drifts \subseteq Int

VARIABLES second, drift,
          enrolled,   \* "none", a secret that can be read, or one that cannot
          required,   \* staff must be enrolled: production
          shown,      \* the instant of the device when it was looked at
          code,       \* what was typed: a counter's code, NoCode or Malformed
          waited, signedIn

secondFactorVars == <<second, drift, enrolled, required, shown, code, waited, signedIn>>

NoCode == -1
Malformed == -2

\* Codes of different counters are taken to differ; of three in a million they do not.
Hotp(counter) == counter
Totp(instant) == Hotp(instant \div Period)

\* Only six digits are compared, and only with a secret that decodes to something.
BugVerifyTotp(secret, submitted, at) ==
  /\ secret = "readable" /\ submitted \in Nat
  /\ submitted = Hotp(at \div Period)
VerifyTotp(secret, submitted, at) ==
  /\ secret = "readable" /\ submitted \in Nat
  /\ \E step \in -DriftSteps..DriftSteps : submitted = Hotp(at \div Period + step)

\* The account and the password were right.
Admitted ==
  IF enrolled # "none" THEN code # NoCode /\ VerifyTotp(enrolled, code, second)
  ELSE ~required

LookAtDevice ==
  /\ shown = 0 /\ shown' = second + drift
  /\ code' = IF enrolled = "none" THEN NoCode ELSE Totp(second + drift)
  /\ UNCHANGED <<second, drift, enrolled, required, waited, signedIn>>

\* Nothing is entered, or something that is no code.
Mistype ==
  /\ shown # 0 /\ waited = 0 /\ signedIn = "no"
  /\ \E typed \in {NoCode, Malformed} : code' = typed
  /\ UNCHANGED <<second, drift, enrolled, required, shown, waited, signedIn>>

Type ==
  /\ shown # 0 /\ signedIn = "no" /\ waited < MaxTyping
  /\ second' = second + 1 /\ waited' = waited + 1
  /\ UNCHANGED <<drift, enrolled, required, shown, code, signedIn>>

Login ==
  /\ shown # 0 /\ signedIn = "no"
  /\ signedIn' = IF Admitted THEN "yes" ELSE "denied"
  /\ UNCHANGED <<second, drift, enrolled, required, shown, code, waited>>

SecondFactorInit ==
  /\ second \in Starts /\ drift \in Drifts
  /\ enrolled \in {"none", "readable", "unreadable"} /\ required \in BOOLEAN
  /\ shown = 0 /\ code = NoCode /\ waited = 0 /\ signedIn = "no"

SecondFactorNext == LookAtDevice \/ Mistype \/ Type \/ Login

SecondFactorSpec == SecondFactorInit /\ [][SecondFactorNext]_secondFactorVars

--------------------------------------------------------------------------------
(* Property *)

Distance == IF second > shown THEN second - shown ELSE shown - second

\* Wherever in a step of thirty seconds it falls, a code that is off by no more than
\* the drift tolerated ("One step (+-30s) absorbs ordinary device skew", totp.ts) -
\* the skew of the device and the time it took to type together - signs in, one that
\* is off by a step more does not, and where enrolment is required nobody signs in
\* without a code (login).
CodesTolerateDrift ==
  /\ signedIn = "denied" /\ enrolled = "readable" /\ code \in Nat
       => Distance > DriftSteps * Period
  /\ signedIn = "yes" /\ enrolled # "none" => Distance < (DriftSteps + 1) * Period
  /\ signedIn = "yes" /\ required => code \in Nat
================================================================================
