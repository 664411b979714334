-------------------------------- MODULE Sessions --------------------------------
(***************************************************************************)
(* The sessions of one account: AuthService (apps/api/src/modules/auth)    *)
(* and the deletion of UserService, as requests that read, wait and write. *)
(* A refresh token is a row; every login begins a chain of them, and each  *)
(* refresh is meant to replace the chain's token by the next one.          *)
(* Passwords, profile data and consents are data no property tells apart;  *)
(* an access token is issued with every refresh token and not kept.        *)
(***************************************************************************)
EXTENDS Integers, Sequences, FiniteSets

CONSTANTS Calls,     \* request slots
          MaxTokens  \* BOUND: refresh tokens ever issued

ASSUME SessionsAssumption == IsFiniteSet(Calls) /\ MaxTokens \in Nat

VARIABLES
  registered, scheduled,  \* the user row and its deletionScheduledAt
  tokens,                 \* refresh_tokens, in order of issue
  calls,
  overlapped,             \* history: chains a token of which two requests used at once
  ended,                  \* history: chains logged out of
  late, allowance         \* history: tokens issued after the deletion was
                          \* scheduled, and requests on their way then

sessionsVars == <<registered, scheduled, tokens, calls, overlapped, ended, late, allowance>>

Idle == [at |-> "idle", token |-> 0]
At(r, point) == calls[r].at = point
Goto(r, point, t) == calls' = [calls EXCEPT ![r] = [at |-> point, token |-> t]]
Return(r) == calls' = [calls EXCEPT ![r] = Idle]

Present(t) == t \in DOMAIN tokens /\ tokens[t].present
Live(t) == Present(t) /\ ~tokens[t].revoked /\ ~tokens[t].expired
Chain(c) == {t \in DOMAIN tokens : tokens[t].chain = c}

\* Requests that may still issue a token.
Issuing == {r \in Calls : calls[r].at \in {"register", "issue", "rotate"}}
UsersOf(t) == {r \in Calls : calls[r].token = t /\ calls[r].at \in {"rotate", "revoke"}}

SessionsInit ==
  /\ registered = FALSE /\ scheduled = FALSE
  /\ tokens = <<>>
  /\ calls = [r \in Calls |-> Idle]
  /\ overlapped = {} /\ ended = {}
  /\ late = 0 /\ allowance = 0

\* register finds no user of that email, and hashes the password.
BeginRegister(r) ==
  /\ At(r, "idle") /\ ~registered
  /\ Goto(r, "register", 0)
  /\ UNCHANGED <<registered, scheduled, tokens, overlapped, ended, late, allowance>>

\* The unique index on the email refuses the second of two.
CommitRegister(r) ==
  /\ At(r, "register")
  /\ IF registered THEN Return(r) ELSE Goto(r, "issue", 0)
  /\ registered' = TRUE
  /\ UNCHANGED <<scheduled, tokens, overlapped, ended, late, allowance>>

\* login reads the user and compares the password (the right one).
BeginLogin(r) ==
  /\ At(r, "idle") /\ registered /\ ~scheduled
  /\ Goto(r, "issue", 0)
  /\ UNCHANGED <<registered, scheduled, tokens, overlapped, ended, late, allowance>>

\* Wrong variant: the user's deletion is not looked at.
BugAfterRead == "rotate"
\* What a refresh does with a token it may use.
AfterRead == IF scheduled THEN "revoke" ELSE "rotate"

\* refresh reads the token presented and its user.
BeginRefresh(r, t) ==
  /\ At(r, "idle") /\ Live(t)
  /\ Goto(r, AfterRead, t)
  /\ overlapped' = IF UsersOf(t) = {} THEN overlapped ELSE overlapped \union {tokens[t].chain}
  /\ UNCHANGED <<registered, scheduled, tokens, ended, late, allowance>>

\* A row deleted in between makes the update fail.
RejectDeleted(r) ==
  /\ At(r, "revoke")
  /\ tokens' = [t \in DOMAIN tokens |->
                  IF t = calls[r].token THEN [tokens[t] EXCEPT !.revoked = TRUE] ELSE tokens[t]]
  /\ Return(r)
  /\ UNCHANGED <<registered, scheduled, overlapped, ended, late, allowance>>

\* Wrong variant: the presented token stays.
BugRotated(used) == [t \in DOMAIN tokens |-> [tokens[t] EXCEPT !.present = @ /\ ~tokens[t].expired]]
\* One transaction: the presented token is revoked, expired rows are deleted.
Rotated(used) ==
  [t \in DOMAIN tokens |->
     [tokens[t] EXCEPT !.revoked = @ \/ t = used, !.present = @ /\ ~tokens[t].expired]]

Rotate(r) ==
  /\ At(r, "rotate")
  /\ IF Present(calls[r].token)
     THEN /\ tokens' = Rotated(calls[r].token)
          /\ Goto(r, "issue", calls[r].token)
     ELSE Return(r) /\ UNCHANGED tokens
  /\ UNCHANGED <<registered, scheduled, overlapped, ended, late, allowance>>

\* issueTokens: the user row is there whatever its deletion date.
Issue(r) ==
  LET before == calls[r].token
      next == Len(tokens) + 1
  IN /\ At(r, "issue") /\ next <= MaxTokens
     /\ tokens' = Append(tokens, [chain |-> IF before = 0 THEN next ELSE tokens[before].chain,
                                  revoked |-> FALSE, expired |-> FALSE, present |-> TRUE])
     /\ late' = IF scheduled THEN late + 1 ELSE late
     /\ Return(r)
     /\ UNCHANGED <<registered, scheduled, overlapped, ended, allowance>>

\* One statement; the chain ends here unless a refresh is on its way.
Logout(t) ==
  /\ Present(t) /\ ~tokens[t].revoked
  /\ tokens' = [tokens EXCEPT ![t].revoked = TRUE]
  /\ LET chain == tokens[t].chain
         onTheWay == {r \in Calls : calls[r].token \in Chain(chain)}
     IN ended' = IF onTheWay = {} THEN ended \union {chain} ELSE ended
  /\ UNCHANGED <<registered, scheduled, calls, overlapped, late, allowance>>

BeginDelete(r) ==
  /\ At(r, "idle") /\ registered /\ ~scheduled
  /\ Goto(r, "delete", 0)
  /\ UNCHANGED <<registered, scheduled, tokens, overlapped, ended, late, allowance>>

\* One transaction: the date is set and every session is revoked.
CommitDelete(r) ==
  /\ At(r, "delete")
  /\ scheduled' = TRUE
  /\ tokens' = [t \in DOMAIN tokens |-> [tokens[t] EXCEPT !.revoked = TRUE]]
  /\ allowance' = IF scheduled THEN allowance ELSE Cardinality(Issuing)
  /\ Return(r)
  /\ UNCHANGED <<registered, overlapped, ended, late>>

\* Thirty days pass for the oldest token that has not expired.
Expire(t) ==
  /\ t \in DOMAIN tokens /\ ~tokens[t].expired
  /\ \A u \in 1..(t - 1) : tokens[u].expired
  /\ tokens' = [tokens EXCEPT ![t].expired = TRUE]
  /\ UNCHANGED <<registered, scheduled, calls, overlapped, ended, late, allowance>>

\* A database call or the process fails between two steps.
Break(r) ==
  /\ calls[r].at # "idle"
  /\ Return(r)
  /\ UNCHANGED <<registered, scheduled, tokens, overlapped, ended, late, allowance>>

SessionsNext ==
  \/ \E r \in Calls : \/ BeginRegister(r) \/ CommitRegister(r) \/ BeginLogin(r)
                      \/ RejectDeleted(r) \/ Rotate(r) \/ Issue(r)
                      \/ BeginDelete(r) \/ CommitDelete(r) \/ Break(r)
                      \/ \E t \in DOMAIN tokens : BeginRefresh(r, t)
  \/ \E t \in DOMAIN tokens : Logout(t) \/ Expire(t)

SessionsSpec == SessionsInit /\ [][SessionsNext]_sessionsVars

--------------------------------------------------------------------------------
(* Properties *)

\* Rotation leaves a chain one usable token at a time, and none once its member
\* has logged out - unless two requests presented one token at the same time,
\* which both get a session (auth/service.ts:98-103 says they cannot).
OneHeadPerChain ==
  \A c \in DOMAIN tokens \ overlapped :
    Cardinality({t \in Chain(c) : Live(t)}) <= IF c \in ended THEN 0 ELSE 1

\* After the deletion is scheduled, only requests that had read the account
\* before still get a session, each of them one: none of those sessions can be
\* renewed, however the requests interleave.
StragglersOnly == scheduled => late <= allowance

\* Both, for the token table as a whole (auth/service.ts, users/service.ts).
SessionsAreSound == OneHeadPerChain /\ StragglersOnly
================================================================================
