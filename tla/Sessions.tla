------------------------------- MODULE Sessions -------------------------------
(***************************************************************************)
(* The wallet sessions of src/src/auth.rs: one-time challenges, the opaque *)
(* bearer sessions a signed challenge buys, their expiry, revocation and   *)
(* purge.  Every method of AuthStore holds the connection mutex and writes *)
(* in one transaction, so each is one step.                                *)
(*                                                                         *)
(* A challenge stands for its random id and nonce, a token for its secret  *)
(* and its Poseidon2 commitment; both are drawn fresh.  A user stands for  *)
(* an account with the key the vault has registered for it, so a signature *)
(* is either by the user of the challenge or refused.                      *)
(***************************************************************************)
EXTENDS Clock, FiniteSets

CONSTANTS
  Users,         \* registered trading accounts
  Challenges,    \* challenge ids the random source may return
  Tokens,        \* bearer tokens the random source may return
  ChallengeTtl,  \* challenge_ttl_secs
  SessionTtl     \* session_ttl_secs

ASSUME TtlsAssumption == /\ ChallengeTtl \in Nat \ {0}
                         /\ SessionTtl \in Nat \ {0}

VARIABLES
  challenges,    \* auth_challenges: rows by challenge id
  sessions,      \* auth_sessions: rows by token
  logins         \* history: the pairs <<challenge, token>> authenticate returned

authVars == <<challenges, sessions, logins>>

ChallengeRow == [user : Users, expires : Nat, consumed : BOOLEAN]
SessionRow == [user : Users, expires : Nat, revoked : BOOLEAN]

AuthTypeOK ==
  /\ now \in 0..MaxNow
  /\ \E C \in SUBSET Challenges : challenges \in [C -> ChallengeRow]
  /\ \E T \in SUBSET Tokens : sessions \in [T -> SessionRow]
  /\ logins \subseteq Challenges \X Tokens

AuthInit ==
  /\ now = 0
  /\ challenges = [c \in {} |-> 0]
  /\ sessions = [t \in {} |-> 0]
  /\ logins = {}

WithRow(table, key, row) ==
  [k \in DOMAIN table \cup {key} |-> IF k = key THEN row ELSE table[k]]
Keeping(table, Keep(_)) ==
  [k \in {j \in DOMAIN table : Keep(table[j])} |-> table[k]]

\* Ids and tokens are drawn from 18 and 32 random bytes: never drawn twice.
Drawn == {p[1] : p \in logins} \cup DOMAIN challenges
Issued == {p[2] : p \in logins}

(***************************************************************************)
(* POST /auth/challenge for a user the vault knows.                        *)
(***************************************************************************)
IssueChallenge(c, u) ==
  /\ c \notin Drawn
  /\ challenges' = WithRow(challenges, c,
                     [user |-> u, expires |-> now + ChallengeTtl,
                      consumed |-> FALSE])
  /\ UNCHANGED <<now, sessions, logins>>

\* Mutant of Authenticate: consumed_at is left NULL.
AuthenticateReusable(c, u, t) ==
  /\ c \in DOMAIN challenges /\ ~challenges[c].consumed
  /\ now <= challenges[c].expires /\ challenges[c].user = u
  /\ t \notin Issued
  /\ sessions' = WithRow(sessions, t,
                   [user |-> u, expires |-> now + SessionTtl, revoked |-> FALSE])
  /\ logins' = logins \cup {<<c, t>>}
  /\ UNCHANGED <<now, challenges>>

(***************************************************************************)
(* POST /auth/login with the challenge signed by u: verified, consumed and *)
(* exchanged for a session in one immediate transaction.                   *)
(***************************************************************************)
Authenticate(c, u, t) ==
  /\ c \in DOMAIN challenges
  /\ ~challenges[c].consumed
  /\ now <= challenges[c].expires
  /\ challenges[c].user = u
  /\ t \notin Issued
  /\ challenges' = [challenges EXCEPT ![c].consumed = TRUE]
  /\ sessions' = WithRow(sessions, t,
                   [user |-> u, expires |-> now + SessionTtl, revoked |-> FALSE])
  /\ logins' = logins \cup {<<c, t>>}
  /\ UNCHANGED now

\* lookup_session: the row is there, not revoked and not yet expired.
LookupSession(t) ==
  /\ t \in DOMAIN sessions
  /\ ~sessions[t].revoked
  /\ now <= sessions[t].expires

\* revoke_session succeeds on an expired row too, and once.
Revocable(t) == t \in DOMAIN sessions /\ ~sessions[t].revoked
RevokeSession(t) ==
  /\ Revocable(t)
  /\ sessions' = [sessions EXCEPT ![t].revoked = TRUE]
  /\ UNCHANGED <<now, challenges, logins>>

(***************************************************************************)
(* The purge task: one call deletes expired and used challenges, expired   *)
(* and revoked sessions.                                                   *)
(***************************************************************************)
Purge ==
  /\ LET LiveChallenge(row) == row.expires >= now /\ ~row.consumed
         LiveSession(row) == row.expires >= now /\ ~row.revoked
     IN  /\ challenges' = Keeping(challenges, LiveChallenge)
         /\ sessions' = Keeping(sessions, LiveSession)
  /\ UNCHANGED <<now, logins>>

Tick == ClockAdvances /\ UNCHANGED authVars

AuthNext ==
  \/ \E c \in Challenges, u \in Users : IssueChallenge(c, u)
  \/ \E c \in Challenges, u \in Users, t \in Tokens : Authenticate(c, u, t)
  \/ \E t \in Tokens : RevokeSession(t)
  \/ Purge
  \/ Tick

AuthSpec == AuthInit /\ [][AuthNext]_<<now, authVars>>

(***************************************************************************)
(* A signed challenge buys one session, whatever retries, purges and       *)
(* concurrent logins happen: consumed_at is written by the transaction     *)
(* that inserts the session.                                               *)
(***************************************************************************)
OneSessionPerChallenge ==
  \A p, q \in logins : p[1] = q[1] => p[2] = q[2]
===============================================================================
