----------------------------- MODULE EntryProofs -----------------------------
(***************************************************************************)
(* Proofs about what a request meets at the server: Sessions, Connections, *)
(* Ingress, Admission and NonceWindow, for any users, requests, limits,    *)
(* lifetimes and limb widths.                                              *)
(***************************************************************************)
EXTENDS Connections, Ingress, Admission, NonceWindow, SharedLemmas

--------------------------------------------------------------------------------
(***************************************************************************)
(* Sessions.  A challenge that bought a session is consumed as long as its *)
(* row is there; that is what keeps a second login out.                    *)
(***************************************************************************)
\* A challenge that bought a session is consumed as long as its row is there.
BoughtConsumed ==
  \A p \in logins : p[1] \in DOMAIN challenges => challenges[p[1]].consumed

\* The inductive invariant.
AuthInv == AuthTypeOK /\ BoughtConsumed /\ OneSessionPerChallenge

\* The tables as partial functions.
LEMMA AuthTables ==
    ASSUME AuthTypeOK
    PROVE  /\ DOMAIN challenges \in SUBSET Challenges
           /\ challenges \in [DOMAIN challenges -> ChallengeRow]
           /\ DOMAIN sessions \in SUBSET Tokens
           /\ sessions \in [DOMAIN sessions -> SessionRow]
           /\ now \in Nat /\ logins \subseteq Challenges \X Tokens
BY MaxNowAssumption DEF AuthTypeOK

\* A fresh challenge has bought nothing yet.
LEMMA IssueStep ==
    ASSUME AuthInv, NEW c \in Challenges, NEW u \in Users, IssueChallenge(c, u)
    PROVE  AuthInv'
<1> DEFINE row == [user |-> u, expires |-> now + ChallengeTtl, consumed |-> FALSE]
           D == DOMAIN challenges
<1>1. row \in ChallengeRow
  BY AuthTables, TtlsAssumption DEF AuthInv, ChallengeRow
<1>2. c \notin D /\ \A p \in logins : p[1] # c
  BY DEF IssueChallenge, Drawn
<1>3. challenges' = [k \in D \cup {c} |-> IF k = c THEN row ELSE challenges[k]]
  BY DEF IssueChallenge, WithRow
<1> HIDE DEF row
<1>4. /\ DOMAIN challenges' = D \cup {c} /\ D \cup {c} \in SUBSET Challenges
      /\ challenges' \in [D \cup {c} -> ChallengeRow]
      /\ \A k \in D : challenges'[k] = challenges[k]
  BY <1>1, <1>2, <1>3, AuthTables DEF AuthInv
<1>5. AuthTypeOK'
  BY <1>4 DEF AuthInv, AuthTypeOK, IssueChallenge
<1>6. BoughtConsumed' /\ OneSessionPerChallenge'
  BY <1>2, <1>4 DEF AuthInv, BoughtConsumed, OneSessionPerChallenge, IssueChallenge
<1> QED
  BY <1>5, <1>6 DEF AuthInv

\* The challenge was not consumed, so it had bought nothing; now it is.
LEMMA AuthenticateStep ==
    ASSUME AuthInv, NEW c \in Challenges, NEW u \in Users, NEW t \in Tokens, Authenticate(c, u, t)
    PROVE  AuthInv'
<1> DEFINE row == [user |-> u, expires |-> now + SessionTtl, revoked |-> FALSE]
           D == DOMAIN sessions
<1>1. row \in SessionRow
  BY AuthTables, TtlsAssumption DEF AuthInv, SessionRow
<1>2. sessions' = [k \in D \cup {t} |-> IF k = t THEN row ELSE sessions[k]]
  BY DEF Authenticate, WithRow
<1> HIDE DEF row
<1>3. D \cup {t} \in SUBSET Tokens /\ sessions' \in [D \cup {t} -> SessionRow]
  BY <1>1, <1>2, AuthTables DEF AuthInv
<1>4. /\ challenges' \in [DOMAIN challenges -> ChallengeRow]
      /\ DOMAIN challenges' = DOMAIN challenges /\ c \in DOMAIN challenges
      /\ challenges'[c].consumed /\ ~challenges[c].consumed
      /\ \A k \in DOMAIN challenges : k # c => challenges'[k] = challenges[k]
  BY AuthTables DEF AuthInv, Authenticate, ChallengeRow
<1>5. logins' = logins \cup {<<c, t>>} /\ logins' \subseteq Challenges \X Tokens
  BY AuthTables DEF AuthInv, Authenticate
<1>6. \A p \in logins : p[1] # c
  BY <1>4 DEF AuthInv, BoughtConsumed
<1>7. AuthTypeOK'
  BY <1>3, <1>4, <1>5, AuthTables DEF AuthInv, AuthTypeOK, Authenticate
<1>8. BoughtConsumed'
  BY <1>4, <1>5 DEF AuthInv, BoughtConsumed
<1>9. OneSessionPerChallenge'
  BY <1>5, <1>6 DEF AuthInv, OneSessionPerChallenge
<1> QED
  BY <1>7, <1>8, <1>9 DEF AuthInv

\* A purge only drops rows.
LEMMA PurgeStep == ASSUME AuthInv, Purge PROVE AuthInv'
<1> DEFINE C == {k \in DOMAIN challenges : challenges[k].expires >= now /\ ~challenges[k].consumed}
           T == {k \in DOMAIN sessions : sessions[k].expires >= now /\ ~sessions[k].revoked}
<1>1. /\ challenges' = [k \in C |-> challenges[k]] /\ sessions' = [k \in T |-> sessions[k]]
      /\ now' = now /\ logins' = logins
  BY DEF Purge, Keeping
<1>2. C \subseteq DOMAIN challenges /\ T \subseteq DOMAIN sessions
  OBVIOUS
<1> HIDE DEF C, T
<1>3. /\ C \in SUBSET Challenges /\ challenges' \in [C -> ChallengeRow]
      /\ T \in SUBSET Tokens /\ sessions' \in [T -> SessionRow]
  BY <1>1, <1>2, AuthTables DEF AuthInv
<1>4. AuthTypeOK'
  BY <1>1, <1>3 DEF AuthInv, AuthTypeOK
<1>5. BoughtConsumed' /\ OneSessionPerChallenge'
  BY <1>1, <1>2 DEF AuthInv, BoughtConsumed, OneSessionPerChallenge
<1> QED
  BY <1>4, <1>5 DEF AuthInv

\* Every step keeps the invariant.
LEMMA AuthStep == AuthInv /\ [AuthNext]_<<now, authVars>> => AuthInv'
<1> SUFFICES ASSUME AuthInv, [AuthNext]_<<now, authVars>> PROVE AuthInv'
  OBVIOUS
<1>1. ASSUME NEW t \in Tokens, RevokeSession(t) PROVE AuthInv'
  <2>1. sessions' \in [DOMAIN sessions -> SessionRow] /\ UNCHANGED <<now, challenges, logins>>
    BY <1>1, AuthTables DEF AuthInv, RevokeSession, Revocable, SessionRow
  <2>2. AuthTypeOK'
    BY <2>1, AuthTables DEF AuthInv, AuthTypeOK
  <2> QED
    BY <2>1, <2>2 DEF AuthInv, BoughtConsumed, OneSessionPerChallenge
<1>2. CASE Tick
  <2>1. now' \in 0 .. MaxNow /\ UNCHANGED authVars
    BY <1>2, MaxNowAssumption DEF AuthInv, AuthTypeOK, Tick, ClockAdvances
  <2> QED
    BY <2>1 DEF AuthInv, AuthTypeOK, BoughtConsumed, OneSessionPerChallenge, authVars
<1>3. CASE UNCHANGED <<now, authVars>>
  BY <1>3 DEF AuthInv, AuthTypeOK, BoughtConsumed, OneSessionPerChallenge, authVars
<1> QED
  BY <1>1, <1>2, <1>3, IssueStep, AuthenticateStep, PurgeStep DEF AuthNext

\* Empty tables satisfy it.
LEMMA AuthStart == AuthInit => AuthInv
<1> SUFFICES ASSUME AuthInit PROVE AuthInv
  OBVIOUS
<1>1. /\ {} \in SUBSET Challenges /\ challenges \in [{} -> ChallengeRow]
      /\ {} \in SUBSET Tokens /\ sessions \in [{} -> SessionRow]
  BY DEF AuthInit
<1>2. /\ \E C \in SUBSET Challenges : challenges \in [C -> ChallengeRow]
      /\ \E T \in SUBSET Tokens : sessions \in [T -> SessionRow]
  BY <1>1
<1>3. AuthTypeOK
  <2>1. now \in 0 .. MaxNow
    BY MaxNowAssumption DEF AuthInit
  <2>2. logins \subseteq Challenges \X Tokens
    BY DEF AuthInit
  <2> QED
    BY <1>2, <2>1, <2>2 DEF AuthTypeOK
<1> QED
  BY <1>3 DEF AuthInv, AuthInit, BoughtConsumed, OneSessionPerChallenge

--------------------------------------------------------------------------------
\* auth.rs hands out at most one session for a challenge, for any number of
\* logins, retries and purges and any lifetimes.
THEOREM ChallengeBuysOnce == AuthSpec => []OneSessionPerChallenge
<1>1. AuthSpec => []AuthInv
  BY AuthStart, AuthStep, PTL DEF AuthSpec
<1> QED
  BY <1>1, PTL DEF AuthInv

\* Challenges and sessions are rows of their tables, bought pairs are of both kinds
\* (auth.rs).
THEOREM AuthTypeCorrect == AuthSpec => []AuthTypeOK
<1>1. AuthSpec => []AuthInv
  BY AuthStart, AuthStep, PTL DEF AuthSpec
<1> QED
  BY <1>1, PTL DEF AuthInv

--------------------------------------------------------------------------------
(***************************************************************************)
(* Connections.  Other tasks remove a connection while its own task is in  *)
(* the middle of a message, so neither property is inductive: a task with  *)
(* a message under way, and every subscriber, is still in its loop.        *)
(***************************************************************************)
ManagerOK ==
  /\ registered \subseteq Conns /\ IsFiniteSet(registered)
  /\ bound \in [Conns -> Bindings]
  /\ lastPong \in [Conns -> 0..MaxNow]
  /\ DOMAIN subs \subseteq Channels /\ subs \in [DOMAIN subs -> SUBSET Conns]
  /\ sweeps \subseteq Channels
  /\ \A c \in Conns \ registered : bound[c] = Unbound

TasksOK ==
  /\ phase \in [Conns -> {"new", "upgraded", "open", "closed"}]
  /\ task \in [Conns -> Tasks]
  /\ \A c \in Conns : task[c] # NoTask => phase[c] = "open"

SubscribersOpen == \A ch \in DOMAIN subs : \A c \in subs[ch] : phase[c] = "open"

ConnInv ==
  /\ AuthInv /\ ManagerOK /\ ConnectionsWithinCap
  /\ TasksOK /\ SubscribersOpen
  /\ logouts \subseteq Tokens

\* The part of the invariant that is about the manager's own tables.
TablesOK == ManagerOK /\ ConnectionsWithinCap

\* Removing connections keeps the tables in order, and the removed are nowhere
\* in the subscription map.
LEMMA Removal ==
    ASSUME TablesOK, SubscribersOpen, NEW C \in SUBSET Conns, RemoveConnections(C)
    PROVE  /\ TablesOK'
           /\ \A ch \in DOMAIN subs' : \A c \in subs'[ch] : c \notin C /\ phase[c] = "open"
<1>1. /\ registered' \subseteq registered /\ IsFiniteSet(registered')
      /\ Cardinality(registered') <= Cardinality(registered)
  BY FS_Subset, FS_CardinalityType DEF TablesOK, ManagerOK, RemoveConnections
<1>2. ASSUME NEW c \in registered'
      PROVE  Cardinality(SameIp(c)') <= Cardinality(SameIp(c))
  <2>1. SameIp(c) \subseteq registered /\ SameIp(c)' \subseteq SameIp(c)
    BY <1>1 DEF SameIp
  <2>2. IsFiniteSet(SameIp(c))
    BY <2>1, FS_Subset DEF TablesOK, ManagerOK
  <2> QED
    BY <2>1, <2>2, FS_Subset
<1>3. ConnectionsWithinCap'
  <2>1. Cardinality(registered') <= GlobalCap
    BY <1>1, FS_CardinalityType, ConnectionsAssumption
       DEF TablesOK, ManagerOK, ConnectionsWithinCap
  <2>2. ASSUME NEW c \in registered' PROVE Cardinality(SameIp(c)') <= PerIpCap
    <3>1. c \in registered /\ Cardinality(SameIp(c)) <= PerIpCap
      BY <1>1, <2>2 DEF TablesOK, ConnectionsWithinCap
    <3>2. IsFiniteSet(SameIp(c)) /\ IsFiniteSet(SameIp(c)')
      <4>1. SameIp(c) \subseteq registered /\ SameIp(c)' \subseteq registered
        BY <1>1 DEF SameIp
      <4> QED
        BY <4>1, FS_Subset DEF TablesOK, ManagerOK
    <3>3. Cardinality(SameIp(c)) \in Nat /\ Cardinality(SameIp(c)') \in Nat
      BY <3>2, FS_CardinalityType
    <3> QED
      BY <1>2, <2>2, <3>1, <3>3, ConnectionsAssumption
  <2> QED
    BY <2>1, <2>2 DEF ConnectionsWithinCap
<1>4. ManagerOK'
  <2>1. bound' \in [Conns -> Bindings] /\ \A c \in Conns \ registered' : bound'[c] = Unbound
    BY DEF TablesOK, ManagerOK, RemoveConnections, Bindings
  <2>2. lastPong' \in [Conns -> 0 .. MaxNow]
    BY MaxNowAssumption DEF TablesOK, ManagerOK, RemoveConnections
  <2>3. DOMAIN subs' = DOMAIN subs /\ subs' \in [DOMAIN subs' -> SUBSET Conns]
    BY DEF TablesOK, ManagerOK, RemoveConnections
  <2>4. sweeps' \subseteq Channels
    BY DEF TablesOK, ManagerOK, RemoveConnections
  <2> QED
    BY <1>1, <2>1, <2>2, <2>3, <2>4 DEF TablesOK, ManagerOK
<1>5. \A ch \in DOMAIN subs' : \A c \in subs'[ch] : c \notin C /\ phase[c] = "open"
  BY DEF RemoveConnections, SubscribersOpen
<1> QED
  BY <1>3, <1>4, <1>5 DEF TablesOK

\* A step that leaves the session store and the manager alone.
LEMMA TaskStep ==
    ASSUME ConnInv, NEW c \in Conns,
           Upgrade(c) \/ (\E t \in Tokens : LookupForConnection(c, t))
             \/ (\E ch \in Channels : CheckSubscription(c, ch))
    PROVE  ConnInv'
<1>1. /\ UNCHANGED <<now, authVars, managerVars, logouts>>
      /\ AuthInv' /\ TablesOK' /\ logouts' \subseteq Tokens
  BY DEF ConnInv, TablesOK, Upgrade, LookupForConnection, CheckSubscription, AuthInv, AuthTypeOK,
         BoughtConsumed, OneSessionPerChallenge, authVars, managerVars, ManagerOK,
         ConnectionsWithinCap, SameIp
<1>2. TasksOK' /\ SubscribersOpen'
  <2>1. CASE Upgrade(c)
    BY <2>1 DEF ConnInv, TasksOK, SubscribersOpen, Upgrade, managerVars
  <2>2. ASSUME NEW t \in Tokens, LookupForConnection(c, t) PROVE TasksOK' /\ SubscribersOpen'
    <3>1. sessions[t].user \in Users
      BY <2>2, AuthTables DEF ConnInv, AuthInv, LookupForConnection, LookupSession, SessionRow
    <3>2. [op |-> "authenticate", found |-> [token |-> t, user |-> sessions[t].user]] \in Tasks
      BY <3>1 DEF Tasks, Bindings
    <3> QED
      BY <2>2, <3>2 DEF ConnInv, TasksOK, SubscribersOpen, LookupForConnection, Ready, managerVars
  <2>3. ASSUME NEW ch \in Channels, CheckSubscription(c, ch) PROVE TasksOK' /\ SubscribersOpen'
    <3>1. [op |-> "subscribe", channel |-> ch] \in Tasks
      BY DEF Tasks
    <3> QED
      BY <2>3, <3>1 DEF ConnInv, TasksOK, SubscribersOpen, CheckSubscription, Ready, managerVars
  <2> QED
    BY <2>1, <2>2, <2>3
<1> QED
  BY <1>1, <1>2 DEF ConnInv, TablesOK

\* One more element than a set below its bound is within the bound.
LEMMA OneMore ==
    ASSUME NEW S, NEW x, NEW n \in Nat, IsFiniteSet(S), Cardinality(S) < n
    PROVE  Cardinality(S \cup {x}) <= n
<1>1. Cardinality(S) \in Nat
  BY FS_CardinalityType
<1>2. Cardinality(S \cup {x}) = IF x \in S THEN Cardinality(S) ELSE Cardinality(S) + 1
  BY FS_AddElement
<1> QED
  BY <1>1, <1>2

\* The second look at the caps is under the lock that guards the insertion.
LEMMA AddStep == ASSUME ConnInv, NEW c \in Conns, AddConnection(c) PROVE ConnInv'
<1>1. AuthInv' /\ logouts' \subseteq Tokens /\ TasksOK' /\ SubscribersOpen'
  <2>1. AuthInv' /\ logouts' \subseteq Tokens
    BY DEF ConnInv, AddConnection, AuthInv, AuthTypeOK, BoughtConsumed, OneSessionPerChallenge,
           authVars
  <2>2. /\ phase' \in [Conns -> {"new", "upgraded", "open", "closed"}] /\ phase[c] = "upgraded"
        /\ \A d \in Conns : d # c => phase'[d] = phase[d]
    BY DEF ConnInv, AddConnection, TasksOK
  <2>3. TasksOK'
    BY <2>2 DEF ConnInv, AddConnection, TasksOK
  <2>4. SubscribersOpen'
    BY <2>2 DEF ConnInv, AddConnection, ManagerOK, SubscribersOpen
  <2> QED
    BY <2>1, <2>3, <2>4
<1>2. ManagerOK'
  <2>1. CASE CanAccept(c)
    <3>1. now \in 0..MaxNow
      BY DEF ConnInv, AuthInv, AuthTypeOK
    <3>2. IsFiniteSet(registered \cup {c})
      BY FS_AddElement DEF ConnInv, ManagerOK
    <3> QED
      BY <2>1, <3>1, <3>2 DEF ConnInv, ManagerOK, AddConnection
  <2>2. CASE ~ CanAccept(c)
    BY <2>2 DEF ConnInv, ManagerOK, AddConnection
  <2> QED
    BY <2>1, <2>2
<1>3. ConnectionsWithinCap'
  <2>1. CASE CanAccept(c)
    <3>1. registered' = registered \cup {c} /\ IsFiniteSet(registered)
      BY <2>1 DEF ConnInv, ManagerOK, AddConnection
    <3>2. Cardinality(registered') <= GlobalCap
      BY <2>1, <3>1, OneMore, ConnectionsAssumption DEF CanAccept
    <3>3. ASSUME NEW d \in registered' PROVE Cardinality(SameIp(d)') <= PerIpCap
      <4>1. CASE IpOf[d] = IpOf[c]
        <5>1. SameIp(d)' = SameIp(c) \cup {c}
          BY <3>1, <4>1 DEF SameIp
        <5>2. IsFiniteSet(SameIp(c))
          BY <3>1, FS_Subset DEF SameIp
        <5> QED
          BY <2>1, <5>1, <5>2, OneMore, ConnectionsAssumption DEF CanAccept
      <4>2. CASE IpOf[d] # IpOf[c]
        <5>1. SameIp(d)' = SameIp(d) /\ d \in registered
          BY <3>1, <3>3, <4>2 DEF SameIp
        <5> QED
          BY <5>1 DEF ConnInv, ConnectionsWithinCap
      <4> QED
        BY <4>1, <4>2
    <3> QED
      BY <3>2, <3>3 DEF ConnectionsWithinCap
  <2>2. CASE ~ CanAccept(c)
    BY <2>2 DEF ConnInv, ConnectionsWithinCap, SameIp, AddConnection
  <2> QED
    BY <2>1, <2>2
<1> QED
  BY <1>1, <1>2, <1>3 DEF ConnInv

\* A connection that another task removed meanwhile is not bound.
LEMMA BindStep == ASSUME ConnInv, NEW c \in Conns, SetAuthenticatedUser(c) PROVE ConnInv'
<1>1. task[c] \in [op : {"authenticate"}, found : Bindings]
  BY DEF ConnInv, TasksOK, Tasks, NoTask, SetAuthenticatedUser
<1>2. bound' \in [Conns -> Bindings] /\ \A d \in Conns \ registered : bound'[d] = Unbound
  BY <1>1 DEF ConnInv, ManagerOK, SetAuthenticatedUser
<1>3. ManagerOK' /\ ConnectionsWithinCap'
  BY <1>2 DEF ConnInv, ManagerOK, ConnectionsWithinCap, SameIp, SetAuthenticatedUser
<1>4. TasksOK' /\ SubscribersOpen'
  BY DEF ConnInv, TasksOK, Tasks, SubscribersOpen, SetAuthenticatedUser
<1>5. AuthInv' /\ logouts' \subseteq Tokens
  BY DEF ConnInv, SetAuthenticatedUser, AuthInv, AuthTypeOK, BoughtConsumed, OneSessionPerChallenge,
         authVars
<1> QED
  BY <1>3, <1>4, <1>5 DEF ConnInv

\* A subscription entered after the await is entered by a task that still runs.
LEMMA SubscribeStep == ASSUME ConnInv, NEW c \in Conns, Subscribe(c) PROVE ConnInv'
<1>1. task[c] \in [op : {"subscribe"}, channel : Channels] /\ phase[c] = "open"
  <2>1. task[c] \in Tasks /\ task[c].op = "subscribe" /\ (task[c] # NoTask => phase[c] = "open")
    BY DEF ConnInv, TasksOK, Subscribe
  <2> QED
    BY <2>1 DEF Tasks, NoTask
<1> DEFINE ch == task[c].channel
           others == IF ch \in DOMAIN subs THEN subs[ch] ELSE {}
<1>2. ch \in Channels /\ others \subseteq Conns
  BY <1>1 DEF ConnInv, ManagerOK
<1>3. \/ subs' = subs
      \/ subs' = [k \in DOMAIN subs \cup {ch} |-> IF k = ch THEN others \cup {c} ELSE subs[k]]
  BY DEF Subscribe, WithRow
<1>4. ManagerOK' /\ ConnectionsWithinCap'
  <2>1. DOMAIN subs' \subseteq Channels /\ subs' \in [DOMAIN subs' -> SUBSET Conns]
    BY <1>2, <1>3 DEF ConnInv, ManagerOK
  <2> QED
    BY <2>1 DEF ConnInv, ManagerOK, ConnectionsWithinCap, SameIp, Subscribe
<1>5. SubscribersOpen'
  <2>1. \A d \in others : phase[d] = "open"
    BY DEF ConnInv, SubscribersOpen
  <2>2. phase' = phase
    BY DEF Subscribe
  <2> HIDE DEF others, ch
  <2> QED
    BY <1>1, <1>3, <2>1, <2>2 DEF ConnInv, SubscribersOpen
<1>6. TasksOK'
  BY DEF ConnInv, TasksOK, Tasks, Subscribe
<1>7. AuthInv' /\ logouts' \subseteq Tokens
  BY DEF ConnInv, Subscribe, AuthInv, AuthTypeOK, BoughtConsumed, OneSessionPerChallenge, authVars
<1> QED
  BY <1>4, <1>5, <1>6, <1>7 DEF ConnInv

\* Unsubscribing, a pong, the sweep of an empty channel: no new subscriber.
LEMMA QuietStep ==
    ASSUME ConnInv,
           \/ \E c \in Conns : UpdateLastPong(c) \/ \E ch \in Channels : Unsubscribe(c, ch)
           \/ \E ch \in Channels : SweepChannel(ch)
           \/ \E t \in Tokens : LogoutTimesOut(t)
    PROVE  ConnInv'
<1>1. /\ UNCHANGED <<now, authVars, phase, task, registered, bound>>
      /\ logouts' \subseteq logouts /\ sweeps' \subseteq sweeps
  BY DEF UpdateLastPong, Unsubscribe, SweepChannel, LogoutTimesOut, managerVars
<1> DEFINE Narrower == /\ DOMAIN subs' \subseteq DOMAIN subs
                       /\ subs' \in [DOMAIN subs' -> SUBSET Conns]
                       /\ \A ch \in DOMAIN subs' : subs'[ch] \subseteq subs[ch]
<1>2. Narrower
  <2>1. ASSUME NEW c \in Conns, NEW ch \in Channels, Unsubscribe(c, ch) PROVE Narrower
    BY <2>1 DEF ConnInv, ManagerOK, Unsubscribe
  <2>2. ASSUME NEW ch \in Channels, SweepChannel(ch) PROVE Narrower
    BY <2>2 DEF ConnInv, ManagerOK, SweepChannel
  <2>3. ASSUME subs' = subs PROVE Narrower
    BY <2>3 DEF ConnInv, ManagerOK
  <2> QED
    BY <2>1, <2>2, <2>3 DEF UpdateLastPong, LogoutTimesOut, managerVars
<1>3. lastPong' \in [Conns -> 0..MaxNow]
  BY DEF ConnInv, ManagerOK, AuthInv, AuthTypeOK, UpdateLastPong, Unsubscribe, SweepChannel,
         LogoutTimesOut, managerVars
<1>4. ManagerOK' /\ ConnectionsWithinCap'
  BY <1>1, <1>2, <1>3 DEF ConnInv, ManagerOK, ConnectionsWithinCap, SameIp
<1>5. TasksOK' /\ SubscribersOpen'
  BY <1>1, <1>2 DEF ConnInv, TasksOK, SubscribersOpen
<1>6. AuthInv' /\ logouts' \subseteq Tokens
  BY <1>1 DEF ConnInv, AuthInv, AuthTypeOK, BoughtConsumed, OneSessionPerChallenge, authVars
<1> QED
  BY <1>4, <1>5, <1>6 DEF ConnInv

\* Whoever removes connections, only a task that leaves its loop closes, and it
\* removes itself in the same step.
LEMMA RemovalStep ==
    ASSUME ConnInv, NEW C \in SUBSET Conns, RemoveConnections(C),
           UNCHANGED <<now, authVars, task>>, logouts' \subseteq logouts,
           \/ UNCHANGED phase
           \/ \E c \in C : task[c] = NoTask /\ phase' = [phase EXCEPT ![c] = "closed"]
    PROVE  ConnInv'
<1>1. TablesOK' /\ \A ch \in DOMAIN subs' : \A d \in subs'[ch] : d \notin C /\ phase[d] = "open"
  BY Removal DEF ConnInv, TablesOK
<1>2. subs' \in [DOMAIN subs' -> SUBSET Conns]
  BY <1>1 DEF TablesOK, ManagerOK
<1>3. TasksOK'
  BY DEF ConnInv, TasksOK
<1>4. SubscribersOpen'
  BY <1>1, <1>2 DEF ConnInv, TasksOK, SubscribersOpen
<1>5. AuthInv' /\ logouts' \subseteq Tokens
  BY DEF ConnInv, AuthInv, AuthTypeOK, BoughtConsumed, OneSessionPerChallenge, authVars
<1> QED
  BY <1>1, <1>3, <1>4, <1>5 DEF ConnInv, TablesOK

\* The session store's own steps, and the revocation of a logout.
LEMMA StoreStepKeeps == ASSUME ConnInv, StoreStep \/ \E t \in Tokens : Logout(t) PROVE ConnInv'
<1>1. UNCHANGED <<phase, managerVars, task>> /\ logouts' \subseteq Tokens
  BY DEF ConnInv, StoreStep, Logout, connVars
<1>2. AuthNext
  BY DEF StoreStep, Logout, AuthNext
<1>3. AuthInv'
  BY <1>2, AuthStep DEF ConnInv
<1>4. ManagerOK' /\ ConnectionsWithinCap' /\ TasksOK' /\ SubscribersOpen'
  BY <1>1 DEF ConnInv, ManagerOK, ConnectionsWithinCap, SameIp, TasksOK, SubscribersOpen, managerVars
<1> QED
  BY <1>1, <1>3, <1>4 DEF ConnInv

\* Every step keeps the invariant.
LEMMA ConnNextKeeps == ConnInv /\ [ConnNext]_<<now, authVars, connVars>> => ConnInv'
<1> SUFFICES ASSUME ConnInv, [ConnNext]_<<now, authVars, connVars>> PROVE ConnInv'
  OBVIOUS
<1>1. ASSUME NEW c \in Conns, ConnStep(c) PROVE ConnInv'
  <2>1. ASSUME RevalidateSession(c) PROVE ConnInv'
    <3>1. BoundTo(bound[c].token) \cup {c} \in SUBSET Conns
      BY DEF BoundTo, ConnInv, ManagerOK
    <3> QED
      BY <2>1, <3>1, RemovalStep DEF RevalidateSession, Ready
  <2>2. ASSUME Close(c) \/ DropSlow(c) PROVE ConnInv'
    BY <2>2, RemovalStep DEF Close, DropSlow, Ready
  <2> QED
    BY <1>1, <2>1, <2>2, TaskStep, AddStep, BindStep, SubscribeStep, QuietStep DEF ConnStep
<1>2. ASSUME Heartbeat PROVE ConnInv'
  <2> DEFINE stale == {c \in registered : now - lastPong[c] > PongTimeout}
  <2>1. stale \in SUBSET Conns /\ RemoveConnections(stale)
    BY <1>2 DEF Heartbeat, ConnInv, ManagerOK
  <2> QED
    BY <1>2, <2>1, RemovalStep DEF Heartbeat
<1>3. ASSUME NEW t \in Tokens, DisconnectSession(t) PROVE ConnInv'
  <2>1. BoundTo(t) \in SUBSET Conns
    BY DEF BoundTo, ConnInv, ManagerOK
  <2> QED
    BY <1>3, <2>1, RemovalStep DEF DisconnectSession
<1>4. CASE UNCHANGED <<now, authVars, connVars>>
  BY <1>4 DEF ConnInv, AuthInv, AuthTypeOK, BoughtConsumed, OneSessionPerChallenge, authVars, connVars,
     managerVars, ManagerOK, ConnectionsWithinCap, SameIp, TasksOK, SubscribersOpen
<1> QED
  BY <1>1, <1>2, <1>3, <1>4, StoreStepKeeps, QuietStep DEF ConnNext

\* No connection yet.
LEMMA ConnStart == ConnInit => ConnInv
<1> SUFFICES ASSUME ConnInit PROVE ConnInv
  OBVIOUS
<1>1. AuthInv
  BY AuthStart DEF ConnInit
<1>2. registered = {} /\ IsFiniteSet({}) /\ Cardinality({}) = 0
  BY FS_EmptySet DEF ConnInit
<1>3. ConnectionsWithinCap
  BY <1>2, ConnectionsAssumption DEF ConnectionsWithinCap
<1>4. ManagerOK
  BY <1>2, MaxNowAssumption DEF ConnInit, ManagerOK, Bindings
<1>5. TasksOK /\ SubscribersOpen /\ logouts \subseteq Tokens
  BY DEF ConnInit, TasksOK, SubscribersOpen, Tasks
<1> QED
  BY <1>1, <1>3, <1>4, <1>5 DEF ConnInv

\* The manager of websocket/connection_manager.rs stays within its global cap and
\* its cap per address, for any caps, connections and interleavings of upgrades.
THEOREM CapsHold == ConnSpec => []ConnectionsWithinCap
<1>1. ConnSpec => []ConnInv
  BY ConnStart, ConnNextKeeps, PTL DEF ConnSpec
<1> QED
  BY <1>1, PTL DEF ConnInv

\* No connection that has ended is left in the subscription map, whoever removed
\* it and however its task was interleaved (websocket/handlers.rs).
THEOREM NoGhosts == ConnSpec => []NoGhostSubscriptions
<1>1. ConnSpec => []ConnInv
  BY ConnStart, ConnNextKeeps, PTL DEF ConnSpec
<1>2. ConnInv => NoGhostSubscriptions
  BY DEF ConnInv, SubscribersOpen, NoGhostSubscriptions
<1> QED
  BY <1>1, <1>2, PTL

\* The manager's tables and the tasks of the connections hold what
\* websocket/connection_manager.rs puts there, and nobody is bound who is not registered.
THEOREM ConnTypeCorrect == ConnSpec => []ConnTypeOK
<1>1. ConnSpec => []ConnInv
  BY ConnStart, ConnNextKeeps, PTL DEF ConnSpec
<1>2. ConnInv => ConnTypeOK
  <2> SUFFICES ASSUME ConnInv PROVE ConnTypeOK
    OBVIOUS
  <2>1. \E E \in SUBSET Channels : subs \in [E -> SUBSET Conns]
    BY DEF ConnInv, ManagerOK
  <2> QED
    BY <2>1 DEF ConnInv, AuthInv, ManagerOK, TasksOK, ConnTypeOK
<1> QED
  BY <1>1, <1>2, PTL

--------------------------------------------------------------------------------
(***************************************************************************)
(* Ingress.  For the permits the requests at work must be finitely many.   *)
(* For the rate, what a key was given is told from the start of its last   *)
(* bucket: nothing after that bucket's window, at most the limit in it, at *)
(* most the limit in the window's length before it.  A span that holds     *)
(* the present overlaps the two at most.                                   *)
(***************************************************************************)
Times == 0..MaxNow
Working == {r \in Requests : request[r] = "working"}
Span(a) == {s \in Times : a <= s /\ s < a + RateWindow}
ServedBy(a, k, S) == Total([s \in S |-> a[<<k, s>>]])
Served(k, S) == ServedBy(allowed, k, S)
OneMoreAt(a, k, t) ==
  \A i \in RateKeys, s \in Times :
    a[<<i, s>>] = IF i = k /\ s = t THEN allowed[<<i, s>>] + 1 ELSE allowed[<<i, s>>]

IngressTypes ==
  /\ now \in Times /\ allowed \in [RateKeys \X Times -> Nat]
  /\ permits \in Nat /\ orphans \in Nat /\ IsFiniteSet(Working)
  /\ request \in [Requests -> Stages]
  /\ DOMAIN rateBuckets \subseteq RateKeys
  /\ \A k \in DOMAIN rateBuckets : /\ rateBuckets[k] \in [started : Nat, used : Nat]
                                   /\ rateBuckets[k].started <= now

\* c is when the last bucket of key k was started.
LastStart(k, c) ==
  /\ \A s \in Times : s >= c + RateWindow => allowed[<<k, s>>] = 0
  /\ Served(k, Span(c)) <= RateLimit
  /\ Served(k, Span(c - RateWindow)) <= RateLimit
  /\ IF k \in DOMAIN rateBuckets
     THEN rateBuckets[k].started = c /\ rateBuckets[k].used = Served(k, Span(c))
     ELSE now >= c + RateWindow

RateInv == /\ RateHonoured
           /\ \A k \in RateKeys : \E c \in Int : LastStart(k, c)

\* What a key is served in a set of times, and in one that misses only idle times.
LEMMA ServedBound ==
    ASSUME allowed \in [RateKeys \X Times -> Nat], NEW k \in RateKeys,
           NEW S, S \subseteq Times, NEW T, T \subseteq Times,
           \A s \in S : s \in T \/ allowed[<<k, s>>] = 0
    PROVE  /\ Served(k, S) \in Nat /\ Served(k, T) \in Nat
           /\ Served(k, S) <= Served(k, T)
<1> DEFINE f == [s \in S |-> allowed[<<k, s>>]]
           g == [s \in T |-> allowed[<<k, s>>]]
<1>1. IsFiniteSet(S) /\ IsFiniteSet(T)
  <2>1. IsFiniteSet(Times)
    BY MaxNowAssumption, FS_Interval DEF Times
  <2> QED
    BY <2>1, FS_Subset
<1>2. f \in [S -> Nat] /\ g \in [T -> Nat]
  OBVIOUS
<1>3. /\ IsFiniteSet(Units(f)) /\ Total(f) \in Nat /\ IsFiniteSet(Units(g)) /\ Total(g) \in Nat
  BY <1>1, <1>2, TotalFinite
<1>4. ASSUME NEW u \in Units(f) PROVE u \in Units(g)
  <2>1. PICK s \in S : u \in {s} \X (1 .. f[s])
    BY DEF Units
  <2>2. f[s] = allowed[<<k, s>>] /\ f[s] \in Nat /\ f[s] # 0
    BY <2>1
  <2>3. s \in T /\ g[s] = f[s]
    BY <2>2
  <2> QED
    BY <2>1, <2>3 DEF Units
<1> HIDE DEF f, g
<1>5. Total(f) <= Total(g)
  BY <1>3, <1>4, FS_Subset DEF Total
<1> QED
  BY <1>3, <1>5 DEF Served, ServedBy, f, g

\* Two sets of times together.
LEMMA ServedUnion ==
    ASSUME allowed \in [RateKeys \X Times -> Nat], NEW k \in RateKeys,
           NEW S, S \subseteq Times, NEW T, T \subseteq Times
    PROVE  /\ Served(k, S \cup T) \in Nat
           /\ Served(k, S) \in Nat /\ Served(k, T) \in Nat
           /\ Served(k, S \cup T) <= Served(k, S) + Served(k, T)
<1> DEFINE U == S \cup T
           R == T \ S
           h == [s \in U |-> allowed[<<k, s>>]]
<1>1. IsFiniteSet(U)
  <2>1. IsFiniteSet(Times)
    BY MaxNowAssumption, FS_Interval DEF Times
  <2> QED
    BY <2>1, FS_Subset
<1>2. h \in [U -> Nat] /\ DOMAIN h = S \cup R /\ S \cap R = {}
  OBVIOUS
<1>3. IsFiniteSet(Units(h)) /\ Total(h) \in Nat
  BY <1>1, <1>2, TotalFinite
<1>4. /\ [s \in S |-> h[s]] = [s \in S |-> allowed[<<k, s>>]]
      /\ [s \in R |-> h[s]] = [s \in R |-> allowed[<<k, s>>]]
  OBVIOUS
<1> HIDE DEF h
<1>5. Total(h) = Total([s \in S |-> h[s]]) + Total([s \in R |-> h[s]])
  BY <1>2, <1>3, TotalSplit
<1>6. Served(k, U) = Served(k, S) + Served(k, R)
  BY <1>4, <1>5 DEF Served, ServedBy, h
<1>7. R \subseteq Times /\ \A s \in R : s \in T
  OBVIOUS
<1> HIDE DEF R, U
<1>8. Served(k, R) \in Nat /\ Served(k, T) \in Nat /\ Served(k, R) <= Served(k, T)
  BY <1>7, ServedBound
<1>9. Served(k, S) \in Nat
  BY ServedBound
<1> QED
  BY <1>6, <1>8, <1>9 DEF U

\* One more request of key k at time t.
LEMMA ServedMore ==
    ASSUME allowed \in [RateKeys \X Times -> Nat], NEW k \in RateKeys, NEW t \in Times,
           NEW a, OneMoreAt(a, k, t),
           NEW j \in RateKeys, NEW S, S \subseteq Times
    PROVE  /\ Served(j, S) \in Nat
           /\ ServedBy(a, j, S)
                = IF j = k /\ t \in S THEN Served(j, S) + 1 ELSE Served(j, S)
<1> DEFINE f == [s \in S |-> allowed[<<j, s>>]]
           g == [s \in S |-> a[<<j, s>>]]
<1>1. Served(j, S) \in Nat
  BY ServedBound
<1>2. CASE ~ (j = k /\ t \in S)
  <2>1. g = f
    BY <1>2 DEF OneMoreAt
  <2> QED
    BY <1>1, <1>2, <2>1 DEF Served, ServedBy
<1>3. CASE j = k /\ t \in S
  <2>1. f \in [S -> Nat] /\ g \in [S -> Nat] /\ g[t] = f[t] + 1 /\ (\A y \in S : y # t => g[y] = f[y])
        /\ S \cup {t} = S
    BY <1>3 DEF OneMoreAt
  <2>2. IsFiniteSet(S)
    <3>1. IsFiniteSet(Times)
      BY MaxNowAssumption, FS_Interval DEF Times
    <3> QED
      BY <3>1, FS_Subset
  <2>3. IsFiniteSet(Units(f))
    BY <2>1, <2>2, TotalFinite
  <2> HIDE DEF f, g
  <2>4. Differ(f, g, S, t) /\ At(f, S, t) = f[t] /\ f[t] \in Nat
    BY <1>3, <2>1, <2>3 DEF Differ, At
  <2>5. Total(g) = Total(f) + g[t] - f[t] /\ Total(f) \in Nat
    BY <2>4, TotalChange
  <2>6. Total(g) = Total(f) + 1
    BY <2>1, <2>4, <2>5
  <2> QED
    BY <1>1, <1>3, <2>6 DEF Served, ServedBy, f, g
<1> QED
  BY <1>2, <1>3

IngressInv == IngressTypes /\ PermitsConserved /\ RateInv

\* Buckets that are dropped have lapsed.
LEMMA KeptBuckets ==
    ASSUME IngressInv, rateBuckets' = rateBuckets \/ rateBuckets' = RetainLive,
           UNCHANGED <<now, allowed>>
    PROVE  /\ RateInv' /\ DOMAIN rateBuckets' \subseteq RateKeys
           /\ \A k \in DOMAIN rateBuckets' : /\ rateBuckets'[k] \in [started : Nat, used : Nat]
                                             /\ rateBuckets'[k].started <= now'
<1>1. \A k \in DOMAIN rateBuckets' : k \in DOMAIN rateBuckets /\ rateBuckets'[k] = rateBuckets[k]
  BY DEF RetainLive
<1>2. \A k \in DOMAIN rateBuckets \ DOMAIN rateBuckets' :
        rateBuckets[k].started \in Nat /\ now >= rateBuckets[k].started + RateWindow
  <2>1. ASSUME NEW k \in DOMAIN rateBuckets, k \notin DOMAIN rateBuckets'
        PROVE  rateBuckets[k].started \in Nat /\ now >= rateBuckets[k].started + RateWindow
    <3>1. ~ (now - rateBuckets[k].started < RateWindow)
      BY <2>1 DEF RetainLive, Fresh
    <3>2. rateBuckets[k].started \in Nat /\ now \in Nat /\ RateWindow \in Nat
      BY IngressAssumption DEF IngressInv, IngressTypes, Times
    <3> QED
      BY <3>1, <3>2
  <2> QED
    BY <2>1
<1>3. RateHonoured'
  BY DEF IngressInv, RateInv, RateHonoured
<1>4. ASSUME NEW k \in RateKeys, NEW c \in Int, LastStart(k, c) PROVE LastStart(k, c)'
  <2>1. /\ Served(k, Span(c))' = Served(k, Span(c))
        /\ Served(k, Span(c - RateWindow))' = Served(k, Span(c - RateWindow))
    BY DEF Served, ServedBy
  <2>2. k \in DOMAIN rateBuckets' => k \in DOMAIN rateBuckets
    BY <1>1
  <2>3. CASE k \in DOMAIN rateBuckets'
    BY <1>1, <1>4, <2>1, <2>3 DEF LastStart
  <2>4. CASE k \notin DOMAIN rateBuckets' /\ k \in DOMAIN rateBuckets
    BY <1>2, <1>4, <2>1, <2>4 DEF LastStart
  <2>5. CASE k \notin DOMAIN rateBuckets
    BY <1>4, <2>1, <2>2, <2>5 DEF LastStart
  <2> QED
    BY <2>3, <2>4, <2>5
<1>5. RateInv'
  BY <1>3, <1>4 DEF IngressInv, RateInv
<1> QED
  BY <1>1, <1>5 DEF IngressInv, IngressTypes

\* A key's own history is all that its record is about.
LEMMA OtherKey ==
    ASSUME IngressInv, NEW k \in RateKeys, NEW c \in Int, LastStart(k, c), now' >= now, now' \in Int,
           k \in DOMAIN rateBuckets' <=> k \in DOMAIN rateBuckets,
           k \in DOMAIN rateBuckets => rateBuckets'[k] = rateBuckets[k],
           \A s \in Times : allowed'[<<k, s>>] = allowed[<<k, s>>]
    PROVE  LastStart(k, c)'
<1>1. \A S \in SUBSET Times :
        [s \in S |-> allowed'[<<k, s>>]] = [s \in S |-> allowed[<<k, s>>]]
  OBVIOUS
<1>2. Span(c) \in SUBSET Times /\ Span(c - RateWindow) \in SUBSET Times
  BY DEF Span
<1>3. /\ Served(k, Span(c))' = Served(k, Span(c))
      /\ Served(k, Span(c - RateWindow))' = Served(k, Span(c - RateWindow))
  BY <1>1, <1>2 DEF Served, ServedBy
<1>4. now >= c + RateWindow => now' >= c + RateWindow
  BY IngressAssumption DEF IngressInv, IngressTypes, Times
<1> QED
  BY <1>3, <1>4 DEF LastStart

\* The start of the bucket a request is counted in: the one that is there, or now.
LEMMA BucketTaken ==
    ASSUME IngressInv, NEW k \in RateKeys, NEW b,
           b = IF k \in DOMAIN rateBuckets /\ Fresh(rateBuckets[k])
               THEN rateBuckets[k] ELSE [started |-> now, used |-> 0]
    PROVE  /\ b.started \in Int /\ b.started <= now /\ now < b.started + RateWindow
           /\ b.used \in Nat /\ b.used <= RateLimit
           /\ \A s \in Times : s >= b.started + RateWindow => allowed[<<k, s>>] = 0
           /\ Served(k, Span(b.started)) = b.used
           /\ Served(k, Span(b.started - RateWindow)) \in Nat
           /\ Served(k, Span(b.started - RateWindow)) <= RateLimit
<1>1. PICK c \in Int : LastStart(k, c)
  BY DEF IngressInv, RateInv
<1>2. now \in Nat /\ now \in Times /\ RateWindow \in Nat \ {0} /\ RateLimit \in Nat
      /\ allowed \in [RateKeys \X Times -> Nat]
  BY IngressAssumption DEF IngressInv, IngressTypes, Times
<1>3. \A a \in Int : Span(a) \subseteq Times /\ Served(k, Span(a)) \in Nat
  <2>1. ASSUME NEW a \in Int PROVE Span(a) \subseteq Times /\ Served(k, Span(a)) \in Nat
    <3>1. Span(a) \subseteq Times
      BY DEF Span
    <3> QED
      BY <1>2, <3>1, ServedBound
  <2> QED
    BY <2>1
<1>4. CASE k \in DOMAIN rateBuckets /\ Fresh(rateBuckets[k])
  <2>1. b = rateBuckets[k] /\ b.started = c
    BY <1>1, <1>4 DEF LastStart
  <2>2. now < c + RateWindow /\ c <= now
    BY <1>2, <1>4, <2>1 DEF Fresh, IngressInv, IngressTypes
  <2>3. b.used \in Nat /\ b.used = Served(k, Span(c)) /\ b.used <= RateLimit
    BY <1>1, <1>4, <2>1 DEF LastStart, IngressInv, IngressTypes
  <2>4. c - RateWindow \in Int
    BY <1>2
  <2> QED
    BY <1>1, <1>3, <2>1, <2>2, <2>3, <2>4 DEF LastStart
<1>5. CASE ~ (k \in DOMAIN rateBuckets /\ Fresh(rateBuckets[k]))
  <2>1. b.started = now /\ b.used = 0
    BY <1>5
  <2>2. now >= c + RateWindow
    BY <1>1, <1>2, <1>5 DEF LastStart, Fresh
  <2>3. \A s \in Times : s >= now => allowed[<<k, s>>] = 0
    BY <1>1, <1>2, <2>2 DEF LastStart, Times
  <2>4. Served(k, Span(now)) = 0
    <3>1. Span(now) \subseteq Times /\ \A s \in Span(now) : s \in {} \/ allowed[<<k, s>>] = 0
      BY <2>3 DEF Span
    <3> DEFINE none == {}
    <3>2. none \subseteq Times /\ Served(k, none) = 0
      <4>1. [s \in none |-> allowed[<<k, s>>]] \in [none -> Nat]
        OBVIOUS
      <4> QED
        BY <4>1, TotalZero DEF Served, ServedBy
    <3>3. \A s \in Span(now) : s \in none \/ allowed[<<k, s>>] = 0
      BY <3>1
    <3> HIDE DEF none
    <3>4. Served(k, Span(now)) <= Served(k, none) /\ Served(k, Span(now)) \in Nat
      BY <1>2, <3>1, <3>2, <3>3, ServedBound
    <3> QED
      BY <3>2, <3>4
  <2>5. Served(k, Span(now - RateWindow)) <= RateLimit
    <3>1. now - RateWindow \in Int /\ c <= now - RateWindow
      BY <1>2, <2>2
    <3>2. \A s \in Span(now - RateWindow) : s \in Span(c) \/ allowed[<<k, s>>] = 0
      <4>1. ASSUME NEW s \in Span(now - RateWindow), s < c + RateWindow PROVE s \in Span(c)
        BY <1>2, <3>1, <4>1 DEF Span, Times
      <4>2. ASSUME NEW s \in Span(now - RateWindow), ~ (s < c + RateWindow)
            PROVE  allowed[<<k, s>>] = 0
        BY <1>1, <1>2, <4>2 DEF Span, Times, LastStart
      <4> QED
        BY <4>1, <4>2
    <3>3. Served(k, Span(now - RateWindow)) <= Served(k, Span(c))
      BY <1>2, <1>3, <3>1, <3>2, ServedBound
    <3> QED
      BY <1>1, <1>2, <1>3, <3>1, <3>3 DEF LastStart
  <2>6. now - RateWindow \in Int /\ now < now + RateWindow
    BY <1>2
  <2>7. \A s \in Times : s >= now + RateWindow => s >= now
    BY <1>2 DEF Times
  <2> QED
    BY <1>2, <1>3, <2>1, <2>3, <2>4, <2>5, <2>6, <2>7
<1> QED
  BY <1>4, <1>5

\* A request is let through.
LEMMA CountKeepsRate ==
    ASSUME IngressInv, NEW k \in RateKeys, NEW b, Passes(b),
           b = IF k \in DOMAIN rateBuckets /\ Fresh(rateBuckets[k])
               THEN rateBuckets[k] ELSE [started |-> now, used |-> 0],
           DOMAIN rateBuckets' = DOMAIN rateBuckets \cup {k},
           \A j \in DOMAIN rateBuckets : j # k => rateBuckets'[j] = rateBuckets[j],
           rateBuckets'[k].started = b.started, rateBuckets'[k].used = b.used + 1,
           allowed' = [allowed EXCEPT ![<<k, now>>] = @ + 1], UNCHANGED now
    PROVE  RateInv'
<1> DEFINE c == b.started
<1>1. /\ c \in Int /\ c <= now /\ now < c + RateWindow
      /\ b.used \in Nat /\ b.used <= RateLimit
      /\ \A s \in Times : s >= c + RateWindow => allowed[<<k, s>>] = 0
      /\ Served(k, Span(c)) = b.used
      /\ Served(k, Span(c - RateWindow)) \in Nat
      /\ Served(k, Span(c - RateWindow)) <= RateLimit
  BY BucketTaken
<1>2. now \in Nat /\ now \in Times /\ RateWindow \in Nat \ {0} /\ RateLimit \in Nat
      /\ allowed \in [RateKeys \X Times -> Nat]
  BY IngressAssumption DEF IngressInv, IngressTypes, Times
<1>3. b.used < RateLimit
  BY DEF Passes
<1> HIDE DEF c
<1>4. /\ \A a \in Int : Span(a) \subseteq Times
      /\ c - RateWindow \in Int
  BY <1>1, <1>2 DEF Span
<1>5. \A j \in RateKeys : \A S \in SUBSET Times :
        /\ Served(j, S) \in Nat
        /\ Served(j, S)' = IF j = k /\ now \in S THEN Served(j, S) + 1 ELSE Served(j, S)
  <2>1. ASSUME NEW j \in RateKeys, NEW S \in SUBSET Times
        PROVE  /\ Served(j, S) \in Nat
               /\ ServedBy(allowed', j, S)
                    = IF j = k /\ now \in S THEN Served(j, S) + 1 ELSE Served(j, S)
    <3>1. OneMoreAt(allowed', k, now)
      BY <1>2 DEF OneMoreAt
    <3>2. allowed \in [RateKeys \X Times -> Nat] /\ now \in Times /\ S \subseteq Times
      BY <1>2
    <3> DEFINE a == allowed'
    <3>3. OneMoreAt(a, k, now)
      BY <3>1
    <3> HIDE DEF a
    <3>4. /\ Served(j, S) \in Nat
          /\ ServedBy(a, j, S) = IF j = k /\ now \in S THEN Served(j, S) + 1 ELSE Served(j, S)
      BY ONLY <3>2, <3>3, ServedMore, k \in RateKeys, j \in RateKeys
    <3> QED
      BY <3>4 DEF a
  <2> QED
    BY <2>1 DEF Served
<1>6. now \in Span(c) /\ now \notin Span(c - RateWindow)
  BY <1>1, <1>2 DEF Span
<1>7. \A s \in Times : s >= c + RateWindow => allowed'[<<k, s>>] = 0
  <2>1. ASSUME NEW s \in Times, s >= c + RateWindow PROVE allowed'[<<k, s>>] = allowed[<<k, s>>]
    <3>1. s # now
      BY <1>1, <1>2, <2>1 DEF Times
    <3> QED
      BY <1>2, <3>1
  <2> QED
    BY <1>1, <2>1
<1>8. LastStart(k, c)'
  <2>1. Served(k, Span(c))' = b.used + 1 /\ b.used + 1 <= RateLimit
    BY <1>1, <1>2, <1>3, <1>4, <1>5, <1>6
  <2>2. Served(k, Span(c - RateWindow))' = Served(k, Span(c - RateWindow))
    BY <1>4, <1>5, <1>6
  <2>3. k \in DOMAIN rateBuckets' /\ rateBuckets'[k].started = c
    BY DEF c
  <2> QED
    BY <1>1, <1>7, <2>1, <2>2, <2>3 DEF LastStart
<1>9. ASSUME NEW j \in RateKeys PROVE \E d \in Int : LastStart(j, d)'
  <2>1. CASE j = k
    BY <1>1, <1>8, <2>1
  <2>2. CASE j # k
    <3>1. PICK d \in Int : LastStart(j, d)
      BY DEF IngressInv, RateInv
    <3>2. \A s \in Times : allowed'[<<j, s>>] = allowed[<<j, s>>]
      BY <1>2, <2>2
    <3>3. j \in DOMAIN rateBuckets' <=> j \in DOMAIN rateBuckets
      BY <2>2
    <3>4. now' >= now /\ now' \in Int
      BY <1>2
    <3>5. LastStart(j, d)'
      BY <2>2, <3>1, <3>2, <3>3, <3>4, OtherKey
    <3> QED
      BY <3>5
  <2> QED
    BY <2>1, <2>2
<1>10. ASSUME NEW j \in RateKeys, NEW t \in Times PROVE Served(j, Span(t))' <= 2 * RateLimit
  <2>1. t \in Int /\ t \in Nat /\ Span(t) \in SUBSET Times /\ Span(c) \in SUBSET Times
        /\ Span(c - RateWindow) \in SUBSET Times
    BY <1>1, <1>4 DEF Times
  <2>2. Served(j, Span(t)) \in Nat /\ Served(j, Span(t)) <= 2 * RateLimit
    BY <1>5, <2>1 DEF IngressInv, RateInv, RateHonoured, Served, ServedBy, Span, Times
  <2>3. CASE ~ (j = k /\ now \in Span(t))
    BY <1>5, <2>1, <2>2, <2>3
  <2>4. CASE j = k /\ now \in Span(t)
    <3>1. Served(k, Span(t))' = Served(k, Span(t)) + 1
      BY <1>5, <2>1, <2>4
    <3>2. \A s \in Span(t) : \/ s \in Span(c - RateWindow) \cup Span(c)
                             \/ allowed[<<k, s>>] = 0
      <4>1. now < t + RateWindow
        BY <2>4 DEF Span
      <4>2. ASSUME NEW s \in Span(t), ~ (s >= c + RateWindow)
            PROVE  s \in Span(c - RateWindow) \cup Span(c)
        <5>1. s \in Nat /\ s \in Times /\ t <= s
          BY DEF Span, Times
        <5>2. c - RateWindow <= s
          BY <1>1, <1>2, <2>1, <4>1, <5>1
        <5>3. s < c + RateWindow /\ (s < c \/ c <= s) /\ (c - RateWindow) + RateWindow = c
          BY <1>1, <1>2, <4>2, <5>1
        <5> QED
          BY <1>1, <1>2, <5>1, <5>2, <5>3 DEF Span
      <4> QED
        BY <1>1, <2>1, <4>2
    <3>3. Served(k, Span(t)) <= Served(k, Span(c - RateWindow) \cup Span(c))
      BY <1>2, <2>1, <3>2, ServedBound
    <3>4. /\ Served(k, Span(c - RateWindow) \cup Span(c)) \in Nat
          /\ Served(k, Span(c - RateWindow) \cup Span(c))
               <= Served(k, Span(c - RateWindow)) + Served(k, Span(c))
      BY <1>2, <2>1, ServedUnion
    <3>5. Served(k, Span(t)) <= RateLimit + b.used
      BY <1>1, <1>2, <2>2, <2>4, <3>3, <3>4
    <3> QED
      BY <1>1, <1>2, <1>3, <2>2, <2>4, <3>1, <3>5
  <2> QED
    BY <2>3, <2>4
<1>11. RateHonoured'
  BY <1>10 DEF RateHonoured, Served, ServedBy, Span, Times
<1> QED
  BY <1>9, <1>11 DEF RateInv

\* What the limiter does not touch keeps the rates.
LEMMA RateKept ==
    ASSUME IngressInv, UNCHANGED <<rateBuckets, allowed>>, now' >= now, now' \in Int
    PROVE  RateInv'
<1>1. RateHonoured'
  BY DEF IngressInv, RateInv, RateHonoured
<1>2. ASSUME NEW k \in RateKeys PROVE \E c \in Int : LastStart(k, c)'
  <2>1. PICK c \in Int : LastStart(k, c)
    BY DEF IngressInv, RateInv
  <2>2. LastStart(k, c)'
    BY <2>1, OtherKey
  <2> QED
    BY <2>2
<1> QED
  BY <1>1, <1>2 DEF RateInv

\* A request that takes or leaves a place among those at work.
LEMMA WorkStep ==
    ASSUME IngressInv, NEW r \in Requests, NEW stage \in Stages,
           request' = [request EXCEPT ![r] = stage]
    PROVE  /\ request' \in [Requests -> Stages] /\ IsFiniteSet(Working')
           /\ Cardinality(Working) \in Nat /\ Cardinality(Working') \in Nat
           /\ request[r] # "working" /\ stage # "working" =>
                Cardinality(Working') = Cardinality(Working)
           /\ request[r] # "working" /\ stage = "working" =>
                Cardinality(Working') = Cardinality(Working) + 1
           /\ request[r] = "working" /\ stage # "working" =>
                Cardinality(Working') = Cardinality(Working) - 1
<1>1. request \in [Requests -> Stages] /\ IsFiniteSet(Working)
  BY DEF IngressInv, IngressTypes
<1>2. request' \in [Requests -> Stages]
  BY <1>1
<1>3. CASE request[r] # "working" /\ stage # "working"
  <2>1. Working' = Working
    BY <1>1, <1>3 DEF Working
  <2> QED
    BY <1>1, <1>2, <1>3, <2>1, FS_CardinalityType
<1>4. CASE request[r] # "working" /\ stage = "working"
  <2>1. Working' = Working \cup {r} /\ r \notin Working
    BY <1>1, <1>4 DEF Working
  <2> QED
    BY <1>1, <1>2, <1>4, <2>1, FS_AddElement, FS_CardinalityType
<1>5. CASE request[r] = "working" /\ stage # "working"
  <2>1. Working' = Working \ {r} /\ r \in Working
    BY <1>1, <1>5 DEF Working
  <2> QED
    BY <1>1, <1>2, <1>5, <2>1, FS_RemoveElement, FS_CardinalityType
<1>6. CASE request[r] = "working" /\ stage = "working"
  <2>1. Working' = Working
    BY <1>1, <1>6 DEF Working
  <2> QED
    BY <1>1, <1>2, <1>6, <2>1, FS_CardinalityType
<1> QED
  BY <1>3, <1>4, <1>5, <1>6

\* A step of a request that leaves the limiter alone.
LEMMA PermitStep ==
    ASSUME IngressInv, UNCHANGED <<now, rateBuckets, allowed>>,
           permits' \in Nat, orphans' \in Nat, request' \in [Requests -> Stages],
           IsFiniteSet(Working'),
           permits' + orphans' + Cardinality(Working') = DbConcurrency
    PROVE  IngressInv'
<1>1. RateInv'
  BY RateKept DEF IngressInv, IngressTypes, Times
<1>2. IngressTypes'
  BY DEF IngressInv, IngressTypes
<1>3. PermitsConserved'
  BY DEF PermitsConserved, Working
<1> QED
  BY <1>1, <1>2, <1>3 DEF IngressInv

\* Every step keeps the invariant.
LEMMA IngressStep == IngressInv /\ [IngressNext]_<<now, ingressVars>> => IngressInv'
<1> SUFFICES ASSUME IngressInv, [IngressNext]_<<now, ingressVars>> PROVE IngressInv'
  OBVIOUS
<1>1. /\ permits \in Nat /\ orphans \in Nat /\ now \in Times /\ now \in Nat
      /\ request \in [Requests -> Stages] /\ IsFiniteSet(Working)
      /\ Cardinality(Working) \in Nat
      /\ permits + orphans + Cardinality(Working) = DbConcurrency
  BY FS_CardinalityType DEF IngressInv, IngressTypes, PermitsConserved, Working, Times
<1>2. {"idle", "allowed", "working"} \subseteq Stages /\ RateKeys \subseteq Stages
      /\ RateKeys \cap {"idle", "allowed", "working"} = {} /\ DbConcurrency \in Nat
  BY IngressAssumption DEF Stages
<1>3. ASSUME NEW r \in Requests, NEW key \in RateKeys, EnterLimiter(r, key) PROVE IngressInv'
  <2>1. /\ request[r] = "idle" /\ UNCHANGED <<now, permits, orphans, allowed>>
        /\ rateBuckets' = rateBuckets \/ rateBuckets' = RetainLive
        /\ request' = request \/ request' = [request EXCEPT ![r] = key]
    BY <1>3 DEF EnterLimiter
  <2>2. request' = [request EXCEPT ![r] = key] \/ request' = [request EXCEPT ![r] = "idle"]
    BY <1>1, <2>1
  <2>3. /\ request' \in [Requests -> Stages] /\ IsFiniteSet(Working')
        /\ Cardinality(Working') = Cardinality(Working)
    BY <1>2, <2>1, <2>2, WorkStep
  <2>4. /\ RateInv' /\ DOMAIN rateBuckets' \subseteq RateKeys
        /\ \A k \in DOMAIN rateBuckets' : /\ rateBuckets'[k] \in [started : Nat, used : Nat]
                                          /\ rateBuckets'[k].started <= now'
    BY <2>1, KeptBuckets
  <2>5. IngressTypes'
    BY <2>1, <2>3, <2>4 DEF IngressInv, IngressTypes
  <2>6. PermitsConserved'
    BY <1>1, <2>1, <2>3 DEF PermitsConserved, Working
  <2> QED
    BY <2>4, <2>5, <2>6 DEF IngressInv
<1>4. ASSUME NEW r \in Requests, CountRequest(r) PROVE IngressInv'
  <2> DEFINE k == request[r]
             b == IF k \in DOMAIN rateBuckets /\ Fresh(rateBuckets[k])
                  THEN rateBuckets[k] ELSE [started |-> now, used |-> 0]
             nb == IF Passes(b) THEN [b EXCEPT !.used = @ + 1] ELSE b
  <2>1. /\ k \in RateKeys /\ UNCHANGED <<now, permits, orphans>>
        /\ rateBuckets' = [j \in DOMAIN rateBuckets \cup {k} |->
                             IF j # k THEN rateBuckets[j] ELSE nb]
        /\ request' = [request EXCEPT ![r] = IF Passes(b) THEN "allowed" ELSE "idle"]
        /\ allowed' = IF Passes(b) THEN [allowed EXCEPT ![<<k, now>>] = @ + 1] ELSE allowed
    BY <1>4 DEF CountRequest
  <2>2. k # "working"
    BY <1>2, <2>1
  <2>3. b \in [started : Nat, used : Nat] /\ b.started <= now
    BY <1>1 DEF IngressInv, IngressTypes
  <2>4. nb \in [started : Nat, used : Nat] /\ nb.started = b.started
        /\ nb.used = IF Passes(b) THEN b.used + 1 ELSE b.used
    <3> HIDE DEF b
    <3>1. /\ [b EXCEPT !.used = @ + 1] = [started |-> b.started, used |-> b.used + 1]
          /\ b.used + 1 \in Nat
      BY <2>3
    <3> QED
      BY <2>3, <3>1
  <2>5. request' \in [Requests -> Stages] /\ IsFiniteSet(Working')
        /\ Cardinality(Working') = Cardinality(Working)
    <3> HIDE DEF b
    <3>1. CASE Passes(b)
      BY <1>2, <2>1, <2>2, <3>1, WorkStep
    <3>2. CASE ~ Passes(b)
      BY <1>2, <2>1, <2>2, <3>2, WorkStep
    <3> QED
      BY <3>1, <3>2
  <2> HIDE DEF nb
  <2>6. /\ DOMAIN rateBuckets' = DOMAIN rateBuckets \cup {k} /\ rateBuckets'[k] = nb
        /\ \A j \in DOMAIN rateBuckets : j # k => rateBuckets'[j] = rateBuckets[j]
    BY <2>1
  <2>7. RateInv'
    <3>1. CASE Passes(b)
      <4>1. allowed' = [allowed EXCEPT ![<<k, now>>] = @ + 1] /\ nb.used = b.used + 1
        BY <2>1, <2>4, <3>1
      <4> QED
        BY <2>1, <2>4, <2>6, <3>1, <4>1, CountKeepsRate
    <3>2. CASE ~ Passes(b)
      <4>1. allowed' = allowed /\ nb = b
        BY <2>1, <3>2 DEF nb
      <4> HIDE DEF b, k
      <4>2. /\ b.started \in Int /\ b.used <= RateLimit
            /\ \A s \in Times : s >= b.started + RateWindow => allowed[<<k, s>>] = 0
            /\ Served(k, Span(b.started)) = b.used
            /\ Served(k, Span(b.started - RateWindow)) <= RateLimit
        BY <2>1, BucketTaken DEF b
      <4>3. PICK i \in RateKeys, c \in Int : i = k /\ c = b.started
        BY <2>1, <4>2
      <4>4. LastStart(i, c)'
        BY <2>6, <4>1, <4>2, <4>3 DEF LastStart, Served
      <4>5. ASSUME NEW j \in RateKeys, j # k PROVE \E d \in Int : LastStart(j, d)'
        <5>1. PICK d \in Int : LastStart(j, d)
          BY DEF IngressInv, RateInv
        <5>2. LastStart(j, d)'
          BY <1>1, <2>1, <2>6, <4>1, <4>5, <5>1, OtherKey
        <5> QED
          BY <5>2
      <4>6. RateHonoured'
        BY <4>1 DEF IngressInv, RateInv, RateHonoured
      <4> QED
        BY <4>3, <4>4, <4>5, <4>6 DEF RateInv
    <3> QED
      BY <3>1, <3>2
  <2>8. IngressTypes'
    <3>1. allowed' \in [RateKeys \X Times -> Nat]
      BY <1>1, <2>1 DEF IngressInv, IngressTypes
    <3>2. \A j \in DOMAIN rateBuckets' : /\ rateBuckets'[j] \in [started : Nat, used : Nat]
                                         /\ rateBuckets'[j].started <= now
      <4> HIDE DEF b, k
      <4> QED
        BY <2>3, <2>4, <2>6 DEF IngressInv, IngressTypes
    <3> QED
      BY <2>1, <2>5, <2>6, <3>1, <3>2 DEF IngressInv, IngressTypes
  <2>9. PermitsConserved'
    BY <1>1, <2>1, <2>5 DEF PermitsConserved, Working
  <2> QED
    BY <2>7, <2>8, <2>9 DEF IngressInv
<1>5. ASSUME NEW r \in Requests, StartWork(r) PROVE IngressInv'
  <2>1. request[r] = "allowed" /\ UNCHANGED <<now, rateBuckets, orphans, allowed>>
    BY <1>5 DEF StartWork
  <2>2. CASE permits > 0
    <3>1. permits' = permits - 1 /\ request' = [request EXCEPT ![r] = "working"]
      BY <1>5, <2>2 DEF StartWork
    <3>2. /\ request' \in [Requests -> Stages] /\ IsFiniteSet(Working')
          /\ Cardinality(Working') = Cardinality(Working) + 1
      BY <1>2, <2>1, <3>1, WorkStep
    <3>3. permits' \in Nat /\ permits' + orphans' + Cardinality(Working') = DbConcurrency
      BY <1>1, <2>1, <2>2, <3>1, <3>2
    <3> QED
      BY <1>1, <2>1, <3>2, <3>3, PermitStep
  <2>3. CASE ~ (permits > 0)
    <3>1. permits' = permits /\ request' = [request EXCEPT ![r] = "idle"]
      BY <1>5, <2>3 DEF StartWork
    <3>2. /\ request' \in [Requests -> Stages] /\ IsFiniteSet(Working')
          /\ Cardinality(Working') = Cardinality(Working)
      BY <1>2, <2>1, <3>1, WorkStep
    <3> QED
      BY <1>1, <2>1, <3>1, <3>2, PermitStep
  <2> QED
    BY <2>2, <2>3
<1>6. ASSUME NEW r \in Requests, FinishWork(r) \/ RequestTimesOut(r) PROVE IngressInv'
  <2>1. /\ request[r] = "working" /\ UNCHANGED <<now, rateBuckets, allowed>>
        /\ request' = [request EXCEPT ![r] = "idle"]
        /\ permits' + orphans' = permits + orphans + 1
        /\ permits' \in Nat /\ orphans' \in Nat
    BY <1>1, <1>6 DEF FinishWork, RequestTimesOut
  <2>2. /\ request' \in [Requests -> Stages] /\ IsFiniteSet(Working')
        /\ Cardinality(Working') = Cardinality(Working) - 1
    BY <1>2, <2>1, WorkStep
  <2>3. permits' + orphans' + Cardinality(Working') = DbConcurrency
    BY <1>1, <2>1, <2>2
  <2> QED
    BY <2>1, <2>2, <2>3, PermitStep
<1>7. CASE OrphanFinishes
  <2>1. /\ permits' \in Nat /\ orphans' \in Nat /\ permits' + orphans' = permits + orphans
        /\ UNCHANGED <<now, rateBuckets, request, allowed>>
    BY <1>1, <1>7 DEF OrphanFinishes
  <2>2. Working' = Working
    BY <2>1 DEF Working
  <2>3. permits' + orphans' + Cardinality(Working') = DbConcurrency
    BY <1>1, <2>1, <2>2
  <2> QED
    BY <1>1, <2>1, <2>2, <2>3, PermitStep
<1>8. CASE IngressTick
  <2>1. now < MaxNow /\ now' = now + 1 /\ UNCHANGED <<rateBuckets, permits, request, orphans, allowed>>
    BY <1>8 DEF IngressTick, ClockAdvances, ingressVars
  <2>2. now' \in Times /\ now' >= now /\ now' \in Int
    BY <1>1, <2>1, MaxNowAssumption DEF Times
  <2>3. RateInv'
    BY <2>1, <2>2, RateKept
  <2>4. \A k \in DOMAIN rateBuckets : rateBuckets[k].started <= now'
    <3>1. \A k \in DOMAIN rateBuckets : rateBuckets[k].started <= now /\ rateBuckets[k].started \in Nat
      BY DEF IngressInv, IngressTypes
    <3> QED
      BY <1>1, <2>1, <3>1
  <2>5. IngressTypes'
    <3>1. Working' = Working
      BY <2>1 DEF Working
    <3> QED
      BY <2>1, <2>2, <2>4, <3>1 DEF IngressInv, IngressTypes
  <2>6. PermitsConserved'
    BY <2>1 DEF IngressInv, PermitsConserved
  <2> QED
    BY <2>3, <2>5, <2>6 DEF IngressInv
<1>9. CASE UNCHANGED <<now, ingressVars>>
  <2>1. UNCHANGED <<now, rateBuckets, permits, request, orphans, allowed>>
    BY <1>9 DEF ingressVars
  <2>2. Working' = Working
    BY <2>1 DEF Working
  <2> QED
    BY <1>1, <2>1, <2>2, PermitStep
<1> QED
  BY <1>3, <1>4, <1>5, <1>6, <1>7, <1>8, <1>9 DEF IngressNext

\* An idle server satisfies it.
LEMMA IngressStart == IngressInit => IngressInv
<1> SUFFICES ASSUME IngressInit PROVE IngressInv
  OBVIOUS
<1>1. /\ now = 0 /\ now \in Times /\ permits = DbConcurrency /\ DbConcurrency \in Nat /\ orphans = 0
      /\ DOMAIN rateBuckets = {} /\ RateWindow \in Nat \ {0} /\ RateLimit \in Nat
      /\ request \in [Requests -> Stages]
      /\ allowed \in [RateKeys \X Times -> Nat]
      /\ \A k \in RateKeys, s \in Times : allowed[<<k, s>>] = 0
  BY IngressAssumption, MaxNowAssumption DEF IngressInit, NoBucket, Times, Stages
<1>2. Working = {}
  BY DEF IngressInit, Working
<1>3. IngressTypes
  BY <1>1, <1>2, FS_EmptySet DEF IngressTypes
<1>4. PermitsConserved
  <2>1. Cardinality(Working) = 0
    BY <1>2, FS_EmptySet
  <2> QED
    BY <1>1, <2>1 DEF PermitsConserved, Working
<1>5. ASSUME NEW k \in RateKeys, NEW S \in SUBSET Times PROVE Served(k, S) = 0
  <2>1. [s \in S |-> allowed[<<k, s>>]] \in [S -> Nat]
    BY <1>1
  <2>2. \A s \in S : [x \in S |-> allowed[<<k, x>>]][s] = 0
    BY <1>1
  <2> QED
    BY <2>1, <2>2, TotalZero DEF Served, ServedBy
<1>6. ASSUME NEW k \in RateKeys PROVE LastStart(k, 0 - RateWindow)
  <2>1. \A a \in Int : Span(a) \in SUBSET Times
    BY DEF Span
  <2>2. /\ Served(k, Span(0 - RateWindow)) = 0
        /\ Served(k, Span((0 - RateWindow) - RateWindow)) = 0
    BY <1>1, <1>5, <2>1
  <2> QED
    BY <1>1, <2>2 DEF LastStart
<1>7. RateHonoured
  <2>1. ASSUME NEW k \in RateKeys, NEW t \in Times PROVE Served(k, Span(t)) <= 2 * RateLimit
    <3>1. Served(k, Span(t)) = 0
      BY <1>5 DEF Span
    <3> QED
      BY <1>1, <3>1
  <2> QED
    BY <2>1 DEF RateHonoured, Served, ServedBy, Span, Times
<1>8. RateInv
  <2>1. 0 - RateWindow \in Int
    BY <1>1
  <2> QED
    BY <1>6, <1>7, <2>1 DEF RateInv
<1> QED
  BY <1>3, <1>4, <1>8 DEF IngressInv

\* A key is let through at most twice its limit in any span of the window's length,
\* for any number of keys, requests and evictions (IngressState::allow).
THEOREM RateLimitHolds == IngressSpec => []RateHonoured
<1>1. IngressInv => RateHonoured
  BY DEF IngressInv, RateInv
<1> QED
  BY <1>1, IngressStart, IngressStep, PTL DEF IngressSpec

\* No permit is lost or made, whatever requests time out over their work
\* (WorkLimits::database).
THEOREM PermitsAccounted == IngressSpec => []PermitsConserved
<1>1. IngressInv => PermitsConserved
  BY DEF IngressInv
<1> QED
  BY <1>1, IngressStart, IngressStep, PTL DEF IngressSpec

\* The table of buckets is a map from its keys.
BucketsMap == rateBuckets = [k \in DOMAIN rateBuckets |-> rateBuckets[k]]

\* Every step that touches the table leaves a map.
LEMMA BucketsStayMap == BucketsMap /\ [IngressNext]_<<now, ingressVars>> => BucketsMap'
<1> SUFFICES ASSUME BucketsMap, [IngressNext]_<<now, ingressVars>> PROVE BucketsMap'
  OBVIOUS
<1>1. ASSUME NEW S, NEW f, rateBuckets' = [k \in S |-> f[k]] PROVE BucketsMap'
  BY <1>1 DEF BucketsMap
<1>2. CASE rateBuckets' = rateBuckets
  BY <1>2 DEF BucketsMap
<1>3. ASSUME NEW r \in Requests, NEW key \in RateKeys, EnterLimiter(r, key) PROVE BucketsMap'
  <2>1. rateBuckets' = rateBuckets \/ rateBuckets' = RetainLive
    BY <1>3 DEF EnterLimiter
  <2> QED
    BY <1>2, <2>1 DEF RetainLive, BucketsMap
<1>4. ASSUME NEW r \in Requests, CountRequest(r) PROVE BucketsMap'
  BY <1>4 DEF CountRequest, BucketsMap
<1> QED
  BY <1>2, <1>3, <1>4 DEF IngressNext, StartWork, FinishWork, RequestTimesOut, OrphanFinishes,
     IngressTick, ingressVars

\* A bucket never counts past the limit, nor are there more permits or dropped
\* jobs than the pool has (IngressState::buckets, WorkLimits::db): all three follow
\* from what the two theorems above need.
THEOREM IngressTypeCorrect == IngressSpec => []IngressTypeOK
<1>1. IngressInv /\ BucketsMap => IngressTypeOK
  <2> SUFFICES ASSUME IngressInv, BucketsMap PROVE IngressTypeOK
    OBVIOUS
  <2>1. /\ now \in Times /\ allowed \in [RateKeys \X Times -> Nat] /\ permits \in Nat
        /\ orphans \in Nat /\ request \in [Requests -> Stages]
        /\ DOMAIN rateBuckets \subseteq RateKeys /\ DbConcurrency \in Nat
        /\ RateLimit \in Nat /\ MaxNow \in Nat
    BY IngressAssumption, MaxNowAssumption DEF IngressInv, IngressTypes
  <2>2. Cardinality(Working) \in Nat
    BY FS_CardinalityType DEF IngressInv, IngressTypes
  <2>3. permits + orphans + Cardinality(Working) = DbConcurrency
    BY DEF IngressInv, PermitsConserved, Working
  <2>4. permits \in 0..DbConcurrency /\ orphans \in 0..DbConcurrency
    BY <2>1, <2>2, <2>3
  <2>5. ASSUME NEW k \in DOMAIN rateBuckets
        PROVE  rateBuckets[k] \in [started : 0..MaxNow, used : 0..RateLimit]
    <3>1. /\ rateBuckets[k] \in [started : Nat, used : Nat]
          /\ rateBuckets[k].started <= now
      BY <2>5 DEF IngressInv, IngressTypes
    <3>2. PICK c \in Int : LastStart(k, c)
      BY <2>1, <2>5 DEF IngressInv, RateInv
    <3>3. rateBuckets[k].used <= RateLimit
      BY <2>5, <3>2 DEF LastStart
    <3>4. /\ rateBuckets[k].started \in 0..MaxNow
          /\ rateBuckets[k].used \in 0..RateLimit
      BY <2>1, <3>1, <3>3 DEF Times
    <3> QED
      BY <3>1, <3>4
  <2>6. PICK b : b = rateBuckets
    OBVIOUS
  <2>7. b \in [DOMAIN b -> [started : 0..MaxNow, used : 0..RateLimit]]
    <3>1. b = [k \in DOMAIN b |-> b[k]]
      BY <2>6 DEF BucketsMap
    <3> QED
      BY <2>5, <2>6, <3>1
  <2> QED
    BY <2>1, <2>4, <2>6, <2>7 DEF IngressTypeOK, Times
<1>2. IngressInit => BucketsMap
  BY DEF IngressInit, NoBucket, BucketsMap
<1> QED
  BY <1>1, <1>2, IngressStart, IngressStep, BucketsStayMap, PTL DEF IngressSpec

--------------------------------------------------------------------------------
(***************************************************************************)
(* Admission.  The distinctness of leases needs that a lease's nonce is    *)
(* behind the counter, the durability of what was told that a request      *)
(* which answers finds its rows.                                           *)
(***************************************************************************)
\* A lease took its nonce from the counter, which has moved on.
LeasesSpent ==
  \A c \in DOMAIN leases : leases[c].nonce < nextNonce[leases[c].user]

\* A request whose order was not refused finds its rows when it answers.
AnswersBacked ==
  \A a \in Attempts :
    attempt[a].stage = "answered" /\ attempt[a].result # "refused" =>
      /\ attempt[a].cid \in DOMAIN reservations
      /\ durable[reservations[attempt[a].cid].order] # "none"

\* An order id is in a reservation only when its own request is past the job.
OrdersSpent ==
  \A c \in DOMAIN reservations :
    attempt[reservations[c].order].stage \in {"reserved", "answered", "over"}

\* The inductive invariant: the distinctness of leases needs LeasesSpent, the
\* durability of what was told needs AnswersBacked.
AdmissionInv == /\ AdmissionTypeOK
        /\ LeasesDistinct /\ LeasesSpent
        /\ ToldOrdersDurable /\ AnswersBacked
        /\ OrdersSpent

USE DEF Waiting, Over, Reserved, InFlight, Results

\* A new lease.
LEMMA LeaseStep ==
    ASSUME AdmissionInv, NEW u \in Traders, NEW c \in ClientIds, AllocateNonceLease(u, c)
    PROVE  AdmissionInv'
<1> USE AdmissionAssumption
<1> DEFINE Row == [user : Traders, nonce : 0 .. (NonceLimit - 1)]
           row == [user |-> u, nonce |-> nextNonce[u]]
<1>1. PICK C \in SUBSET ClientIds : leases \in [C -> Row]
  BY DEF AdmissionInv, AdmissionTypeOK
<1>2. nextNonce \in [Traders -> 0 .. NonceLimit] /\ row \in Row
  BY DEF AdmissionInv, AdmissionTypeOK, AllocateNonceLease
<1>3. /\ DOMAIN leases = C /\ c \notin C
      /\ leases' = Adding(leases, c, row)
      /\ DOMAIN leases' = C \cup {c} /\ leases' \in [C \cup {c} -> Row]
      /\ leases'[c] = row /\ \A k \in C : leases'[k] = leases[k]
  <2>1. DOMAIN leases = C /\ c \notin C /\ leases' = Adding(leases, c, row)
    BY <1>1 DEF AllocateNonceLease
  <2> HIDE DEF Row, row
  <2> QED
    BY <2>1, <1>1, <1>2 DEF Adding
<1>4. nextNonce' \in [Traders -> 0 .. NonceLimit]
  BY <1>2 DEF AllocateNonceLease
<1>5. nextNonce'[u] = nextNonce[u] + 1 /\ \A v \in Traders : nextNonce'[v] >= nextNonce[v]
  BY <1>2 DEF AllocateNonceLease
<1>6. AdmissionTypeOK'
  <2>1. C \cup {c} \in SUBSET ClientIds
    OBVIOUS
  <2>2. \E D \in SUBSET ClientIds : leases' \in [D -> Row]
    BY <2>1, <1>3
  <2> QED
    BY <2>2, <1>4 DEF AdmissionInv, AdmissionTypeOK, AllocateNonceLease
<1>7. LeasesSpent'
  <2> SUFFICES ASSUME NEW k \in C \cup {c}
               PROVE  leases'[k].nonce < nextNonce'[leases'[k].user]
    BY <1>3 DEF LeasesSpent
  <2>1. CASE k = c
    BY <2>1, <1>2, <1>3, <1>5
  <2>2. CASE k # c
    <3>1. leases'[k] = leases[k] /\ leases[k] \in Row /\ k \in DOMAIN leases
      BY <2>2, <1>1, <1>3
    <3>2. leases[k].nonce < nextNonce[leases[k].user]
      BY <3>1 DEF AdmissionInv, LeasesSpent
    <3> QED
      BY <3>1, <3>2, <1>2, <1>4, <1>5
  <2> QED
    BY <2>1, <2>2
<1>8. LeasesDistinct'
  <2> SUFFICES ASSUME NEW k \in C \cup {c}, NEW d \in C \cup {c}, k # d,
                      leases'[k].user = leases'[d].user
               PROVE  leases'[k].nonce # leases'[d].nonce
    BY <1>3 DEF LeasesDistinct
  <2>1. \A j \in C : leases[j].user = u => leases[j].nonce < nextNonce[u]
    BY <1>3 DEF AdmissionInv, LeasesSpent
  <2>2. \A j \in C : leases[j].nonce \in Int /\ nextNonce[u] \in Int
    BY <1>1, <1>2
  <2>3. CASE k \in C /\ d \in C
    BY <2>3, <1>3 DEF AdmissionInv, LeasesDistinct
  <2>4. CASE k = c
    BY <2>4, <2>1, <2>2, <1>3
  <2>5. CASE d = c
    BY <2>5, <2>1, <2>2, <1>3
  <2> QED
    BY <2>3, <2>4, <2>5
<1>9. ToldOrdersDurable' /\ AnswersBacked' /\ OrdersSpent'
  BY DEF AdmissionInv, ToldOrdersDurable, AnswersBacked, OrdersSpent, AllocateNonceLease
<1> QED
  BY <1>6, <1>7, <1>8, <1>9 DEF AdmissionInv

\* A new reservation.
LEMMA ReservationAdded ==
    ASSUME AdmissionInv, NEW c \in ClientIds, NEW i \in Intents, NEW a \in Attempts,
           c \notin DOMAIN reservations,
           reservations' = Adding(reservations, c, [intent |-> i, order |-> a])
    PROVE  /\ DOMAIN reservations' = DOMAIN reservations \cup {c}
           /\ DOMAIN reservations' \in SUBSET ClientIds
           /\ reservations' \in [DOMAIN reservations' -> [intent : Intents, order : Attempts]]
           /\ reservations'[c] = [intent |-> i, order |-> a]
           /\ \A k \in DOMAIN reservations : reservations'[k] = reservations[k]
<1> DEFINE Row == [intent : Intents, order : Attempts]
           row == [intent |-> i, order |-> a]
<1>1. PICK C \in SUBSET ClientIds : reservations \in [C -> Row]
  BY DEF AdmissionInv, AdmissionTypeOK
<1>2. DOMAIN reservations = C /\ c \notin C /\ row \in Row
  BY <1>1
<1> HIDE DEF Row, row
<1>3. reservations' = Adding(reservations, c, row)
  BY DEF row
<1>4. /\ DOMAIN reservations' = C \cup {c} /\ reservations' \in [C \cup {c} -> Row]
      /\ reservations'[c] = row /\ \A k \in C : reservations'[k] = reservations[k]
  BY <1>1, <1>2, <1>3 DEF Adding
<1> QED
  BY <1>2, <1>4 DEF Row, row

\* The tables that no step below changes, and the reservations as they were.
LEMMA AdmissionTyped ==
    ASSUME AdmissionInv
    PROVE  /\ DOMAIN reservations \in SUBSET ClientIds
           /\ reservations \in [DOMAIN reservations -> [intent : Intents, order : Attempts]]
           /\ durable \in [Attempts -> {"none", "queued", "left"}]
           /\ attempt \in [Attempts -> {Waiting, Over, Reserved} \cup InFlight("checked")
                   \cup [stage : {"answered"}, cid : ClientIds, result : Results]]
BY DEF AdmissionInv, AdmissionTypeOK

\* reserve_intent.
LEMMA ReserveStep ==
    ASSUME AdmissionInv, NEW c \in ClientIds, NEW i \in Intents, NEW a \in Attempts,
           ReserveIntent(c, i, a)
    PROVE  AdmissionInv'
<1>1. /\ DOMAIN reservations' = DOMAIN reservations \cup {c}
      /\ DOMAIN reservations' \in SUBSET ClientIds
      /\ reservations' \in [DOMAIN reservations' -> [intent : Intents, order : Attempts]]
      /\ reservations'[c] = [intent |-> i, order |-> a]
      /\ \A k \in DOMAIN reservations : reservations'[k] = reservations[k]
  BY ReservationAdded DEF ReserveIntent
<1>2. /\ attempt' \in [Attempts -> {Waiting, Over, Reserved} \cup InFlight("checked")
                   \cup [stage : {"answered"}, cid : ClientIds, result : Results]]
      /\ attempt'[a] = Reserved /\ attempt[a] = Waiting
      /\ \A b \in Attempts : b # a => attempt'[b] = attempt[b]
  BY AdmissionTyped DEF ReserveIntent
<1>3. AdmissionTypeOK'
  BY <1>1, <1>2 DEF AdmissionInv, AdmissionTypeOK, ReserveIntent
<1>4. LeasesDistinct' /\ LeasesSpent' /\ ToldOrdersDurable'
  BY DEF AdmissionInv, LeasesDistinct, LeasesSpent, ToldOrdersDurable, ReserveIntent
<1>5. AnswersBacked'
  <2> SUFFICES ASSUME NEW b \in Attempts, attempt'[b].stage = "answered",
                      attempt'[b].result # "refused"
               PROVE  /\ attempt'[b].cid \in DOMAIN reservations'
                      /\ durable'[reservations'[attempt'[b].cid].order] # "none"
    BY DEF AnswersBacked
  <2>1. attempt'[b] = attempt[b]
    BY <1>2
  <2>2. /\ attempt[b].cid \in DOMAIN reservations
        /\ durable[reservations[attempt[b].cid].order] # "none"
    BY <2>1 DEF AdmissionInv, AnswersBacked
  <2> QED
    BY <2>1, <2>2, <1>1 DEF ReserveIntent
<1>6. OrdersSpent'
  <2> SUFFICES ASSUME NEW k \in DOMAIN reservations'
               PROVE  attempt'[reservations'[k].order].stage \in {"reserved", "answered", "over"}
    BY DEF OrdersSpent
  <2>1. CASE k = c
    BY <2>1, <1>1, <1>2
  <2>2. CASE k # c
    <3>1. k \in DOMAIN reservations /\ reservations'[k] = reservations[k]
      BY <2>2, <1>1
    <3>2. attempt[reservations[k].order].stage \in {"reserved", "answered", "over"}
      BY <3>1 DEF AdmissionInv, OrdersSpent
    <3>3. reservations[k].order \in Attempts /\ reservations[k].order # a
      BY <3>1, <3>2, <1>2, AdmissionTyped
    <3> QED
      BY <3>1, <3>2, <3>3, <1>2
  <2> QED
    BY <2>1, <2>2
<1> QED
  BY <1>3, <1>4, <1>5, <1>6 DEF AdmissionInv

\* order_new's checks and a lost request touch only the request.
LEMMA RequestStep ==
    ASSUME AdmissionInv, NEW a \in Attempts,
           \/ \E u \in Traders, c \in ClientIds, i \in Intents : CheckOrder(a, u, c, i)
           \/ LoseRequest(a)
    PROVE  AdmissionInv'
<1>1. /\ UNCHANGED <<nextNonce, leases, reservations, durable, told>>
      /\ attempt' \in [Attempts -> {Waiting, Over, Reserved} \cup InFlight("checked")
                   \cup [stage : {"answered"}, cid : ClientIds, result : Results]]
      /\ \A b \in Attempts : b # a => attempt'[b] = attempt[b]
      /\ attempt'[a].stage \in {"checked", "over"}
      /\ attempt[a].stage \in {"unused", "checked", "answered"}
      /\ attempt[a].stage # "unused" => attempt'[a].stage = "over"
  <2>1. CASE LoseRequest(a)
    BY <2>1, AdmissionTyped DEF LoseRequest
  <2>2. ASSUME NEW u \in Traders, NEW c \in ClientIds, NEW i \in Intents, CheckOrder(a, u, c, i)
        PROVE  <1>1!:
    BY <2>2, AdmissionTyped DEF CheckOrder
  <2> QED
    BY <2>1, <2>2
<1>2. AdmissionTypeOK'
  BY <1>1 DEF AdmissionInv, AdmissionTypeOK
<1>3. LeasesDistinct' /\ LeasesSpent' /\ ToldOrdersDurable'
  BY <1>1 DEF AdmissionInv, LeasesDistinct, LeasesSpent, ToldOrdersDurable
<1>4. AnswersBacked'
  BY <1>1 DEF AdmissionInv, AnswersBacked
<1>5. OrdersSpent'
  BY <1>1, AdmissionTyped DEF AdmissionInv, OrdersSpent
<1> QED
  BY <1>2, <1>3, <1>4, <1>5 DEF AdmissionInv

\* A job that answers, completes orders and may reserve for its own request.
LEMMA JobStep ==
    ASSUME AdmissionInv, NEW a \in Attempts, NEW r \in Results,
           attempt[a].stage = "checked", Answer(a, r),
           durable' \in [Attempts -> {"none", "queued", "left"}],
           \A b \in Attempts : durable[b] # "none" => durable'[b] # "none",
           DOMAIN reservations' \in SUBSET ClientIds,
           DOMAIN reservations \subseteq DOMAIN reservations',
           reservations' \in [DOMAIN reservations' -> [intent : Intents, order : Attempts]],
           \A k \in DOMAIN reservations : reservations'[k] = reservations[k],
           \A k \in DOMAIN reservations' :
             k \notin DOMAIN reservations => reservations'[k].order = a,
           r # "refused" => /\ attempt[a].cid \in DOMAIN reservations'
                            /\ durable'[reservations'[attempt[a].cid].order] # "none",
           UNCHANGED <<nextNonce, leases, told>>
    PROVE  AdmissionInv'
<1>1. attempt[a].cid \in ClientIds
  BY AdmissionTyped
<1>2. /\ attempt'[a] = [stage |-> "answered", cid |-> attempt[a].cid, result |-> r]
      /\ \A b \in Attempts : b # a => attempt'[b] = attempt[b]
      /\ attempt' \in [Attempts -> {Waiting, Over, Reserved} \cup InFlight("checked")
                   \cup [stage : {"answered"}, cid : ClientIds, result : Results]]
  BY <1>1, AdmissionTyped DEF Answer
<1>3. AdmissionTypeOK'
  BY <1>2 DEF AdmissionInv, AdmissionTypeOK
<1>4. LeasesDistinct' /\ LeasesSpent'
  BY DEF AdmissionInv, LeasesDistinct, LeasesSpent
<1>5. ToldOrdersDurable'
  BY DEF AdmissionInv, ToldOrdersDurable, AdmissionTypeOK
<1>6. AnswersBacked'
  <2> SUFFICES ASSUME NEW b \in Attempts, attempt'[b].stage = "answered",
                      attempt'[b].result # "refused"
               PROVE  /\ attempt'[b].cid \in DOMAIN reservations'
                      /\ durable'[reservations'[attempt'[b].cid].order] # "none"
    BY DEF AnswersBacked
  <2>1. CASE b = a
    BY <2>1, <1>2
  <2>2. CASE b # a
    <3>1. attempt'[b] = attempt[b]
      BY <2>2, <1>2
    <3>2. /\ attempt[b].cid \in DOMAIN reservations
          /\ durable[reservations[attempt[b].cid].order] # "none"
      BY <3>1 DEF AdmissionInv, AnswersBacked
    <3>3. reservations[attempt[b].cid].order \in Attempts
      BY <3>2, AdmissionTyped
    <3> QED
      BY <3>1, <3>2, <3>3
  <2> QED
    BY <2>1, <2>2
<1>7. OrdersSpent'
  <2> SUFFICES ASSUME NEW k \in DOMAIN reservations'
               PROVE  attempt'[reservations'[k].order].stage \in {"reserved", "answered", "over"}
    BY DEF OrdersSpent
  <2>1. CASE k \in DOMAIN reservations
    <3>1. attempt[reservations[k].order].stage \in {"reserved", "answered", "over"}
      BY <2>1 DEF AdmissionInv, OrdersSpent
    <3>2. reservations[k].order \in Attempts /\ reservations[k].order # a
      BY <2>1, <3>1, AdmissionTyped
    <3> QED
      BY <2>1, <3>1, <3>2, <1>2
  <2>2. CASE k \notin DOMAIN reservations
    BY <2>2, <1>2
  <2> QED
    BY <2>1, <2>2
<1> QED
  BY <1>3, <1>4, <1>5, <1>6, <1>7 DEF AdmissionInv

\* admit_order: refused, found or new.
LEMMA AdmitStep ==
    ASSUME AdmissionInv, NEW a \in Attempts, AdmitClientOrder(a)
    PROVE  AdmissionInv'
<1>1. attempt[a].stage = "checked" /\ UNCHANGED <<nextNonce, leases, told>>
  BY DEF AdmitClientOrder
<1>2. attempt[a].cid \in ClientIds /\ attempt[a].intent \in Intents
  BY <1>1, AdmissionTyped
<1>3. CASE Answer(a, "refused") /\ UNCHANGED <<durable, reservations>>
  <2>1. DOMAIN reservations' = DOMAIN reservations
    BY <1>3
  <2>2. "refused" \in Results
    OBVIOUS
  <2> QED
    BY <1>1, <1>3, <2>1, <2>2, AdmissionTyped, JobStep
<1>4. CASE attempt[a].cid \in DOMAIN reservations /\ AdmitReserved(a)
  <2> DEFINE taken == reservations[attempt[a].cid]
             r == IF taken.intent = attempt[a].intent THEN "existing" ELSE "refused"
  <2>1. taken.order \in Attempts /\ r \in Results
    BY <1>4, AdmissionTyped
  <2>2. UNCHANGED reservations /\ Answer(a, r)
    BY <1>4 DEF AdmitReserved
  <2>3. /\ durable' \in [Attempts -> {"none", "queued", "left"}]
        /\ \A b \in Attempts : durable[b] # "none" => durable'[b] # "none"
        /\ r # "refused" => durable'[taken.order] # "none"
    BY <1>4, <2>1, AdmissionTyped DEF AdmitReserved
  <2>4. DOMAIN reservations' = DOMAIN reservations
    BY <2>2
  <2> HIDE DEF r
  <2> QED
    BY <1>1, <1>4, <2>1, <2>2, <2>3, <2>4, AdmissionTyped, JobStep
<1>5. CASE /\ attempt[a].cid \notin DOMAIN reservations
           /\ Answer(a, "new") /\ durable' = [durable EXCEPT ![a] = "queued"]
           /\ reservations' = Adding(reservations, attempt[a].cid,
                               [intent |-> attempt[a].intent, order |-> a])
  <2>1. /\ DOMAIN reservations' = DOMAIN reservations \cup {attempt[a].cid}
        /\ DOMAIN reservations' \in SUBSET ClientIds
        /\ reservations' \in [DOMAIN reservations' -> [intent : Intents, order : Attempts]]
        /\ reservations'[attempt[a].cid] = [intent |-> attempt[a].intent, order |-> a]
        /\ \A k \in DOMAIN reservations : reservations'[k] = reservations[k]
    BY <1>2, <1>5, ReservationAdded
  <2>2. /\ durable' \in [Attempts -> {"none", "queued", "left"}]
        /\ \A b \in Attempts : durable[b] # "none" => durable'[b] # "none"
        /\ durable'[a] # "none"
    BY <1>5, AdmissionTyped
  <2>3. "new" \in Results
    OBVIOUS
  <2>4. /\ reservations'[attempt[a].cid].order = a
        /\ \A k \in DOMAIN reservations' :
              k \notin DOMAIN reservations => reservations'[k].order = a
    BY <2>1
  <2> QED
    BY <1>1, <1>5, <2>1, <2>2, <2>3, <2>4, JobStep
<1> QED
  BY <1>3, <1>4, <1>5 DEF AdmitClientOrder, AdmitFresh

\* The answer names the reservation's order.
LEMMA RespondStep ==
    ASSUME AdmissionInv, NEW a \in Attempts, RespondToOrder(a)
    PROVE  AdmissionInv'
<1> DEFINE c == attempt[a].cid
<1>1. /\ attempt' \in [Attempts -> {Waiting, Over, Reserved} \cup InFlight("checked")
                   \cup [stage : {"answered"}, cid : ClientIds, result : Results]]
      /\ attempt'[a] = Over /\ attempt[a].stage = "answered"
      /\ \A b \in Attempts : b # a => attempt'[b] = attempt[b]
      /\ UNCHANGED <<nextNonce, leases, reservations, durable>>
  BY AdmissionTyped DEF RespondToOrder
<1>2. \/ told' = told
      \/ /\ attempt[a].result # "refused"
         /\ told' = told \cup {<<c, reservations[c].intent, reservations[c].order>>}
  BY DEF RespondToOrder
<1>3. attempt[a].result # "refused" =>
        c \in DOMAIN reservations /\ durable[reservations[c].order] # "none"
  BY <1>1 DEF AdmissionInv, AnswersBacked
<1>4. attempt[a].result # "refused" =>
        <<c, reservations[c].intent, reservations[c].order>> \in ClientIds \X Intents \X Attempts
  BY <1>3, AdmissionTyped
<1>5. told' \subseteq ClientIds \X Intents \X Attempts
  BY <1>2, <1>4 DEF AdmissionInv, AdmissionTypeOK
<1>6. AdmissionTypeOK'
  BY <1>1, <1>5 DEF AdmissionInv, AdmissionTypeOK
<1>7. LeasesDistinct' /\ LeasesSpent'
  BY <1>1 DEF AdmissionInv, LeasesDistinct, LeasesSpent
<1>8. ToldOrdersDurable'
  BY <1>1, <1>2, <1>3 DEF AdmissionInv, ToldOrdersDurable
<1>9. AnswersBacked'
  BY <1>1 DEF AdmissionInv, AnswersBacked
<1>10. OrdersSpent'
  BY <1>1, AdmissionTyped DEF AdmissionInv, OrdersSpent
<1> QED
  BY <1>6, <1>7, <1>8, <1>9, <1>10 DEF AdmissionInv

\* Every step keeps the invariant.
LEMMA AdmissionStep == AdmissionInv /\ [AdmissionNext]_admissionVars => AdmissionInv'
<1> SUFFICES ASSUME AdmissionInv, [AdmissionNext]_admissionVars PROVE AdmissionInv'
  OBVIOUS
<1>1. ASSUME NEW a \in Attempts, LeaveQueue(a) PROVE AdmissionInv'
  <2>1. /\ durable' \in [Attempts -> {"none", "queued", "left"}]
        /\ \A b \in Attempts : durable[b] # "none" => durable'[b] # "none"
        /\ UNCHANGED <<nextNonce, leases, reservations, attempt, told>>
    BY <1>1, AdmissionTyped DEF LeaveQueue
  <2>2. AdmissionTypeOK'
    BY <2>1 DEF AdmissionInv, AdmissionTypeOK
  <2>3. ToldOrdersDurable'
    BY <2>1 DEF AdmissionInv, ToldOrdersDurable, AdmissionTypeOK
  <2>4. AnswersBacked'
    BY <2>1, AdmissionTyped DEF AdmissionInv, AnswersBacked
  <2> QED
    BY <2>1, <2>2, <2>3, <2>4 DEF AdmissionInv, LeasesDistinct, LeasesSpent, OrdersSpent
<1>2. CASE UNCHANGED admissionVars
  BY <1>2 DEF AdmissionInv, AdmissionTypeOK, LeasesDistinct, LeasesSpent, ToldOrdersDurable,
              AnswersBacked, OrdersSpent, admissionVars
<1> QED
  BY <1>1, <1>2, LeaseStep, ReserveStep, RequestStep, AdmitStep, RespondStep DEF AdmissionNext

\* Empty tables satisfy it.
LEMMA AdmissionStart == AdmissionInit => AdmissionInv
<1> SUFFICES ASSUME AdmissionInit PROVE AdmissionInv
  OBVIOUS
<1>1. /\ leases \in [{} -> [user : Traders, nonce : 0 .. (NonceLimit - 1)]]
      /\ reservations \in [{} -> [intent : Intents, order : Attempts]]
      /\ DOMAIN leases = {} /\ DOMAIN reservations = {}
  BY DEF AdmissionInit, Nothing
<1>2. AdmissionTypeOK
  <2>1. {} \in SUBSET ClientIds
    OBVIOUS
  <2>2. /\ \E C \in SUBSET ClientIds :
             leases \in [C -> [user : Traders, nonce : 0 .. (NonceLimit - 1)]]
        /\ \E C \in SUBSET ClientIds : reservations \in [C -> [intent : Intents, order : Attempts]]
    BY <1>1, <2>1
  <2>3. nextNonce \in [Traders -> 0 .. NonceLimit]
    BY AdmissionAssumption DEF AdmissionInit
  <2>4. /\ durable \in [Attempts -> {"none", "queued", "left"}]
        /\ attempt \in [Attempts -> {Waiting, Over, Reserved} \cup InFlight("checked")
                   \cup [stage : {"answered"}, cid : ClientIds, result : Results]]
        /\ told \subseteq ClientIds \X Intents \X Attempts
    BY DEF AdmissionInit
  <2> QED
    BY <2>2, <2>3, <2>4 DEF AdmissionTypeOK
<1> QED
  BY <1>1, <1>2 DEF AdmissionInv, AdmissionInit, LeasesDistinct, LeasesSpent, ToldOrdersDurable,
                    AnswersBacked, OrdersSpent

\* The invariant holds in every state.
LEMMA AdmissionInductive == AdmissionSpec => []AdmissionInv
BY AdmissionStart, AdmissionStep, PTL DEF AdmissionSpec

--------------------------------------------------------------------------------
\* Type correctness, the end of the nonce range included.
THEOREM AdmissionTypeCorrect == AdmissionSpec => []AdmissionTypeOK
BY AdmissionInductive, PTL DEF AdmissionInv

\* allocate_nonce_lease never hands a user the same nonce twice.
THEOREM NoncesDistinct == AdmissionSpec => []LeasesDistinct
BY AdmissionInductive, PTL DEF AdmissionInv

\* An order id the server has answered with is in durable_orders.
THEOREM ToldIsDurable == AdmissionSpec => []ToldOrdersDurable
BY AdmissionInductive, PTL DEF AdmissionInv

\* Submission implements the idempotent interface: a client order id stands for
\* one intent and one order, for any number of concurrent and repeated requests.
THEOREM AdmissionIdempotent == AdmissionSpec => SubmissionIdempotent
<1>1. AdmissionInit => Promise!Init
  BY DEF AdmissionInit, Nothing, Promise!Init
<1>2. AdmissionInv /\ [AdmissionNext]_admissionVars => [Promise!Next]_<<reservations, told>>
  <2> SUFFICES ASSUME AdmissionInv, AdmissionNext
               PROVE  Promise!Next \/ UNCHANGED <<reservations, told>>
    BY DEF admissionVars
  <2>1. ASSUME NEW c \in ClientIds, NEW i \in Intents, NEW a \in Attempts,
               c \notin DOMAIN reservations, UNCHANGED told,
               attempt[a].stage \in {"unused", "checked"},
               reservations' = Adding(reservations, c, [intent |-> i, order |-> a])
        PROVE  Promise!Next
    <3>1. \A d \in DOMAIN reservations : reservations[d].order # a
      BY <2>1 DEF AdmissionInv, OrdersSpent
    <3>2. Promise!Open(c, i, a)
      BY <2>1, <3>1 DEF Promise!Open, Adding
    <3> QED
      BY <3>2 DEF Promise!Next
  <2>2. ASSUME NEW c \in ClientIds, NEW i \in Intents, NEW a \in Attempts, ReserveIntent(c, i, a)
        PROVE  Promise!Next
    BY <2>1, <2>2 DEF ReserveIntent
  <2>3. ASSUME NEW a \in Attempts, AdmitClientOrder(a)
        PROVE  Promise!Next \/ UNCHANGED <<reservations, told>>
    <3>1. attempt[a].stage = "checked" /\ UNCHANGED told
      BY <2>3 DEF AdmitClientOrder
    <3>2. attempt[a].cid \in ClientIds /\ attempt[a].intent \in Intents
      BY <3>1, AdmissionTyped
    <3>3. \/ UNCHANGED reservations
          \/ /\ attempt[a].cid \notin DOMAIN reservations
             /\ reservations' = Adding(reservations, attempt[a].cid,
                                 [intent |-> attempt[a].intent, order |-> a])
      BY <2>3 DEF AdmitClientOrder, AdmitReserved, AdmitFresh
    <3> QED
      BY <2>1, <3>1, <3>2, <3>3
  <2>4. ASSUME NEW a \in Attempts, RespondToOrder(a)
        PROVE  Promise!Next \/ UNCHANGED <<reservations, told>>
    <3>1. attempt[a].result # "refused" => attempt[a].cid \in DOMAIN reservations
      BY <2>4 DEF AdmissionInv, AnswersBacked, RespondToOrder
    <3>2. attempt[a].result # "refused" => Promise!Tell(attempt[a].cid)
      BY <2>4, <3>1 DEF RespondToOrder, Promise!Tell
    <3>3. attempt[a].result # "refused" => attempt[a].cid \in ClientIds
      BY <3>1, AdmissionTyped
    <3> QED
      BY <2>4, <3>2, <3>3 DEF RespondToOrder, Promise!Next
  <2> QED
    BY <2>2, <2>3, <2>4
       DEF AdmissionNext, AllocateNonceLease, CheckOrder, LoseRequest, LeaveQueue
<1> QED
  BY <1>1, <1>2, AdmissionInductive, PTL DEF AdmissionSpec, SubmissionIdempotent, Promise!Spec

--------------------------------------------------------------------------------
(***************************************************************************)
(* NonceWindow.  The bitmap says of every nonce in the window whether it   *)
(* was accepted before.                                                    *)
(***************************************************************************)
\* Sliding for a nonce that is not stale gives a window that holds the nonce
\* and whose slots are the old slots of the same nonces.
LEMMA SlideBits ==
    ASSUME NEW w \in Windows, NEW n \in Nonces, n >= w.base
    PROVE  LET slid == SlidTo(w, n, ConsumeShift(w, n))
           IN  /\ slid \in Windows
               /\ slid.base >= w.base
               /\ n - slid.base \in 0 .. WindowSize - 1
               /\ slid.base = IF n - w.base < WindowSize THEN w.base
                                                         ELSE n - (WindowSize - 1)
               /\ \A k \in 0 .. WindowSize - 1 :
                     BitSet(slid, k) <=>
                        /\ k + (slid.base - w.base) < WindowSize
                        /\ BitSet(w, k + (slid.base - w.base))
<1> DEFINE shift == ConsumeShift(w, n)
           slid == SlidTo(w, n, shift)
<1>1. w.base \in Nat /\ n \in Nat /\ WindowSize \in Nat /\ WindowSize >= 3
  BY LimbBitsAssumption, MaxNonceAssumption DEF Windows, Nonces, WindowSize
<1>2. CASE n - w.base < WindowSize
  <2>1. slid = w
    BY <1>2 DEF SlidTo
  <2> QED
    BY <1>1, <1>2, <2>1
<1>3. CASE ~(n - w.base < WindowSize)
  <2>1. shift \in Nat /\ shift = (n - (WindowSize - 1)) - w.base
    BY <1>1, <1>3 DEF ConsumeShift
  <2>2. ShiftRight(w, shift) \in Windows
    BY <2>1, ShiftRightType
  <2>3. slid = [ShiftRight(w, shift) EXCEPT !.base = n - (WindowSize - 1)]
    BY <1>3 DEF SlidTo
  <2>4. n - (WindowSize - 1) \in Nonces
    BY <1>1, <1>3, MaxNonceAssumption DEF Nonces
  <2>5. slid \in Windows /\ slid.base = n - (WindowSize - 1)
    BY <2>2, <2>3, <2>4 DEF Windows
  <2>6. \A k \in 0 .. WindowSize - 1 : BitSet(slid, k) <=> BitSet(ShiftRight(w, shift), k)
    BY <2>2, <2>3 DEF BitSet, Windows
  <2>7. slid.base - w.base = shift
    BY <2>5, <2>1
  <2>8. \A k \in 0 .. WindowSize - 1 :
            BitSet(slid, k) <=> k + shift < WindowSize /\ BitSet(w, k + shift)
    BY <2>6, <2>1, ShiftRightBits
  <2> QED
    BY <1>1, <1>3, <2>1, <2>5, <2>7, <2>8
<1> QED
  BY <1>2, <1>3

----------------------------------------------------------------------------
\* The inductive invariant: the history invariant needs the types, and nothing
\* else.
WindowInv == TypeOK /\ WindowRecordsHistory

\* An accepted nonce was never accepted before, and every rejection has its
\* reason in the history.
LEMMA VerdictFromHistory ==
    ASSUME WindowInv, NEW n \in Nonces
    PROVE  /\ ConsumeVerdict(window, n) = "stale" <=> n < window.base
           /\ ConsumeVerdict(window, n) = "consumed" <=> n >= window.base /\ n \in accepted
           /\ ConsumeVerdict(window, n) = "accepted" <=> n >= window.base /\ n \notin accepted
<1> DEFINE slid == SlidTo(window, n, ConsumeShift(window, n))
<1>1. /\ window \in Windows
      /\ window.base \in Nat /\ n \in Nat
      /\ WindowSize \in Nat
  BY LimbBitsAssumption, MaxNonceAssumption DEF WindowInv, TypeOK, Windows, Nonces, WindowSize
<1>2. CASE n < window.base
  BY <1>1, <1>2 DEF ConsumeVerdict, VerdictOn
<1>3. CASE n >= window.base
  <2> DEFINE k == n - slid.base
             d == slid.base - window.base
  <2>1. /\ slid \in Windows /\ slid.base >= window.base
        /\ k \in 0 .. WindowSize - 1
        /\ BitSet(slid, k) <=> k + d < WindowSize /\ BitSet(window, k + d)
    BY <1>1, <1>3, SlideBits
  <2>2. slid.base \in Nat
    BY <2>1, MaxNonceAssumption DEF Windows, Nonces
  <2>3. k + d = n - window.base
    BY <1>1, <2>2
  <2>4. BitSet(slid, k) <=> n \in accepted
    <3>1. CASE n - window.base < WindowSize
      <4>1. n - window.base \in 0 .. WindowSize - 1
        BY <3>1, <1>1, <1>3
      <4>2. BitSet(window, n - window.base) <=> window.base + (n - window.base) \in accepted
        BY <4>1 DEF WindowInv, WindowRecordsHistory
      <4>3. window.base + (n - window.base) = n
        BY <1>1
      <4> QED
        BY <2>1, <2>3, <3>1, <4>2, <4>3
    <3>2. CASE ~(n - window.base < WindowSize)
      <4>1. n \notin accepted
        BY <3>2, <1>1 DEF WindowInv, WindowRecordsHistory
      <4> QED
        BY <2>1, <2>3, <3>2, <4>1
    <3> QED
      BY <3>1, <3>2
  <2>5. ConsumeVerdict(window, n) = IF BitSet(slid, k) THEN "consumed" ELSE "accepted"
    BY <1>1, <1>3 DEF ConsumeVerdict, VerdictOn
  <2> QED
    BY <1>1, <1>3, <2>4, <2>5
<1> QED
  BY <1>1, <1>2, <1>3

\* Accepting a nonce stores a window that again records the whole history.
LEMMA AcceptPreserves ==
    ASSUME WindowInv, NEW n \in Nonces, Accept(n)
    PROVE  WindowInv'
<1> DEFINE slid == SlidTo(window, n, ConsumeShift(window, n))
           k == n - slid.base
<1>1. /\ window \in Windows /\ accepted \subseteq Nonces
      /\ window.base \in Nat /\ n \in Nat
      /\ WindowSize \in Nat
  BY LimbBitsAssumption, MaxNonceAssumption DEF WindowInv, TypeOK, Windows, Nonces, WindowSize
<1>2. n >= window.base /\ n \notin accepted
  BY VerdictFromHistory DEF Accept
<1>3. /\ slid \in Windows
      /\ slid.base >= window.base
      /\ k \in 0 .. WindowSize - 1
      /\ \A i \in 0 .. WindowSize - 1 :
            BitSet(slid, i) <=> /\ i + (slid.base - window.base) < WindowSize
                                /\ BitSet(window, i + (slid.base - window.base))
  BY <1>1, <1>2, SlideBits
<1>4. slid.base \in Nat
  BY <1>3, MaxNonceAssumption DEF Windows, Nonces
<1>5. window' = SetBit(slid, k)
  BY DEF Accept, Consumed, MarkOn
<1>6. /\ window' \in Windows
      /\ window'.base = slid.base
      /\ \A i \in 0 .. WindowSize - 1 : BitSet(window', i) <=> i = k \/ BitSet(slid, i)
  BY <1>3, <1>5, SetBitBits
<1>7. accepted' = accepted \cup {n}
  BY DEF Accept
<1>8. TypeOK'
  BY <1>1, <1>6, <1>7 DEF Accept, WindowInv, TypeOK, Verdicts
<1>9. \A i \in 0 .. WindowSize - 1 : BitSet(slid, i) <=> slid.base + i \in accepted
  <2> TAKE i \in 0 .. WindowSize - 1
  <2> DEFINE j == i + (slid.base - window.base)
  <2>1. j \in Nat /\ window.base + j = slid.base + i
    BY <1>1, <1>3, <1>4
  <2>2. CASE j < WindowSize
    <3>1. BitSet(window, j) <=> window.base + j \in accepted
      BY <2>1, <2>2, <1>1 DEF WindowInv, WindowRecordsHistory
    <3> QED
      BY <3>1, <2>1, <2>2, <1>3
  <2>3. CASE ~(j < WindowSize)
    <3>1. slid.base + i \notin accepted
      <4> SUFFICES ASSUME slid.base + i \in accepted PROVE FALSE
        OBVIOUS
      <4>1. slid.base + i < window.base + WindowSize
        BY DEF WindowInv, WindowRecordsHistory
      <4> QED
        BY <4>1, <2>1, <2>3, <1>1
    <3> QED
      BY <3>1, <2>3, <1>3
  <2> QED
    BY <2>2, <2>3
<1>10. \A i \in 0 .. WindowSize - 1 : BitSet(window', i) <=> window'.base + i \in accepted'
  <2> TAKE i \in 0 .. WindowSize - 1
  <2>1. i = k <=> slid.base + i = n
    BY <1>1, <1>4
  <2> QED
    BY <1>6, <1>7, <1>9, <2>1
<1>11. \A m \in accepted' : m < window'.base + WindowSize
  <2> TAKE m \in accepted'
  <2>1. CASE m = n
    BY <2>1, <1>1, <1>3, <1>4, <1>6
  <2>2. CASE m \in accepted
    <3>1. m \in Nat
      BY <2>2, <1>1, MaxNonceAssumption DEF Nonces
    <3>2. m < window.base + WindowSize
      BY <2>2 DEF WindowInv, WindowRecordsHistory
    <3> QED
      BY <3>1, <3>2, <1>1, <1>3, <1>4, <1>6
  <2> QED
    BY <2>1, <2>2, <1>7
<1> QED
  BY <1>8, <1>10, <1>11 DEF WindowInv, WindowRecordsHistory

\* The window of src/nonce_window.rs holds exactly the accepted nonces, for
\* every limb width and every sequence of requests.
THEOREM HistoryRecorded == Spec => [](TypeOK /\ WindowRecordsHistory)
<1>1. Init => WindowInv
  BY LimbBitsAssumption, MaxNonceAssumption
     DEF Init, WindowInv, TypeOK, WindowRecordsHistory, EmptyWindow, Windows, Limbs, Nonces,
         Verdicts, BitSet
<1>2. WindowInv /\ [Next]_vars => WindowInv'
  <2> SUFFICES ASSUME WindowInv, [Next]_vars PROVE WindowInv'
    OBVIOUS
  <2>1. ASSUME NEW n \in Nonces, Accept(n) PROVE WindowInv'
    BY <2>1, AcceptPreserves
  <2>2. ASSUME NEW n \in Nonces, Reject(n) PROVE WindowInv'
    BY <2>2 DEF Reject, WindowInv, TypeOK, WindowRecordsHistory, Verdicts
  <2>3. CASE UNCHANGED vars
    BY <2>3 DEF vars, WindowInv, TypeOK, WindowRecordsHistory
  <2> QED
    BY <2>1, <2>2, <2>3 DEF Next
<1> QED
  BY <1>1, <1>2, PTL DEF Spec, WindowInv

\* NonceWindow::consume implements the gate: it accepts a nonce exactly when
\* it is not stale and was never accepted before, and says why otherwise.
THEOREM ConsumeImplementsGate == Spec => ImplementsGate
<1>1. Init => Gate!GateInit
  BY DEF Init, Gate!GateInit, EmptyWindow
<1>2. WindowInv /\ [Next]_vars => [Gate!GateNext]_(Gate!gateVars)
  <2> SUFFICES ASSUME WindowInv, [Next]_vars PROVE [Gate!GateNext]_(Gate!gateVars)
    OBVIOUS
  <2>1. ASSUME NEW n \in Nonces, Accept(n) PROVE Gate!GateNext
    <3>1. n >= window.base /\ n \notin accepted
      BY <2>1, VerdictFromHistory DEF Accept
    <3>2. window \in Windows
      BY DEF WindowInv, TypeOK
    <3>3. /\ SlidTo(window, n, ConsumeShift(window, n)) \in Windows
          /\ n - SlidTo(window, n, ConsumeShift(window, n)).base \in 0 .. WindowSize - 1
          /\ SlidTo(window, n, ConsumeShift(window, n)).base =
                IF n - window.base < WindowSize THEN window.base ELSE n - (WindowSize - 1)
      BY <3>1, <3>2, SlideBits
    <3>4. window'.base = SlidTo(window, n, ConsumeShift(window, n)).base
      BY <2>1, <3>3, SetBitBits DEF Accept, Consumed, MarkOn
    <3>5. Gate!Accept(n)
      BY <2>1, <3>1, <3>3, <3>4 DEF Accept, Gate!Accept
    <3> QED
      BY <3>5 DEF Gate!GateNext, Nonces
  <2>2. ASSUME NEW n \in Nonces, Reject(n) PROVE Gate!GateNext
    <3>1. CASE ConsumeVerdict(window, n) = "stale"
      <4>1. Gate!RejectStale(n)
        BY <2>2, <3>1, VerdictFromHistory DEF Reject, Gate!RejectStale
      <4> QED
        BY <4>1 DEF Gate!GateNext, Nonces
    <3>2. CASE ConsumeVerdict(window, n) = "consumed"
      <4>1. Gate!RejectReplay(n)
        BY <2>2, <3>2, VerdictFromHistory DEF Reject, Gate!RejectReplay
      <4> QED
        BY <4>1 DEF Gate!GateNext, Nonces
    <3> QED
      BY <2>2, <3>1, <3>2 DEF Reject
  <2>3. CASE UNCHANGED vars
    BY <2>3 DEF vars, Gate!gateVars
  <2> QED
    BY <2>1, <2>2, <2>3 DEF Next
<1>3. Spec => []WindowInv
  BY HistoryRecorded, PTL DEF WindowInv
<1> QED
  BY <1>1, <1>2, <1>3, PTL DEF Spec, ImplementsGate, Gate!GateSpec
================================================================================
