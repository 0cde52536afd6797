----------------------------- MODULE Connections -----------------------------
(***************************************************************************)
(* WebSocket connections and the sessions they are bound to: the           *)
(* ConnectionManager, the task of each connection in websocket/handlers.rs *)
(* and the logout handler of api.rs, over the session store of Sessions.   *)
(*                                                                         *)
(* The manager is shared by every task of a multi-threaded runtime.  A     *)
(* task handles one client message at a time and awaits the database in    *)
(* the middle of it (task[c]); logout revokes in the database and then     *)
(* disconnects, two steps of a request the timeout layer may drop between  *)
(* them; remove_connection empties channels and then deletes the empty     *)
(* ones (sweeps).                                                          *)
(***************************************************************************)
EXTENDS Sessions

CONSTANTS
  Conns,             \* connection ids
  Public,            \* a channel that needs no session
  IpOf,              \* client address by connection
  GlobalCap,         \* ws_global_cap
  PerIpCap,          \* ws_per_ip_cap
  MaxSubscriptions,  \* ws_max_subscriptions
  PongTimeout        \* ws_pong_timeout

ASSUME ConnectionsAssumption ==
  {GlobalCap, PerIpCap, MaxSubscriptions, PongTimeout} \subseteq Nat

VARIABLES
  phase,        \* progress of each connection's task
  registered,   \* ConnectionManager::connections
  bound,        \* session_token and authenticated_user of the metadata
  lastPong,     \* last_pong of the metadata
  subs,         \* ConnectionManager::subscriptions, by the channels with an entry
  sweeps,       \* channels some remove_connection found empty, not yet removed
  task,         \* the message a connection's task is in the middle of
  logouts       \* tokens revoked by a logout that has not disconnected yet

managerVars == <<registered, bound, lastPong, subs, sweeps>>
connVars == <<phase, managerVars, task, logouts>>

\* A private channel (user, analytics, order_updates) by the user it is about.
Channels == Users \cup {Public}
Unbound == [token |-> "none", user |-> "none"]
Bindings == {Unbound} \cup [token : Tokens, user : Users]
NoTask == [op |-> "idle"]
Tasks == {NoTask} \cup [op : {"authenticate"}, found : Bindings]
                \cup [op : {"subscribe"}, channel : Channels]

ConnTypeOK ==
  /\ AuthTypeOK
  /\ phase \in [Conns -> {"new", "upgraded", "open", "closed"}]
  /\ registered \subseteq Conns
  /\ bound \in [Conns -> Bindings]
  /\ lastPong \in [Conns -> 0..MaxNow]
  /\ \E E \in SUBSET Channels : subs \in [E -> SUBSET Conns]
  /\ sweeps \subseteq Channels
  /\ task \in [Conns -> Tasks]
  /\ logouts \subseteq Tokens
  /\ \A c \in Conns \ registered : bound[c] = Unbound

ConnInit ==
  /\ AuthInit
  /\ phase = [c \in Conns |-> "new"]
  /\ registered = {}
  /\ bound = [c \in Conns |-> Unbound]
  /\ lastPong = [c \in Conns |-> 0]
  /\ subs = [ch \in {} |-> {}]
  /\ sweeps = {}
  /\ task = [c \in Conns |-> NoTask]
  /\ logouts = {}

\* remove_connection, up to the deletion of the channels it found empty.  The
\* metadata goes with the entry of the connection.
RemoveConnections(C) ==
  /\ registered' = registered \ C
  /\ bound' = [c \in Conns |-> IF c \in C THEN Unbound ELSE bound[c]]
  /\ lastPong' = [c \in Conns |-> IF c \in C THEN 0 ELSE lastPong[c]]
  /\ subs' = [ch \in DOMAIN subs |-> subs[ch] \ C]
  /\ sweeps' = sweeps \cup {ch \in DOMAIN subs : subs[ch] \subseteq C}

\* The rest of it: the entry is deleted with whatever its set holds by then.
SweepChannel(ch) ==
  /\ ch \in sweeps
  /\ subs' = [x \in DOMAIN subs \ {ch} |-> subs[x]]
  /\ sweeps' = sweeps \ {ch}
  /\ UNCHANGED <<now, authVars, phase, registered, bound, lastPong, task, logouts>>

(***************************************************************************)
(* The upgrade request looks at the cap; the connection's own task looks   *)
(* again under the admission lock and gives up when it is reached.         *)
(***************************************************************************)
SameIp(c) == {d \in registered : IpOf[d] = IpOf[c]}

CanAccept(c) ==
  Cardinality(registered) < GlobalCap /\ Cardinality(SameIp(c)) < PerIpCap

Upgrade(c) ==
  /\ phase[c] = "new" /\ CanAccept(c)
  /\ phase' = [phase EXCEPT ![c] = "upgraded"]
  /\ UNCHANGED <<now, authVars, managerVars, task, logouts>>

\* Mutant of AddConnection: the task trusts the check the upgrade made.
AddConnectionUnchecked(c) ==
  /\ phase[c] = "upgraded"
  /\ registered' = registered \cup {c}
  /\ phase' = [phase EXCEPT ![c] = "open"]
  /\ lastPong' = [lastPong EXCEPT ![c] = now]
  /\ UNCHANGED <<now, authVars, bound, subs, sweeps, task, logouts>>

AddConnection(c) ==
  /\ phase[c] = "upgraded"
  /\ IF CanAccept(c)
     THEN /\ registered' = registered \cup {c}
          /\ phase' = [phase EXCEPT ![c] = "open"]
          /\ lastPong' = [lastPong EXCEPT ![c] = now]
     ELSE /\ phase' = [phase EXCEPT ![c] = "closed"]
          /\ UNCHANGED <<registered, lastPong>>
  /\ UNCHANGED <<now, authVars, bound, subs, sweeps, task, logouts>>

(***************************************************************************)
(* Authenticate: the session is looked up, and the connection bound to it  *)
(* after the await, if it is still registered then.                        *)
(***************************************************************************)
Ready(c) == phase[c] = "open" /\ task[c] = NoTask

LookupForConnection(c, t) ==
  /\ Ready(c) /\ LookupSession(t)
  /\ task' = [task EXCEPT ![c] =
       [op |-> "authenticate", found |-> [token |-> t, user |-> sessions[t].user]]]
  /\ UNCHANGED <<now, authVars, phase, managerVars, logouts>>

SetAuthenticatedUser(c) ==
  /\ task[c].op = "authenticate"
  /\ bound' = IF c \in registered THEN [bound EXCEPT ![c] = task[c].found] ELSE bound
  /\ task' = [task EXCEPT ![c] = NoTask]
  /\ UNCHANGED <<now, authVars, phase, registered, lastPong, subs, sweeps, logouts>>

(***************************************************************************)
(* Subscribe: a private channel needs the user the connection is bound to; *)
(* the subscription is entered after the await on the order history.       *)
(***************************************************************************)
Authorized(c, ch) ==
  ch \in Users => c \in registered /\ bound[c].user = ch

CheckSubscription(c, ch) ==
  /\ Ready(c) /\ Authorized(c, ch)
  /\ task' = [task EXCEPT ![c] = [op |-> "subscribe", channel |-> ch]]
  /\ UNCHANGED <<now, authVars, phase, managerVars, logouts>>

Subscribe(c) ==
  /\ task[c].op = "subscribe"
  /\ LET ch == task[c].channel
         taken == {x \in DOMAIN subs : c \in subs[x]}
         others == IF ch \in DOMAIN subs THEN subs[ch] ELSE {}
     IN  subs' = IF Cardinality(taken) >= MaxSubscriptions /\ ch \notin taken
                 THEN subs
                 ELSE WithRow(subs, ch, others \cup {c})
  /\ task' = [task EXCEPT ![c] = NoTask]
  /\ UNCHANGED <<now, authVars, phase, registered, bound, lastPong, sweeps, logouts>>

Unsubscribe(c, ch) ==
  /\ Ready(c) /\ ch \in DOMAIN subs /\ c \in subs[ch]
  /\ subs' = [subs EXCEPT ![ch] = @ \ {c}]
  /\ UNCHANGED <<now, authVars, phase, registered, bound, lastPong, sweeps, task, logouts>>

\* Ping, pong and the client's own Ping message.
UpdateLastPong(c) ==
  /\ Ready(c) /\ c \in registered
  /\ lastPong' = [lastPong EXCEPT ![c] = now]
  /\ UNCHANGED <<now, authVars, phase, registered, bound, subs, sweeps, task, logouts>>

BoundTo(t) == {c \in registered : bound[c].token = t}

\* Mutant of RevalidateSession: a session that is gone is taken for none.
RevalidateSessionLenient(c) ==
  /\ Ready(c) /\ c \in registered /\ bound[c] # Unbound
  /\ ~LookupSession(bound[c].token)
  /\ UNCHANGED <<now, authVars, connVars>>

(***************************************************************************)
(* The recheck tick of a task whose session is gone: every connection of   *)
(* the session is removed and the task leaves its loop.                    *)
(***************************************************************************)
RevalidateSession(c) ==
  /\ Ready(c) /\ c \in registered /\ bound[c] # Unbound
  /\ ~LookupSession(bound[c].token)
  /\ RemoveConnections(BoundTo(bound[c].token) \cup {c})
  /\ phase' = [phase EXCEPT ![c] = "closed"]
  /\ UNCHANGED <<now, authVars, task, logouts>>

\* Mutant of Close: a connection removed by others leaves nothing to clean.
CloseRemoved(c) ==
  /\ Ready(c)
  /\ IF c \in registered THEN RemoveConnections({c}) ELSE UNCHANGED managerVars
  /\ phase' = [phase EXCEPT ![c] = "closed"]
  /\ UNCHANGED <<now, authVars, task, logouts>>

(***************************************************************************)
(* The task leaves its loop, by the peer, an error, or the sender task     *)
(* ending once the manager dropped the queue, and cleans up.               *)
(***************************************************************************)
Close(c) ==
  /\ Ready(c)
  /\ RemoveConnections({c})
  /\ phase' = [phase EXCEPT ![c] = "closed"]
  /\ UNCHANGED <<now, authVars, task, logouts>>

\* send_to_connection or a broadcast meets a full or closed queue.
DropSlow(c) ==
  /\ c \in registered
  /\ RemoveConnections({c})
  /\ UNCHANGED <<now, authVars, phase, task, logouts>>

\* check_stale_connections; the ping it then sends changes nothing here.
Heartbeat ==
  LET stale == {c \in registered : now - lastPong[c] > PongTimeout}
  IN  /\ stale # {}
      /\ RemoveConnections(stale)
      /\ UNCHANGED <<now, authVars, phase, task, logouts>>

(***************************************************************************)
(* POST /auth/logout.                                                      *)
(***************************************************************************)
Logout(t) ==
  /\ RevokeSession(t)
  /\ logouts' = logouts \cup {t}
  /\ UNCHANGED <<phase, managerVars, task>>

DisconnectSession(t) ==
  /\ t \in logouts
  /\ logouts' = logouts \ {t}
  /\ RemoveConnections(BoundTo(t))
  /\ UNCHANGED <<now, authVars, phase, task>>

LogoutTimesOut(t) ==
  /\ t \in logouts
  /\ logouts' = logouts \ {t}
  /\ UNCHANGED <<now, authVars, phase, managerVars, task>>

StoreStep ==
  /\ \/ \E c \in Challenges, u \in Users : IssueChallenge(c, u)
     \/ \E c \in Challenges, u \in Users, t \in Tokens : Authenticate(c, u, t)
     \/ Purge
     \/ Tick
  /\ UNCHANGED connVars

ConnStep(c) ==
  \/ Upgrade(c) \/ AddConnection(c)
  \/ \E t \in Tokens : LookupForConnection(c, t)
  \/ SetAuthenticatedUser(c)
  \/ \E ch \in Channels : CheckSubscription(c, ch) \/ Unsubscribe(c, ch)
  \/ Subscribe(c)
  \/ UpdateLastPong(c)
  \/ RevalidateSession(c) \/ Close(c) \/ DropSlow(c)

ConnNext ==
  \/ StoreStep
  \/ \E c \in Conns : ConnStep(c)
  \/ \E ch \in Channels : SweepChannel(ch)
  \/ Heartbeat
  \/ \E t \in Tokens : Logout(t) \/ DisconnectSession(t) \/ LogoutTimesOut(t)

ConnSpec == ConnInit /\ [][ConnNext]_<<now, authVars, connVars>>

(***************************************************************************)
(* A task finishes the message it is in, its recheck timer keeps firing,   *)
(* and once the manager has dropped its queue the closed signal wakes it.  *)
(***************************************************************************)
Continue(c) == SetAuthenticatedUser(c) \/ Subscribe(c)
LeaveLoop(c) == RevalidateSession(c) \/ (c \notin registered /\ Close(c))

(***************************************************************************)
(* The manager never holds more connections than its cap, nor more from    *)
(* one address, however many upgrades passed the first check together.     *)
(***************************************************************************)
ConnectionsWithinCap ==
  /\ Cardinality(registered) <= GlobalCap
  /\ \A c \in registered : Cardinality(SameIp(c)) <= PerIpCap

(***************************************************************************)
(* A connection whose task has ended is nowhere in the subscription map,   *)
(* although its task may have subscribed after another task removed it.    *)
(***************************************************************************)
NoGhostSubscriptions ==
  \A ch \in DOMAIN subs : \A c \in subs[ch] : phase[c] # "closed"

(***************************************************************************)
(* Again and again no connection is bound to a session that is revoked,    *)
(* expired or purged: the binding never stays, also when the logout's      *)
(* disconnect ran between the lookup and the binding, or was dropped with  *)
(* its request.                                                            *)
(***************************************************************************)
DeadSessionsLetGo ==
  []<>(\A t \in Tokens : BoundTo(t) = {} \/ LookupSession(t))

===============================================================================
