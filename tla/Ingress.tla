------------------------------- MODULE Ingress -------------------------------
(***************************************************************************)
(* The bounded front of the HTTP service (src/src/ingress.rs): the fixed   *)
(* window rate limit every request passes, and the semaphore around        *)
(* database work, which runs on a blocking thread that the request timeout *)
(* of the router cannot stop.                                              *)
(*                                                                         *)
(* A key stands for (class, client ip, token fingerprint).  allow() looks  *)
(* at the size of the table first and takes the entry of its key second;   *)
(* the requests of other threads run between the two, a clock unit (half   *)
(* a window) does not pass.                                                *)
(***************************************************************************)
EXTENDS Clock, FiniteSets, Totals

CONSTANTS
  Requests,       \* requests in flight at the same time
  RateKeys,       \* keys of the rate limiter
  RateLimit,      \* requests a key may make per window
  MaxRateKeys,    \* max_rate_keys
  RateWindow,     \* window
  DbConcurrency   \* db_concurrency

ASSUME IngressAssumption ==
  /\ {RateLimit, MaxRateKeys, RateWindow, DbConcurrency} \subseteq Nat \ {0}
  /\ RateKeys \cap {"idle", "allowed", "working"} = {}

VARIABLES
  rateBuckets, \* IngressState::buckets
  permits,     \* permits left in WorkLimits::db
  request,     \* the stage each request has reached
  orphans,     \* blocking jobs whose request has been dropped
  allowed      \* history: requests let through, by key and time

ingressVars == <<rateBuckets, permits, request, orphans, allowed>>

NoBucket == [k \in {} |-> 0]
\* A request that is between the two halves of allow() is at its key.
Stages == {"idle", "allowed", "working"} \cup RateKeys

IngressTypeOK ==
  /\ now \in 0..MaxNow
  /\ \E K \in SUBSET RateKeys :
       rateBuckets \in [K -> [started : 0..MaxNow, used : 0..RateLimit]]
  /\ permits \in 0..DbConcurrency
  /\ request \in [Requests -> Stages]
  /\ orphans \in 0..DbConcurrency
  /\ allowed \in [RateKeys \X (0..MaxNow) -> Nat]

IngressInit ==
  /\ now = 0
  /\ rateBuckets = NoBucket
  /\ permits = DbConcurrency
  /\ request = [r \in Requests |-> "idle"]
  /\ orphans = 0
  /\ allowed = [p \in RateKeys \X (0..MaxNow) |-> 0]

Fresh(b) == now - b.started < RateWindow

\* Mutant of RetainLive: room is made by dropping every bucket.
RetainNone == NoBucket
RetainLive ==
  [k \in {j \in DOMAIN rateBuckets : Fresh(rateBuckets[j])} |-> rateBuckets[k]]

(***************************************************************************)
(* The first half of allow(): a new key needs room in the table, expired   *)
(* buckets make room for it, and a full table refuses it.                  *)
(***************************************************************************)
EnterLimiter(r, key) ==
  /\ request[r] = "idle"
  /\ LET tight == key \notin DOMAIN rateBuckets
                    /\ Cardinality(DOMAIN rateBuckets) >= MaxRateKeys
         kept == RetainLive
     IN  /\ rateBuckets' = IF tight THEN kept ELSE rateBuckets
         /\ request' = IF tight /\ Cardinality(DOMAIN kept) >= MaxRateKeys
                       THEN request
                       ELSE [request EXCEPT ![r] = key]
  /\ UNCHANGED <<now, permits, orphans, allowed>>

Passes(b) == b.used < RateLimit

\* The second half: take or restart the key's bucket and count the request.
CountRequest(r) ==
  /\ request[r] \in RateKeys
  /\ LET k == request[r]
         b == IF k \in DOMAIN rateBuckets /\ Fresh(rateBuckets[k])
              THEN rateBuckets[k] ELSE [started |-> now, used |-> 0]
         pass == Passes(b)
     IN  /\ rateBuckets' = [j \in DOMAIN rateBuckets \cup {k} |->
                          IF j # k THEN rateBuckets[j]
                          ELSE IF pass THEN [b EXCEPT !.used = @ + 1] ELSE b]
         /\ request' = [request EXCEPT ![r] =
                          IF pass THEN "allowed" ELSE "idle"]
         /\ allowed' = IF pass THEN [allowed EXCEPT ![<<k, now>>] = @ + 1] ELSE allowed
  /\ UNCHANGED <<now, permits, orphans>>

\* WorkLimits::database: no waiting for a permit; a saturated pool is a 503.
StartWork(r) ==
  /\ request[r] = "allowed"
  /\ IF permits > 0
     THEN /\ permits' = permits - 1
          /\ request' = [request EXCEPT ![r] = "working"]
     ELSE /\ request' = [request EXCEPT ![r] = "idle"]
          /\ UNCHANGED permits
  /\ UNCHANGED <<now, rateBuckets, orphans, allowed>>

FinishWork(r) ==
  /\ request[r] = "working"
  /\ permits' = permits + 1
  /\ request' = [request EXCEPT ![r] = "idle"]
  /\ UNCHANGED <<now, rateBuckets, orphans, allowed>>

\* Mutant of RequestTimesOut: the permit goes down with the request.
RequestTimesOutLeaking(r) ==
  /\ request[r] = "working"
  /\ request' = [request EXCEPT ![r] = "idle"]
  /\ UNCHANGED <<now, rateBuckets, permits, orphans, allowed>>

\* The timeout layer drops the handler; the permit stays with its thread.
RequestTimesOut(r) ==
  /\ request[r] = "working"
  /\ request' = [request EXCEPT ![r] = "idle"]
  /\ orphans' = orphans + 1
  /\ UNCHANGED <<now, rateBuckets, permits, allowed>>

OrphanFinishes ==
  /\ orphans > 0
  /\ orphans' = orphans - 1
  /\ permits' = permits + 1
  /\ UNCHANGED <<now, rateBuckets, request, allowed>>

IngressTick ==
  /\ \A r \in Requests : request[r] \notin RateKeys
  /\ ClockAdvances
  /\ UNCHANGED ingressVars

IngressNext ==
  \/ \E r \in Requests : \/ \E key \in RateKeys : EnterLimiter(r, key)
                         \/ CountRequest(r) \/ StartWork(r)
                         \/ FinishWork(r) \/ RequestTimesOut(r)
  \/ OrphanFinishes
  \/ IngressTick

IngressSpec == IngressInit /\ [][IngressNext]_<<now, ingressVars>>

(***************************************************************************)
(* In any span as long as the window a key gets at most twice its limit:   *)
(* what a fixed window promises, and what must survive the eviction of     *)
(* buckets when other keys fill the table.                                 *)
(***************************************************************************)
RateHonoured ==
  \A k \in RateKeys, t \in 0..MaxNow :
    LET span == {s \in 0..MaxNow : t <= s /\ s < t + RateWindow}
    IN  Total([s \in span |-> allowed[<<k, s>>]]) <= 2 * RateLimit

(***************************************************************************)
(* Every permit is either free or with a thread that is working, for a     *)
(* request that waits or one that was dropped.                             *)
(***************************************************************************)
PermitsConserved ==
  permits + orphans + Cardinality({r \in Requests : request[r] = "working"})
    = DbConcurrency

===============================================================================
