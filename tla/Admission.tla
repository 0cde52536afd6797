------------------------------ MODULE Admission ------------------------------
(***************************************************************************)
(* Order submission: POST /orders/nonce and POST /orders/new of            *)
(* src/src/api.rs over allocate_nonce_lease, reserve_intent and            *)
(* admit_order of src/src/execution_store.rs.                              *)
(*                                                                         *)
(* Each store method is one immediate transaction.  A submission is three  *)
(* steps (its checks, the database job, the publication and the response), *)
(* and the request may be lost before or after the job: by the timeout     *)
(* layer, a closed socket or a crash.  Clients retry with the same client  *)
(* order id, possibly at the same time, and may sign a second intent with  *)
(* it.  An attempt also stands for the order id it draws (Uuid::new_v4).   *)
(***************************************************************************)
EXTENDS Integers, FiniteSets

CONSTANTS
  Traders,       \* accounts with a session
  ClientIds,     \* client order ids: 96 random bits with a nonce in limb 0
  Intents,       \* intent commitments
  Attempts,      \* requests to /orders/new, and the order ids they draw
  NonceLimit,    \* 2^32 in the code: nonces are u32
  QueueLimit     \* max_admitted_orders()

ASSUME AdmissionAssumption ==
  NonceLimit \in Nat \ {0} /\ QueueLimit \in Nat \ {0}

VARIABLES
  nextNonce,     \* user_nonce_allocators.next_nonce
  leases,        \* nonce_leases by client order id
  reservations,  \* intent_reservations by client order id
  durable,       \* durable_orders: "none", "queued" or "left" the queue
  attempt,       \* the requests in flight
  told           \* history: <<client order id, intent, order>> answered with 200

admissionVars ==
  <<nextNonce, leases, reservations, durable, attempt, told>>

Nothing == [k \in {} |-> 0]
Waiting == [stage |-> "unused"]
Over == [stage |-> "over"]
Reserved == [stage |-> "reserved"]
InFlight(stage) == [stage : {stage}, user : Traders, cid : ClientIds, intent : Intents]
Results == {"new", "existing", "refused"}

AdmissionTypeOK ==
  /\ nextNonce \in [Traders -> 0..NonceLimit]
  /\ \E C \in SUBSET ClientIds :
       leases \in [C -> [user : Traders, nonce : 0..(NonceLimit - 1)]]
  /\ \E C \in SUBSET ClientIds :
       reservations \in [C -> [intent : Intents, order : Attempts]]
  /\ durable \in [Attempts -> {"none", "queued", "left"}]
  /\ attempt \in [Attempts -> {Waiting, Over, Reserved} \cup InFlight("checked")
                   \cup [stage : {"answered"}, cid : ClientIds, result : Results]]
  /\ told \subseteq ClientIds \X Intents \X Attempts

AdmissionInit ==
  /\ nextNonce = [u \in Traders |-> 0]
  /\ leases = Nothing
  /\ reservations = Nothing
  /\ durable = [a \in Attempts |-> "none"]
  /\ attempt = [a \in Attempts |-> Waiting]
  /\ told = {}

Adding(table, key, row) ==
  [k \in DOMAIN table \cup {key} |-> IF k = key THEN row ELSE table[k]]

\* Mutant of AllocateNonceLease: the counter is cast to u32.
AllocateNonceLeaseWrapping(u, c) ==
  /\ c \notin DOMAIN leases
  /\ leases' = Adding(leases, c, [user |-> u, nonce |-> nextNonce[u] % NonceLimit])
  /\ nextNonce' = [nextNonce EXCEPT ![u] = (@ + 1) % NonceLimit]
  /\ UNCHANGED <<reservations, durable, attempt, told>>

(***************************************************************************)
(* The next nonce of the user, in a client order id drawn around it.  The  *)
(* 64-bit counter must still fit a u32; a client that never sees the       *)
(* answer leaves a gap.                                                    *)
(***************************************************************************)
AllocateNonceLease(u, c) ==
  /\ c \notin DOMAIN leases
  /\ nextNonce[u] < NonceLimit
  /\ leases' = Adding(leases, c, [user |-> u, nonce |-> nextNonce[u]])
  /\ nextNonce' = [nextNonce EXCEPT ![u] = @ + 1]
  /\ UNCHANGED <<reservations, durable, attempt, told>>

(***************************************************************************)
(* reserve_intent takes the client order id without queueing an order.  No *)
(* handler of this tree calls it; admit_order completes what it leaves.    *)
(***************************************************************************)
ReserveIntent(c, i, a) ==
  /\ attempt[a] = Waiting /\ c \notin DOMAIN reservations
  /\ reservations' = Adding(reservations, c, [intent |-> i, order |-> a])
  /\ attempt' = [attempt EXCEPT ![a] = Reserved]
  /\ UNCHANGED <<nextNonce, leases, durable, told>>

\* order_new up to the database job: session, key and signature are in order.
CheckOrder(a, u, c, i) ==
  /\ attempt[a] = Waiting
  /\ attempt' = [attempt EXCEPT ![a] =
       [stage |-> "checked", user |-> u, cid |-> c, intent |-> i]]
  /\ UNCHANGED <<nextNonce, leases, reservations, durable, told>>

Queued == {a \in Attempts : durable[a] = "queued"}
LeasedTo(u, c) == c \in DOMAIN leases /\ leases[c].user = u

Answer(a, result) ==
  attempt' = [attempt EXCEPT ![a] =
    [stage |-> "answered", cid |-> attempt[a].cid, result |-> result]]

\* Mutant of AdmitReserved: the row of an interrupted admission is not completed.
AdmitReservedBare(a) ==
  LET r == attempt[a]
      taken == reservations[r.cid]
  IN  /\ Answer(a, IF taken.intent = r.intent THEN "existing" ELSE "refused")
      /\ UNCHANGED <<durable, reservations>>

\* admit_order on a client order id that is taken: the same intent gets the
\* same order, completed if its row is missing, outside the queue limit.
AdmitReserved(a) ==
  LET r == attempt[a]
      taken == reservations[r.cid]
      same == taken.intent = r.intent
  IN  /\ Answer(a, IF same THEN "existing" ELSE "refused")
      /\ durable' = IF same /\ durable[taken.order] = "none"
                    THEN [durable EXCEPT ![taken.order] = "queued"] ELSE durable
      /\ UNCHANGED reservations

AdmitFresh(a) ==
  LET r == attempt[a]
  IN  IF Cardinality(Queued) >= QueueLimit
      THEN Answer(a, "refused") /\ UNCHANGED <<durable, reservations>>
      ELSE /\ Answer(a, "new")
           /\ reservations' = Adding(reservations, r.cid,
                                [intent |-> r.intent, order |-> a])
           /\ durable' = [durable EXCEPT ![a] = "queued"]

\* Mutant of AdmitClientOrder: two attempts race past the reservation.
AdmitClientOrderRacing(a) ==
  /\ attempt[a].stage = "checked"
  /\ LeasedTo(attempt[a].user, attempt[a].cid)
  /\ AdmitFresh(a)
  /\ UNCHANGED <<nextNonce, leases, told>>

\* The database job: lease, reservation, order, outbox in one transaction.
AdmitClientOrder(a) ==
  /\ attempt[a].stage = "checked"
  /\ \/ /\ ~LeasedTo(attempt[a].user, attempt[a].cid)
        /\ Answer(a, "refused")
        /\ UNCHANGED <<durable, reservations>>
     \/ /\ LeasedTo(attempt[a].user, attempt[a].cid)
        /\ IF attempt[a].cid \in DOMAIN reservations
           THEN AdmitReserved(a)
           ELSE AdmitFresh(a)
  /\ UNCHANGED <<nextNonce, leases, told>>

\* The response, with the order id the store returned.
RespondToOrder(a) ==
  /\ attempt[a].stage = "answered"
  /\ LET c == attempt[a].cid
     IN  told' = IF attempt[a].result = "refused" THEN told
                 ELSE told \cup {<<c, reservations[c].intent, reservations[c].order>>}
  /\ attempt' = [attempt EXCEPT ![a] = Over]
  /\ UNCHANGED <<nextNonce, leases, reservations, durable>>

LoseRequest(a) ==
  /\ attempt[a].stage \in {"checked", "answered"}
  /\ attempt' = [attempt EXCEPT ![a] = Over]
  /\ UNCHANGED <<nextNonce, leases, reservations, durable, told>>

\* The engine takes the order out of the queue (ExecutionPipeline).
LeaveQueue(a) ==
  /\ durable[a] = "queued"
  /\ durable' = [durable EXCEPT ![a] = "left"]
  /\ UNCHANGED <<nextNonce, leases, reservations, attempt, told>>

AdmissionNext ==
  \/ \E u \in Traders, c \in ClientIds : AllocateNonceLease(u, c)
  \/ \E c \in ClientIds, i \in Intents, a \in Attempts : ReserveIntent(c, i, a)
  \/ \E a \in Attempts :
       \/ \E u \in Traders, c \in ClientIds, i \in Intents : CheckOrder(a, u, c, i)
       \/ AdmitClientOrder(a) \/ RespondToOrder(a) \/ LoseRequest(a) \/ LeaveQueue(a)

AdmissionSpec == AdmissionInit /\ [][AdmissionNext]_admissionVars

(***************************************************************************)
(* The nonces leased to a user are all different, also where the allocator *)
(* meets the end of the u32 range.                                         *)
(***************************************************************************)
LeasesDistinct ==
  \A c, d \in DOMAIN leases :
    c # d /\ leases[c].user = leases[d].user => leases[c].nonce # leases[d].nonce

(***************************************************************************)
(* An order id a client was told names a durable order: the rows are       *)
(* committed before the answer, also when the answer is for an admission   *)
(* that was interrupted and retried.                                       *)
(***************************************************************************)
ToldOrdersDurable == \A t \in told : durable[t[3]] # "none"

(***************************************************************************)
(* Submission is idempotent for the client: a client order id identifies   *)
(* at most one intent and one order for ever, through lost answers,        *)
(* concurrent retries and conflicting signatures.                          *)
(***************************************************************************)
Promise == INSTANCE IdempotentAdmission
             WITH OrderIds <- Attempts, book <- reservations
SubmissionIdempotent == Promise!Spec
===============================================================================
