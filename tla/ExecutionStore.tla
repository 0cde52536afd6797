--------------------------- MODULE ExecutionStore ---------------------------
(***************************************************************************)
(* The durable half of trade execution: the SQLite tables of               *)
(* src/src/execution_store.rs and the methods that change them.  Every     *)
(* method runs in one immediate transaction under the connection mutex, so *)
(* each is one atomic formula over the tables here; what interleaves is    *)
(* the calls, which ExecutionPipeline arranges.                            *)
(*                                                                         *)
(* An order stands for one admitted client UUID with its payload, a tx for *)
(* one proven shard transaction (its hash is determined by the process     *)
(* that built it and the orders it executes).  Clock times appear only as  *)
(* whether a claim's claim_until has passed.                               *)
(***************************************************************************)
EXTENDS Naturals, FiniteSets

CONSTANTS
  Orders,        \* client UUIDs that may be admitted
  Workers,       \* worker ids; a process draws a fresh one when it starts
  Nobody,        \* the NULL of claim_owner
  QueueLimit,    \* max_admitted_orders()
  ClaimLimit,    \* the limit try_start_batch claims with
  OutboxWindow   \* the limit pending_outbox is read with

ASSUME OrdersFinite == IsFiniteSet(Orders)
ASSUME NobodyIsNoWorker == Nobody \notin Workers
ASSUME LimitsArePositive ==
  /\ QueueLimit \in Nat \ {0}
  /\ ClaimLimit \in Nat \ {0}
  /\ OutboxWindow \in Nat \ {0}

VARIABLES
  orderState,    \* durable_orders.state, "none" when there is no row
  orderOwner,    \* durable_orders.claim_owner
  orderLapsed,   \* orders whose claim_until is in the past
  orderBatch,    \* durable_orders.batch_id, 0 when NULL
  orderTx,       \* durable_orders.tx_hash
  batchState,    \* execution_batches.state, "none" when there is no row
  batchOwner,    \* execution_batches.claim_owner
  batchLapsed,   \* batches whose claim_until is in the past
  submission,    \* execution_submissions.state by tx, "none" when no row
  outbox         \* see Undelivered

orderTable == <<orderState, orderOwner, orderLapsed, orderBatch, orderTx>>
batchTable == <<batchState, batchOwner, batchLapsed>>
storeVars == <<orderState, orderOwner, orderLapsed, orderBatch, orderTx,
               batchState, batchOwner, batchLapsed, submission, outbox>>

(***************************************************************************)
(* Batch ids are handed out in the order batches are created.  An order is *)
(* never taken out of its batch, so there are at most as many as orders.   *)
(***************************************************************************)
Batches == 1..Cardinality(Orders)
Tx == [by : Workers, orders : SUBSET Orders]
NoTx == [by |-> Nobody, orders |-> {}]
Owners == Workers \cup {Nobody}

OrderStates == {"none", "admitted", "processing_claimed", "batched",
                "submitted", "confirmed", "failed"}
BatchStates == {"none", "pending", "claimed", "reconciling", "terminal"}
SubmissionStates == {"none", "submitted", "confirmed", "failed"}
Terminal == {"confirmed", "failed"}

InState(s) == {o \in Orders : orderState[o] = s}
BatchesIn(s) == {b \in Batches : batchState[b] = s}
InBatch(b) == {o \in Orders : orderBatch[o] = b}
Batched(b) == {o \in InBatch(b) : orderState[o] = "batched"}

(***************************************************************************)
(* The outbox.  outbox[r] is the set of undelivered rows whose             *)
(* autoincrement id is at most that of r, and empty unless r itself is     *)
(* undelivered.  A row is visible when it is among the first OutboxWindow. *)
(***************************************************************************)
Rows == ({"order_admitted"} \X Orders)
          \cup ({"batch_pending", "batch_terminal"} \X Batches)
Undelivered == {r \in Rows : outbox[r] # {}}
Visible(r) == outbox[r] # {} /\ Cardinality(outbox[r]) <= OutboxWindow

Enqueued(r) == [outbox EXCEPT ![r] = Undelivered \cup {r}]
Delivered(D) == [r \in Rows |-> IF r \in D THEN {} ELSE outbox[r] \ D]

StoreInit ==
  /\ orderState = [o \in Orders |-> "none"]
  /\ orderOwner = [o \in Orders |-> Nobody]
  /\ orderLapsed = {}
  /\ orderBatch = [o \in Orders |-> 0]
  /\ orderTx = [o \in Orders |-> NoTx]
  /\ batchState = [b \in Batches |-> "none"]
  /\ batchOwner = [b \in Batches |-> Nobody]
  /\ batchLapsed = {}
  /\ submission = [t \in Tx |-> "none"]
  /\ outbox = [r \in Rows |-> {}]

-----------------------------------------------------------------------------
(***************************************************************************)
(* Orders before they are batched.                                         *)
(***************************************************************************)

\* The order row, its reservation, its first event and its wakeup commit
\* together, unless the pre-execution backlog is at its limit.
AdmitOrder(o) ==
  /\ orderState[o] = "none"
  /\ Cardinality(InState("admitted") \cup InState("processing_claimed"))
       < QueueLimit
  /\ orderState' = [orderState EXCEPT ![o] = "admitted"]
  /\ outbox' = Enqueued(<<"order_admitted", o>>)
  /\ UNCHANGED <<orderOwner, orderLapsed, orderBatch, orderTx, batchTable,
                 submission>>

\* Mutant of Claimable: claims that ran out are forgotten.
ClaimableOnce == InState("admitted")

\* What a claim may take: admitted orders, and claims that ran out.
Claimable ==
  InState("admitted") \cup (InState("processing_claimed") \cap orderLapsed)

\* Takes S, the oldest claimable orders up to the limit.  Which ones are
\* oldest is left open.
ClaimAdmittedOrders(w, S) ==
  /\ BatchesIn("pending") = {}
  /\ S \subseteq Claimable
  /\ \/ S = Claimable /\ Cardinality(S) <= ClaimLimit
     \/ Cardinality(S) = ClaimLimit
  /\ orderState' = [o \in Orders |->
       IF o \in S THEN "processing_claimed" ELSE orderState[o]]
  /\ orderOwner' = [o \in Orders |-> IF o \in S THEN w ELSE orderOwner[o]]
  /\ orderLapsed' = orderLapsed \ S
  /\ outbox' = Delivered({"order_admitted"} \X S)
  /\ UNCHANGED <<orderBatch, orderTx, batchTable, submission>>

\* Leaves the tables alone when w lost its claim on o.
FailClaimedOrder(w, o) ==
  LET mine == {p \in {o} : orderState[p] = "processing_claimed"
                             /\ orderOwner[p] = w}
  IN  /\ orderState' = [p \in Orders |->
           IF p \in mine THEN "failed" ELSE orderState[p]]
      /\ orderOwner' = [p \in Orders |->
           IF p \in mine THEN Nobody ELSE orderOwner[p]]
      /\ orderLapsed' = orderLapsed \ mine
      /\ UNCHANGED <<orderBatch, orderTx, batchTable, submission, outbox>>

\* Mutant of FailOrdersByIds: the state is not checked.
FailOrdersByIdsAny(S) ==
  /\ orderState' = [p \in Orders |-> IF p \in S THEN "failed" ELSE orderState[p]]
  /\ UNCHANGED <<orderOwner, orderLapsed, orderBatch, orderTx, batchTable,
                 submission, outbox>>

\* The purge at startup.  It leaves the order_admitted rows undelivered.
FailOrdersByIds(S) ==
  LET stale == S \cap (InState("admitted") \cup InState("processing_claimed"))
  IN  /\ orderState' = [p \in Orders |->
           IF p \in stale THEN "failed" ELSE orderState[p]]
      /\ orderOwner' = [p \in Orders |->
           IF p \in stale THEN Nobody ELSE orderOwner[p]]
      /\ orderLapsed' = orderLapsed \ stale
      /\ UNCHANGED <<orderBatch, orderTx, batchTable, submission, outbox>>

-----------------------------------------------------------------------------
(***************************************************************************)
(* Batches and submissions.                                                *)
(***************************************************************************)

\* The transaction commits only if every order is still claimed by w and no
\* other batch is pending (the unique index).
CanCreateBatch(w, S) ==
  /\ \A o \in S : orderState[o] = "processing_claimed" /\ orderOwner[o] = w
  /\ BatchesIn("pending") = {}

CreateExecutionBatch(w, S) ==
  /\ CanCreateBatch(w, S)
  /\ \E b \in Batches :
       /\ batchState[b] = "none"
       /\ \A c \in Batches : c < b => batchState[c] # "none"
       /\ orderBatch' = [o \in Orders |-> IF o \in S THEN b ELSE orderBatch[o]]
       /\ batchState' = [batchState EXCEPT ![b] = "pending"]
       /\ outbox' = Enqueued(<<"batch_pending", b>>)
  /\ orderState' = [o \in Orders |->
       IF o \in S THEN "batched" ELSE orderState[o]]
  /\ orderOwner' = [o \in Orders |->
       IF o \in S THEN Nobody ELSE orderOwner[o]]
  /\ orderLapsed' = orderLapsed \ S
  /\ UNCHANGED <<orderTx, batchOwner, batchLapsed, submission>>

Owned(w, b) == batchState[b] = "claimed" /\ batchOwner[b] = w

\* A lapsed claim is taken over before a pending batch is promoted, and a
\* pending batch only when no claim is still running.
ClaimableBatch(b) ==
  LET lapsed == BatchesIn("claimed") \cap batchLapsed
  IN  \/ b \in lapsed
      \/ /\ lapsed = {}
         /\ batchState[b] = "pending"
         /\ BatchesIn("claimed") = {}

ClaimPendingBatch(w, b) ==
  /\ ClaimableBatch(b)
  /\ batchState' = [batchState EXCEPT ![b] = "claimed"]
  /\ batchOwner' = [batchOwner EXCEPT ![b] = w]
  /\ batchLapsed' = batchLapsed \ {b}
  /\ outbox' = Delivered({<<"batch_pending", b>>})
  /\ UNCHANGED <<orderTable, submission>>

\* Fails the orders of S that are still awaiting submission, while w owns b.
MarkPreSubmissionFailed(w, b, S) ==
  /\ orderState' = [o \in Orders |->
       IF o \in S \cap Batched(b) /\ Owned(w, b) THEN "failed"
       ELSE orderState[o]]
  /\ UNCHANGED <<orderOwner, orderLapsed, orderBatch, orderTx, batchTable,
                 submission, outbox>>

\* A submission is recorded only by the owner, once, and only if every order
\* in it was awaiting submission.
CanRecord(w, b, t) ==
  /\ Owned(w, b)
  /\ submission[t] = "none"
  /\ t.orders \subseteq Batched(b)

RecordSubmission(w, b, t) ==
  /\ submission' = IF CanRecord(w, b, t)
                   THEN [submission EXCEPT ![t] = "submitted"] ELSE submission
  /\ orderState' = [o \in Orders |->
       IF CanRecord(w, b, t) /\ o \in t.orders THEN "submitted"
       ELSE orderState[o]]
  /\ orderTx' = [o \in Orders |->
       IF CanRecord(w, b, t) /\ o \in t.orders THEN t ELSE orderTx[o]]
  /\ UNCHANGED <<orderOwner, orderLapsed, orderBatch, batchTable, outbox>>

\* Mutant of FinalizeBatch: only submitted orders count as open.
FinalizeBatchEarly(b, states, from) ==
  LET ready == /\ \A o \in InBatch(b) : states[o] # "submitted"
               /\ from[b] \in {"claimed", "reconciling"}
  IN  /\ batchState' = IF ready THEN [from EXCEPT ![b] = "terminal"] ELSE from
      /\ batchOwner' = [c \in Batches |->
           IF batchState'[c] = "claimed" THEN batchOwner[c] ELSE Nobody]
      /\ batchLapsed' = {c \in batchLapsed : batchState'[c] = "claimed"}
      /\ outbox' = IF ready THEN Enqueued(<<"batch_terminal", b>>) ELSE outbox

\* Mutant of FinalizeBatch: the terminal state is not put in the outbox.
FinalizeBatchSilently(b, states, from) ==
  LET ready == /\ \A o \in InBatch(b) : states[o] \in Terminal
               /\ from[b] \in {"claimed", "reconciling"}
  IN  /\ batchState' = IF ready THEN [from EXCEPT ![b] = "terminal"] ELSE from
      /\ batchOwner' = [c \in Batches |->
           IF batchState'[c] = "claimed" THEN batchOwner[c] ELSE Nobody]
      /\ batchLapsed' = {c \in batchLapsed : batchState'[c] = "claimed"}
      /\ outbox' = outbox

\* finalize_batch_if_ready: with the order states given, b becomes terminal
\* once none of its orders is open, and its outcome is put in the outbox.
FinalizeBatch(b, states, from) ==
  LET ready == /\ \A o \in InBatch(b) : states[o] \in Terminal
               /\ from[b] \in {"claimed", "reconciling"}
  IN  /\ batchState' = IF ready THEN [from EXCEPT ![b] = "terminal"] ELSE from
      /\ batchOwner' = [c \in Batches |->
           IF batchState'[c] = "claimed" THEN batchOwner[c] ELSE Nobody]
      /\ batchLapsed' = {c \in batchLapsed : batchState'[c] = "claimed"}
      /\ outbox' = IF ready THEN Enqueued(<<"batch_terminal", b>>) ELSE outbox

\* The owner fails what is left unsubmitted in b and ends the submission
\* phase.  Without ownership nothing changes.
CloseBatch(w, b) ==
  IF Owned(w, b)
  THEN /\ orderState' = [o \in Orders |->
            IF o \in Batched(b) THEN "failed" ELSE orderState[o]]
       /\ FinalizeBatch(b, orderState',
                        [batchState EXCEPT ![b] = "reconciling"])
       /\ UNCHANGED <<orderOwner, orderLapsed, orderBatch, orderTx, submission>>
  ELSE UNCHANGED storeVars

\* The finality verdict on a recorded transaction settles its orders.
ResolveSubmission(t, verdict) ==
  /\ submission[t] = "submitted"
  /\ submission' = [submission EXCEPT ![t] = verdict]
  /\ orderState' = [o \in Orders |->
       IF o \in t.orders /\ orderState[o] = "submitted" /\ orderTx[o] = t
       THEN verdict ELSE orderState[o]]
  /\ \E b \in Batches :
       /\ \A o \in t.orders : orderBatch[o] = b
       /\ FinalizeBatch(b, orderState', batchState)
  /\ UNCHANGED <<orderOwner, orderLapsed, orderBatch, orderTx>>

\* recover_terminal_batch succeeds: the batch is terminal and so is each of
\* its orders.
Recoverable(b) ==
  /\ batchState[b] = "terminal"
  /\ \A o \in InBatch(b) : orderState[o] \in Terminal

MarkOutboxDelivered(b) ==
  /\ outbox' = Delivered({<<"batch_terminal", b>>})
  /\ UNCHANGED <<orderTable, batchTable, submission>>

\* Claims run out while time passes.
LapseOrderClaim(o) ==
  /\ orderState[o] = "processing_claimed"
  /\ o \notin orderLapsed
  /\ orderLapsed' = orderLapsed \cup {o}
  /\ UNCHANGED <<orderState, orderOwner, orderBatch, orderTx, batchTable,
                 submission, outbox>>

LapseBatchClaim(b) ==
  /\ batchState[b] = "claimed"
  /\ b \notin batchLapsed
  /\ batchLapsed' = batchLapsed \cup {b}
  /\ UNCHANGED <<orderTable, batchState, batchOwner, submission, outbox>>

StoreTypeOK ==
  /\ orderState \in [Orders -> OrderStates]
  /\ orderOwner \in [Orders -> Owners]
  /\ orderLapsed \subseteq Orders
  /\ orderBatch \in [Orders -> Batches \cup {0}]
  /\ orderTx \in [Orders -> Tx \cup {NoTx}]
  /\ batchState \in [Batches -> BatchStates]
  /\ batchOwner \in [Batches -> Owners]
  /\ batchLapsed \subseteq Batches
  /\ submission \in [Tx -> SubmissionStates]
  /\ outbox \in [Rows -> SUBSET Rows]
=============================================================================
