---------------------- MODULE ExecutionPipelineProofs ----------------------
(***************************************************************************)
(* Proofs about ExecutionPipeline for any number of orders, workers,       *)
(* overlapping processes and crashes: the pipeline never strands an order, *)
(* never publishes an incomplete batch, and never changes an outcome.      *)
(***************************************************************************)
EXTENDS ExecutionPipeline, FiniteSetTheorems, TLAPS

\* Queueing or delivering outbox rows leaves a well-formed outbox.
LEMMA OutboxType ==
  ASSUME outbox \in [Rows -> SUBSET Rows]
  PROVE  /\ \A r \in Rows : Enqueued(r) \in [Rows -> SUBSET Rows]
         /\ \A D : Delivered(D) \in [Rows -> SUBSET Rows]
  BY DEF Enqueued, Delivered, Undelivered

\* The rows the store enqueues.
LEMMA RowsType ==
  /\ \A o \in Orders : <<"order_admitted", o>> \in Rows
  /\ \A b \in Batches : /\ <<"batch_pending", b>> \in Rows
                        /\ <<"batch_terminal", b>> \in Rows
  BY DEF Rows

\* Finalizing a batch, or leaving it as it is, keeps the batch table and the
\* outbox well formed.
LEMMA FinalizeType ==
  ASSUME StoreTypeOK, NEW b \in Batches, NEW states,
         NEW from \in [Batches -> BatchStates], FinalizeBatch(b, states, from)
  PROVE  /\ batchState' \in [Batches -> BatchStates]
         /\ batchOwner' \in [Batches -> Owners]
         /\ batchLapsed' \subseteq Batches
         /\ outbox' \in [Rows -> SUBSET Rows]
  <1> DEFINE row == <<"batch_terminal", b>>
  <1>1. row \in Rows
    BY RowsType
  <1>2. Enqueued(row) \in [Rows -> SUBSET Rows]
    BY <1>1, OutboxType DEF StoreTypeOK
  <1>3. outbox' \in [Rows -> SUBSET Rows]
    BY <1>2 DEF FinalizeBatch, StoreTypeOK
  <1>4. batchState' \in [Batches -> BatchStates]
    BY DEF FinalizeBatch, BatchStates
  <1>5. batchOwner' \in [Batches -> Owners]
    BY DEF FinalizeBatch, StoreTypeOK, Owners
  <1>6. batchLapsed' \subseteq Batches
    BY DEF FinalizeBatch, StoreTypeOK
  <1> QED
    BY <1>3, <1>4, <1>5, <1>6

\* A worker that is not idle has a batch in hand.
JobHeld == \A w \in Workers : pc[w] # "idle" => job[w] \in Batches

\* Every action of the pipeline keeps the type invariant and JobHeld.
LEMMA TypeStep == TypeOK /\ JobHeld /\ [Next]_vars => TypeOK' /\ JobHeld'
  <1> SUFFICES ASSUME TypeOK, JobHeld, [Next]_vars
               PROVE  TypeOK' /\ JobHeld'
    OBVIOUS
  <1>t. StoreTypeOK
    BY DEF TypeOK
  <1>1. ASSUME NEW w \in Workers, Start(w) PROVE TypeOK'
    BY <1>1 DEF TypeOK, StoreTypeOK, Start, FailOrdersByIds, InState, OrderStates,
         Owners, workerVars, batchTable
  <1>2. ASSUME NEW w \in Workers, Crash(w) PROVE TypeOK'
    BY <1>2 DEF TypeOK, StoreTypeOK, Crash, PCs, storeVars
  <1>3. ASSUME NEW w \in Workers, StartQuoting(w) PROVE TypeOK'
    <2>1. PICK S \in SUBSET Orders \ {{}} : ClaimAdmittedOrders(w, S)
                                         /\ quoting' = [quoting EXCEPT ![w] = S]
      BY <1>3 DEF StartQuoting
    <2>2. outbox' \in [Rows -> SUBSET Rows]
      BY <2>1, <1>t, OutboxType DEF ClaimAdmittedOrders, StoreTypeOK
    <2>3. orderState' \in [Orders -> OrderStates]
      BY <2>1, <1>t DEF ClaimAdmittedOrders, StoreTypeOK, OrderStates
    <2>4. orderOwner' \in [Orders -> Owners]
      BY <2>1, <1>t DEF ClaimAdmittedOrders, StoreTypeOK, Owners
    <2>5. orderLapsed' \subseteq Orders
      BY <2>1, <1>t DEF ClaimAdmittedOrders, StoreTypeOK
    <2>6. UNCHANGED <<orderBatch, orderTx, batchState, batchOwner, batchLapsed,
                      submission>>
      BY <2>1 DEF ClaimAdmittedOrders, batchTable
    <2>7. StoreTypeOK'
      BY <2>2, <2>3, <2>4, <2>5, <2>6, <1>t DEF StoreTypeOK
    <2> QED
      BY <2>1, <2>7, <1>3 DEF TypeOK, StartQuoting
  <1>4. ASSUME NEW w \in Workers, NEW o \in Orders, RejectOrder(w, o) PROVE TypeOK'
    BY <1>4 DEF TypeOK, StoreTypeOK, RejectOrder, FailClaimedOrder, OrderStates,
         Owners, batchTable
  <1>5. ASSUME NEW w \in Workers, HandOff(w) PROVE TypeOK'
    <2> DEFINE S == quoting[w]
    <2>1. CreateExecutionBatch(w, S)
      BY <1>5 DEF HandOff
    <2>2. PICK b \in Batches :
            /\ orderBatch' = [o \in Orders |-> IF o \in S THEN b ELSE orderBatch[o]]
            /\ batchState' = [batchState EXCEPT ![b] = "pending"]
            /\ outbox' = Enqueued(<<"batch_pending", b>>)
      BY <2>1 DEF CreateExecutionBatch
    <2>3. outbox' \in [Rows -> SUBSET Rows]
      BY <2>2, <1>t, OutboxType, RowsType DEF StoreTypeOK
    <2>4. orderBatch' \in [Orders -> Batches \cup {0}]
      BY <2>2, <1>t DEF StoreTypeOK
    <2>5. batchState' \in [Batches -> BatchStates]
      BY <2>2, <1>t DEF StoreTypeOK, BatchStates
    <2>6. /\ orderState' \in [Orders -> OrderStates]
          /\ orderOwner' \in [Orders -> Owners]
          /\ orderLapsed' \subseteq Orders
          /\ UNCHANGED <<orderTx, batchOwner, batchLapsed, submission>>
      BY <2>1, <1>t DEF CreateExecutionBatch, StoreTypeOK, OrderStates, Owners
    <2>7. StoreTypeOK'
      BY <2>3, <2>4, <2>5, <2>6, <1>t DEF StoreTypeOK
    <2> QED
      BY <2>7, <1>5 DEF TypeOK, HandOff
  <1>6. ASSUME NEW w \in Workers, HandOffRefused(w) PROVE TypeOK'
    BY <1>6 DEF TypeOK, StoreTypeOK, HandOffRefused, storeVars
  <1>7. ASSUME NEW w \in Workers, ClaimBatch(w) PROVE TypeOK'
    <2>1. PICK b \in Batches : ClaimPendingBatch(w, b) /\ job' = [job EXCEPT ![w] = b]
      BY <1>7 DEF ClaimBatch
    <2>2. outbox' \in [Rows -> SUBSET Rows]
      BY <2>1, <1>t, OutboxType DEF ClaimPendingBatch, StoreTypeOK
    <2>3. StoreTypeOK'
      BY <2>1, <2>2, <1>t DEF ClaimPendingBatch, StoreTypeOK, BatchStates, Owners,
           orderTable
    <2> QED
      BY <2>1, <2>3, <1>7 DEF TypeOK, ClaimBatch, PCs
  <1>8. ASSUME NEW w \in Workers, LoadBatch(w) PROVE TypeOK'
    BY <1>8 DEF TypeOK, StoreTypeOK, LoadBatch, Batched, InBatch, PCs, storeVars
  <1>9. ASSUME NEW w \in Workers, CloseBatch(w, job[w]), job[w] \in Batches
        PROVE StoreTypeOK'
    <2>1. CASE Owned(w, job[w])
      <3> DEFINE from == [batchState EXCEPT ![job[w]] = "reconciling"]
      <3>1. from \in [Batches -> BatchStates]
        BY <1>t DEF StoreTypeOK, BatchStates
      <3>2. FinalizeBatch(job[w], orderState', from)
        BY <1>9, <2>1 DEF CloseBatch
      <3>3. /\ batchState' \in [Batches -> BatchStates]
            /\ batchOwner' \in [Batches -> Owners]
            /\ batchLapsed' \subseteq Batches
            /\ outbox' \in [Rows -> SUBSET Rows]
        BY <1>9, <1>t, <3>1, <3>2, FinalizeType
      <3>4. /\ orderState' \in [Orders -> OrderStates]
            /\ UNCHANGED <<orderOwner, orderLapsed, orderBatch, orderTx, submission>>
        BY <1>9, <2>1, <1>t DEF CloseBatch, StoreTypeOK, OrderStates
      <3> QED
        BY <3>3, <3>4, <1>t DEF StoreTypeOK
    <2>2. CASE ~Owned(w, job[w])
      BY <1>9, <2>2, <1>t DEF CloseBatch, StoreTypeOK, storeVars
    <2> QED
      BY <2>1, <2>2
  <1>10. ASSUME NEW w \in Workers, LoadNothing(w) PROVE TypeOK'
    <2>1. StoreTypeOK'
      BY <1>9, <1>10 DEF LoadNothing, JobHeld
    <2> QED
      BY <2>1, <1>10 DEF TypeOK, LoadNothing, PCs
  <1>11. ASSUME NEW w \in Workers, Reconcile(w) PROVE TypeOK'
    <2>1. StoreTypeOK'
      BY <1>9, <1>11 DEF Reconcile, JobHeld
    <2> QED
      BY <2>1, <1>11 DEF TypeOK, Reconcile, PCs
  <1>12. ASSUME NEW w \in Workers, NEW b, NEW S, MarkPreSubmissionFailed(w, b, S)
         PROVE StoreTypeOK'
    BY <1>12, <1>t DEF MarkPreSubmissionFailed, StoreTypeOK, OrderStates, batchTable
  <1>13. ASSUME NEW w \in Workers, NEW S \in SUBSET Orders
         PROVE [by |-> w, orders |-> S] \in Tx
    BY DEF Tx
  <1>14. ASSUME NEW t \in Tx, Accept(t) PROVE chain' \in [Tx -> ChainStates]
    BY <1>14 DEF Accept, ChainStates, TypeOK
  <1>15. ASSUME NEW w \in Workers, NEW S \in SUBSET Orders, FailChunk(w, S)
         PROVE TypeOK'
    <2>1. StoreTypeOK'
      BY <1>12, <1>15 DEF FailChunk
    <2>2. chain' \in [Tx -> ChainStates]
      BY <1>13, <1>14, <1>15 DEF FailChunk, TypeOK
    <2> QED
      BY <2>1, <2>2, <1>15 DEF TypeOK, FailChunk
  <1>16. ASSUME NEW w \in Workers, NEW S \in SUBSET Orders, SubmitChunk(w, S)
         PROVE TypeOK'
    <2>1. chain' \in [Tx -> ChainStates]
      BY <1>13, <1>14, <1>16 DEF SubmitChunk
    <2>2. StoreTypeOK'
      BY <1>t, <1>16 DEF SubmitChunk, StoreTypeOK, storeVars
    <2>3. sent' \in [Workers -> SUBSET Tx] /\ todo' \in [Workers -> SUBSET Orders]
      BY <1>13, <1>16 DEF SubmitChunk, TypeOK
    <2> QED
      BY <2>1, <2>2, <2>3, <1>16 DEF TypeOK, SubmitChunk
  <1>17. ASSUME NEW w \in Workers, NEW t \in Tx, Record(w, t) PROVE TypeOK'
    <2>1. StoreTypeOK'
      BY <1>t, <1>17 DEF Record, RecordSubmission, StoreTypeOK, OrderStates,
           SubmissionStates, batchTable
    <2> QED
      BY <2>1, <1>17 DEF TypeOK, Record
  <1>18. ASSUME NEW w \in Workers, NEW t \in Tx, LoseUpdate(w, t) PROVE TypeOK'
    BY <1>18 DEF TypeOK, StoreTypeOK, LoseUpdate, storeVars
  <1>19. ASSUME NEW w \in Workers, FailRemaining(w) PROVE TypeOK'
    <2>1. StoreTypeOK'
      BY <1>12, <1>19 DEF FailRemaining
    <2> QED
      BY <2>1, <1>19 DEF TypeOK, FailRemaining, PCs
  <1>20. ASSUME NEW o \in Orders, Admit(o) PROVE TypeOK'
    <2>1. outbox' \in [Rows -> SUBSET Rows]
      BY <1>20, <1>t, OutboxType, RowsType DEF Admit, AdmitOrder, StoreTypeOK
    <2>2. StoreTypeOK'
      BY <2>1, <1>20, <1>t DEF Admit, AdmitOrder, StoreTypeOK, OrderStates, batchTable
    <2> QED
      BY <2>2, <1>20 DEF TypeOK, Admit, workerVars
  <1>21. ASSUME NEW o \in Orders, LapseOrder(o) PROVE TypeOK'
    BY <1>21 DEF TypeOK, StoreTypeOK, LapseOrder, LapseOrderClaim, batchTable, workerVars
  <1>22. ASSUME NEW b \in Batches, LapseBatch(b) PROVE TypeOK'
    BY <1>22 DEF TypeOK, StoreTypeOK, LapseBatch, LapseBatchClaim, orderTable, workerVars
  <1>23. ASSUME NEW b \in Batches, Announce(b) PROVE TypeOK'
    BY <1>23 DEF TypeOK, StoreTypeOK, Announce, storeVars, workerVars
  <1>24. ASSUME NEW b \in Batches, MarkDelivered(b) PROVE TypeOK'
    <2>1. outbox' \in [Rows -> SUBSET Rows]
      BY <1>24, <1>t, OutboxType DEF MarkDelivered, MarkOutboxDelivered, StoreTypeOK
    <2> QED
      BY <2>1, <1>24 DEF TypeOK, StoreTypeOK, MarkDelivered, MarkOutboxDelivered,
           orderTable, batchTable, workerVars
  <1>25. ASSUME NEW t \in Tx, Commit(t) PROVE TypeOK'
    BY <1>25 DEF TypeOK, StoreTypeOK, Commit, ChainStates, storeVars, workerVars
  <1>26. ASSUME NEW t \in Tx, NEW v \in Terminal, ResolveSubmission(t, v)
         PROVE StoreTypeOK'
    <2>1. PICK b \in Batches : FinalizeBatch(b, orderState', batchState)
      BY <1>26 DEF ResolveSubmission
    <2>2. /\ batchState' \in [Batches -> BatchStates]
          /\ batchOwner' \in [Batches -> Owners]
          /\ batchLapsed' \subseteq Batches
          /\ outbox' \in [Rows -> SUBSET Rows]
      <3>1. batchState \in [Batches -> BatchStates]
        BY <1>t DEF StoreTypeOK
      <3> QED
        BY <2>1, <3>1, <1>t, FinalizeType
    <2>3. /\ orderState' \in [Orders -> OrderStates]
          /\ submission' \in [Tx -> SubmissionStates]
          /\ UNCHANGED <<orderOwner, orderLapsed, orderBatch, orderTx>>
      BY <1>26, <1>t DEF ResolveSubmission, StoreTypeOK, OrderStates,
           SubmissionStates, Terminal
    <2> QED
      BY <2>2, <2>3, <1>t DEF StoreTypeOK
  <1>27. ASSUME NEW t \in Tx, Confirm(t) \/ GiveUp(t) PROVE TypeOK'
    <2>1. StoreTypeOK'
      BY <1>26, <1>27 DEF Confirm, GiveUp, Terminal
    <2> QED
      BY <2>1, <1>27 DEF TypeOK, Confirm, GiveUp, workerVars
  <1>28. CASE UNCHANGED vars
    BY <1>28 DEF TypeOK, StoreTypeOK, JobHeld, vars, storeVars, workerVars
  <1>29. CASE Next
    <2>1. TypeOK'
      BY <1>29, <1>1, <1>2, <1>3, <1>4, <1>5, <1>6, <1>7, <1>8, <1>10, <1>11, <1>15,
         <1>16, <1>17, <1>18, <1>19, <1>20, <1>21, <1>22, <1>23, <1>24, <1>25, <1>27
         DEF Next, QuotingStep, ExecutorStep
    <2>2. JobHeld'
      <3>1. ASSUME NEW w \in Workers, ClaimBatch(w) PROVE JobHeld'
        BY <3>1 DEF ClaimBatch, JobHeld, TypeOK
      <3>2. ASSUME NEW w \in Workers, LoadBatch(w) \/ FailRemaining(w) PROVE JobHeld'
        BY <3>2 DEF LoadBatch, FailRemaining, JobHeld, TypeOK
      <3>3. ASSUME NEW w \in Workers, Crash(w) \/ LoadNothing(w) \/ Reconcile(w)
            PROVE JobHeld'
        BY <3>3 DEF Crash, LoadNothing, Reconcile, JobHeld, TypeOK
      <3>4. CASE UNCHANGED <<pc, job>>
        BY <3>4 DEF JobHeld
      <3>5. ASSUME NEW w \in Workers, ExecutorStep(w) PROVE JobHeld'
        BY <3>1, <3>2, <3>3, <3>4, <3>5 DEF ExecutorStep, FailChunk, SubmitChunk,
             Record, LoseUpdate
      <3>6. ASSUME NEW w \in Workers, QuotingStep(w) \/ Start(w) PROVE JobHeld'
        BY <3>4, <3>6 DEF QuotingStep, Start, StartQuoting, HandOff, HandOffRefused,
             RejectOrder, workerVars
      <3>7. ASSUME NEW o \in Orders, Admit(o) \/ LapseOrder(o) PROVE JobHeld'
        BY <3>4, <3>7 DEF Admit, LapseOrder, workerVars
      <3>8. ASSUME NEW b \in Batches, LapseBatch(b) \/ Announce(b) \/ MarkDelivered(b)
            PROVE JobHeld'
        BY <3>4, <3>8 DEF LapseBatch, Announce, MarkDelivered, workerVars
      <3>9. ASSUME NEW t \in Tx, Commit(t) \/ Confirm(t) \/ GiveUp(t) PROVE JobHeld'
        BY <3>4, <3>9 DEF Commit, Confirm, GiveUp, workerVars
      <3> QED
        BY <1>29, <3>3, <3>5, <3>6, <3>7, <3>8, <3>9 DEF Next
    <2> QED
      BY <2>1, <2>2
  <1> QED
    BY <1>28, <1>29

\* The empty store satisfies them.
LEMMA TypeInit == Init => TypeOK /\ JobHeld
  BY DEF Init, StoreInit, TypeOK, StoreTypeOK, JobHeld, OrderStates, BatchStates,
     SubmissionStates, ChainStates, PCs, Owners, NoTx

\* Every variable keeps its type on every run.
THEOREM TypeCorrect == Spec => []TypeOK
  BY TypeInit, TypeStep, PTL DEF Spec

-----------------------------------------------------------------------------
(***************************************************************************)
(* The inductive invariant.  Placed says which orders are in which batch;  *)
(* with it NoOrderStranded and TerminalBatchSettled are inductive, because *)
(* a new batch starts empty and a batch only becomes terminal when all its *)
(* orders are.  Tracked ties each submitted or confirmed order to the row  *)
(* and the chain state of its own transaction.                             *)
(***************************************************************************)
PreBatch == {"none", "admitted", "processing_claimed"}

Placed ==
  \A o \in Orders :
    /\ orderState[o] \in PreBatch => orderBatch[o] = 0
    /\ orderState[o] \in {"batched", "submitted", "confirmed"}
         => orderBatch[o] \in Batches
    /\ orderBatch[o] # 0 => batchState[orderBatch[o]] # "none"

Tracked ==
  \A o \in Orders :
    /\ orderState[o] \in {"submitted", "confirmed"} => orderTx[o] \in Tx

SoleClaim ==
  \A b, c \in Batches :
    batchState[b] = "claimed" /\ batchState[c] = "claimed" => b = c

IInv ==
  /\ Placed
  /\ NoOrderStranded
  /\ TerminalBatchSettled
  /\ Tracked
  /\ SubmittedOrdersWatched
  /\ ConfirmedOnChain
  /\ SoleClaim

\* What IInv speaks of.
tracked == <<orderState, orderBatch, orderTx, batchState, submission, chain>>

\* The invariant depends on the tracked variables only.
LEMMA Untouched == IInv /\ UNCHANGED tracked => IInv'
  BY DEF IInv, Placed, NoOrderStranded, TerminalBatchSettled, Recoverable, BatchesIn,
     InBatch, Tracked, SubmittedOrdersWatched, InState, ConfirmedOnChain, SoleClaim,
     tracked

\* Changing orders that are not settled, without moving any of them to another
\* batch, keeps terminal batches settled.
LEMMA FailingKeeps ==
  ASSUME TypeOK, IInv, NEW F \in SUBSET Orders,
         \A o \in F : orderState[o] \in PreBatch \cup {"batched"},
         orderState' = [o \in Orders |-> IF o \in F THEN "failed" ELSE orderState[o]],
         UNCHANGED <<orderBatch, orderTx, batchState, submission>>,
         \A t \in Tx : chain[t] = "committed" => chain'[t] = "committed"
  PROVE  IInv'
  <1>1. \A o \in Orders : orderState'[o] = "failed" \/ orderState'[o] = orderState[o]
    OBVIOUS
  <1>2. Placed'
    BY <1>1 DEF IInv, Placed, PreBatch
  <1>3. NoOrderStranded'
    BY <1>1 DEF IInv, NoOrderStranded
  <1>4. TerminalBatchSettled'
    BY <1>1 DEF IInv, TerminalBatchSettled, Recoverable, BatchesIn, InBatch, Terminal
  <1>5. Tracked'
    BY <1>1 DEF IInv, Tracked
  <1>6. SubmittedOrdersWatched'
    BY <1>1 DEF IInv, SubmittedOrdersWatched, InState
  <1>7. ConfirmedOnChain'
    BY <1>1 DEF IInv, ConfirmedOnChain, InState, Tracked
  <1>8. SoleClaim'
    BY DEF IInv, SoleClaim
  <1> QED
    BY <1>2, <1>3, <1>4, <1>5, <1>6, <1>7, <1>8 DEF IInv

\* Accepting a transaction never undoes a commitment.
LEMMA AcceptKeeps ==
  ASSUME TypeOK, NEW t \in Tx, Accept(t)
  PROVE  \A u \in Tx : chain[u] = "committed" => chain'[u] = "committed"
  BY DEF Accept, TypeOK

\* Settling the orders G of batch b with verdict v, and finalizing b when
\* that settles all of it.  Used for reconciliation (G is what is left
\* batched) and for the finality verdict (G is the transaction's orders).
LEMMA SettlingKeeps ==
  ASSUME TypeOK, IInv, NEW b \in Batches, NEW G \in SUBSET Orders, NEW v \in Terminal,
         NEW from \in [Batches -> BatchStates],
         \A c \in Batches : c # b => from[c] = batchState[c],
         from[b] = batchState[b] \/ (batchState[b] = "claimed" /\ from[b] = "reconciling"),
         \A o \in G : orderBatch[o] = b /\ orderState[o] \in {"batched", "submitted"},
         orderState' = [o \in Orders |-> IF o \in G THEN v ELSE orderState[o]],
         from[b] = "reconciling" => \A o \in Orders : orderBatch[o] = b => orderState'[o] # "batched",
         FinalizeBatch(b, orderState', from),
         UNCHANGED <<orderBatch, orderTx>>
  PROVE  Placed' /\ NoOrderStranded' /\ TerminalBatchSettled' /\ SoleClaim'
  <1> DEFINE ready == /\ \A o \in InBatch(b) : orderState'[o] \in Terminal
                      /\ from[b] \in {"claimed", "reconciling"}
  <1>1. batchState' = IF ready THEN [from EXCEPT ![b] = "terminal"] ELSE from
    BY DEF FinalizeBatch
  <1>2. \A c \in Batches : c # b => batchState'[c] = batchState[c]
    BY <1>1
  <1>3. CASE ready
    <2>1. batchState'[b] = "terminal"
      BY <1>1, <1>3
    <2>2. \A o \in Orders : orderBatch[o] = b => orderState'[o] \in Terminal
      BY <1>3 DEF InBatch
    <2>3. \A o \in Orders : orderBatch[o] # b => orderState'[o] = orderState[o]
      OBVIOUS
    <2> HIDE DEF ready
    <2>4. Placed'
      BY <1>2, <2>1, <2>2, <2>3 DEF IInv, Placed, PreBatch, Terminal, TypeOK, StoreTypeOK
    <2>5. NoOrderStranded'
      BY <1>2, <2>1, <2>2, <2>3 DEF IInv, NoOrderStranded, Terminal
    <2>6. TerminalBatchSettled'
      BY <1>2, <2>1, <2>2, <2>3 DEF IInv, TerminalBatchSettled, Recoverable, BatchesIn,
           InBatch
    <2>7. SoleClaim'
      BY <1>2, <2>1 DEF IInv, SoleClaim
    <2> QED
      BY <2>4, <2>5, <2>6, <2>7
  <1>4. CASE ~ready
    <2>1. batchState' = from
      BY <1>1, <1>4
    <2>2. \A o \in Orders : \/ orderState'[o] = orderState[o]
                            \/ orderBatch[o] = b /\ orderState'[o] = v
      OBVIOUS
    <2>3. \A o \in Orders : orderBatch[o] = b /\ batchState[b] = "terminal"
                              => orderState[o] \in Terminal
      BY DEF IInv, TerminalBatchSettled, Recoverable, BatchesIn, InBatch
    <2> HIDE DEF ready
    <2>4. Placed'
      BY <2>1, <2>2 DEF IInv, Placed, PreBatch, Terminal, TypeOK, StoreTypeOK
    <2>5. NoOrderStranded'
      BY <2>1, <2>2 DEF IInv, NoOrderStranded, Terminal
    <2>6. TerminalBatchSettled'
      BY <2>1, <2>2, <2>3 DEF IInv, TerminalBatchSettled, Recoverable, BatchesIn,
           InBatch
    <2>7. SoleClaim'
      BY <2>1 DEF IInv, SoleClaim
    <2> QED
      BY <2>4, <2>5, <2>6, <2>7
  <1> QED
    BY <1>3, <1>4

\* The owner of a batch closes it.
LEMMA ClosingKeeps ==
  ASSUME TypeOK, IInv, NEW w \in Workers, NEW b \in Batches, CloseBatch(w, b),
         UNCHANGED chain
  PROVE  IInv'
  <1>1. CASE ~Owned(w, b)
    BY <1>1, Untouched DEF CloseBatch, storeVars, tracked
  <1>2. CASE Owned(w, b)
    <2> DEFINE from == [batchState EXCEPT ![b] = "reconciling"]
               G == Batched(b)
    <2>1. from \in [Batches -> BatchStates] /\ from[b] = "reconciling"
          /\ \A c \in Batches : c # b => from[c] = batchState[c]
      BY DEF TypeOK, StoreTypeOK, BatchStates
    <2>2. /\ orderState' = [o \in Orders |-> IF o \in G THEN "failed" ELSE orderState[o]]
          /\ FinalizeBatch(b, orderState', from)
          /\ UNCHANGED <<orderBatch, orderTx, submission>>
      BY <1>2 DEF CloseBatch
    <2>3. G \in SUBSET Orders /\ \A o \in G : orderBatch[o] = b /\ orderState[o] = "batched"
      BY DEF Batched, InBatch
    <2>4. \A o \in Orders : orderBatch[o] = b => orderState'[o] # "batched"
      BY <2>2 DEF Batched, InBatch
    <2>5. batchState[b] = "claimed"
      BY <1>2 DEF Owned
    <2>6. "failed" \in Terminal
      BY DEF Terminal
    <2> HIDE DEF from, G
    <2>7. Placed' /\ NoOrderStranded' /\ TerminalBatchSettled' /\ SoleClaim'
      BY <2>1, <2>2, <2>3, <2>4, <2>5, <2>6, SettlingKeeps
    <2>8. \A o \in Orders : orderState'[o] = "failed" \/ orderState'[o] = orderState[o]
      BY <2>2
    <2>9. Tracked' /\ SubmittedOrdersWatched' /\ ConfirmedOnChain'
      BY <2>2, <2>8 DEF IInv, Tracked, SubmittedOrdersWatched, ConfirmedOnChain, InState
    <2> QED
      BY <2>7, <2>9 DEF IInv
  <1> QED
    BY <1>1, <1>2

\* The finality observer settles a recorded transaction.
LEMMA ResolvingKeeps ==
  ASSUME TypeOK, IInv, NEW t \in Tx, NEW v \in Terminal, ResolveSubmission(t, v),
         v = "confirmed" => chain[t] = "committed", UNCHANGED chain
  PROVE  IInv'
  <1> DEFINE G == {o \in t.orders : orderState[o] = "submitted" /\ orderTx[o] = t}
  <1>1. t.orders \subseteq Orders
    BY DEF Tx
  <1>2. orderState' = [o \in Orders |-> IF o \in G THEN v ELSE orderState[o]]
    BY DEF ResolveSubmission
  <1>3. PICK b \in Batches : /\ \A o \in t.orders : orderBatch[o] = b
                             /\ FinalizeBatch(b, orderState', batchState)
    BY DEF ResolveSubmission
  <1>4. UNCHANGED <<orderBatch, orderTx>>
        /\ submission[t] = "submitted" /\ submission' = [submission EXCEPT ![t] = v]
    BY DEF ResolveSubmission
  <1>5. /\ G \in SUBSET Orders
        /\ \A o \in G : orderBatch[o] = b /\ orderState[o] = "submitted"
        /\ \A o \in G : orderTx[o] = t /\ o \in t.orders
    BY <1>1, <1>3
  <1>6. \A o \in Orders : o \notin G /\ orderState[o] = "submitted" => orderTx[o] # t
    BY DEF IInv, SubmittedOrdersWatched, InState
  <1> HIDE DEF G
  <1>7. batchState \in [Batches -> BatchStates]
    BY DEF TypeOK, StoreTypeOK
  <1>8. batchState[b] = "reconciling"
          => \A o \in Orders : orderBatch[o] = b => orderState'[o] # "batched"
    BY <1>2 DEF IInv, NoOrderStranded, Terminal
  <1>9. Placed' /\ NoOrderStranded' /\ TerminalBatchSettled' /\ SoleClaim'
    BY <1>2, <1>3, <1>4, <1>5, <1>7, <1>8, SettlingKeeps
  <1>10. Tracked'
    BY <1>2, <1>4, <1>5 DEF IInv, Tracked, Terminal
  <1>11. SubmittedOrdersWatched'
    <2> SUFFICES ASSUME NEW o \in Orders, orderState'[o] = "submitted"
                 PROVE  submission'[orderTx[o]] = "submitted" /\ o \in orderTx[o].orders
      BY <1>4 DEF SubmittedOrdersWatched, InState
    <2>1. o \notin G /\ orderState[o] = "submitted"
      BY <1>2 DEF Terminal
    <2>2. orderTx[o] # t /\ orderTx[o] \in Tx
      BY <2>1, <1>6 DEF IInv, Tracked
    <2>3. submission[orderTx[o]] = "submitted" /\ o \in orderTx[o].orders
      BY <2>1 DEF IInv, SubmittedOrdersWatched, InState
    <2> QED
      BY <2>2, <2>3, <1>4 DEF TypeOK, StoreTypeOK
  <1>12. ConfirmedOnChain'
    BY <1>2, <1>4, <1>5 DEF IInv, ConfirmedOnChain, InState, Terminal
  <1> QED
    BY <1>9, <1>10, <1>11, <1>12 DEF IInv

\* The quoting loop hands a batch off.
LEMMA HandOffKeeps ==
  ASSUME TypeOK, IInv, NEW w \in Workers, HandOff(w)
  PROVE  IInv'
  <1> DEFINE S == quoting[w]
  <1>1. /\ S \in SUBSET Orders
        /\ \A o \in S : orderState[o] = "processing_claimed"
        /\ orderState' = [o \in Orders |-> IF o \in S THEN "batched" ELSE orderState[o]]
        /\ UNCHANGED <<orderTx, submission, chain>>
    BY DEF HandOff, CreateExecutionBatch, CanCreateBatch, TypeOK
  <1>2. PICK b \in Batches :
          /\ batchState[b] = "none"
          /\ orderBatch' = [o \in Orders |-> IF o \in S THEN b ELSE orderBatch[o]]
          /\ batchState' = [batchState EXCEPT ![b] = "pending"]
    BY DEF HandOff, CreateExecutionBatch
  <1> HIDE DEF S
  <1>3. \A o \in Orders : orderBatch[o] # b
    BY <1>2 DEF IInv, Placed, Batches
  <1>4. /\ batchState'[b] = "pending"
        /\ \A c \in Batches : c # b => batchState'[c] = batchState[c]
    BY <1>2 DEF TypeOK, StoreTypeOK
  <1>5. \A o \in Orders : \/ o \in S /\ orderState'[o] = "batched" /\ orderBatch'[o] = b
                          \/ /\ orderState'[o] = orderState[o]
                             /\ orderBatch'[o] = orderBatch[o]
    BY <1>1, <1>2
  <1>6. Placed'
    BY <1>3, <1>4, <1>5 DEF IInv, Placed, PreBatch, TypeOK, StoreTypeOK
  <1>7. NoOrderStranded'
    BY <1>3, <1>4, <1>5 DEF IInv, NoOrderStranded
  <1>8. TerminalBatchSettled'
    BY <1>3, <1>4, <1>5 DEF IInv, TerminalBatchSettled, Recoverable, BatchesIn, InBatch
  <1>9. Tracked' /\ SubmittedOrdersWatched' /\ ConfirmedOnChain'
    BY <1>1, <1>5 DEF IInv, Tracked, SubmittedOrdersWatched, ConfirmedOnChain, InState
  <1>10. SoleClaim'
    BY <1>4 DEF IInv, SoleClaim
  <1> QED
    BY <1>6, <1>7, <1>8, <1>9, <1>10 DEF IInv

\* The execution worker records a submission.
LEMMA RecordKeeps ==
  ASSUME TypeOK, IInv, NEW w \in Workers, NEW t \in Tx, Record(w, t)
  PROVE  IInv'
  <1> DEFINE b == job[w]
  <1>1. RecordSubmission(w, b, t) /\ UNCHANGED chain
    BY DEF Record
  <1>2. CASE ~CanRecord(w, b, t)
    <2>1. orderState' = orderState /\ orderTx' = orderTx
      BY <1>1, <1>2 DEF RecordSubmission, TypeOK, StoreTypeOK
    <2> QED
      BY <1>1, <1>2, <2>1, Untouched DEF RecordSubmission, tracked, batchTable
  <1>3. CASE CanRecord(w, b, t)
    <2>1. /\ orderState' = [o \in Orders |->
                IF o \in t.orders THEN "submitted" ELSE orderState[o]]
          /\ orderTx' = [o \in Orders |-> IF o \in t.orders THEN t ELSE orderTx[o]]
          /\ submission' = [submission EXCEPT ![t] = "submitted"]
          /\ UNCHANGED <<orderBatch, batchState>>
      BY <1>1, <1>3 DEF RecordSubmission, batchTable
    <2>2. \A o \in t.orders : o \in Orders /\ orderState[o] = "batched"
      BY <1>3 DEF CanRecord, Batched, InBatch
    <2>3. Placed'
      BY <2>1, <2>2 DEF IInv, Placed, PreBatch
    <2>4. NoOrderStranded'
      BY <2>1, <2>2 DEF IInv, NoOrderStranded
    <2>5. TerminalBatchSettled'
      BY <2>1, <2>2 DEF IInv, TerminalBatchSettled, Recoverable, BatchesIn, InBatch,
           Terminal
    <2>6. Tracked'
      BY <2>1, <2>2 DEF IInv, Tracked
    <2>7. SubmittedOrdersWatched'
      BY <2>1, <2>2 DEF IInv, SubmittedOrdersWatched, InState, Tracked, TypeOK, StoreTypeOK
    <2>8. ConfirmedOnChain'
      BY <2>1, <2>2, <1>1 DEF IInv, ConfirmedOnChain, InState
    <2>9. SoleClaim'
      BY <2>1 DEF IInv, SoleClaim
    <2> QED
      BY <2>3, <2>4, <2>5, <2>6, <2>7, <2>8, <2>9 DEF IInv
  <1> QED
    BY <1>2, <1>3

\* IInv is inductive: one step per action that touches what it speaks of.
LEMMA InvStep == TypeOK /\ JobHeld /\ IInv /\ [Next]_vars => IInv'
  <1> SUFFICES ASSUME TypeOK, JobHeld, IInv, [Next]_vars
               PROVE  IInv'
    OBVIOUS
  <1>1. ASSUME NEW w \in Workers, Start(w) PROVE IInv'
    <2>1. PICK S \in SUBSET Orders : FailOrdersByIds(S)
      BY <1>1 DEF Start
    <2> DEFINE F == S \cap (InState("admitted") \cup InState("processing_claimed"))
    <2>2. F \in SUBSET Orders /\ \A o \in F : orderState[o] \in PreBatch
      BY DEF InState, PreBatch
    <2>3. /\ orderState' = [o \in Orders |-> IF o \in F THEN "failed" ELSE orderState[o]]
          /\ UNCHANGED <<orderBatch, orderTx, batchState, submission, chain>>
      BY <1>1, <2>1 DEF FailOrdersByIds, batchTable, Start
    <2> HIDE DEF F
    <2> QED
      BY <2>2, <2>3, FailingKeeps
  <1>2. ASSUME NEW w \in Workers, NEW o \in Orders, RejectOrder(w, o) PROVE IInv'
    <2> DEFINE F == {p \in {o} : orderState[p] = "processing_claimed" /\ orderOwner[p] = w}
    <2>1. F \in SUBSET Orders /\ \A p \in F : orderState[p] \in PreBatch
      BY DEF PreBatch
    <2>2. /\ orderState' = [p \in Orders |-> IF p \in F THEN "failed" ELSE orderState[p]]
          /\ UNCHANGED <<orderBatch, orderTx, batchState, submission, chain>>
      BY <1>2 DEF RejectOrder, FailClaimedOrder, batchTable
    <2> HIDE DEF F
    <2> QED
      BY <2>1, <2>2, FailingKeeps
  <1>3. ASSUME NEW w \in Workers, NEW b, NEW S, MarkPreSubmissionFailed(w, b, S),
               \A u \in Tx : chain[u] = "committed" => chain'[u] = "committed"
        PROVE IInv'
    <2> DEFINE F == {o \in S \cap Batched(b) : Owned(w, b)}
    <2>1. F \in SUBSET Orders /\ \A o \in F : orderState[o] = "batched"
      BY DEF Batched, InBatch
    <2>2. /\ orderState' = [o \in Orders |-> IF o \in F THEN "failed" ELSE orderState[o]]
          /\ UNCHANGED <<orderBatch, orderTx, batchState, submission>>
      BY <1>3 DEF MarkPreSubmissionFailed, batchTable
    <2> HIDE DEF F
    <2> QED
      BY <1>3, <2>1, <2>2, FailingKeeps
  <1>4. ASSUME NEW w \in Workers, NEW S \in SUBSET Orders, FailChunk(w, S) PROVE IInv'
    <2>1. [by |-> w, orders |-> S] \in Tx
      BY DEF Tx
    <2>2. \A u \in Tx : chain[u] = "committed" => chain'[u] = "committed"
      BY <1>4, <2>1, AcceptKeeps DEF FailChunk
    <2> QED
      BY <1>3, <1>4, <2>2 DEF FailChunk
  <1>5. ASSUME NEW w \in Workers, FailRemaining(w) PROVE IInv'
    BY <1>3, <1>5 DEF FailRemaining
  <1>6. ASSUME NEW w \in Workers, LoadNothing(w) \/ Reconcile(w) PROVE IInv'
    BY <1>6, ClosingKeeps DEF LoadNothing, Reconcile, JobHeld
  <1>7. ASSUME NEW w \in Workers, NEW S \in SUBSET Orders, SubmitChunk(w, S) PROVE IInv'
    <2>1. [by |-> w, orders |-> S] \in Tx
      BY DEF Tx
    <2>2. \A u \in Tx : chain[u] = "committed" => chain'[u] = "committed"
      BY <1>7, <2>1, AcceptKeeps DEF SubmitChunk
    <2>3. UNCHANGED <<orderBatch, orderTx, orderState, batchState, submission>>
      BY <1>7 DEF SubmitChunk, storeVars
    <2> DEFINE F == {o \in Orders : FALSE}
    <2>4. /\ orderState' = [o \in Orders |-> IF o \in F THEN "failed" ELSE orderState[o]]
          /\ F \in SUBSET Orders
          /\ \A o \in F : orderState[o] \in PreBatch
      BY <2>3 DEF TypeOK, StoreTypeOK
    <2> HIDE DEF F
    <2> QED
      BY <2>2, <2>3, <2>4, FailingKeeps
  <1>8. ASSUME NEW t \in Tx, Commit(t) PROVE IInv'
    <2>1. \A u \in Tx : chain[u] = "committed" => chain'[u] = "committed"
      BY <1>8 DEF Commit, TypeOK
    <2>2. UNCHANGED <<orderBatch, orderTx, orderState, batchState, submission>>
      BY <1>8 DEF Commit, storeVars
    <2> DEFINE F == {o \in Orders : FALSE}
    <2>3. /\ orderState' = [o \in Orders |-> IF o \in F THEN "failed" ELSE orderState[o]]
          /\ F \in SUBSET Orders
          /\ \A o \in F : orderState[o] \in PreBatch
      BY <2>2 DEF TypeOK, StoreTypeOK
    <2> HIDE DEF F
    <2> QED
      BY <2>1, <2>2, <2>3, FailingKeeps
  <1>9. ASSUME NEW t \in Tx, Confirm(t) \/ GiveUp(t) PROVE IInv'
    BY <1>9, ResolvingKeeps DEF Confirm, GiveUp, Terminal
  <1>10. ASSUME NEW F \in SUBSET Orders, NEW s \in PreBatch,
                \A o \in F : orderState[o] \in PreBatch,
                orderState' = [o \in Orders |-> IF o \in F THEN s ELSE orderState[o]],
                UNCHANGED <<orderBatch, orderTx, batchState, submission, chain>>
         PROVE IInv'
    <2>1. \A o \in Orders : \/ orderState'[o] = orderState[o]
                            \/ orderState[o] \in PreBatch /\ orderState'[o] \in PreBatch
      BY <1>10
    <2>2. Placed' /\ NoOrderStranded' /\ Tracked'
      BY <1>10, <2>1 DEF IInv, Placed, NoOrderStranded, Tracked, PreBatch
    <2>3. TerminalBatchSettled'
      BY <1>10, <2>1 DEF IInv, TerminalBatchSettled, Recoverable, BatchesIn, InBatch,
           Terminal, PreBatch
    <2>4. SubmittedOrdersWatched' /\ ConfirmedOnChain' /\ SoleClaim'
      BY <1>10, <2>1 DEF IInv, SubmittedOrdersWatched, ConfirmedOnChain, SoleClaim,
           InState, PreBatch
    <2> QED
      BY <2>2, <2>3, <2>4 DEF IInv
  <1>11. ASSUME NEW o \in Orders, Admit(o) PROVE IInv'
    <2>1. /\ orderState' = [p \in Orders |-> IF p \in {o} THEN "admitted" ELSE orderState[p]]
          /\ orderState[o] \in PreBatch
          /\ UNCHANGED <<orderBatch, orderTx, batchState, submission, chain>>
      BY <1>11 DEF Admit, AdmitOrder, batchTable, PreBatch, TypeOK, StoreTypeOK
    <2>2. "admitted" \in PreBatch
      BY DEF PreBatch
    <2> QED
      BY <1>10, <2>1, <2>2
  <1>12. ASSUME NEW w \in Workers, StartQuoting(w) PROVE IInv'
    <2>1. PICK S \in SUBSET Orders : ClaimAdmittedOrders(w, S)
      BY <1>12 DEF StartQuoting
    <2>2. /\ \A o \in S : orderState[o] \in PreBatch
          /\ "processing_claimed" \in PreBatch
      BY <2>1 DEF ClaimAdmittedOrders, Claimable, InState, PreBatch
    <2>3. /\ orderState' = [o \in Orders |->
               IF o \in S THEN "processing_claimed" ELSE orderState[o]]
          /\ UNCHANGED <<orderBatch, orderTx, batchState, submission, chain>>
      BY <2>1, <1>12 DEF ClaimAdmittedOrders, batchTable, StartQuoting
    <2> QED
      BY <1>10, <2>2, <2>3
  <1>13. ASSUME NEW w \in Workers, ClaimBatch(w) PROVE IInv'
    <2>1. PICK b \in Batches : ClaimPendingBatch(w, b)
      BY <1>13 DEF ClaimBatch
    <2>2. /\ batchState[b] \in {"pending", "claimed"}
          /\ \A c \in Batches : batchState[c] = "claimed" => c = b
      BY <2>1 DEF ClaimPendingBatch, ClaimableBatch, BatchesIn, IInv, SoleClaim
    <2>3. /\ batchState' = [batchState EXCEPT ![b] = "claimed"]
          /\ UNCHANGED <<orderState, orderBatch, orderTx, submission, chain>>
      BY <2>1, <1>13 DEF ClaimPendingBatch, orderTable, ClaimBatch
    <2>4. /\ batchState'[b] = "claimed"
          /\ \A c \in Batches : c # b => batchState'[c] = batchState[c]
      BY <2>3 DEF TypeOK, StoreTypeOK
    <2>5. Placed'
      BY <2>3, <2>4 DEF IInv, Placed, TypeOK, StoreTypeOK
    <2>6. NoOrderStranded'
      BY <2>2, <2>3, <2>4 DEF IInv, NoOrderStranded
    <2>7. TerminalBatchSettled'
      BY <2>3, <2>4 DEF IInv, TerminalBatchSettled, Recoverable, BatchesIn, InBatch
    <2>8. Tracked' /\ SubmittedOrdersWatched' /\ ConfirmedOnChain'
      BY <2>3 DEF IInv, Tracked, SubmittedOrdersWatched, ConfirmedOnChain, InState
    <2>9. SoleClaim'
      BY <2>2, <2>4 DEF IInv, SoleClaim
    <2> QED
      BY <2>5, <2>6, <2>7, <2>8, <2>9 DEF IInv
  <1>14. ASSUME NEW w \in Workers,
                Crash(w) \/ HandOffRefused(w) \/ LoadBatch(w)
                  \/ \E t \in Tx : LoseUpdate(w, t)
         PROVE IInv'
    BY <1>14, Untouched DEF Crash, HandOffRefused, LoadBatch, LoseUpdate, storeVars, tracked
  <1>15. ASSUME NEW o \in Orders, LapseOrder(o) PROVE IInv'
    BY <1>15, Untouched DEF LapseOrder, LapseOrderClaim, batchTable, tracked
  <1>16. ASSUME NEW b \in Batches, LapseBatch(b) \/ Announce(b) \/ MarkDelivered(b)
         PROVE IInv'
    BY <1>16, Untouched DEF LapseBatch, LapseBatchClaim, Announce, MarkDelivered,
         MarkOutboxDelivered, orderTable, batchTable, storeVars, tracked
  <1>17. CASE UNCHANGED vars
    BY <1>17, Untouched DEF vars, storeVars, tracked
  <1>18. CASE Next
    BY <1>18, <1>1, <1>2, <1>4, <1>5, <1>6, <1>7, <1>8, <1>9, <1>11, <1>12, <1>13, <1>14,
       <1>15, <1>16, HandOffKeeps, RecordKeeps
       DEF Next, QuotingStep, ExecutorStep
  <1> QED
    BY <1>17, <1>18

\* The empty store satisfies the invariant.
LEMMA InvInit == Init => IInv
  BY DEF Init, StoreInit, IInv, Placed, NoOrderStranded, TerminalBatchSettled, Recoverable,
     BatchesIn, Tracked, SubmittedOrdersWatched, ConfirmedOnChain, InState, SoleClaim, PreBatch

\* The inductive invariant holds on every run.
LEMMA Inductive == Spec => [](TypeOK /\ JobHeld /\ IInv)
  <1>1. Init => TypeOK /\ JobHeld /\ IInv
    BY TypeInit, InvInit
  <1>2. (TypeOK /\ JobHeld /\ IInv) /\ [Next]_vars => (TypeOK /\ JobHeld /\ IInv)'
    BY TypeStep, InvStep
  <1> QED
    BY <1>1, <1>2, PTL DEF Spec

\* An order awaiting submission always sits in a batch a worker still has to
\* run, whatever crashes, takeovers and verdicts happen.
THEOREM NoneStranded == Spec => []NoOrderStranded
  BY Inductive, PTL DEF IInv

\* A terminal batch can always be recovered and published.
THEOREM TerminalIsSettled == Spec => []TerminalBatchSettled
  BY Inductive, PTL DEF IInv

\* The observer polls the transaction of every order in flight.
THEOREM InFlightWatched == Spec => []SubmittedOrdersWatched
  BY Inductive, PTL DEF IInv

\* Confirmed means committed, for the order's own transaction.
THEOREM ConfirmedIsCommitted == Spec => []ConfirmedOnChain
  BY Inductive, PTL DEF IInv

\* The claimed slot holds at most one batch.
THEOREM SingleClaim == Spec => []OneClaimedBatch
  <1>1. SoleClaim => OneClaimedBatch
    <2> SUFFICES ASSUME SoleClaim PROVE Cardinality(BatchesIn("claimed")) <= 1
      BY DEF OneClaimedBatch
    <2>1. CASE BatchesIn("claimed") = {}
      BY <2>1, FS_EmptySet
    <2>2. CASE BatchesIn("claimed") # {}
      <3>1. PICK b \in Batches : batchState[b] = "claimed"
        BY <2>2 DEF BatchesIn
      <3>2. BatchesIn("claimed") = {b}
        BY <3>1 DEF BatchesIn, SoleClaim
      <3> QED
        BY <3>2, FS_Singleton
    <2> QED
      BY <2>1, <2>2
  <1> QED
    BY <1>1, Inductive, PTL DEF IInv

\* No step of any process changes the outcome of an order.
THEOREM OutcomesNeverChange == Spec => OutcomesFinal
  <1>1. TypeOK /\ JobHeld /\ IInv /\ [Next]_vars => [OutcomeKept]_vars
    <2> SUFFICES ASSUME TypeOK, Next
                 PROVE  OutcomeKept
      BY DEF vars
    <2>1. ASSUME UNCHANGED <<orderState, orderBatch, orderTx>> PROVE OutcomeKept
      BY <2>1 DEF OutcomeKept
    <2>2. ASSUME NEW w \in Workers, Start(w) PROVE OutcomeKept
      BY <2>2 DEF Start, FailOrdersByIds, InState, OutcomeKept, Terminal
    <2>3. ASSUME NEW w \in Workers, StartQuoting(w) PROVE OutcomeKept
      BY <2>3 DEF StartQuoting, ClaimAdmittedOrders, Claimable, InState, OutcomeKept,
           Terminal
    <2>4. ASSUME NEW w \in Workers, NEW o \in Orders, RejectOrder(w, o)
          PROVE  OutcomeKept
      BY <2>4 DEF RejectOrder, FailClaimedOrder, OutcomeKept, Terminal
    <2>5. ASSUME NEW w \in Workers, HandOff(w) PROVE OutcomeKept
      BY <2>5 DEF HandOff, CreateExecutionBatch, CanCreateBatch, OutcomeKept, Terminal
    <2>6. ASSUME NEW w, NEW b, NEW S, MarkPreSubmissionFailed(w, b, S) PROVE OutcomeKept
      BY <2>6 DEF MarkPreSubmissionFailed, Batched, InBatch, OutcomeKept, Terminal
    <2>7. ASSUME NEW w, NEW b, CloseBatch(w, b) PROVE OutcomeKept
      BY <2>7, <2>1 DEF CloseBatch, Batched, InBatch, OutcomeKept, Terminal, storeVars
    <2>8. ASSUME NEW w \in Workers, NEW t \in Tx, Record(w, t) PROVE OutcomeKept
      BY <2>8 DEF Record, RecordSubmission, CanRecord, Batched, InBatch, OutcomeKept,
           Terminal
    <2>9. ASSUME NEW t \in Tx, Confirm(t) \/ GiveUp(t) PROVE OutcomeKept
      BY <2>9 DEF Confirm, GiveUp, ResolveSubmission, OutcomeKept, Terminal
    <2>10. ASSUME NEW o \in Orders, Admit(o) \/ LapseOrder(o) PROVE OutcomeKept
      BY <2>10 DEF Admit, AdmitOrder, LapseOrder, LapseOrderClaim, OutcomeKept,
           Terminal, TypeOK, StoreTypeOK
    <2>11. ASSUME NEW b \in Batches, LapseBatch(b) \/ Announce(b) \/ MarkDelivered(b)
           PROVE  OutcomeKept
      BY <2>1, <2>11 DEF LapseBatch, LapseBatchClaim, Announce, MarkDelivered,
           MarkOutboxDelivered, orderTable, storeVars
    <2>12. ASSUME NEW w \in Workers, Crash(w) \/ QuotingStep(w) PROVE OutcomeKept
      BY <2>1, <2>3, <2>4, <2>5, <2>12 DEF Crash, QuotingStep, HandOffRefused, storeVars
    <2>13. ASSUME NEW w \in Workers, ClaimBatch(w) PROVE OutcomeKept
      BY <2>1, <2>13 DEF ClaimBatch, ClaimPendingBatch, orderTable
    <2>14. ASSUME NEW w \in Workers, ExecutorStep(w) PROVE OutcomeKept
      BY <2>1, <2>6, <2>7, <2>8, <2>13, <2>14 DEF ExecutorStep, LoadBatch, LoadNothing,
           FailChunk, SubmitChunk, LoseUpdate, FailRemaining, Reconcile, storeVars
    <2>15. ASSUME NEW t \in Tx, Commit(t) PROVE OutcomeKept
      BY <2>1, <2>15 DEF Commit, storeVars
    <2> QED
      BY <2>2, <2>9, <2>10, <2>11, <2>12, <2>14, <2>15 DEF Next
  <1> QED
    BY <1>1, Inductive, PTL DEF Spec, OutcomesFinal

-----------------------------------------------------------------------------
(***************************************************************************)
(* The order life cycle.  Beside IInv the refinement needs that an order   *)
(* and the recorded transaction it is in have the same state, so that a    *)
(* verdict reaches everyone aboard and a transaction boards once, and that *)
(* announced batches are over, so that no order joins one.                 *)
(***************************************************************************)
SharedFate ==
  \A o \in Orders : orderTx[o] # NoTx =>
    /\ orderTx[o] \in Tx /\ o \in orderTx[o].orders
    /\ orderState[o] \in {"submitted", "confirmed", "failed"}
    /\ orderState[o] = submission[orderTx[o]]

ToldOver == \A b \in told : batchState[b] = "terminal"

LifeInv == SharedFate /\ ToldOver

\* What a step is to the life cycle, with the invariant it re-establishes.
LifeStep == LifeInv' /\ [Life!Next]_Life!lifeVars

Waiting == {"admitted", "processing_claimed", "batched"}

\* The NULL transaction is no transaction.
LEMMA NoTxIsNoTx == NoTx \notin Tx
  BY NobodyIsNoWorker DEF NoTx, Tx

\* The mapping, order by order.
LEMMA PhaseValue ==
  ASSUME TypeOK, NEW o \in Orders
  PROVE  /\ orderState[o] = "none" => Phase[o] = "unknown"
         /\ orderState[o] \in Waiting => Phase[o] = "open"
         /\ orderState[o] = "submitted" => Phase[o] = "riding"
         /\ orderState[o] \in Terminal => Phase[o] = orderState[o]
         /\ Phase[o] = "riding" => orderState[o] = "submitted"
         /\ Phase[o] = "unknown" => orderState[o] = "none"
  BY DEF TypeOK, StoreTypeOK, OrderStates, Phase, Waiting, Terminal

\* A step that keeps the phases, the transactions, the batches of the orders
\* and what was told is no step of the life cycle.
LEMMA LifeStutters ==
  ASSUME TypeOK, TypeOK', LifeInv,
         \A o \in Orders : \/ orderState'[o] = orderState[o]
                           \/ orderState[o] \in Waiting /\ orderState'[o] \in Waiting,
         \A o \in Orders : orderBatch[o] # 0 => orderBatch'[o] = orderBatch[o],
         \A o \in Orders : orderBatch'[o] # orderBatch[o] => orderBatch'[o] \notin told,
         \A b \in Batches : batchState[b] = "terminal" => batchState'[b] = "terminal",
         UNCHANGED <<orderTx, submission, told>>,
         Landed' = Landed
  PROVE  LifeStep
  <1>1. Phase' = Phase
    BY DEF Phase, Waiting
  <1>2. Heard' = Heard
    BY DEF Heard, TypeOK, StoreTypeOK, Batches
  <1>3. SharedFate'
    BY DEF LifeInv, SharedFate, Waiting
  <1>4. ToldOver'
    BY DEF LifeInv, ToldOver, TypeOK
  <1> QED
    BY <1>1, <1>2, <1>3, <1>4 DEF LifeStep, LifeInv, Life!lifeVars

\* Failing orders that were not recorded as sent drops them.
LEMMA LifeDrops ==
  ASSUME TypeOK, TypeOK', LifeInv, NEW F \in SUBSET Orders,
         \A o \in F : orderState[o] \in Waiting,
         orderState' = [o \in Orders |-> IF o \in F THEN "failed" ELSE orderState[o]],
         \A b \in Batches : batchState[b] = "terminal" => batchState'[b] = "terminal",
         UNCHANGED <<orderBatch, orderTx, submission, told>>,
         Landed' = Landed
  PROVE  LifeStep
  <1>1. Phase' = [o \in Orders |-> IF o \in F THEN "failed" ELSE Phase[o]]
    BY DEF Phase
  <1>2. \A o \in F : Phase[o] = "open"
    BY PhaseValue
  <1>3. Heard' = Heard
    BY DEF Heard
  <1>4. Life!Drop(F)
    BY <1>1, <1>2, <1>3 DEF Life!Drop, Life!Put
  <1>5. SharedFate'
    BY DEF LifeInv, SharedFate, Waiting
  <1>6. ToldOver'
    BY DEF LifeInv, ToldOver, TypeOK
  <1> QED
    BY <1>4, <1>5, <1>6 DEF LifeStep, LifeInv, Life!Next

\* A transaction the node takes has not landed yet.
LEMMA AcceptLands ==
  ASSUME TypeOK, NEW t \in Tx, Accept(t)
  PROVE  Landed' = Landed
  BY DEF Accept, TypeOK, Landed

\* Recording a submission boards its orders, unless the worker lost the batch.
LEMMA LifeBoards ==
  ASSUME TypeOK, TypeOK', LifeInv, NEW w \in Workers, NEW t \in Tx, Record(w, t)
  PROVE  LifeStep
  <1> DEFINE b == job[w]
  <1>1. RecordSubmission(w, b, t) /\ UNCHANGED <<chain, told>>
    BY DEF Record
  <1>2. UNCHANGED <<orderBatch, batchState>> /\ Landed' = Landed /\ Heard' = Heard
    BY <1>1 DEF RecordSubmission, batchTable, Landed, Heard
  <1>3. ToldOver'
    BY <1>1, <1>2 DEF LifeInv, ToldOver
  <1>4. CASE ~CanRecord(w, b, t)
    <2>1. UNCHANGED <<orderTx, submission>> /\ \A o \in Orders : orderState'[o] = orderState[o]
      BY <1>1, <1>4 DEF RecordSubmission, TypeOK, StoreTypeOK
    <2> QED
      BY <1>1, <1>2, <2>1, LifeStutters
  <1>5. CASE CanRecord(w, b, t)
    <2> DEFINE S == t.orders
    <2>1. /\ S \in SUBSET Orders /\ \A o \in S : orderState[o] = "batched"
          /\ submission[t] = "none"
      BY <1>5 DEF CanRecord, Batched, InBatch, Tx
    <2>2. /\ submission' = [submission EXCEPT ![t] = "submitted"]
          /\ orderState' = [o \in Orders |-> IF o \in S THEN "submitted" ELSE orderState[o]]
          /\ orderTx' = [o \in Orders |-> IF o \in S THEN t ELSE orderTx[o]]
      BY <1>1, <1>5 DEF RecordSubmission
    <2>3. \A o \in Orders : orderTx[o] # t
      BY <2>1, NoTxIsNoTx DEF LifeInv, SharedFate
    <2>4. SharedFate'
      <3> SUFFICES ASSUME NEW o \in Orders, orderTx'[o] # NoTx
                   PROVE  /\ orderTx'[o] \in Tx /\ o \in orderTx'[o].orders
                          /\ orderState'[o] \in {"submitted", "confirmed", "failed"}
                          /\ orderState'[o] = submission'[orderTx'[o]]
        BY DEF SharedFate
      <3>1. CASE o \in S
        BY <2>2, <3>1 DEF TypeOK, StoreTypeOK
      <3>2. CASE o \notin S
        BY <2>2, <2>3, <3>2 DEF LifeInv, SharedFate, TypeOK, StoreTypeOK
      <3> QED
        BY <3>1, <3>2
    <2>5. Phase' = [o \in Orders |-> IF o \in S THEN "riding" ELSE Phase[o]]
      BY <2>2 DEF Phase
    <2>6. \A o \in S : Phase[o] = "open"
      BY <2>1, PhaseValue DEF Waiting
    <2>7. Life!Board(t, S)
      BY <1>2, <2>2, <2>3, <2>5, <2>6 DEF Life!Board, Life!Put
    <2> QED
      BY <1>3, <2>1, <2>4, <2>7 DEF LifeStep, LifeInv, Life!Next
  <1> QED
    BY <1>4, <1>5

\* A verdict settles everyone aboard alike, as confirmed only if the chain has
\* committed their transaction.
LEMMA LifeSettles ==
  ASSUME TypeOK, TypeOK', IInv, LifeInv, NEW t \in Tx, Confirm(t) \/ GiveUp(t)
  PROVE  LifeStep
  <1>1. PICK v \in Terminal : /\ ResolveSubmission(t, v)
                              /\ v \in Life!Verdicts(t)
    BY DEF Confirm, GiveUp, Landed, Terminal, Life!Verdicts
  <1>2. UNCHANGED <<chain, told>> /\ Landed' = Landed
    BY DEF Confirm, GiveUp, Landed
  <1>3. /\ UNCHANGED <<orderBatch, orderTx>>
        /\ submission[t] = "submitted" /\ submission' = [submission EXCEPT ![t] = v]
        /\ orderState' = [o \in Orders |->
             IF o \in t.orders /\ orderState[o] = "submitted" /\ orderTx[o] = t
             THEN v ELSE orderState[o]]
    BY <1>1 DEF ResolveSubmission
  <1>4. \A b \in Batches : batchState[b] = "terminal" => batchState'[b] = "terminal"
    <2>1. PICK b \in Batches : FinalizeBatch(b, orderState', batchState)
      BY <1>1 DEF ResolveSubmission
    <2> QED
      BY <2>1 DEF FinalizeBatch, TypeOK, StoreTypeOK
  <1>5. \A o \in Orders : orderTx[o] = t
          => o \in t.orders /\ orderState[o] = "submitted"
    BY <1>3, NoTxIsNoTx DEF LifeInv, SharedFate
  <1>6. orderState' = [o \in Orders |-> IF orderTx[o] = t THEN v ELSE orderState[o]]
    BY <1>3, <1>5
  <1>7. SharedFate'
    BY <1>3, <1>6 DEF LifeInv, SharedFate, TypeOK, StoreTypeOK, Terminal
  <1>8. ToldOver' /\ Heard' = Heard
    BY <1>2, <1>3, <1>4 DEF LifeInv, ToldOver, TypeOK, Heard
  <1>9. Life!Riders(t) = {o \in Orders : orderTx[o] = t}
    BY <1>5, PhaseValue DEF Life!Riders
  <1>10. Phase' = [o \in Orders |-> IF orderTx[o] = t THEN v ELSE Phase[o]]
    BY <1>6 DEF Phase, Terminal
  <1>11. Life!Settle(t)
    BY <1>1, <1>2, <1>3, <1>8, <1>9, <1>10 DEF Life!Settle, Life!Put
  <1> QED
    BY <1>7, <1>8, <1>11 DEF LifeStep, LifeInv, Life!Next

\* Announcing a batch tells its orders.
LEMMA LifeTells ==
  ASSUME TypeOK, TypeOK', LifeInv, NEW b \in Batches, Announce(b)
  PROVE  LifeStep
  <1> DEFINE S == InBatch(b)
  <1>1. /\ UNCHANGED <<orderState, orderBatch, orderTx, batchState, submission, chain>>
        /\ told' = told \cup {b} /\ Recoverable(b)
    BY DEF Announce, storeVars
  <1>2. S \in SUBSET Orders /\ \A o \in S : Phase[o] \in {"confirmed", "failed"}
    BY <1>1, PhaseValue DEF Recoverable, InBatch, Terminal
  <1>3. Phase' = Phase /\ Landed' = Landed /\ Heard' = Heard \cup S
    BY <1>1 DEF Phase, Landed, Heard, InBatch
  <1>4. Life!Tell(S)
    BY <1>1, <1>2, <1>3 DEF Life!Tell
  <1>5. LifeInv'
    BY <1>1 DEF LifeInv, SharedFate, ToldOver, Recoverable
  <1> QED
    BY <1>2, <1>4, <1>5 DEF LifeStep, Life!Next

\* Handing a quote off only names the batch: it is new, so it was not told.
LEMMA LifeHandsOff ==
  ASSUME TypeOK, TypeOK', IInv, LifeInv, NEW w \in Workers, HandOff(w)
  PROVE  LifeStep
  <1> DEFINE S == quoting[w]
  <1>1. /\ S \in SUBSET Orders /\ \A o \in S : orderState[o] = "processing_claimed"
        /\ orderState' = [o \in Orders |-> IF o \in S THEN "batched" ELSE orderState[o]]
        /\ UNCHANGED <<orderTx, submission, chain, told>>
    BY DEF HandOff, CreateExecutionBatch, CanCreateBatch, TypeOK
  <1>2. PICK b \in Batches : /\ batchState[b] = "none"
                             /\ orderBatch' = [o \in Orders |-> IF o \in S THEN b ELSE orderBatch[o]]
                             /\ batchState' = [batchState EXCEPT ![b] = "pending"]
    BY DEF HandOff, CreateExecutionBatch
  <1>3. \A o \in S : orderBatch[o] = 0
    BY <1>1 DEF IInv, Placed, PreBatch
  <1>4. b \notin told
    BY <1>2 DEF LifeInv, ToldOver
  <1>5. \A c \in Batches : batchState[c] = "terminal" => batchState'[c] = "terminal"
    BY <1>2 DEF TypeOK, StoreTypeOK
  <1>6. \A o \in Orders : \/ orderState'[o] = orderState[o]
                          \/ orderState[o] \in Waiting /\ orderState'[o] \in Waiting
    BY <1>1 DEF Waiting
  <1> QED
    BY <1>1, <1>2, <1>3, <1>4, <1>5, <1>6, LifeStutters DEF Landed

\* Closing a batch drops what the owner did not send.
LEMMA LifeCloses ==
  ASSUME TypeOK, TypeOK', LifeInv, NEW w \in Workers, NEW b \in Batches, CloseBatch(w, b),
         UNCHANGED <<chain, told>>
  PROVE  LifeStep
  <1>1. CASE ~Owned(w, b)
    BY <1>1, LifeStutters DEF CloseBatch, storeVars, Landed
  <1>2. CASE Owned(w, b)
    <2> DEFINE F == Batched(b)
    <2>1. /\ UNCHANGED <<orderBatch, orderTx, submission>>
          /\ orderState' = [o \in Orders |-> IF o \in F THEN "failed" ELSE orderState[o]]
          /\ FinalizeBatch(b, orderState', [batchState EXCEPT ![b] = "reconciling"])
      BY <1>2 DEF CloseBatch
    <2>2. \A c \in Batches : batchState[c] = "terminal" => batchState'[c] = "terminal"
      BY <1>2, <2>1 DEF Owned, FinalizeBatch, TypeOK, StoreTypeOK
    <2>3. F \in SUBSET Orders /\ \A o \in F : orderState[o] \in Waiting
      BY DEF Batched, InBatch, Waiting
    <2> QED
      BY <2>1, <2>2, <2>3, LifeDrops DEF Landed
  <1> QED
    BY <1>1, <1>2

\* A failed submission phase drops orders of the batch.
LEMMA LifeFails ==
  ASSUME TypeOK, TypeOK', LifeInv, NEW w \in Workers, NEW b, NEW S,
         MarkPreSubmissionFailed(w, b, S), UNCHANGED told, Landed' = Landed
  PROVE  LifeStep
  <1> DEFINE F == IF Owned(w, b) THEN S \cap Batched(b) ELSE {}
  <1>1. F \in SUBSET Orders /\ \A o \in F : orderState[o] \in Waiting
    BY DEF Batched, InBatch, Waiting
  <1>2. orderState' = [o \in Orders |-> IF o \in F THEN "failed" ELSE orderState[o]]
    BY DEF MarkPreSubmissionFailed
  <1>3. UNCHANGED <<orderBatch, orderTx, submission, batchState>>
    BY DEF MarkPreSubmissionFailed, batchTable
  <1> HIDE DEF F
  <1> QED
    BY <1>1, <1>2, <1>3, LifeDrops

\* Every step of the pipeline is one of the life cycle, or none.
LEMMA LifeInduction ==
  TypeOK /\ JobHeld /\ IInv /\ LifeInv /\ [Next]_vars => LifeInv' /\ [Life!Next]_Life!lifeVars
  <1> SUFFICES ASSUME TypeOK, JobHeld, IInv, LifeInv, [Next]_vars
               PROVE  LifeStep
    BY DEF LifeStep
  <1>t. TypeOK'
    BY TypeStep
  <1>1. ASSUME NEW w \in Workers, Start(w) PROVE LifeStep
    <2>1. PICK S \in SUBSET Orders : FailOrdersByIds(S)
      BY <1>1 DEF Start
    <2> DEFINE F == S \cap (InState("admitted") \cup InState("processing_claimed"))
    <2>2. /\ F \in SUBSET Orders /\ \A o \in F : orderState[o] \in Waiting
          /\ orderState' = [o \in Orders |-> IF o \in F THEN "failed" ELSE orderState[o]]
          /\ UNCHANGED <<orderBatch, orderTx, submission, batchState>>
      BY <2>1 DEF FailOrdersByIds, InState, Waiting, batchTable
    <2>3. UNCHANGED told /\ Landed' = Landed
      BY <1>1 DEF Start, Landed
    <2> QED
      BY <1>t, <2>2, <2>3, LifeDrops
  <1>2. ASSUME UNCHANGED <<orderState, orderBatch, orderTx, batchState, submission, told>>,
               Landed' = Landed
        PROVE  LifeStep
    BY <1>t, <1>2, LifeStutters
  <1>3. ASSUME NEW w \in Workers, QuotingStep(w) PROVE LifeStep
    <2>1. CASE StartQuoting(w)
      <3>1. /\ UNCHANGED <<orderBatch, orderTx, batchState, submission, told>> /\ Landed' = Landed
            /\ \A o \in Orders : \/ orderState'[o] = orderState[o]
                                 \/ orderState[o] \in Waiting /\ orderState'[o] \in Waiting
        BY <2>1 DEF StartQuoting, ClaimAdmittedOrders, Claimable, InState, Waiting, batchTable, Landed
      <3> QED
        BY <1>t, <3>1, LifeStutters
    <2>2. CASE HandOff(w)
      BY <1>t, <2>2, LifeHandsOff
    <2>3. CASE HandOffRefused(w)
      BY <1>2, <2>3 DEF HandOffRefused, storeVars, Landed
    <2>4. ASSUME NEW o \in Orders, RejectOrder(w, o) PROVE LifeStep
      <3> DEFINE F == {p \in {o} : orderState[p] = "processing_claimed" /\ orderOwner[p] = w}
      <3>1. /\ F \in SUBSET Orders /\ \A p \in F : orderState[p] \in Waiting
            /\ orderState' = [p \in Orders |-> IF p \in F THEN "failed" ELSE orderState[p]]
            /\ UNCHANGED <<orderBatch, orderTx, submission, batchState, told>> /\ Landed' = Landed
        BY <2>4 DEF RejectOrder, FailClaimedOrder, Waiting, batchTable, Landed
      <3> QED
        BY <1>t, <3>1, LifeDrops
    <2> QED
      BY <1>3, <2>1, <2>2, <2>3, <2>4 DEF QuotingStep
  <1>4. ASSUME NEW w \in Workers, ExecutorStep(w) PROVE LifeStep
    <2>1. CASE ClaimBatch(w)
      <3>1. /\ UNCHANGED <<orderState, orderBatch, orderTx, submission, told>> /\ Landed' = Landed
            /\ \A b \in Batches : batchState[b] = "terminal" => batchState'[b] = "terminal"
        BY <2>1 DEF ClaimBatch, ClaimPendingBatch, ClaimableBatch, BatchesIn, orderTable, Landed,
             TypeOK, StoreTypeOK
      <3> QED
        BY <1>t, <3>1, LifeStutters
    <2>2. CASE LoadBatch(w)
      BY <1>2, <2>2 DEF LoadBatch, storeVars, Landed
    <2>3. CASE LoadNothing(w) \/ Reconcile(w)
      <3>1. job[w] \in Batches /\ CloseBatch(w, job[w]) /\ UNCHANGED <<chain, told>>
        BY <2>3 DEF LoadNothing, Reconcile, JobHeld, TypeOK
      <3> QED
        BY <1>t, <3>1, LifeCloses
    <2>4. ASSUME NEW S \in SUBSET Orders, FailChunk(w, S) PROVE LifeStep
      <3>1. [by |-> w, orders |-> S] \in Tx
        BY DEF Tx
      <3>2. MarkPreSubmissionFailed(w, job[w], S) /\ UNCHANGED told /\ Landed' = Landed
        BY <2>4, <3>1, AcceptLands DEF FailChunk, Landed
      <3> QED
        BY <1>t, <3>2, LifeFails
    <2>5. ASSUME NEW S \in SUBSET Orders, SubmitChunk(w, S) PROVE LifeStep
      <3>1. [by |-> w, orders |-> S] \in Tx
        BY DEF Tx
      <3> QED
        BY <1>2, <2>5, <3>1, AcceptLands DEF SubmitChunk, storeVars
    <2>6. ASSUME NEW t \in Tx, Record(w, t) PROVE LifeStep
      BY <1>t, <2>6, LifeBoards
    <2>7. ASSUME NEW t \in Tx, LoseUpdate(w, t) PROVE LifeStep
      BY <1>2, <2>7 DEF LoseUpdate, storeVars, Landed
    <2>8. CASE FailRemaining(w)
      BY <1>t, <2>8, LifeFails DEF FailRemaining, Landed
    <2> QED
      BY <1>4, <2>1, <2>2, <2>3, <2>4, <2>5, <2>6, <2>7, <2>8 DEF ExecutorStep
  <1>5. ASSUME NEW o \in Orders, Admit(o) PROVE LifeStep
    <2>1. /\ orderState[o] = "none" /\ orderState' = [orderState EXCEPT ![o] = "admitted"]
          /\ UNCHANGED <<orderBatch, orderTx, batchState, submission, chain, told>>
      BY <1>5 DEF Admit, AdmitOrder, batchTable
    <2>2. Phase' = [p \in Orders |-> IF p \in {o} THEN "open" ELSE Phase[p]]
      BY <2>1 DEF Phase, TypeOK, StoreTypeOK
    <2>3. Life!Open(o)
      BY <2>1, <2>2, PhaseValue DEF Life!Open, Life!Put, Landed, Heard
    <2>4. LifeInv'
      BY <2>1 DEF LifeInv, SharedFate, ToldOver, TypeOK, StoreTypeOK
    <2> QED
      BY <2>3, <2>4 DEF LifeStep, Life!Next
  <1>6. ASSUME NEW t \in Tx, Commit(t) PROVE LifeStep
    <2>1. /\ UNCHANGED <<orderState, orderBatch, orderTx, batchState, submission, told>>
          /\ Landed' = Landed \cup {t}
      BY <1>6 DEF Commit, storeVars, TypeOK, Landed
    <2>2. Life!Land(t)
      BY <2>1 DEF Life!Land, Phase, Heard
    <2>3. LifeInv'
      BY <2>1 DEF LifeInv, SharedFate, ToldOver
    <2> QED
      BY <2>2, <2>3 DEF LifeStep, Life!Next
  <1>7. ASSUME NEW b \in Batches, LapseBatch(b) \/ MarkDelivered(b) PROVE LifeStep
    BY <1>2, <1>7 DEF LapseBatch, LapseBatchClaim, MarkDelivered, MarkOutboxDelivered,
         orderTable, batchTable, Landed
  <1>8. ASSUME NEW o \in Orders, LapseOrder(o) PROVE LifeStep
    BY <1>2, <1>8 DEF LapseOrder, LapseOrderClaim, batchTable, Landed
  <1>9. ASSUME NEW w \in Workers, Crash(w) PROVE LifeStep
    BY <1>2, <1>9 DEF Crash, storeVars, Landed
  <1>10. CASE UNCHANGED vars
    BY <1>2, <1>10 DEF vars, storeVars, Landed
  <1> QED
    BY <1>t, <1>1, <1>3, <1>4, <1>5, <1>6, <1>7, <1>8, <1>9, <1>10, LifeSettles, LifeTells DEF Next

\* The initial state is the initial state of the life cycle.
LEMMA LifeStart == Init => LifeInv /\ Life!Init
  BY DEF Init, StoreInit, LifeInv, SharedFate, ToldOver, Life!Init, Phase, Landed, Heard

\* For any orders, workers, overlapping processes and crashes, the pipeline is
\* one order life cycle.
THEOREM PipelineImplementsLife == Spec => ImplementsOrderLife
  <1>1. (TypeOK /\ JobHeld /\ IInv) /\ LifeInv /\ [Next]_vars
          => LifeInv' /\ [Life!Next]_Life!lifeVars
    BY LifeInduction
  <1> QED
    BY <1>1, LifeStart, Inductive, PTL DEF Spec, ImplementsOrderLife, Life!Spec

\* Orders that share a transaction share its fate: none of them is reported
\* confirmed while another is reported failed or still open.
THEOREM FateShared == Spec => []SharedFate
  <1>1. (TypeOK /\ JobHeld /\ IInv) /\ LifeInv /\ [Next]_vars => LifeInv'
    BY LifeInduction
  <1>2. LifeInv => SharedFate
    BY DEF LifeInv
  <1> QED
    BY <1>1, <1>2, LifeStart, Inductive, PTL DEF Spec

-----------------------------------------------------------------------------
(***************************************************************************)
(* With one process at a time.  The worker works from the list it read     *)
(* when it claimed the batch; what keeps the list true is that only its    *)
(* own steps move a batched order, and only orders it has crossed off.     *)
(***************************************************************************)
Alone == \A v, w \in live : v = w
AtRest == \A w \in Workers : w \notin live \/ pc[w] # "running" => todo[w] = {} /\ sent[w] = {}
InHand == \A w \in Workers : \A o \in todo[w] : orderState[o] = "batched"
CrossedOff == \A w \in Workers : \A t \in sent[w] : t.orders \cap todo[w] = {}
FreshInv == MaxLive = 1 /\ Alone /\ AtRest /\ InHand /\ CrossedOff

\* No batched order is moved.
BatchedStays == \A o \in Orders : orderState[o] = "batched" => orderState'[o] = "batched"

\* The worker sits still and nothing it has in hand is moved.
LEMMA FreshStays ==
  ASSUME TypeOK, FreshInv, UNCHANGED <<live, pc, todo, sent>>, BatchedStays
  PROVE  FreshInv'
  BY DEF TypeOK, FreshInv, Alone, AtRest, InHand, CrossedOff, BatchedStays

\* The quoting loop, the API, the clock and the observer move no batched order.
LEMMA OthersStay ==
  ASSUME TypeOK
  PROVE
  /\ \A w \in Workers : QuotingStep(w) => BatchedStays /\ UNCHANGED <<live, pc, todo, sent, chain>>
  /\ \A o \in Orders : Admit(o) \/ LapseOrder(o)
       => BatchedStays /\ UNCHANGED <<live, pc, todo, sent, chain>>
  /\ \A b \in Batches : LapseBatch(b) \/ Announce(b) \/ MarkDelivered(b)
       => BatchedStays /\ UNCHANGED <<live, pc, todo, sent, chain>>
  /\ \A t \in Tx : Commit(t) \/ Confirm(t) \/ GiveUp(t)
       => BatchedStays /\ UNCHANGED <<live, pc, todo, sent>>
  <1>1. ASSUME NEW w \in Workers, StartQuoting(w)
        PROVE  BatchedStays /\ UNCHANGED <<live, pc, todo, sent, chain>>
    BY <1>1 DEF StartQuoting, ClaimAdmittedOrders, Claimable, InState, BatchedStays
  <1>2. ASSUME NEW w \in Workers, HandOff(w) \/ HandOffRefused(w)
        PROVE  BatchedStays /\ UNCHANGED <<live, pc, todo, sent, chain>>
    BY <1>2 DEF HandOff, HandOffRefused, CreateExecutionBatch, storeVars, BatchedStays
  <1>3. ASSUME NEW w \in Workers, NEW o \in Orders, RejectOrder(w, o)
        PROVE  BatchedStays /\ UNCHANGED <<live, pc, todo, sent, chain>>
    BY <1>3 DEF RejectOrder, FailClaimedOrder, BatchedStays
  <1>4. ASSUME NEW o \in Orders, Admit(o) \/ LapseOrder(o)
        PROVE  BatchedStays /\ UNCHANGED <<live, pc, todo, sent, chain>>
    BY <1>4 DEF Admit, AdmitOrder, LapseOrder, LapseOrderClaim, workerVars, BatchedStays,
         TypeOK, StoreTypeOK
  <1>5. ASSUME NEW b \in Batches, LapseBatch(b) \/ Announce(b) \/ MarkDelivered(b)
        PROVE  BatchedStays /\ UNCHANGED <<live, pc, todo, sent, chain>>
    BY <1>5 DEF LapseBatch, LapseBatchClaim, Announce, MarkDelivered, MarkOutboxDelivered,
         orderTable, storeVars, workerVars, BatchedStays
  <1>6. ASSUME NEW t \in Tx, Commit(t) \/ Confirm(t) \/ GiveUp(t)
        PROVE  BatchedStays /\ UNCHANGED <<live, pc, todo, sent>>
    BY <1>6 DEF Commit, Confirm, GiveUp, ResolveSubmission, storeVars, workerVars, BatchedStays
  <1> QED
    BY <1>1, <1>2, <1>3, <1>4, <1>5, <1>6 DEF QuotingStep

\* A process starts when none runs, with nothing in hand.
LEMMA StartFresh ==
  ASSUME TypeOK, FreshInv, NEW w \in Workers, Start(w)
  PROVE  FreshInv' /\ chain' = chain
  <1>1. /\ w \notin live /\ live' = live \cup {w} /\ chain' = chain
        /\ UNCHANGED <<pc, todo, sent>>
    BY DEF Start, TypeOK, workerVars
  <1>2. BatchedStays
    BY DEF Start, FailOrdersByIds, InState, BatchedStays
  <1>3. live = {}
    <2>1. ASSUME NEW v \in live PROVE FALSE
      <3>1. live = {v}
        BY DEF FreshInv, Alone
      <3>2. Cardinality(live) = 1
        BY <3>1, FS_Singleton
      <3>3. Cardinality(live) < MaxLive /\ MaxLive = 1
        BY DEF Start, FreshInv
      <3> QED
        BY <3>2, <3>3
    <2> QED
      BY <2>1
  <1>4. Alone'
    BY <1>1, <1>3 DEF Alone
  <1> QED
    BY <1>1, <1>2, <1>3, <1>4 DEF TypeOK, FreshInv, AtRest, InHand, CrossedOff, BatchedStays

\* A process crashes and forgets what it had in hand.
LEMMA CrashFresh ==
  ASSUME TypeOK, FreshInv, NEW w \in Workers, Crash(w)
  PROVE  FreshInv' /\ chain' = chain
  <1>1. /\ live' = live \ {w} /\ orderState' = orderState /\ chain' = chain
        /\ pc' = [pc EXCEPT ![w] = "idle"]
        /\ todo' = [todo EXCEPT ![w] = {}] /\ sent' = [sent EXCEPT ![w] = {}]
    BY DEF Crash, storeVars
  <1>2. /\ \A v \in Workers : todo'[v] = {} \/ (v # w /\ todo'[v] = todo[v])
        /\ \A v \in Workers : sent'[v] = {} \/ (v # w /\ sent'[v] = sent[v])
        /\ todo'[w] = {} /\ sent'[w] = {}
        /\ \A v \in Workers : v # w => pc'[v] = pc[v] /\ (v \in live' <=> v \in live)
    BY <1>1 DEF TypeOK
  <1>3. Alone' /\ InHand' /\ CrossedOff'
    BY <1>1, <1>2 DEF FreshInv, Alone, InHand, CrossedOff
  <1>4. AtRest'
    BY <1>1, <1>2 DEF FreshInv, AtRest
  <1> QED
    BY <1>1, <1>3, <1>4 DEF FreshInv

\* The worker takes a batch, reads what is left to submit, and lets it go.
LEMMA LoadFresh ==
  ASSUME TypeOK, FreshInv, NEW w \in Workers, ClaimBatch(w) \/ LoadBatch(w)
  PROVE  FreshInv' /\ chain' = chain
  <1>1. CASE ClaimBatch(w)
    <2>1. /\ UNCHANGED <<live, todo, sent, chain, orderState>>
          /\ pc' = [pc EXCEPT ![w] = "loading"] /\ pc[w] = "idle"
      BY <1>1 DEF ClaimBatch, ClaimPendingBatch, orderTable
    <2> QED
      BY <2>1 DEF TypeOK, FreshInv, Alone, AtRest, InHand, CrossedOff
  <1>2. CASE LoadBatch(w)
    <2>1. /\ UNCHANGED <<live, sent, chain, orderState>> /\ w \in live
          /\ pc' = [pc EXCEPT ![w] = "running"] /\ pc[w] = "loading"
          /\ todo' = [todo EXCEPT ![w] = Batched(job[w])]
      BY <1>2 DEF LoadBatch, storeVars
    <2>2. \A o \in Batched(job[w]) : orderState[o] = "batched"
      BY DEF Batched
    <2>3. sent[w] = {}
      BY <2>1 DEF FreshInv, AtRest
    <2>4. /\ todo'[w] = Batched(job[w]) /\ pc'[w] = "running"
          /\ \A v \in Workers : v # w => todo'[v] = todo[v] /\ pc'[v] = pc[v]
      BY <2>1 DEF TypeOK
    <2>5. InHand' /\ CrossedOff' /\ Alone'
      BY <2>1, <2>2, <2>3, <2>4 DEF FreshInv, InHand, CrossedOff, Alone
    <2>6. AtRest'
      BY <2>1, <2>3, <2>4 DEF FreshInv, AtRest
    <2> QED
      BY <2>1, <2>5, <2>6 DEF FreshInv
  <1> QED
    BY <1>1, <1>2

\* Closing a batch: the worker has nothing in hand, and nobody else runs.
LEMMA CloseFresh ==
  ASSUME TypeOK, FreshInv, NEW w \in Workers,
         LoadNothing(w) \/ Reconcile(w) \/ FailRemaining(w)
  PROVE  FreshInv' /\ chain' = chain
  <1>1. /\ UNCHANGED <<live, todo, sent, chain>> /\ w \in live
        /\ pc' \in [Workers -> PCs] /\ pc'[w] # "running"
        /\ \A v \in Workers : v # w => pc'[v] = pc[v]
    BY DEF LoadNothing, Reconcile, FailRemaining, TypeOK, PCs
  <1>2. todo[w] = {} /\ sent[w] = {}
    BY DEF LoadNothing, Reconcile, FailRemaining, FreshInv, AtRest
  <1>3. \A v \in Workers : v # w => v \notin live
    BY <1>1 DEF FreshInv, Alone
  <1>4. \A v \in Workers : todo[v] = {} /\ sent[v] = {}
    BY <1>2, <1>3 DEF FreshInv, AtRest
  <1> QED
    BY <1>1, <1>4 DEF FreshInv, Alone, AtRest, InHand, CrossedOff

\* A chunk is attempted: its orders are in hand until then.
LEMMA ChunkFresh ==
  ASSUME TypeOK, FreshInv, NEW w \in Workers, NEW S \in SUBSET Orders,
         FailChunk(w, S) \/ SubmitChunk(w, S)
  PROVE  FreshInv' /\ AcceptedWhileBatched
  <1> DEFINE t == [by |-> w, orders |-> S]
  <1>1. /\ w \in live /\ pc[w] = "running" /\ S \subseteq todo[w]
        /\ UNCHANGED <<live, pc>> /\ todo' = [todo EXCEPT ![w] = @ \ S]
        /\ chain' = chain \/ Accept(t)
        /\ sent' = sent \/ sent' = [sent EXCEPT ![w] = @ \cup {t}]
    BY DEF FailChunk, SubmitChunk, Chunk
  <1>2. \A o \in Orders \ S : orderState'[o] = orderState[o]
    BY DEF FailChunk, SubmitChunk, MarkPreSubmissionFailed, storeVars
  <1>3. /\ todo'[w] = todo[w] \ S /\ todo \in [Workers -> SUBSET Orders]
        /\ \A v \in Workers : v # w => todo'[v] = todo[v] /\ v \notin live
    BY <1>1 DEF TypeOK, FreshInv, Alone
  <1>4. \A v \in Workers : v # w => todo[v] = {} /\ sent[v] = {}
    BY <1>3 DEF FreshInv, AtRest
  <1>5. t.orders = S /\ t \in Tx
    BY DEF Tx
  <1>6. sent'[w] \subseteq sent[w] \cup {t} /\ \A v \in Workers : v # w => sent'[v] = sent[v]
    BY <1>1 DEF TypeOK
  <1> HIDE DEF t
  <1>7. InHand'
    BY <1>2, <1>3, <1>4 DEF FreshInv, InHand
  <1>8. CrossedOff'
    BY <1>3, <1>4, <1>5, <1>6 DEF FreshInv, CrossedOff
  <1>9. AtRest' /\ Alone'
    BY <1>1, <1>3, <1>4, <1>6 DEF FreshInv, AtRest, Alone
  <1>10. AcceptedWhileBatched
    <2>1. \A o \in S : orderState[o] = "batched"
      BY <1>1 DEF FreshInv, InHand
    <2>2. \A u \in Tx : chain[u] = "unsent" /\ chain'[u] = "accepted" => u = t
      BY <1>1, <1>5 DEF Accept, TypeOK
    <2> QED
      BY <1>5, <2>1, <2>2 DEF AcceptedWhileBatched
  <1> QED
    BY <1>7, <1>8, <1>9, <1>10 DEF FreshInv

\* A submission is recorded or its update is lost: its orders are crossed off.
LEMMA RecordFresh ==
  ASSUME TypeOK, FreshInv, NEW w \in Workers, NEW t \in Tx, Record(w, t) \/ LoseUpdate(w, t)
  PROVE  FreshInv' /\ chain' = chain
  <1>1. /\ w \in live /\ t \in sent[w] /\ UNCHANGED <<live, pc, todo, chain>>
        /\ sent' = [sent EXCEPT ![w] = @ \ {t}]
    BY DEF Record, LoseUpdate
  <1>2. \A o \in Orders \ t.orders : orderState'[o] = orderState[o]
    BY DEF Record, RecordSubmission, LoseUpdate, storeVars
  <1>3. \A v \in Workers : v # w => v \notin live /\ todo[v] = {} /\ sent[v] = {}
    BY <1>1 DEF FreshInv, Alone, AtRest
  <1>4. /\ sent'[w] = sent[w] \ {t} /\ \A v \in Workers : v # w => sent'[v] = sent[v]
        /\ todo[w] \subseteq Orders
    BY <1>1 DEF TypeOK
  <1>5. t.orders \cap todo[w] = {}
    BY <1>1 DEF FreshInv, CrossedOff
  <1>6. InHand'
    BY <1>1, <1>2, <1>3, <1>4, <1>5 DEF FreshInv, InHand
  <1>7. CrossedOff'
    BY <1>1, <1>3, <1>4 DEF FreshInv, CrossedOff
  <1>8. AtRest' /\ Alone'
    BY <1>1, <1>3, <1>4 DEF FreshInv, AtRest, Alone
  <1> QED
    BY <1>1, <1>6, <1>7, <1>8 DEF FreshInv

\* Every step of a lone process.
LEMMA FreshStep == TypeOK /\ FreshInv /\ [Next]_vars => FreshInv' /\ [AcceptedWhileBatched]_vars
  <1> SUFFICES ASSUME TypeOK, FreshInv, [Next]_vars PROVE FreshInv' /\ AcceptedWhileBatched
    OBVIOUS
  <1>1. chain' = chain => AcceptedWhileBatched
    BY DEF AcceptedWhileBatched
  <1>2. ASSUME NEW w \in Workers, Start(w) \/ Crash(w) PROVE FreshInv' /\ AcceptedWhileBatched
    BY <1>1, <1>2, StartFresh, CrashFresh
  <1>3. ASSUME NEW w \in Workers, QuotingStep(w) PROVE FreshInv' /\ AcceptedWhileBatched
    BY <1>1, <1>3, OthersStay, FreshStays
  <1>4. ASSUME NEW w \in Workers, ExecutorStep(w) PROVE FreshInv' /\ AcceptedWhileBatched
    <2>1. ASSUME ClaimBatch(w) \/ LoadBatch(w) PROVE FreshInv' /\ AcceptedWhileBatched
      BY <1>1, <2>1, LoadFresh
    <2>2. ASSUME LoadNothing(w) \/ Reconcile(w) \/ FailRemaining(w)
          PROVE  FreshInv' /\ AcceptedWhileBatched
      BY <1>1, <2>2, CloseFresh
    <2>3. ASSUME NEW S \in SUBSET Orders, FailChunk(w, S) \/ SubmitChunk(w, S)
          PROVE  FreshInv' /\ AcceptedWhileBatched
      BY <2>3, ChunkFresh
    <2>4. ASSUME NEW t \in Tx, Record(w, t) \/ LoseUpdate(w, t)
          PROVE  FreshInv' /\ AcceptedWhileBatched
      BY <1>1, <2>4, RecordFresh
    <2> QED
      BY <1>4, <2>1, <2>2, <2>3, <2>4 DEF ExecutorStep
  <1>5. ASSUME NEW o \in Orders, Admit(o) \/ LapseOrder(o) PROVE FreshInv' /\ AcceptedWhileBatched
    BY <1>1, <1>5, OthersStay, FreshStays
  <1>6. ASSUME NEW b \in Batches, LapseBatch(b) \/ Announce(b) \/ MarkDelivered(b)
        PROVE  FreshInv' /\ AcceptedWhileBatched
    BY <1>1, <1>6, OthersStay, FreshStays
  <1>7. ASSUME NEW t \in Tx, Commit(t) \/ Confirm(t) \/ GiveUp(t)
        PROVE  FreshInv' /\ AcceptedWhileBatched
    <2>1. FreshInv'
      BY <1>7, OthersStay, FreshStays
    <2>2. chain' = chain \/ chain' = [chain EXCEPT ![t] = "committed"]
      BY <1>7 DEF Commit, Confirm, GiveUp
    <2>3. AcceptedWhileBatched
      BY <2>2 DEF AcceptedWhileBatched, TypeOK
    <2> QED
      BY <2>1, <2>3
  <1>8. CASE UNCHANGED vars
    <2>1. UNCHANGED <<live, pc, todo, sent, chain>> /\ BatchedStays
      BY <1>8 DEF vars, workerVars, storeVars, BatchedStays
    <2> QED
      BY <1>1, <2>1, FreshStays
  <1> QED
    BY <1>2, <1>3, <1>4, <1>5, <1>6, <1>7, <1>8 DEF Next

\* With one process at a time, what reaches the node executes only orders that
\* are still awaiting submission, whatever crashed before.
THEOREM LoneWorkerFresh == MaxLive = 1 /\ Spec => SubmissionsFresh
  <1>1. MaxLive = 1 /\ Init => FreshInv
    BY DEF Init, FreshInv, Alone, AtRest, InHand, CrossedOff
  <1>2. TypeOK /\ FreshInv /\ [Next]_vars => FreshInv' /\ [AcceptedWhileBatched]_vars
    BY FreshStep
  <1> QED
    BY <1>1, <1>2, TypeCorrect, PTL DEF Spec, SubmissionsFresh
=============================================================================
