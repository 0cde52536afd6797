------------------------- MODULE ExecutionPipeline -------------------------
(***************************************************************************)
(* The three loops that move an order from admission to its outcome, on    *)
(* top of ExecutionStore: the quoting loop (processing.rs), the execution  *)
(* worker (miden_execution.rs) and the finality observer                   *)
(* (finality_observer.rs), with the chain they submit to.  They share one  *)
(* process and one worker id per loop; a process may crash between any two *)
(* store calls and its successor starts with fresh ids.  Up to MaxLive     *)
(* processes overlap, as during a rolling restart.                         *)
(*                                                                         *)
(* The chain is external and deliberately permissive: it may commit or     *)
(* forget whatever reached it, at any time.  Nothing checked here leans on   *)
(* the pool's own nonce window.                                            *)
(***************************************************************************)
EXTENDS ExecutionStore

CONSTANTS
  ShardOf,    \* [Orders -> shard]: the pool the order's user is bound to
  MaxLive     \* bound: processes running at the same time

ASSUME MaxLivePositive == MaxLive \in Nat \ {0}

VARIABLES
  started,    \* worker ids used so far
  live,       \* processes running now
  quoting,    \* orders each process has claimed and not yet handed off
  pc,         \* where each execution worker is in handle_batch_inner
  job,        \* the batch it handles
  todo,       \* its orders not yet attempted
  sent,       \* transactions the node accepted, not yet recorded
  chain,      \* what became of every transaction
  told        \* batches whose outcome was broadcast

workerVars == <<quoting, pc, job, todo, sent>>
vars == <<storeVars, started, live, workerVars, chain, told>>

PCs == {"idle", "loading", "running", "closing"}
ChainStates == {"unsent", "accepted", "committed"}

TypeOK ==
  /\ StoreTypeOK
  /\ started \subseteq Workers
  /\ live \subseteq started
  /\ quoting \in [Workers -> SUBSET Orders]
  /\ pc \in [Workers -> PCs]
  /\ job \in [Workers -> Batches \cup {0}]
  /\ todo \in [Workers -> SUBSET Orders]
  /\ sent \in [Workers -> SUBSET Tx]
  /\ chain \in [Tx -> ChainStates]
  /\ told \subseteq Batches

Init ==
  /\ StoreInit
  /\ started = {}
  /\ live = {}
  /\ quoting = [w \in Workers |-> {}]
  /\ pc = [w \in Workers |-> "idle"]
  /\ job = [w \in Workers |-> 0]
  /\ todo = [w \in Workers |-> {}]
  /\ sent = [w \in Workers |-> {}]
  /\ chain = [t \in Tx |-> "unsent"]
  /\ told = {}

-----------------------------------------------------------------------------
(* Processes. *)

\* A process starts with an unused worker id and purges the orders its
\* deployment no longer supports.
Start(w) ==
  /\ w \notin started
  /\ Cardinality(live) < MaxLive
  /\ started' = started \cup {w}
  /\ live' = live \cup {w}
  /\ \E S \in SUBSET Orders : FailOrdersByIds(S)
  /\ UNCHANGED <<workerVars, chain, told>>

\* Whatever the process held in memory is gone.  One id is kept in reserve,
\* which bounds the crashes.
Crash(w) ==
  /\ w \in live
  /\ started # Workers
  /\ live' = live \ {w}
  /\ quoting' = [quoting EXCEPT ![w] = {}]
  /\ pc' = [pc EXCEPT ![w] = "idle"]
  /\ job' = [job EXCEPT ![w] = 0]
  /\ todo' = [todo EXCEPT ![w] = {}]
  /\ sent' = [sent EXCEPT ![w] = {}]
  /\ UNCHANGED <<storeVars, started, chain, told>>

-----------------------------------------------------------------------------
(* The API and the quoting loop. *)

Admit(o) ==
  /\ live # {}
  /\ AdmitOrder(o)
  /\ UNCHANGED <<started, live, workerVars, chain, told>>

\* try_start_batch: claims work while no quote is in progress.
StartQuoting(w) ==
  /\ w \in live
  /\ quoting[w] = {}
  /\ \E S \in SUBSET Orders \ {{}} :
       /\ ClaimAdmittedOrders(w, S)
       /\ quoting' = [quoting EXCEPT ![w] = S]
  /\ UNCHANGED <<started, live, pc, job, todo, sent, chain, told>>

\* An order process_orders will not execute: stale, expired, unlisted,
\* unquotable, below its minimum or short of balance.
RejectOrder(w, o) ==
  /\ w \in live
  /\ o \in quoting[w]
  /\ FailClaimedOrder(w, o)
  /\ quoting' = [quoting EXCEPT ![w] = @ \ {o}]
  /\ UNCHANGED <<started, live, pc, job, todo, sent, chain, told>>

HandOff(w) ==
  /\ w \in live
  /\ quoting[w] # {}
  /\ CreateExecutionBatch(w, quoting[w])
  /\ quoting' = [quoting EXCEPT ![w] = {}]
  /\ UNCHANGED <<started, live, pc, job, todo, sent, chain, told>>

\* create_execution_batch returned an error and rolled back: the orders stay
\* claimed until the claim lapses.
HandOffRefused(w) ==
  /\ w \in live
  /\ quoting[w] # {}
  /\ ~CanCreateBatch(w, quoting[w])
  /\ quoting' = [quoting EXCEPT ![w] = {}]
  /\ UNCHANGED <<storeVars, started, live, pc, job, todo, sent, chain, told>>

-----------------------------------------------------------------------------
(* The chain.  A transaction the node accepted may be committed later or be  *)
(* forgotten; one that was committed is not accepted again.                  *)

Accept(t) ==
  /\ chain[t] # "committed"
  /\ chain' = [chain EXCEPT ![t] = "accepted"]

Commit(t) ==
  /\ chain[t] = "accepted"
  /\ chain' = [chain EXCEPT ![t] = "committed"]
  /\ UNCHANGED <<storeVars, started, live, workerVars, told>>

-----------------------------------------------------------------------------
(* The execution worker. *)

ClaimBatch(w) ==
  /\ w \in live
  /\ pc[w] = "idle"
  /\ \E b \in Batches :
       /\ ClaimPendingBatch(w, b)
       /\ job' = [job EXCEPT ![w] = b]
  /\ pc' = [pc EXCEPT ![w] = "loading"]
  /\ UNCHANGED <<started, live, quoting, todo, sent, chain, told>>

\* Mutant of LoadBatch: the whole payload is loaded.
LoadBatchWhole(w) ==
  /\ w \in live
  /\ pc[w] = "loading"
  /\ Batched(job[w]) # {}
  /\ todo' = [todo EXCEPT ![w] = InBatch(job[w])]
  /\ pc' = [pc EXCEPT ![w] = "running"]
  /\ UNCHANGED <<storeVars, started, live, quoting, job, sent, chain, told>>

\* The orders are read after the claim committed.
LoadBatch(w) ==
  /\ w \in live
  /\ pc[w] = "loading"
  /\ Batched(job[w]) # {}
  /\ todo' = [todo EXCEPT ![w] = Batched(job[w])]
  /\ pc' = [pc EXCEPT ![w] = "running"]
  /\ UNCHANGED <<storeVars, started, live, quoting, job, sent, chain, told>>

\* Nothing of the batch is left to submit.
LoadNothing(w) ==
  /\ w \in live
  /\ pc[w] = "loading"
  /\ Batched(job[w]) = {}
  /\ CloseBatch(w, job[w])
  /\ pc' = [pc EXCEPT ![w] = "idle"]
  /\ job' = [job EXCEPT ![w] = 0]
  /\ UNCHANGED <<started, live, quoting, todo, sent, chain, told>>

\* S is what the worker attempts next: orders of one shard, and none of that
\* shard's transactions is still being sent.
Chunk(w, S) ==
  /\ w \in live
  /\ pc[w] = "running"
  /\ S \subseteq todo[w] /\ S # {}
  /\ \A o, p \in S : ShardOf[o] = ShardOf[p]
  /\ \A t \in sent[w] : \A o \in t.orders, p \in S : ShardOf[o] # ShardOf[p]

\* Placement, expiry, sync, compilation, execution, proving or submission
\* failed; in the last case the node may have taken the transaction.
FailChunk(w, S) ==
  /\ Chunk(w, S)
  /\ MarkPreSubmissionFailed(w, job[w], S)
  /\ todo' = [todo EXCEPT ![w] = @ \ S]
  /\ UNCHANGED chain \/ Accept([by |-> w, orders |-> S])
  /\ UNCHANGED <<started, live, quoting, pc, job, sent, told>>

\* The node accepted the proven transaction.
SubmitChunk(w, S) ==
  LET t == [by |-> w, orders |-> S] IN
  /\ Chunk(w, S)
  /\ Accept(t)
  /\ todo' = [todo EXCEPT ![w] = @ \ S]
  /\ sent' = [sent EXCEPT ![w] = @ \cup {t}]
  /\ UNCHANGED <<storeVars, started, live, quoting, pc, job, told>>

Record(w, t) ==
  /\ w \in live
  /\ t \in sent[w]
  /\ RecordSubmission(w, job[w], t)
  /\ sent' = [sent EXCEPT ![w] = @ \ {t}]
  /\ UNCHANGED <<started, live, quoting, pc, job, todo, chain, told>>

\* get_transaction_store_update failed after the submission.
LoseUpdate(w, t) ==
  /\ w \in live
  /\ t \in sent[w]
  /\ sent' = [sent EXCEPT ![w] = @ \ {t}]
  /\ UNCHANGED <<storeVars, started, live, quoting, pc, job, todo, chain, told>>

FailRemaining(w) ==
  /\ w \in live
  /\ pc[w] = "running"
  /\ todo[w] = {} /\ sent[w] = {}
  /\ MarkPreSubmissionFailed(w, job[w], Orders)
  /\ pc' = [pc EXCEPT ![w] = "closing"]
  /\ UNCHANGED <<started, live, quoting, job, todo, sent, chain, told>>

Reconcile(w) ==
  /\ w \in live
  /\ pc[w] = "closing"
  /\ CloseBatch(w, job[w])
  /\ pc' = [pc EXCEPT ![w] = "idle"]
  /\ job' = [job EXCEPT ![w] = 0]
  /\ UNCHANGED <<started, live, quoting, todo, sent, chain, told>>

-----------------------------------------------------------------------------
(* The finality observer. *)

\* Mutant of Confirm: a transaction that was only sent counts as committed.
ConfirmPending(t) ==
  /\ live # {}
  /\ chain[t] # "unsent"
  /\ ResolveSubmission(t, "confirmed")
  /\ UNCHANGED <<started, live, workerVars, chain, told>>

\* The synced client reports the transaction committed, with the recorded
\* account commitments (the transaction id covers them).  A commitment is
\* never taken back, so it does not matter that the view is an earlier one.
Confirm(t) ==
  /\ live # {}
  /\ chain[t] = "committed"
  /\ ResolveSubmission(t, "confirmed")
  /\ UNCHANGED <<started, live, workerVars, chain, told>>

\* Every path that fails a submission: its recorded update cannot be read, the
\* client does not find it or holds it pending at a timeout, the expiration
\* height or the retry limit, its commitments differ, or it was discarded.
\* Some of these never ask the chain and the others go by the view of a sync
\* made earlier in the pass, so the transaction may be committed by now.
GiveUp(t) ==
  /\ live # {}
  /\ ResolveSubmission(t, "failed")
  /\ UNCHANGED <<started, live, workerVars, chain, told>>

\* Broadcasts the outcome of a terminal batch read from the outbox...
Announce(b) ==
  /\ live # {}
  /\ Visible(<<"batch_terminal", b>>)
  /\ Recoverable(b)
  /\ told' = told \cup {b}
  /\ UNCHANGED <<storeVars, started, live, workerVars, chain>>

\* ... and then marks the row, so a crash in between announces it again.
MarkDelivered(b) ==
  /\ live # {}
  /\ b \in told
  /\ Visible(<<"batch_terminal", b>>)
  /\ MarkOutboxDelivered(b)
  /\ UNCHANGED <<started, live, workerVars, chain, told>>

-----------------------------------------------------------------------------
LapseOrder(o) ==
  LapseOrderClaim(o) /\ UNCHANGED <<started, live, workerVars, chain, told>>

LapseBatch(b) ==
  LapseBatchClaim(b) /\ UNCHANGED <<started, live, workerVars, chain, told>>

QuotingStep(w) ==
  \/ StartQuoting(w) \/ HandOff(w) \/ HandOffRefused(w)
  \/ \E o \in Orders : RejectOrder(w, o)

ExecutorStep(w) ==
  \/ ClaimBatch(w) \/ LoadBatch(w) \/ LoadNothing(w)
  \/ \E S \in SUBSET Orders : FailChunk(w, S) \/ SubmitChunk(w, S)
  \/ \E t \in Tx : Record(w, t) \/ LoseUpdate(w, t)
  \/ FailRemaining(w) \/ Reconcile(w)

Next ==
  \/ \E w \in Workers : Start(w) \/ Crash(w) \/ QuotingStep(w) \/ ExecutorStep(w)
  \/ \E o \in Orders : Admit(o) \/ LapseOrder(o)
  \/ \E b \in Batches : LapseBatch(b) \/ Announce(b) \/ MarkDelivered(b)
  \/ \E t \in Tx : Commit(t) \/ Confirm(t) \/ GiveUp(t)

Spec == Init /\ [][Next]_vars
\* What the scheduling of the code provides.  Each loop polls the store every
\* 250 ms and is never starved (durable_poll in the three select! loops), so
\* a step a live process can take is eventually taken; claims lapse because
\* the clock advances; and a supervisor restarts the process when none is
\* left.  The chain owes nothing: the observer's timeouts settle what it
\* never reports.
Fairness ==
  /\ WF_vars(live = {} /\ \E w \in Workers : Start(w))
  /\ \A w \in Workers : WF_vars(QuotingStep(w)) /\ WF_vars(ExecutorStep(w))
  /\ \A o \in Orders : WF_vars(LapseOrder(o))
  /\ \A b \in Batches : /\ WF_vars(LapseBatch(b))
                        /\ WF_vars(Announce(b)) /\ WF_vars(MarkDelivered(b))
  /\ \A t \in Tx : WF_vars(Confirm(t) \/ GiveUp(t))

FairSpec == Spec /\ Fairness

-----------------------------------------------------------------------------
(***************************************************************************)
(* Properties.                                                             *)
(***************************************************************************)

\* An order awaiting submission is always in a batch some worker still has to
\* run: no batch leaves the claimed state, by reconciliation or by a finality
\* verdict on its other orders, with an order stranded in it.
NoOrderStranded ==
  \A o \in Orders : orderState[o] = "batched" =>
    /\ orderBatch[o] \in Batches
    /\ batchState[orderBatch[o]] \in {"pending", "claimed"}

\* The outcome of a terminal batch is complete: recover_terminal_batch never
\* meets an open order, so its notification can always be published.
TerminalBatchSettled ==
  \A b \in BatchesIn("terminal") : Recoverable(b)

\* Every order in flight is watched: its recorded transaction is one the
\* finality observer still polls, and contains it.
SubmittedOrdersWatched ==
  \A o \in InState("submitted") :
    /\ submission[orderTx[o]] = "submitted"
    /\ o \in orderTx[o].orders

\* Promoting or taking over a batch never collides with a claim that is still
\* held: the single-claimed index is never hit.
OneClaimedBatch == Cardinality(BatchesIn("claimed")) <= 1

\* An order is reported confirmed only if the very transaction recorded for it
\* was committed, however many workers submitted it.
ConfirmedOnChain ==
  \A o \in InState("confirmed") :
    o \in orderTx[o].orders /\ chain[orderTx[o]] = "committed"

\* A reported outcome is final: no late record, takeover, purge or verdict
\* reopens or flips it, nor moves the order to another batch or transaction.
OutcomeKept ==
  \A o \in Orders : orderState[o] \in Terminal =>
    /\ orderState'[o] = orderState[o]
    /\ orderBatch'[o] = orderBatch[o]
    /\ orderTx'[o] = orderTx[o]

OutcomesFinal == [][OutcomeKept]_vars

\* What reaches the node executes only orders that are still awaiting
\* submission.  The worker works from the list it read when it claimed the
\* batch, so this needs that no second process runs meanwhile.
AcceptedWhileBatched ==
  \A t \in Tx : chain[t] = "unsent" /\ chain'[t] = "accepted" =>
    \A o \in t.orders : orderState[o] = "batched"

SubmissionsFresh == [][AcceptedWhileBatched]_vars

\* Every admitted order is eventually confirmed or failed, across crashes,
\* lapsed claims, lost store updates and transactions the chain forgets.
OrdersSettle ==
  \A o \in Orders : orderState[o] = "admitted" ~> orderState[o] \in Terminal

\* The outcome of every terminal batch is eventually broadcast.
OutcomesAnnounced ==
  \A b \in Batches : batchState[b] = "terminal" ~> b \in told

-----------------------------------------------------------------------------
(***************************************************************************)
(* The order life cycle this implements.                                   *)
(***************************************************************************)

\* An order the store may still send is open, whether it waits for a quote, for
\* a batch or for its chunk.
Phase ==
  [o \in Orders |->
    CASE orderState[o] = "none" -> "unknown"
      [] orderState[o] \in {"admitted", "processing_claimed", "batched"} -> "open"
      [] orderState[o] = "submitted" -> "riding"
      [] OTHER -> orderState[o]]

Landed == {t \in Tx : chain[t] = "committed"}

Heard == {o \in Orders : orderBatch[o] \in told}

Life == INSTANCE OrderLife WITH
  phase <- Phase, ride <- orderTx, landed <- Landed, heard <- Heard

\* Behind crashes, takeovers, lost records and overlapping processes, the store,
\* the worker and the observer together are one order life cycle: an order goes
\* aboard one transaction at most, everyone aboard is settled in one step and
\* alike, confirmed only if the chain has committed the transaction, and only
\* settled orders are announced.  (An order may be failed although its
\* transaction is committed: the observer may give up on an older view.)
ImplementsOrderLife == Life!Spec
=============================================================================
