----------------------------- MODULE Processing -----------------------------
(***************************************************************************)
(* The curve bookkeeping of the processing loop (processing.rs): the pool  *)
(* states it quotes against, the swaps it has quoted and not yet seen      *)
(* settled, the LP notes it applies, the snapshot it saves and what is     *)
(* rebuilt from the database after a crash.                                *)
(*                                                                         *)
(* A pool state is the configured start plus a sum of deltas, one per      *)
(* quoted swap and one per applied LP note: quoting adds the swap's delta, *)
(* rolling it back subtracts the recorded one, so a curve is kept here as  *)
(* the number of times each delta is in it.  (Saturation at zero and the   *)
(* user balance mirror are left out.)                                      *)
(*                                                                         *)
(* The loop receives order updates, AMM events, pool states (its own       *)
(* broadcasts included) and LP wakeups on separate broadcast channels;     *)
(* select! takes from any that is ready.  ExecutionPipeline models how a   *)
(* batch is executed; here it is settled in one step.                      *)
(***************************************************************************)
EXTENDS Integers, Sequences, FiniteSets

CONSTANTS
  Orders,         \* admitted orders
  Notes,          \* LP notes, numbered in the order of the journal
  Unpayable,      \* withdrawals worth more than the LP's shares
  MaxCrashes,     \* bound: crashes
  MaxRefusals,    \* bound: quoting passes that end in an error
  MaxLag,         \* bound: order updates skipped because the loop lagged
  MaxFees         \* bound: dynamic fee updates

ASSUME OrdersAreFinite == IsFiniteSet(Orders)
ASSUME NotesAreNumbered == Notes \subseteq Nat
ASSUME OrdersAreNoNotes == Orders \cap Notes = {}

VARIABLES
  \* the databases
  status,      \* durable_orders.state of each order
  inFlight,    \* batches handed to execution and not terminal
  rows,        \* terminal batches whose outbox row is undelivered
  arrived,     \* LP notes in the journal
  acked,       \* of these, the applied ones (and so in lp_positions)
  marked,      \* applied_lp_notes
  snapshot,    \* pool_snapshots, if saved
  saved,       \* whether pool_snapshots has rows
  \* the memory of the processing loop
  phase,       \* "down", "starting" (in Processing::new) or "running"
  pool,        \* pool_states
  pending,     \* pending_swaps
  finished,    \* execution_finished
  lpDue,       \* lp_recovery_pending
  ledger,      \* notes counted in lp_ledger
  due,         \* what recover_unapplied_lp_operations still has to visit
  quoting,     \* orders of the current pass of process_orders, not yet quoted
  quoted,      \* its quoted orders
  \* its channels
  orderCh,     \* Confirmed and Failed updates
  ammCh,       \* BatchFailed and OrdersExecuted
  poolCh,      \* pool states, all from the loop itself
  lpWake,      \* whether an LP event is waiting
  \* the finality observer
  row,         \* the batch it is announcing, {} when none
  telling,     \* its orders not yet announced
  \* bounds
  crashes, refusals, lag, fees

storeVars == <<status, inFlight, rows>>
lpVars == <<arrived, acked, marked>>
snapVars == <<snapshot, saved>>
memVars == <<phase, pool, pending, finished, lpDue, ledger, due>>
passVars == <<quoting, quoted>>
chVars == <<orderCh, ammCh, poolCh, lpWake>>
obsVars == <<row, telling>>
boundVars == <<crashes, refusals, lag, fees>>
vars == <<storeVars, lpVars, snapVars, memVars, passVars, chVars, obsVars,
          boundVars>>

Statuses == {"admitted", "processing_claimed", "batched", "confirmed", "failed"}
Terminal == {"confirmed", "failed"}
Items == Orders \cup Notes
Curves == [Items -> Int]
Updates == [kind : Terminal, order : Orders]
AmmEvents == {"BatchFailed", "OrdersExecuted"}

TypeOK ==
  /\ status \in [Orders -> Statuses]
  /\ inFlight \subseteq SUBSET Orders /\ rows \subseteq SUBSET Orders
  /\ arrived \subseteq Notes /\ acked \subseteq arrived
  /\ marked \subseteq arrived
  /\ snapshot \in Curves /\ saved \in BOOLEAN
  /\ phase \in {"down", "starting", "running"}
  /\ pool \in Curves
  /\ pending \subseteq Orders
  /\ finished \in BOOLEAN /\ lpDue \in BOOLEAN
  /\ ledger \subseteq Notes /\ due \subseteq Notes
  /\ quoting \subseteq Orders /\ quoted \subseteq Orders
  /\ orderCh \in Seq(Updates) /\ ammCh \in Seq(AmmEvents)
  /\ poolCh \in Seq(Curves) /\ lpWake \in BOOLEAN
  /\ row \subseteq Orders /\ telling \subseteq row

Configured == [x \in Items |-> 0]
Plus(c, x, k) == [c EXCEPT ![x] = @ + k]

Init ==
  /\ status = [o \in Orders |-> "admitted"]
  /\ inFlight = {} /\ rows = {}
  /\ arrived = {} /\ acked = {} /\ marked = {}
  /\ snapshot = Configured /\ saved = FALSE
  /\ phase = "running"
  /\ pool = Configured
  /\ pending = {} /\ finished = FALSE /\ lpDue = FALSE
  /\ ledger = {} /\ due = {}
  /\ quoting = {} /\ quoted = {}
  /\ orderCh = <<>> /\ ammCh = <<>> /\ poolCh = <<>> /\ lpWake = FALSE
  /\ row = {} /\ telling = {}
  /\ crashes = 0 /\ refusals = 0 /\ lag = 0 /\ fees = 0

-----------------------------------------------------------------------------
(***************************************************************************)
(* Helpers of the handlers.                                                *)
(***************************************************************************)

\* The loop is at its select!.
AtSelect == phase = "running" /\ due = {} /\ quoting = {} /\ quoted = {}

\* restore_pending_swap and apply_pending_swap: the recorded delta is added.
Restored(o) == Plus(pool, o, 1)

\* rollback_pending_swap: the recorded delta is taken out again.
RolledBack(o) == Plus(pool, o, -1)

\* reload_pool_states_from_store; without a snapshot nothing changes.
Reloaded == IF saved THEN snapshot ELSE pool

\* Mutant of PersistFinalIfReady: swaps may still be pending.
PersistWhenFinished(done) ==
  IF done
  THEN snapshot' = pool' /\ saved' = TRUE
  ELSE UNCHANGED snapVars

\* persist_final_pool_states_if_ready
PersistFinalIfReady(done) ==
  IF done /\ pending' = {}
  THEN snapshot' = pool' /\ saved' = TRUE
  ELSE UNCHANGED snapVars

\* Mutant of RetryLpRecovery: the flag is cleared although swaps are pending.
RetryLpRecoveryOnce(wanted) ==
  /\ lpDue' = FALSE
  /\ due' = IF wanted /\ pending' = {} THEN arrived \ acked ELSE {}

\* Every handler ends with retry_pending_lp_recovery: LP notes that are due
\* are read from the journal once no swap is pending.
RetryLpRecovery(wanted) ==
  IF wanted /\ pending' = {}
  THEN lpDue' = FALSE /\ due' = arrived \ acked
  ELSE lpDue' = wanted /\ due' = {}

-----------------------------------------------------------------------------
(***************************************************************************)
(* Quoting: try_start_batch and process_orders.  The loop serves no other  *)
(* event until the pass ends, while the rest of the process goes on.       *)
(***************************************************************************)

\* Orders whose claim a dead process or a failed pass left behind become
\* claimable again when the claim lapses; when that is is left open.
StartBatch(S) ==
  /\ AtSelect
  /\ S # {}
  /\ \A o \in S : status[o] \in {"admitted", "processing_claimed"}
  /\ status' = [o \in Orders |->
       IF o \in S THEN "processing_claimed" ELSE status[o]]
  /\ quoting' = S
  /\ finished' = FALSE
  /\ UNCHANGED <<inFlight, rows, lpVars, snapVars, phase, pool, pending, lpDue,
                 ledger, due, quoted, chVars, obsVars, boundVars>>

\* Stale, expired, unlisted, unquotable, below the minimum or unfunded: the
\* order is failed in the store and the update broadcast.
RejectOrder(o) ==
  /\ o \in quoting
  /\ status' = [status EXCEPT ![o] = "failed"]
  /\ quoting' = quoting \ {o}
  /\ orderCh' = Append(orderCh, [kind |-> "failed", order |-> o])
  /\ UNCHANGED <<inFlight, rows, lpVars, snapVars, memVars, quoted, ammCh,
                 poolCh, lpWake, obsVars, boundVars>>

\* The next order of the pass is quoted against the updated pools.
QuoteOrder(o) ==
  /\ o \in quoting
  /\ quoting' = quoting \ {o}
  /\ quoted' = quoted \cup {o}
  /\ pool' = Plus(pool, o, 1)
  /\ pending' = pending \cup {o}
  /\ UNCHANGED <<storeVars, lpVars, snapVars, phase, finished, lpDue, ledger,
                 due, chVars, obsVars, boundVars>>

HandOff ==
  /\ quoting = {} /\ quoted # {}
  /\ status' = [o \in Orders |-> IF o \in quoted THEN "batched" ELSE status[o]]
  /\ inFlight' = inFlight \cup {quoted}
  /\ quoted' = {}
  /\ UNCHANGED <<rows, lpVars, snapVars, memVars, quoting, chVars, obsVars,
                 boundVars>>

\* A store call of the pass failed: the orders stay claimed, what was quoted
\* stays in the curve and among the pending swaps.
PassFails ==
  /\ quoting \cup quoted # {}
  /\ refusals < MaxRefusals
  /\ refusals' = refusals + 1
  /\ quoting' = {} /\ quoted' = {}
  /\ UNCHANGED <<storeVars, lpVars, snapVars, memVars, chVars, obsVars,
                 crashes, lag, fees>>

-----------------------------------------------------------------------------
(***************************************************************************)
(* Execution and the finality observer.                                    *)
(***************************************************************************)

\* The worker finds the signed intent expired: it fails the order and says so
\* at once.
Expire(o) ==
  /\ phase = "running"
  /\ status[o] = "batched"
  /\ status' = [status EXCEPT ![o] = "failed"]
  /\ orderCh' = Append(orderCh, [kind |-> "failed", order |-> o])
  /\ UNCHANGED <<inFlight, rows, lpVars, snapVars, memVars, passVars, ammCh,
                 poolCh, lpWake, obsVars, boundVars>>

\* The batch becomes terminal with C confirmed and its other orders failed.
Settle(b, C) ==
  /\ phase = "running"
  /\ b \in inFlight
  /\ \A o \in C : o \in b /\ status[o] = "batched"
  /\ status' = [o \in Orders |->
       IF o \in C THEN "confirmed"
       ELSE IF o \in b THEN "failed" ELSE status[o]]
  /\ inFlight' = inFlight \ {b}
  /\ rows' = rows \cup {b}
  /\ UNCHANGED <<lpVars, snapVars, memVars, passVars, chVars, obsVars,
                 boundVars>>

\* publish_terminal_notifications, for the batch of one undelivered row ...
Announce(b) ==
  /\ phase = "running"
  /\ row = {}
  /\ b \in rows
  /\ row' = b /\ telling' = b
  /\ UNCHANGED <<storeVars, lpVars, snapVars, memVars, passVars, chVars,
                 boundVars>>

\* ... one update per order ...
Tell(o) ==
  /\ o \in telling
  /\ telling' = telling \ {o}
  /\ orderCh' = Append(orderCh, [kind |-> status[o], order |-> o])
  /\ IF telling' = {}
     THEN ammCh' = ammCh \o (IF \E p \in row : status[p] = "failed"
                               THEN <<"BatchFailed", "OrdersExecuted">>
                               ELSE <<"OrdersExecuted">>)
     ELSE UNCHANGED ammCh
  /\ UNCHANGED <<storeVars, lpVars, snapVars, memVars, passVars, poolCh, lpWake,
                 row, boundVars>>

\* ... and, after the AMM events, the row.
MarkDelivered ==
  /\ row # {} /\ telling = {}
  /\ rows' = rows \ {row}
  /\ row' = {}
  /\ UNCHANGED <<status, inFlight, lpVars, snapVars, memVars, passVars, chVars,
                 telling, boundVars>>

-----------------------------------------------------------------------------
(***************************************************************************)
(* The events of the loop.                                                 *)
(***************************************************************************)

\* A confirmed swap is no longer pending; one the loop does not remember is
\* restored from swap_accounting and applied to the curve.
OnConfirmed ==
  /\ AtSelect
  /\ orderCh # <<>> /\ Head(orderCh).kind = "confirmed"
  /\ LET o == Head(orderCh).order IN
       /\ pending' = pending \ {o}
       /\ pool' = IF o \in pending THEN pool ELSE Restored(o)
  /\ orderCh' = Tail(orderCh)
  /\ poolCh' = Append(poolCh, pool')
  /\ PersistFinalIfReady(finished)
  /\ RetryLpRecovery(lpDue)
  /\ UNCHANGED <<storeVars, lpVars, phase, finished, ledger, passVars, ammCh,
                 lpWake, obsVars, boundVars>>

\* Mutant of OnFailed: a failed order stays among the pending swaps.
OnFailedKept ==
  /\ AtSelect
  /\ orderCh # <<>> /\ Head(orderCh).kind = "failed"
  /\ LET o == Head(orderCh).order IN
       IF o \in pending
       THEN /\ pool' = RolledBack(o)
            /\ poolCh' = Append(poolCh, pool')
       ELSE UNCHANGED <<pool, poolCh>>
  /\ UNCHANGED pending
  /\ orderCh' = Tail(orderCh)
  /\ PersistFinalIfReady(finished)
  /\ RetryLpRecovery(lpDue)
  /\ UNCHANGED <<storeVars, lpVars, phase, finished, ledger, passVars, ammCh,
                 lpWake, obsVars, boundVars>>

\* A pending swap that failed is rolled back.
OnFailed ==
  /\ AtSelect
  /\ orderCh # <<>> /\ Head(orderCh).kind = "failed"
  /\ LET o == Head(orderCh).order IN
       IF o \in pending
       THEN /\ pending' = pending \ {o}
            /\ pool' = RolledBack(o)
            /\ poolCh' = Append(poolCh, pool')
       ELSE UNCHANGED <<pending, pool, poolCh>>
  /\ orderCh' = Tail(orderCh)
  /\ PersistFinalIfReady(finished)
  /\ RetryLpRecovery(lpDue)
  /\ UNCHANGED <<storeVars, lpVars, phase, finished, ledger, passVars, ammCh,
                 lpWake, obsVars, boundVars>>

\* Updates of other kinds (New, StartedProcessing, Processed, Submitted)
\* change nothing themselves.
OnOtherUpdate ==
  /\ AtSelect
  /\ UNCHANGED <<pool, pending, finished>>
  /\ PersistFinalIfReady(finished)
  /\ RetryLpRecovery(lpDue)
  /\ UNCHANGED <<storeVars, lpVars, phase, ledger, passVars, chVars, obsVars,
                 boundVars>>

\* Received more messages behind than the channel holds: the oldest is gone.
OrdersLagged ==
  /\ AtSelect
  /\ orderCh # <<>>
  /\ lag < MaxLag
  /\ lag' = lag + 1
  /\ orderCh' = Tail(orderCh)
  /\ UNCHANGED <<storeVars, lpVars, snapVars, memVars, passVars, ammCh, poolCh,
                 lpWake, obsVars, crashes, refusals, fees>>

\* The states of the event replace the loop's own.
OnPoolState ==
  /\ AtSelect
  /\ poolCh # <<>>
  /\ pool' = Head(poolCh)
  /\ poolCh' = Tail(poolCh)
  /\ UNCHANGED pending
  /\ RetryLpRecovery(lpDue)
  /\ UNCHANGED <<storeVars, lpVars, snapVars, phase, finished, ledger, passVars,
                 orderCh, ammCh, lpWake, obsVars, boundVars>>

\* The states are reloaded before the next claim, whatever is still pending.
OnBatchFailed ==
  /\ AtSelect
  /\ ammCh # <<>> /\ Head(ammCh) = "BatchFailed"
  /\ pool' = Reloaded
  /\ poolCh' = Append(poolCh, pool')
  /\ ammCh' = Tail(ammCh)
  /\ UNCHANGED pending
  /\ RetryLpRecovery(lpDue)
  /\ UNCHANGED <<storeVars, lpVars, snapVars, phase, finished, ledger, passVars,
                 orderCh, lpWake, obsVars, boundVars>>

OnOrdersExecuted ==
  /\ AtSelect
  /\ ammCh # <<>> /\ Head(ammCh) = "OrdersExecuted"
  /\ finished' = TRUE
  /\ ammCh' = Tail(ammCh)
  /\ UNCHANGED <<pool, pending>>
  /\ PersistFinalIfReady(TRUE)
  /\ RetryLpRecovery(lpDue)
  /\ UNCHANGED <<storeVars, lpVars, phase, ledger, passVars, orderCh, poolCh,
                 lpWake, obsVars, boundVars>>

\* Fees are settings of the pools, not part of the curve; the states are
\* broadcast with them.
OnFeeState ==
  /\ AtSelect
  /\ fees < MaxFees
  /\ fees' = fees + 1
  /\ poolCh' = Append(poolCh, pool)
  /\ UNCHANGED pending
  /\ RetryLpRecovery(lpDue)
  /\ UNCHANGED <<storeVars, lpVars, snapVars, phase, pool, finished, ledger,
                 passVars, orderCh, ammCh, lpWake, obsVars, crashes, refusals,
                 lag>>

\* An LP event is a wakeup: the notes are read from the journal, now or when
\* no swap is pending.
OnLpChain ==
  /\ AtSelect
  /\ lpWake
  /\ lpWake' = FALSE
  /\ UNCHANGED pending
  /\ RetryLpRecovery(TRUE)
  /\ UNCHANGED <<storeVars, lpVars, snapVars, phase, pool, finished, ledger,
                 passVars, orderCh, ammCh, poolCh, obsVars, boundVars>>

-----------------------------------------------------------------------------
(***************************************************************************)
(* LP notes.                                                               *)
(***************************************************************************)

\* The LP worker journals a consumed note, then sends the wakeup.  (Notes are
\* the ones that count: not malformed, not below the minimum deposit.)
LpNoteConfirmed(n) ==
  /\ phase # "down"
  /\ n \in Notes \ arrived
  /\ arrived' = arrived \cup {n}
  /\ lpWake' = TRUE
  /\ UNCHANGED <<storeVars, acked, marked, snapVars, memVars, passVars, orderCh,
                 ammCh, poolCh, obsVars, boundVars>>

\* recover_unapplied_lp_operations visits the notes in the journal's order.
Visiting(n) ==
  /\ phase # "down"
  /\ n \in due /\ \A m \in due : n <= m

\* Mutant of ApplyLpNote: the marker is not looked at.
ApplyLpNoteAgain(n) ==
  /\ Visiting(n)
  /\ n \notin Unpayable
  /\ pool' = Plus(pool, n, 1)
  /\ marked' = marked \cup {n}
  /\ ledger' = ledger \cup {n}
  /\ snapshot' = pool' /\ saved' = TRUE
  /\ poolCh' = IF phase = "running" THEN Append(poolCh, pool') ELSE poolCh
  /\ UNCHANGED <<storeVars, arrived, acked, phase, pending, finished, lpDue, due,
                 passVars, orderCh, ammCh, lpWake, obsVars, boundVars>>

\* apply_lp_chain_event: marker and snapshot commit together, then memory
\* follows.  Nobody listens on the channel while Processing::new runs.
ApplyLpNote(n) ==
  /\ Visiting(n)
  /\ n \notin marked \cup Unpayable
  /\ pool' = Plus(pool, n, 1)
  /\ marked' = marked \cup {n}
  /\ ledger' = ledger \cup {n}
  /\ snapshot' = pool' /\ saved' = TRUE
  /\ poolCh' = IF phase = "running" THEN Append(poolCh, pool') ELSE poolCh
  /\ UNCHANGED <<storeVars, arrived, acked, phase, pending, finished, lpDue, due,
                 passVars, orderCh, ammCh, lpWake, obsVars, boundVars>>

\* The journal is acknowledged in its own database.
AckLpNote(n) ==
  /\ Visiting(n)
  /\ n \in marked
  /\ acked' = acked \cup {n}
  /\ due' = due \ {n}
  /\ UNCHANGED <<storeVars, arrived, marked, snapVars, phase, pool, pending,
                 finished, lpDue, ledger, passVars, chVars, obsVars, boundVars>>

\* An error ends the visit: later notes wait.  At startup it ends the process.
LpNoteRefused(n) ==
  /\ Visiting(n)
  /\ n \in Unpayable \ marked
  /\ due' = {}
  /\ IF phase = "running"
     THEN lpDue' = TRUE /\ UNCHANGED <<phase, pool, ledger, lpWake>>
     ELSE /\ phase' = "down" /\ pool' = Configured /\ ledger' = {}
          /\ lpWake' = FALSE /\ UNCHANGED lpDue
  /\ UNCHANGED <<storeVars, lpVars, snapVars, pending, finished, passVars,
                 orderCh, ammCh, poolCh, obsVars, boundVars>>

-----------------------------------------------------------------------------
(***************************************************************************)
(* Crash and restart.                                                      *)
(***************************************************************************)

Crash ==
  /\ phase # "down"
  /\ crashes < MaxCrashes
  /\ crashes' = crashes + 1
  /\ phase' = "down"
  /\ pool' = Configured
  /\ pending' = {} /\ finished' = FALSE /\ lpDue' = FALSE
  /\ ledger' = {} /\ due' = {}
  /\ quoting' = {} /\ quoted' = {}
  /\ orderCh' = <<>> /\ ammCh' = <<>> /\ poolCh' = <<>> /\ lpWake' = FALSE
  /\ row' = {} /\ telling' = {}
  /\ UNCHANGED <<storeVars, lpVars, snapVars, refusals, lag, fees>>

\* The snapshot overlays the configured pools; marked notes are acknowledged
\* before the ledger is rebuilt from the positions; then the journal is read.
Restart ==
  /\ phase = "down"
  /\ phase' = "starting"
  /\ pool' = IF saved THEN snapshot ELSE Configured
  /\ acked' = acked \cup (arrived \cap marked)
  /\ ledger' = acked'
  /\ due' = arrived \ acked'
  /\ UNCHANGED <<storeVars, arrived, marked, snapVars, pending, finished, lpDue,
                 passVars, chVars, obsVars, boundVars>>

Serve ==
  /\ phase = "starting" /\ due = {}
  /\ phase' = "running"
  /\ UNCHANGED <<storeVars, lpVars, snapVars, pool, pending, finished, lpDue,
                 ledger, due, passVars, chVars, obsVars, boundVars>>

-----------------------------------------------------------------------------
PassStep ==
  \/ \E S \in SUBSET Orders : StartBatch(S)
  \/ \E o \in Orders : RejectOrder(o) \/ QuoteOrder(o)
  \/ HandOff

LpStep ==
  \E n \in Notes : ApplyLpNote(n) \/ AckLpNote(n) \/ LpNoteRefused(n)

ObserverStep ==
  \/ \E b \in SUBSET Orders : Announce(b)
  \/ \E o \in Orders : Tell(o)
  \/ MarkDelivered

Next ==
  \/ PassStep \/ PassFails
  \/ \E o \in Orders : Expire(o)
  \/ \E b, C \in SUBSET Orders : Settle(b, C)
  \/ ObserverStep
  \/ OnConfirmed \/ OnFailed \/ OnOtherUpdate \/ OrdersLagged
  \/ OnPoolState \/ OnBatchFailed \/ OnOrdersExecuted \/ OnFeeState \/ OnLpChain
  \/ \E n \in Notes : LpNoteConfirmed(n)
  \/ LpStep
  \/ Crash \/ Restart \/ Serve

Spec == Init /\ [][Next]_vars

\* The loop polls the store and every channel it is sent to; the observer
\* polls the outbox; batches settle (ExecutionPipeline); a supervisor restarts
\* the process.
Fairness ==
  /\ WF_vars(PassStep) /\ WF_vars(LpStep) /\ WF_vars(ObserverStep)
  /\ WF_vars(OnConfirmed \/ OnFailed)
  /\ WF_vars(OnPoolState)
  /\ WF_vars(OnBatchFailed \/ OnOrdersExecuted)
  /\ WF_vars(OnLpChain)
  /\ WF_vars(\E b, C \in SUBSET Orders : Settle(b, C))
  /\ WF_vars(Restart) /\ WF_vars(Serve)

FairSpec == Spec /\ Fairness

-----------------------------------------------------------------------------
(***************************************************************************)
(* Properties.                                                             *)
(***************************************************************************)

\* The saved snapshot never depends on an outcome that is not known yet: a
\* swap leaves a trace in it only once its order is confirmed or failed,
\* although copies of the curve with open swaps circulate and are adopted.
SnapshotSettled ==
  \A o \in Orders : snapshot[o] # 0 => status[o] \in Terminal

\* However often the journal is read, the process restarts or an old copy of
\* the curve is adopted, a note is in the curve at most once, and never
\* without its marker.
NotesAtMostOnce ==
  \A n \in Notes :
    /\ pool[n] \in {0, 1} /\ snapshot[n] \in {0, 1}
    /\ pool[n] = 1 \/ snapshot[n] = 1 => n \in marked

\* The ledger LP withdrawals are valued with counts exactly the marked notes,
\* also after a crash between marker and acknowledgement.
LedgerCountsMarkers == phase = "running" => ledger = marked

\* As long as the order receiver never lagged, the outcome of every pending
\* swap is still to come: its order is waiting to be claimed again, is being
\* executed or announced, or its update is in the channel.  LP notes and the
\* snapshot wait for these, and nothing but an update removes a pending swap.
PendingResolvable ==
  lag = 0 =>
    \A o \in pending :
      \/ status[o] \in {"processing_claimed", "batched"}
      \/ o \in UNION rows /\ (o \notin row \/ o \in telling)
      \/ \E i \in 1..Len(orderCh) : orderCh[i].order = o

\* Every note in the journal is eventually applied, unless it stands behind a
\* withdrawal that is never paid.
LpNotesApplied ==
  \A n \in Notes :
    (\A u \in Unpayable : n < u) => (n \in arrived ~> n \in marked)

\* Nothing is open and everything sent was received.
Quiet ==
  /\ AtSelect /\ finished /\ pending = {} /\ inFlight = {} /\ rows = {}
  /\ orderCh = <<>> /\ ammCh = <<>> /\ poolCh = <<>>

\* Once everything is quiet the curve is what the settled swaps made of it:
\* each confirmed one is in it once, and what failed ones did is reversed.
CurveSettled ==
  Quiet => \A o \in Orders :
             /\ status[o] = "confirmed" => pool[o] = 1
             /\ status[o] = "failed" => pool[o] = 0
=============================================================================
