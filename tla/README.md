# A TLA+ development for minizeke

minizeke is a hybrid exchange on the Miden rollup.  Custody and settlement are
on chain: one *vault* account holds every token and every user's funding and
redeem totals, and a set of *pool* accounts (shards) holds what each user bought
and sold.  Quoting, batching, proving and confirmation are off chain: one Rust
process with a SQLite store takes signed swap intents, quotes them on an AMM
curve, groups them in batches, submits one transaction per shard, and watches
the chain for the outcome.

This directory holds the specifications of the parts of that system that carry
state, the TLC configurations that check them on small instances, and TLAPS
proofs of their main properties for every value of the constants.  Paths below
are relative to the repository root.

## 1. Inventory

| component | state | operations | talks to |
|---|---|---|---|
| vault account, `masm/accounts/vault.masm` | authorised pools, active pool, user to pool and key, user counts, funding / initiated / redeemed totals, LP entitlements and withdrawals, the assets held | `add_authorized_pool`, `register_user`, `fund`, `initiate_redeem`, `redeem`, `deposit_liquidity`, `checkpoint_lp_entitlement`, `withdraw_liquidity` | called by note scripts; reads a pool by foreign procedure invocation (FPI) |
| pool account, `masm/accounts/pool.masm` | cell index, next free cell, bought / sold counters, nonce windows | `execute_swap` (with cell allocation and nonce consumption) | reads the vault by FPI; called by the execution worker's transaction script |
| note scripts, `masm/notes` | none | one vault call each, with the asset handed in or paid out | vault |
| nonce window mirror, `src/nonce_window.rs` | base and three 32-bit limbs | `consume` | used by admission and by tests as the twin of the assembly |
| execution store, `src/execution_store.rs` | nonce leases, reservations, durable orders, batches, submissions, outbox, swap accounting, pool and LP snapshots | one SQLite transaction per method | shared by the API and the three loops below |
| processing, `src/processing.rs` | in-memory pool states, prices, balance mirror, pending swaps, engine flags | claim and quote orders, hand a batch off, apply or roll back outcomes, apply LP and fee events | store, broker |
| execution worker, `src/miden_execution.rs` | pool clients, user to pool cache, its identity | claim a batch, chunk by shard, execute, prove, submit, record, close | store, node |
| finality observer, `src/finality_observer.rs` | a chain client | confirm, discard or time out submissions; announce terminal batches | store, node, broker |
| start-up, `src/main.rs` | none | purge orders of an older deployment, start the loops | store |
| pool books, `src/pool.rs`, `src/curve.rs` | reserve, reserve with slippage, liabilities, LP supply and shares | quote and settle or revert a swap, deposit, withdraw | part of processing |
| liquidity, `src/lp.rs`, `src/lp_store.rs` | LP operations, positions, note cursor | observe, reject and apply LP notes, checkpoint entitlements | store, broker, vault |
| pool provisioning, `src/pool_manager.rs`, `src/pool_registry.rs`, `src/deployment.rs`, `src/bin/` | journal of a shard under construction, registry of shards, deployment file | deploy, record, publish, attach and activate a shard before the active one is full; two tools write the same file | vault, worker, observer |
| authentication, `src/auth.rs`, `src/service_auth.rs` | challenges, sessions | issue, redeem, expire, revoke, purge | API, websocket |
| fees, `src/fee_store.rs`, `src/fee/`, `src/bin/fee_updater.rs` | fee batches; the keeper's estimate and edge | apply, clear, expire, announce, adopt; sample, evaluate, push | API, processing |
| broker and websocket, `src/message_broker/`, `src/websocket/` | bounded broadcast channels, connections, subscriptions, throttle, coalescing slots | broadcast, lag, admit, bind, subscribe, revalidate, remove | everything |
| API and admission limits, `src/api.rs`, `src/ingress.rs` | rate table and work permits | limit, admit orders, lease nonces, time requests out | store |
| oracle feed, `src/oracle_sse.rs` | latest prices | stream, reconnect, publish | broker |
| analytics and history, `src/analytics.rs`, `src/analytics_store.rs`, `src/history.rs`, `src/order.rs` | marks, positions, cash totals, note cursor; orders, trades, candles; the in-memory order index | follow the vault's notes, record swaps and flows, follow order updates | node, broker |
| faucet | queue and cooldowns | mint in batches | node |
| simulation, test support | none at run time | load generation | node |

What is hard about it:

* *Two accounts, one balance.*  A user's balance is spread over the vault
  (funding, redeems) and a shard (bought, sold).  Each transaction changes one
  of them after reading the other; funding, swaps and both redeem steps
  interleave freely.
* *Lazy, permanent allocation.*  Cells and placements are handed out once and
  never freed, two cells possibly in one swap, by accounts that trust the worker
  to route a user to the right shard.
* *Bit arithmetic twice.*  The sliding nonce window exists in Rust and in
  assembly, over limbs, with a field subtraction in the latter.
* *The chain before the store.*  A transaction is submitted first and recorded
  afterwards.  A crash, a lost lease or a failed local update in between leaves
  the chain ahead of the store.
* *Leases.*  Orders and batches are claimed for a time; a slow or dead owner is
  overtaken while it may still be working from what it read earlier.
* *Verdicts that arrive late.*  Timeouts settle an order that the chain may
  still commit.
* *Outbox.*  Outcomes are announced at least once from a window of the oldest
  undelivered rows.
* *Channels of different kinds.*  Processing receives order outcomes, batch
  events and pool states (its own among them) on separate channels.
* *Requests that end before their work.*  The timeout layer drops a handler, a
  client hangs up or retries; the database job it started commits all the same.
* *Lookups and bindings.*  A connection's task looks a session up, waits for the
  database and binds it; a logout may fall in between, and other tasks remove the
  connection at any time.
* *Three calls per note.*  Both note readers record, announce and move a cursor
  in separate steps over several databases and may crash between any two.
* *Rounding and wrapping.*  The books divide on every deposit and withdrawal,
  subtract 256-bit numbers that wrap, and undo a swap by saturating differences
  after other swaps have moved the books on.
* *Several writers of one file.*  The provisioner and two tools load, change and
  save the deployment file; none holds a lock, and each saves the copy it loaded.
* *Lists worked through after they were read.*  The engine reads the confirmed LP
  rows once and commits them one by one, while the LP worker's thread rejects
  rows of the same journal.

`PROJECT.json` lists these hazards with the line where each bites and the
properties that cover it, or why none does yet.

Correctness, per component, is then:  vault and pools never let a balance be
spent twice, never alias cells, never move a user, never pay an LP beyond the
entitlement; the nonce window accepts each nonce at most once and forgets
nothing inside the window; the pipeline loses no order, settles every order
once, reports only outcomes the chain knows, and announces every outcome.
Processing must keep its in-memory pool states equal to the confirmed swaps plus
the pending ones, save only settled swaps, and apply each LP note once, across
crashes.  The books of a pool must never claim cash the vault does not hold, and
no rounding may take from those who stay.  Admission must bind a client order id
to one order, lease a nonce once, and tell nobody of an order that is not
durable.  A challenge buys one session, and no connection outlives its session
for long.  The note readers must miss nothing and count nothing twice.  History,
candles and cost basis must agree with what happened, and a full shard must be
replaced by one that is listed and served.

## 2. Modules

| module | models | notes |
|---|---|---|
| `ChainBase` | users, assets, pools, amounts, field elements | constants shared by the on-chain modules |
| `NonceBitmap` | `NonceWindow::consume`, `shift_right`, `bit_set`, `set_bit`; `prepare_user_nonce_window` | pure operators; the limb width is a constant |
| `NonceGate` | abstract: the set of all accepted nonces | the promise of a nonce window |
| `NonceWindow` | the Rust window fed with any nonces | refines `NonceGate` |
| `PoolNonceWindow` | the assembly window fed with any nonces | |
| `Vault` | `vault.masm` and the note scripts | one action per exported procedure that writes |
| `Pool` | `pool.masm` | cells, counters, `execute_swap` |
| `Custody` | the composition | every action is one transaction of one account; supplies the values read by FPI; refines `AccountLedger` |
| `AccountLedger` | abstract: one bank's books, with a balance and a reservation per user and asset, what is owed to LPs, and the cash | the promise of vault and shards together |
| `ExecutionStore` | the order, batch, submission and outbox tables | one operator per store method |
| `ExecutionPipeline` | the quoting loop, the worker, the observer, start-up, crashes and the chain | every action contains at most one SQLite transaction; refines `OrderLife` |
| `OrderLife` | abstract: an order goes aboard one transaction, shares its fate, and is announced | the promise of store, worker and observer together |
| `Processing` | the processing loop's pool states, pending swaps, snapshots, LP notes and restart, with its channels and the observer that feeds them | batches settle in one step; how is `ExecutionPipeline` |
| `PoolBooks`, `Totals` | the engine's books of each asset: LP notes, swaps, outcomes and rollbacks with the code's arithmetic | the curve is any function within bounds |
| `Clock` | time in units that matter to an expiry | shared by the services that read it |
| `Ingress` | the rate limit and the permits for database work | `allow` in two steps |
| `Sessions` | challenges and sessions of `auth.rs` | |
| `Connections` | the connection manager, the connection tasks and logout | extends `Sessions` |
| `Admission` | nonce leases, intent reservations, `POST /orders/new` | refines `IdempotentAdmission` |
| `IdempotentAdmission` | abstract: a client order id is opened once and told as it is | |
| `OrderFeed` | order states, the update channel, history, candles, the order index | |
| `AnalyticsStore` | the journal and its projections: marks, positions, cost, totals | |
| `CashFlows` | the vault note reader and the engine's balance mirror | the announcements between them may be lost |
| `Liquidity` | LP note reader, journal, positions, checkpoints, and the engine's visits with its ledger and the price of a share | one LP, one asset; where reserve and liabilities agree |
| `PriceFeed` | a price on its way from the oracle to a client | |
| `Fees`, `FeeKeeper` | fee batches at the server; the keeper that pushes them | |
| `Provisioning` | shards from deployment to activation, with the tools | the deployment file is loaded and saved in two steps |
| `MCCustody`, `MCExecutionPipeline`, `MCProcessing`, `MCServices`, `MCWorkers`, `MCLpNotes` | instances for TLC | |
| `SharedLemmas` | lemmas on totals, rounding and the limbs of the nonce window | no specification of its own |
| `CustodyProofs`, `ExecutionPipelineProofs`, `ProcessingProofs`, `PoolBooksProofs` | theorems about the module of that name | |
| `EntryProofs` | theorems about `Sessions`, `Connections`, `Ingress`, `Admission`, `NonceWindow` | what a request passes on its way in |
| `MarketProofs` | theorems about `OrderFeed`, `Fees`, `FeeKeeper`, `AnalyticsStore` | what is told and charged |
| `WorkersProofs` | theorems about `CashFlows`, `Liquidity`, `Provisioning`, `PriceFeed` | the background workers |

### On-chain modules

A Miden transaction whose assertion fails leaves no trace, so an assertion is a
guard.  Counters are field elements; `safe_add` and `safe_sub` abort on
overflow, which the guards keep with `MaxFelt` in place of the field's size.
`Vault` takes the balance read from the pool as a parameter and `Custody`
supplies it from the pool's cells, so the vault's guards are the ones of the
assembly and the coupling is in one place.  An FPI reads committed values.
Signature verification and Poseidon commitments are abstracted to "the note's
sender" and "the user's registered key exists"; expiry and domain checks reject
intents without changing state.

`NonceBitmap` keeps the limb arithmetic: `Shr` and `Shl` are 32-bit shifts on a
limb of `LimbBits` bits, and a window is 3 * `LimbBits` wide.  In the Rust
mirror the slide distance is `new_base - base`; in the assembly it is a field
subtraction, modelled modulo `FieldPrime`.

`Swap` in `Custody` sends the order to the shard the vault bound the user to.
The pool itself never checks this; it is the worker's `resolve_user_pool`.

`AccountLedger` is what this machinery is for: the books of one bank.  A user's
balance there is what the user funded, corrected by the counters of its shard
once it has one (`Owned`); what is reserved is the redeem that was initiated and
not yet paid (`Reserved`).  Under that mapping registration and the allocation
of a cell change nothing, every other note is one entry of the books, and a swap
moves a balance without touching what is reserved.

### Off-chain modules

Each method of `ExecutionStore` runs as one immediate SQLite transaction, so it
is one operator, and the pipeline's actions never combine two of them, except
where the code does so inside one transaction.  `claim_pending_batch` is the
instructive case: it commits the claim and reads the batch's orders afterwards,
hence `ClaimBatch`, then `LoadBatch` or `LoadNothing`.

A lease is a nondeterministic lapse: `LapseOrderClaim` and `LapseBatchClaim`
may happen as soon as a claim is held, since nothing in the code relates how
long quoting or proving takes to the lease.  A transaction is identified by who
submitted it and which orders it executes.  The chain is external and
permissive: it may commit or forget what it accepted at any time, whatever the
observer already concluded.  Nothing in the pipeline relies on the pool's
replay protection.

`OrderLife` is the pipeline as its users see it: an order is unknown, open,
riding, confirmed or failed.  It gets `riding` by going aboard a transaction, at
most once; everyone aboard is settled in one step and alike, as confirmed only
if the transaction has landed by then; an open order may also fail by itself;
and only what is settled is announced.  A transaction may be failed although it
has landed: `GiveUp` does not ask the chain, because several paths fail an order
without looking at it (`finality_observer.rs` 268 and 354, `miden_execution.rs`
663) and the others go by a sync made earlier in the pass (289, used at 404).  In the mapping `Phase` reads the order's
state, `Landed` the chain and `Heard` the announced batches; claims, leases,
batches, submissions and processes are hidden.

A process is one worker identity.  It is created by `Start`, which includes the
purge of `main.rs` with an arbitrary set of orders (the orders whose assets or
pool the new deployment no longer lists), and ends by `Crash`, which forgets
everything in memory.  `FailChunk` may leave an accepted transaction behind: the
submission call can fail after the node took it.  `LoseUpdate` is the early
return between submission and `record_submission`.

`Processing` abstracts a pool state to the number of times each swap's and each
LP note's delta is contained in it.  The code adds and subtracts recorded
differences (`revert_balances`), so sums of deltas are all the properties need;
saturation at zero, where subtraction is not the inverse of addition, is in
`PoolBooks`, and the user balance mirror in `CashFlows`.  The loop is one task: an event is
handled to its end before the next one, except that a quoting pass and a visit
of the LP journal are split at every store call, since a crash or a step of the
observer, of execution or of the LP worker may fall in between.  Each broadcast
channel is a sequence; `select!` may take from any of them, so the channels are
not ordered with one another.  A wakeup carries nothing, hence the flag
`lpWake`.  A pass started at the end of a handler is a step of its own
(`StartBatch`), which is what the 250 ms poll would do as well.  `engine_busy`
is never set between events, so no variable stands for it.  `Unpayable` is the
set of withdrawals `shares_for_withdrawal` refuses.  `main.rs` starts the
processing thread before the observer; the model takes it that the loop has
subscribed before the first announcement.  The start-up purge is in
`ExecutionPipeline` only: after a restart no swap is pending, so it cannot
disturb the curve.

### Books

`PoolBooks` keeps every assignment to `PoolBalances` and the supply, with the
rounding of each division, the wrapping of `U256` subtraction on the reserve and
the saturating differences of `revert_balances`.  The curve itself is 256-bit
fixed-point arithmetic out of TLC's integers.  It appears by its contract:
`psi(b, l) >= b`, so that the reserve with slippage after a step is at least the
reserve, or is cut to what it was before, and an inverse lifts the reserve by at
most what is missing to its target.  Where the code subtracts first and the
result wraps, any value may come back.  The contract is read off `curve.rs`; it
holds up to the last digits of the fixed-point representation, which the model
does not have.

Ghosts: `held` is the cash the vault holds for a pool, pending swaps counted as
if they settled, and `excuses` records what may spoil a property: `clipped`, a
rollback that met zero; `overtaken`, a rollback behind a later swap that stands;
`blank`, a swap accepted with a minimum of nothing and nothing out.  Sums over
shares and over pending swaps are `Total`s: the number of elements of a set of
units, which the prover can reason about without induction.

### Services

Each of the modules `Ingress` to `Provisioning` is one service with its own
variables; only the clock is common.  Steps are split where other tasks can run:
at every `await`, at the end of every store transaction, and in the two halves
of `IngressState::allow`, which are under no common lock.  A handler dropped by
the timeout layer leaves its blocking database job running (`RequestTimesOut`,
`OrphanFinishes`, `LoseRequest`, `LogoutTimesOut`).

`Connections` extends `Sessions`.  A connection's task is in a loop or in the
middle of a message (`task`); the manager may drop the connection meanwhile, and
`remove_connection` empties channels before it deletes the empty ones
(`sweeps`).  `CashFlows` and `Liquidity` give every vault note a block and an id
in the order of `stable_note_id`; the cursor is a pair of both, as in the code.
`PriceFeed` follows one asset to one subscriber; a price is its position on the
oracle's tape.

The engine's mirror in `CashFlows` follows one user and asset.  It deducts no
further than to zero, as `apply_vault_cashflow_to_balances` does, and a lagging
receiver loses announcements while a warm balance stays as it is (`LoseNews`).
The capacity of that channel is left out: any announcement may be lost.
`SolventAssumption` speaks of the ends of blocks only.  Within a block the vault
consumes notes in the order of execution, the worker reads them in the order of
their ids, and a redeem may be announced before the fund that it draws on.

`Liquidity` follows one LP and one asset.  `ops` and `position` are the journal's
database, `noted` the engine's own (`applied_lp_notes`), `lpPool` and `lpLedger`
the pool and the `LpLedger` in memory.  A deposit gets `amount * supply / worth`
shares and a withdrawal burns the fewest that are worth its amount, or the number
its last checkpoint hints at; both are rounded as in `pool.rs`, so a withdrawal
the vault has paid can be more than all the shares of its LP are worth.  `visit`
is the engine's task: a visit reads the confirmed rows once, in the order of block
and `created_at`, commits marker and snapshot (`SaveLpApplication`), then
acknowledges the row in the other database (`ApplyOperation`), and the first row
that fails ends it.  The worker's thread goes on meanwhile.  A visit is put off
while a swap is pending and taken up at the end of the handler that closes the
last one (`DeferVisit`, `SwapsEnd`).  At a start the engine acknowledges what it
has marked, takes its ledger from the positions and visits the journal, and an
error there ends the process (`Reboot`, `Reconciled`, `StartupFails`).  The curve
is taken where reserve and liabilities agree: then a share is worth
`worth / supply`.  The other shapes of the curve are `PoolBooks`; delayed copies
of the pool and rollbacks of swaps are `Processing` and `PoolBooks`.  Left out are
the capacity of the LP channel with its `Lagged` branch, which is a visit like any
other, and rows whose account or asset does not parse, which end every visit.

`Provisioning` numbers shards as they are deployed, and a failure or crash may
follow every step of `run_provision`.  Loading the deployment file and saving it
are two steps, for the provisioner as for the tools, and the save writes the copy
that was loaded.  One tool is at work at a time; the temporary file that two saves
at the same moment would share is left out.

Several of these properties have exceptions that the code really has.  Each is a
named part of the property or a ghost that is set only by the step that causes
it, so that the rest is still checked:

* `FlowsGetCounted`: a note without a creation time, whose time is read from the
  clock again when a crash makes the worker replay it, is an error in every pass.
* `MirrorFollowsChain`: a flow still to be announced when the mirror is read from
  the chain is counted `twice`; one whose announcement was lost, or that a fund on
  a cold mirror hides, is `missed`; what a deduction cuts off at zero is
  `clipped`.  The comment at `processing.rs` 65 says the opening balance is
  fetched from the chain on the first miss; a fund that comes first starts it at
  its own amount.
* `RejectionsHold`: a rejected deposit can get shares when a visit has read its
  row before the rejection; `docs/architecture.md` 134 says dust gets none.
* `NoLpNoteMissed`: what was consumed before a cursor was ever saved is not read
  (`baselined`).
* `LpOperationsSettle`: a withdrawal that cannot be paid from the LP's shares, or
  that is marked and burns more than the position has, stops every visit and every
  start (`Unpaid`).
* `PlacedShardsServed`: a shard that the save of an older copy dropped from the file
  (`overwritten`), and one that `spawn_pool` activated without waiting for the
  workers (`byHand`).
* `ReadersCurrent`: a `New` update published after later ones.

## 3. Runs

| run | bounds | what it shows |
|---|---|---|
| `services` | nine services, one at a time: two requests and three keys for a table of one; two challenges and tokens; three attempts with two client ids and two intents, a nonce range and a queue of one; one order and a feed of three updates; two swaps and four flows; two fee batches; two assets, two LPs, and three swaps or LP notes on the books, at most two of them swaps; limbs of 2 bits and nonces 0..12 | every limit is met and exceeded by one; retries, conflicting intents and lost requests; updates lost, late and repeated; swaps that settle and fail in both orders, with and without a surplus; slides of less than one limb, of whole limbs and of more than the window |
| `workers` | four tasks, one at a time, with fairness: two connections at one address; six vault notes in three blocks, among them a redeem whose id precedes the fund it draws on; a tape of four prices; five shards for two users, two faults | the safety of these tasks across crashes, and that each gets on: sessions let go, flows counted, prices delivered, capacity restored.  Within the bounds the mirror clips and a save drops a shard from the file |
| `fees_wakeup` (violation) | two batches, one expiry | see finding 5 |
| `custody` | two cases: one trader and LPs in one asset, two assets, amounts 1 and 2, counters to 2; and three users with single units on two shards of two users and three cells | every interleaving of funding, both redeem steps and swaps in both directions with deposits, checkpoints and withdrawals out of the same pot, including the overflow aborts; full shards, a change of the active shard between registrations, the last cell taken in the middle of a swap; all of it a refinement of `AccountLedger` |
| `pool_nonce_window` (violation) | limbs of 2 bits, nonces 0..8 | see finding 1 |
| `custody_lp_funded` (violation) | one LP, one trader, two assets | see finding 2 |
| `pipeline_overlap` | two orders of one shard, two processes at once, one order per claim queue | both processes claim, lose, submit and record the same batch; a pending batch waits behind a claimed one |
| `pipeline_liveness` | two orders of one shard, two generations, one process at a time | a crash between any two store calls, takeover of a half-run batch, lost replies; what one process sends still awaits submission; refinement of `OrderLife`; settlement and announcement under fairness |
| `pipeline_outbox` (violation) | outbox window of one row | see finding 3 |
| `processing_curve` | two orders, one LP note, one crash, one failed pass, one lagged update | copies of the curve with open swaps circulate, are adopted, reloaded and saved; none with an open swap is ever saved, and every pending swap still has an outcome to come as long as no update is skipped |
| `lp_notes` | `Processing` and `Liquidity`, one at a time, with fairness.  The loop: one order, two LP notes of which the second is unpayable, two crashes, one failed pass, one fee update.  The journal: a deposit, a withdrawal and a deposit too small, in blocks of one or two; two shares worth three to begin with, swaps that earn the pool nothing or one unit, up to a worth of four; one restart, and as many as failing starts bring | a crash between marker, broadcast and acknowledgement, and one during the recovery of another; deferred notes are applied in the end; no note is lost, rejections hold, and the journal settles but for a withdrawal that cannot be paid.  Within the bounds a visit under way does give a rejected deposit shares, and a withdrawal is refused because of rounding |
| `processing_settled` (violation) | two orders | see finding 4 |

`services` and `workers` are sums: the variable `service` is chosen in the
initial state and never changes, so a behaviour is one service at work and the
state space is the sum of theirs, not the product.  That loses nothing, because
the services share no variable but the clock, which each reads and advances by
itself.  `lp_notes` (variable `side`) is one as well: `Processing` and `Liquidity`
each have the other as their environment, the first with one step for a note's
arrival and positions that always suffice but for `Unpayable`, the second with one
flag for pending swaps.  `custody` likewise joins two cases of one specification,
each step staying in one of them.

The passing runs together take every action and disjunct of the next-state
relations.  Deadlock checking is off where the system may rest: when the
bounded counters, the orders or the notes are used up.  Symmetry is used for
users, pools, LPs, worker identities and orders of the same shard, which no
definition tells apart; runs with liveness use none.

Bounds.  Two orders are enough for every pairwise hazard of the pipeline (one
submitted and one batched, one settled by a verdict while the other is proved),
and the theorems of section 5 remove the bound for the safety properties.
`MaxFelt`, `MaxPoolCells`, `PoolUserCapacity`, `QueueLimit`, `ClaimLimit`,
`OutboxWindow`, `MaxNonce` and `MaxLive` are constants whose real values are
2^64 - 2^32, 247, the deployed capacity, `MAX_ADMITTED_ORDERS`, twice the orders
of one shard transaction, 100,
2^32 - 1 and the number of processes on one database.  In the services
`NonceLimit` is 2^32, `Modulus` 2^256, `FeePrecision` 10^6, and `MaxNow`,
`MaxMarks`, `MaxCrashes`, `MaxLpCrashes`, `MaxFaults`, `MaxBatches`, `MaxSwaps`
and `MaxEvents` bound what happens, not what the code allows.  The clock has two
lifetimes, enough for something to expire, be replaced, and expire again.  The
instance of the books is chosen for the edges: an output of 4 less fees of 2
empties a pool of 2 and wraps after a withdrawal, a minimum of 0 leaves all of
the output as surplus, and a minimum of 3 needs the other pool's swap first.

Fairness.  The three loops poll the store every 250 ms (`durable_poll`,
`poll_once`) and none can be starved by the others, so a store call that stays
possible is made: weak fairness of each worker's quoting and execution steps, of
the observer's verdicts and of its announcements.  Leases lapse because the
clock advances.  Fairness of `Start` when nothing runs is the service
supervisor's restart.  `Crash` keeps one unused identity, which makes crashes
finite; liveness says nothing about a process that crashes for ever.  The chain
is not assumed fair: an order it neither commits nor discards is settled by the
observer's timeout.

In `Processing` the loop and the observer poll, `select!` picks at random among
the channels that are ready, so none is starved, batches settle
(`OrdersSettle`), and a supervisor restarts the process.  Passes fail finitely
often and crashes are finite.  Nothing obliges anyone to add notes, to change
fees or to expire an order.

In `workers` and `lp_notes`, a task goes on with what it has begun: weak fairness of a
connection's task in the middle of a message, of the two note readers, of the
engine's visits of the LP journal once they may start, of the provisioner's tick and of the workers
that attach shards, all of them loops with a timer.  A connection's recheck
timer and its closed signal are branches of a `select!` that may be unavailable
while a message is handled and are ready again afterwards, hence strong
fairness.  `PriceFeed` assumes that time passes and that the forwarding task and
the socket writer run.  Nobody is obliged to connect, to log out, to fund, to
publish a price or to register, and nobody to close a pending swap:
`LpOperationsSettle` has it as its premise, because as long as one is pending the
engine visits no journal.  Crashes, faults and uses of a tool are finite.

## 4. Properties

On chain: `NoOverdraft` and `HoldingsOnRecord`; `ImplementsLedger`, the refinement
of `AccountLedger`; `ImplementsGate` for the nonce window.  The theorems add `CellsDoNotAlias`, `CellsFollowPlacement`,
`PlacementCountsExact`, `PlacementPermanent`, `LpPaidWithinEntitlement` and
`WindowRecordsHistory`.

Pipeline: `NoOrderStranded`, `OutcomesFinal`, `ImplementsOrderLife`, for one process at a time also
`SubmissionsFresh`, which does not hold when two processes overlap, because a
worker that lost its lease goes on with the list of orders it read; and the
liveness properties `OrdersSettle` and `OutcomesAnnounced`.  The theorems add
`TerminalBatchSettled`, `SubmittedOrdersWatched`, `OneClaimedBatch`,
`ConfirmedOnChain` and `SharedFate`.

Processing: `SnapshotSettled`, `NotesAtMostOnce`, `PendingResolvable` and the
liveness property `LpNotesApplied`; by theorem also `LedgerCountsMarkers`.  `CurveSettled`
says that the curve is what the settled swaps made of it once everything has
been delivered; it does not hold (finding 4).

Books: `BooksWithinCash` (the books claim no cash the vault does not hold),
`ReserveCovered` and the action property
`SharePriceNeverFalls` (what a share is entitled to, without the fees of swaps
that may still fail, never falls); by theorem also `SupplyIsShares`.

Requests: `RateHonoured` (twice the limit in any span of a window, also across
evictions), `PermitsConserved`; `LeasesDistinct`, `ToldOrdersDurable` and
`SubmissionIdempotent`, the refinement of `IdempotentAdmission`;
`OneSessionPerChallenge`.

Readers: `CandlesCountTradesOnce`; `ReadersCurrent`, which joins
`HistoryCurrent` and `IndexUnambiguous`; `BooksReconcile` (profit equals what
positions are worth plus withdrawals less deposits and fees);
`NoFlowPassedOver`, `MirrorFollowsChain` and, for liveness, `FlowsGetCounted`.

Liquidity: `NoLpNoteMissed`, `RejectionsHold` and the
liveness property `LpOperationsSettle`, with `Unpaid` for the two states in which a
withdrawal waits for ever and everything behind it too.

Fees: `SurchargesExpire`, `SpikesAnswered`; `EngineFollowsStore` does not hold
(finding 5).

Connections and prices: `ConnectionsWithinCap`, `NoGhostSubscriptions`, and for
liveness `DeadSessionsLetGo` and `PricesReachClients`; by theorem also
`NewestOnItsWay`.

Shards: `PlacedShardsServed`, which joins `PlacedShardsListed` and
`ActiveShardServed`, and the liveness property `CapacityRestored`.

Types: every module has a type invariant, which says more than shapes where the
code has a bound to keep (no negative balance, no queue beyond its capacity, one active
batch).  All of them are theorems, so no run repeats them.

Every property that a run checks comes with a mutated form of a definition it depends on (a
dropped guard, an unchecked addition, a row that is not written), under which
TLC finds it violated.  The mutated forms stand next to the definitions, marked
as such, and no specification uses them.

## 5. Theorems

TLAPS proves the following for every value of the constants that satisfies the
named assumptions.

*Nonce window* (`SharedLemmas`, `EntryProofs`).  The lemmas
characterise the shifts of limbs bit by bit: bit i of the shifted bitmap is bit
i + shift of the original.  With them, `HistoryRecorded` shows that the bitmap
holds exactly the accepted nonces of the window, and `ConsumeImplementsGate`
that the window refines `NonceGate`.  `WindowRecordsHistory` is inductive
together with the types; its second half, that every accepted nonce lies below
the upper end of the window, is what makes the bits that a slide shifts in
right.

*Custody* (`CustodyProofs`).  `NeverOverdrawn`, `CellsDistinct`, `CellsPlaced`,
`CountsExact`, `LpWithinEntitlement` and `PlacementNeverChanges`, with type
correctness.  The inductive invariant is the conjunction of these with
`Registration` (key and pool of a user are set together, to an authorised pool)
and `FreshSlotsZero` (a cell that was never allocated holds zero).
`NoOverdraft` alone is not inductive: a swap writes the cell its key resolves
to, so that another key's counters stay put needs `CellsDoNotAlias`, that a cell
the swap allocates reads as zero needs `FreshSlotsZero`, and that a registration
points the redeem checks at a shard without hidden counters needs
`CellsFollowPlacement`.  `HoldingsRecorded` is about sums over all users and LPs;
its invariant, `RecordInv`, adds that the totals are of finitely many units, and
uses `LpPaidWithinEntitlement`, by which what an LP is owed is a natural number
that a payment takes off both sides.  `CustodyImplementsLedger` maps every note to
an entry of `AccountLedger` or to no step at all.  The delicate ones are the
registration, after which a balance is read from the shard's counters instead of
the funding alone, and the swap that allocates cells: the balances of all other
keys must read the same before and after, which is again `CellsDoNotAlias`,
`CellsFollowPlacement` and `FreshSlotsZero`.

*Pipeline* (`ExecutionPipelineProofs`).  `NoneStranded`, `TerminalIsSettled`,
`InFlightWatched`, `ConfirmedIsCommitted`, `SingleClaim` and
`OutcomesNeverChange`, for any number of orders, processes and crashes.  The
type invariant needs `JobHeld` (a worker that is not idle has a batch in hand).
The inductive invariant adds `Placed` (an order from `batched` on names a batch
that exists, and an order before that names none), `Tracked` (an order in flight
or confirmed names a transaction) and `SoleClaim` (`OneClaimedBatch` without the
cardinality).  `TerminalBatchSettled` is what needs most of it: a batch is
finalized from four places, and each must be shown to leave no open order in
it, which rests on `NoOrderStranded` and `SubmittedOrdersWatched` of the state
before.  `LoneWorkerFresh` has the hypothesis `MaxLive = 1`, without which it is
false.  `FreshInv` says of the one worker that it has a list only while it runs a
batch, that the orders still on the list are batched (`InHand`), and that what it
sent is crossed off (`CrossedOff`), so that its own records never move an order
it is still to send.  `PipelineImplementsLife` needs that an order and the transaction it is
recorded with have the same state (`SharedFate`, the theorem `FateShared`): all
the orders of a submission then change their phase in the one step that resolves
it, and a late record or a given-up chunk cannot take one of them along or leave
it behind.  That an announced order is settled (`ToldOver`) follows from
`TerminalBatchSettled` and stays so because outcomes are final.

*Processing* (`ProcessingProofs`).  `SnapshotHoldsSettledSwaps`,
`NotesAppliedOnce` and `LedgerExact`, for any orders and notes and any number of
crashes, failed passes and skipped updates.  None of them is inductive.  The
inductive invariant is `TypeOK` with three parts.  `Stages` relates the pass, the
batches, the outbox rows and the updates in the channel to the state of each
order: what is announced or on its way to the loop is settled, the orders of a
pass are claimed.  `Phases` ties what the loop holds in memory to its phase, and with
the markers counted gives `LedgerCountsMarkers`.  `CurvesSound` says of the
loop's states, of the snapshot and of every copy in the channel that a swap in
it is pending or settled and that a note in it is marked, and once.  The
snapshot can then only be written when nothing is pending, and a copy adopted
late can never bring back a swap that is neither pending nor settled; that
holds of copies only because a settled order is never open again.
`PendingSwapsResolve` follows a pending swap from the pass that quoted it
through the batch and the outbox to the channel (`PendingInv`): with no update
skipped each hand-over leaves it in the next place before it leaves the last.

*Admission* (`EntryProofs`).  `NoncesDistinct`, `ToldIsDurable`,
`AdmissionIdempotent` and type correctness, for any traders, ids, intents,
attempts and limits.  `LeasesDistinct` needs `LeasesSpent` (a leased nonce lies
below its user's counter), `ToldOrdersDurable` needs `AnswersBacked` (an answer
under way already has its order in the store), and the refinement needs
`OrdersSpent` (an order id stands in a reservation only if its own request is
past the database job), so that a new reservation opens a new order.

*Sessions and connections* (`EntryProofs`).  `ChallengeBuysOnce`, with `BoughtConsumed`: a
challenge that bought a session is consumed for as long as its row exists.
`CapsHold`, `NoGhosts` and the types need that a task in the middle of a message belongs to
an open connection and that every subscriber is open: a task that subscribes
after the manager dropped its connection is still open, and cleans up when it
ends.

*Ingress* (`EntryProofs`).  `PermitsAccounted`, and `RateLimitHolds` for any
window and limit.  A bucket forgets when it is evicted, so the invariant names
the start `c` of the last bucket a key ever had: nothing was served a window
after `c`, at most the limit in the window from `c` and in the one before it,
and the key has no bucket only if that window is over.  Any span as long as the
window meets at most two of those.  `IngressTypeCorrect` follows from the two: a bucket's
count from the rate invariant, the bound on permits from their conservation.

*Books* (`PoolBooksProofs`).  `BooksTyped`, `CashCovers`, `SupplyAddsUp` and
`PriceKeeps`, for any assets, LPs, amounts, prices, fees and order of outcomes,
and for every curve that keeps the contract of section 2.  `BooksWithinCash` is
not inductive: a rollback gives back cash the books may never have shown.  The
invariant therefore counts, for every pool, the reserve with slippage together
with the slack of the pending swaps (what was sold less what the books took in)
against the cash; `Shape` says what a quote wrote down about both pools.  For the
price of a share the LP fees of pending swaps must be covered by the liabilities,
and every division is bounded by its product (`DivFloor`, `PriceUp`,
`PriceKept`).  Sums change by one entry at a time (`TotalChange`), which follows
from cardinalities of disjoint unions.  `ReserveStaysCovered` needs the history of
a pool that is not marked (`CoverInv`): its pending swaps form a chain, each
quoted on what the one before it left, every link covered, the last one's result
on the books.  A rollback of the last link then gives back exactly what it found;
one of an earlier link marks the pool.

*Order feed* (`MarketProofs`).  `CandlesExact` and `ReadersShowState`.  What a
reader shows is an invariant only together with what is still in its channel:
with nothing lost, the last update of an order in a channel is the order's state
or a late `New` (`LastTold`, `HistoryTold`), each update of an order follows the
one before (`InOrder`), and `failed` is the last word but for a `New`
(`FailedIsLast`).  With them go the types and the capacity of the channels
(`FeedTypeCorrect`).

*Fees* (`MarketProofs`).  `SurchargeEnds`: every fee state on its way (in a
caller's hand, in the channel, in force) ends no later than the batch it names,
and the clearing of manual fees only restates batches.  `SpikeEdgeKept`: the
keeper's flag rises only after a stored batch.  `FeeTypeCorrect` proves that at
most one batch is active: a batch is stored and the active one ended in one
transaction, and nothing makes an ended batch active again (`FeeBounds`).

*Analytics* (`MarketProofs`).  `ProfitReconciles`.  `BooksReconcile` speaks of the
positions that have a mark; the invariant `LedgerInv` speaks of all of them: what
was realized and the fees, less the cost still invested, is what was withdrawn
less what was deposited, and a position that is empty has no cost left.  The
average cost cancels: a disposal takes from the cost exactly what it charges
against the proceeds, whatever the division rounded to.  The hypothesis
`SwapsPay`, that every swap in the journal paid something out, is needed: a swap
with a minimum of nothing may pay nothing, and its cost then stays with an empty
position, which the summary skips for as long as the asset has no mark.  The
mark a valuation takes exists because a nonempty set of numbers below a bound
has a largest (`LargestBelow`, from the well-foundedness of the naturals).
`StoreTypeCorrect` has no such hypothesis: quantities, costs and fees stay natural
whatever a swap paid, because the basis that a sale or a withdrawal lacks is made
up before it is taken away.

*Cash flows* (`WorkersProofs`).  `FlowsRecorded` and `MirrorExactAtRest`.  The
journal is always the flows up to a point of the note order, and the announcements
outstanding are the end of the journal in that order (`FlowInv`).  The mirror,
unless it is cold, is the balance of the flows that are neither outstanding nor
missed, with those it was read with counted besides, plus what was clipped
(`MirrorCounted`); at rest nothing is outstanding and the property is what is left
of it.  `FlowTypeCorrect` is where `SolventAssumption` enters: what the chain
answers at a height is never negative.

*Liquidity* (`WorkersProofs`).  `LpNotesRecorded`: besides the cursor, the place a
pass has reached has every note before it in the journal (`LpInv`).
`RejectedStayRejected` holds for a rejected deposit that is neither marked nor in
the list of the visit under way: a note enters that list only from the confirmed
rows.  `LpTypeCorrect` rests on `LpWrites`, what each step can do to the books, and
shows the vault's counters (`VaultTyped`) and the pool, the ledger and the position
(`BooksTyped`) apart; a checkpoint's readings before it waits and the rounding of
`Payout` and `Minted` are the arithmetic in it.  A note which does not decode never
gets a row: it would be burnt unchecked (`RowsDecode`).

*Shards* (`WorkersProofs`).  `PlacementsServed`: what a provision or the tool is
about to activate is on record already, or was dropped from the file by another
process's save, and is attached to every worker unless it was by hand or dropped
(`HandsOnRecord`).  Nothing is assumed about who saves the file when.

*Prices* (`WorkersProofs`).  `NewestNeverDropped` is the safety behind
`PricesReachClients`.  The newest price is the last of the forwarding task's
channel; with the channel empty it is held back by the throttle or was emitted
last (`NewestHeld`); and what was emitted last is in the queue, in the slot, or
the client has got something as new (`EmittedHeld`).

*Types*.  One theorem for each module: `TypeCorrect` in `CustodyProofs`,
`ExecutionPipelineProofs` and `ProcessingProofs`, `BooksTyped`, `HistoryRecorded`
for the window, and `AuthTypeCorrect`, `ConnTypeCorrect`, `IngressTypeCorrect`,
`AdmissionTypeCorrect`, `FeedTypeCorrect`, `FeeTypeCorrect`, `KeeperTypeCorrect`,
`StoreTypeCorrect`, `FlowTypeCorrect`, `LpTypeCorrect`, `ProvTypeCorrect` and
`PriceTypeCorrect`.

Assumptions.  Amounts, limits, caps and windows are naturals and the sets summed
over are finite, as they are in the code (`u64`, tables).  `IngressAssumption`
keeps rate keys apart from the names of the stages.  `SolventAssumption`, in
`CashFlows`, is what the vault's own check of a redeem gives at the end of a block:
up to a block, no more was taken out than was funded (`NoOverdraft`).  `AnalyticsAssumption`
takes from the order checks that the two assets of a swap differ and that
something is sold.

Only model-checked: the liveness properties `OrdersSettle`, `OutcomesAnnounced`,
`LpNotesApplied`, `DeadSessionsLetGo`, `FlowsGetCounted`, `LpOperationsSettle`,
`PricesReachClients` and `CapacityRestored`, which rest on fairness and are out of
the prover's reach, and the properties of the runs that expect a violation, which
are false.  Every other property of a passing run is a theorem.

## 6. Findings

1. *The assembly nonce window forgets on every slide* (`masm/accounts/pool.masm`,
   line 287).  The slide distance is computed as `base - new_base`, a field
   element far above the window size, so the bitmap is cleared while the base
   moves by the true distance.  Nonces that were consumed and are still inside
   the window lose their mark.  The comment on the storage layout, line 238,
   states the invariant that breaks.  The Rust mirror is right.
2. *Outstanding LP entitlements are not always covered* (`vault.masm`, line
   520).  The comment at line 454 says that LPs can always withdraw up to their
   entitlement even without the operator.  Redeems of traders who swapped into
   the asset are paid from the same holdings, so the vault may hold less than
   the LPs' principal, before any fee checkpoint.  `HoldingsOnRecord` is the
   direction that does hold.
3. *Purged orders can block the outbox* (`src/execution_store.rs`, line 731).
   The start-up purge fails admitted orders and leaves their `order_admitted`
   rows undelivered for good; the observer filters for terminal batches only
   after `pending_outbox(100)` has cut the list.  With 100 such rows no outcome
   is announced again.  The run scales 100 down to 1.
4. *The curve drifts from the settled swaps* (`src/processing.rs`, line 378).
   The loop receives its own `PoolState` broadcasts and adopts them, whatever
   was quoted or rolled back since, and `BatchFailed` (line 408) puts back the
   last snapshot while `Failed` updates of the same batch roll back relative to
   the states of the moment.  The run ends quiet, with a failed swap still in
   the curve.  The same property fails in two more ways when the bounds admit
   them.  With a crash: one after the snapshot was saved and before the outbox
   row was marked repeats `Confirmed` in a process that no longer remembers the
   swap, which is then restored from `swap_accounting` (line 330) and applied to
   a snapshot that contains it already.  With a failed pass: the quoted delta
   stays and is added again when the order is claimed again.

5. *The engine can keep fees the store has dropped* (`src/processing.rs`, line
   446).  The broker calls `fee_state` a notification whose consumers read the
   store; the engine applies the payload.  A batch and the expiry task commit in
   one order and announce in the other, and the engine ends with the fees of the
   one announced last.  `SurchargesExpire` is what holds nevertheless: the quote
   looks at the validity itself.

`PendingResolvable` is stated for a loop that never lagged.  When the order
receiver lags (line 230), the outcome of a pending swap may be lost, nothing
reads it from the store, and until the next restart no snapshot is saved and no
LP note is applied.

## 7. Plan

Done: on-chain custody, the nonce window, the pipeline, processing, the books,
admission, sessions and connections, both note readers, fees, provisioning,
prices, history and analytics.

Next, in this order:

1. A composition of `Processing` and `PoolBooks`: adopted and reloaded copies of
   the books, of which `Processing` knows only how often a swap is in them.
2. An abstract store of settled orders, refined by `Processing`, beside
   `OrderLife`.
3. The faucet's queue and cooldowns.

## 8. Not modelled

* The numerics of the curve: fixed-point `psi`, its inverses and the square root
  are 256-bit arithmetic that TLC's integers cannot hold; `PoolBooks` rests on
  their contract.  `price.rs`, `market.rs`, the volatility estimate and the fee
  curve are formulas without state.
* Cryptography and encodings: commitments, signatures and serialisation appear
  as distinct values that are accepted or refused.
* HTTP routing, read-only endpoints, report queries and logging: no state.
* The faucet, which shares no state with the exchange; deployment scripts other
  than the two that write the live deployment file; the load generator and the
  test fixtures; the operator account, which only checks a signature.
* The Miden kernel, node and client library, which appear through the outcomes
  the code can observe.  Whether a native transaction can be included with an
  outdated foreign account state is decided by the kernel; `Custody` assumes it
  cannot.
* The oracle: a price published while the stream is down is not asked for again,
  and no property claims that the server knows the newest price.
