------------------------------- MODULE Liquidity -------------------------------
(***************************************************************************)
(* Liquidity provision for one LP and one asset: the LP worker             *)
(* (src/src/lp.rs), its journal and positions (src/src/lp_store.rs), the   *)
(* engine that applies the journal (src/src/processing.rs), the pool's     *)
(* shares (src/src/pool.rs) and the vault's entitlement counters, which    *)
(* the worker's checkpoints raise.                                         *)
(*                                                                         *)
(* A pass of the worker records each consumed note, then rejects a deposit *)
(* below the minimum or wakes the engine, and moves the cursor at its end. *)
(* The engine reads the confirmed rows once and works through them; it     *)
(* marks a note in its own database before it acknowledges it in the       *)
(* journal, and an error ends the visit.  Shares are those of the curve    *)
(* where reserve and liabilities agree (module Processing has the rest):   *)
(* their share of what the pool is worth, rounded down.                    *)
(***************************************************************************)
EXTENDS Integers, FiniteSets, Totals

CONSTANTS
  LpNotes,      \* note ids, numbered in the order of stable_note_id
  LpNoteOf,     \* kind, amount and created_at of a note
  NoLpNote,     \* no note waits for its second call
  MinDeposit,   \* LP_MIN_DEPOSIT_AMOUNT
  SeedPool,     \* the supply and the worth of the other LPs' shares
  MaxWorth,     \* bound on what swaps earn the pool
  MaxLpCrashes  \* bound on restarts

LpPools == [supply : Nat, worth : Int]

ASSUME LiquidityAssumption ==
  /\ LpNotes \subseteq Nat /\ NoLpNote \notin LpNotes
  /\ MinDeposit \in Nat /\ MaxLpCrashes \in Nat /\ MaxWorth \in Int /\ SeedPool \in LpPools
  /\ \A n \in LpNotes : /\ LpNoteOf[n].kind \in {"deposit", "withdraw", "malformed"}
                        /\ LpNoteOf[n].amount \in Nat \ {0}
                        /\ LpNoteOf[n].created \in Nat

VARIABLES
  height,       \* blocks produced
  consumedAt,   \* the block that consumed each note, 0 before
  entitlement,  \* zorovault::lp_entitlements
  withdrawn,    \* zorovault::lp_withdrawn
  lpCursor,     \* lp_meta: <<block, note id>>
  ops,          \* lp_operations.status, "none" without a row
  position,     \* lp_positions: shares, and checkpoint_shares and _value
  noted,        \* applied_lp_notes: the shares of the notes marked
  lpPool,       \* the pool: lp_total_supply and liabilities
  lpLedger,     \* LpLedger: the LP's shares in memory
  pass,         \* the worker's task: what it does, where it is, its horizon
  fresh,        \* the note inserted whose second call is due
  told,         \* the pool the worker has last heard of
  visit,        \* the engine's task: what it does, the rows it has still to do
  lpWoken,      \* an event in the LP channel, or lp_recovery_pending ("retry")
  swapsOpen,    \* pending_swaps is not empty
  baselined,    \* ghost: notes the first cursor was put behind
  lpCrashes     \* restarts so far

lpChain == <<height, consumedAt, entitlement, withdrawn>>
lpStore == <<lpCursor, ops, position>>
lpBooks == <<noted, lpPool, lpLedger>>
lpEngine == <<lpBooks, visit, swapsOpen>>
lpWorker == <<pass, fresh, told>>
lpRest == <<baselined, lpCrashes>>
lpAll == <<lpChain, lpStore, lpWorker, lpEngine, lpWoken, lpRest>>

LpResting == [does |-> "rest", at |-> <<0, 0>>, upTo |-> 0]
NoVisit == [does |-> "rest", todo |-> {}]
Of(kind, ns) == {n \in ns : LpNoteOf[n].kind = kind}
SumOf(ns) == Total([n \in ns |-> LpNoteOf[n].amount])
ConsumedBy(h) == {n \in LpNotes : consumedAt[n] \in 1..h}
Decodable == {n \in LpNotes : LpNoteOf[n].kind # "malformed"}

LpTypeOK ==
  /\ height \in Nat /\ consumedAt \in [LpNotes -> 0..height]
  /\ withdrawn \in 0..entitlement
  /\ ops \in [LpNotes -> {"none", "confirmed", "applied", "failed"}]
  /\ position \in [shares : Nat, cpShares : Nat, cpValue : Int]
  /\ DOMAIN noted \subseteq LpNotes /\ lpPool \in LpPools /\ lpLedger \in Nat
  /\ fresh \in LpNotes \cup {NoLpNote}
  /\ pass.does \in {"rest", "scan", "value", "send", "record"}
  /\ visit \in [does : {"rest", "visit", "reconcile", "recover"}, todo : SUBSET LpNotes]
  /\ lpWoken \in {"no", "event", "retry"} /\ swapsOpen \in BOOLEAN /\ lpCrashes \in 0..MaxLpCrashes

LpInit ==
  /\ height = 0 /\ consumedAt = [n \in LpNotes |-> 0]
  /\ entitlement = 0 /\ withdrawn = 0
  /\ lpCursor = <<0, 0>> /\ pass = LpResting /\ fresh = NoLpNote
  /\ ops = [n \in LpNotes |-> "none"]
  /\ position = [shares |-> 0, cpShares |-> 0, cpValue |-> 0]
  /\ noted = [n \in {} |-> 0] /\ lpLedger = 0 /\ lpPool = SeedPool /\ told = SeedPool
  /\ visit = NoVisit /\ lpWoken = "no" /\ swapsOpen = FALSE
  /\ baselined = {} /\ lpCrashes = 0

\* A block of one or two notes; the vault pays no more than is left of the entitlement
\* at the time, and a deposit may come first.
ProduceBlock(ns) ==
  /\ ns # {} /\ ns \subseteq {n \in LpNotes : consumedAt[n] = 0}
  /\ height' = height + 1
  /\ consumedAt' = [n \in LpNotes |-> IF n \in ns THEN height + 1 ELSE consumedAt[n]]
  /\ entitlement' = entitlement + SumOf(Of("deposit", ns))
  /\ withdrawn' = withdrawn + SumOf(Of("withdraw", ns))
  /\ withdrawn' <= entitlement'
  /\ UNCHANGED <<lpStore, lpWorker, lpEngine, lpWoken, lpRest>>

(***************************************************************************)
(* A pass over the consumed notes.                                         *)
(***************************************************************************)
LpKey(n) == <<consumedAt[n], n>>
Beyond(k, c) == k[1] > c[1] \/ (k[1] = c[1] /\ k[2] > c[2])

Ahead == {n \in ConsumedBy(pass.upTo) : Beyond(LpKey(n), pass.at)}
NextLpNote == {n \in Ahead : \A m \in Ahead \ {n} : Beyond(LpKey(m), LpKey(n))}

StartPass ==
  /\ pass = LpResting
  /\ \E n \in ConsumedBy(height) : Beyond(LpKey(n), lpCursor)
  /\ pass' = [does |-> "scan", at |-> lpCursor, upTo |-> height]
  /\ UNCHANGED <<lpChain, lpStore, fresh, told, lpEngine, lpWoken, lpRest>>

\* Malformed notes are ignored; record_confirmed inserts unless the row is there.
RecordConfirmed ==
  /\ pass.does = "scan" /\ fresh = NoLpNote
  /\ \E n \in NextLpNote :
       /\ pass' = [pass EXCEPT !.at = LpKey(n)]
       /\ IF n \in Decodable /\ ops[n] = "none"
          THEN ops' = [ops EXCEPT ![n] = "confirmed"] /\ fresh' = n
          ELSE UNCHANGED <<ops, fresh>>
  /\ UNCHANGED <<lpChain, lpCursor, position, told, lpEngine, lpWoken, lpRest>>

TooSmall(n) == LpNoteOf[n].kind = "deposit" /\ LpNoteOf[n].amount < MinDeposit

\* mark_failed has no condition on the status it replaces.
MarkFailed ==
  /\ fresh # NoLpNote /\ TooSmall(fresh)
  /\ ops' = [ops EXCEPT ![fresh] = "failed"]
  /\ fresh' = NoLpNote
  /\ UNCHANGED <<lpChain, lpCursor, position, pass, told, lpEngine, lpWoken, lpRest>>

\* Mutant of BroadcastLpChain: the event finds no receiver.
BroadcastLpChainLost ==
  /\ fresh # NoLpNote /\ ~ TooSmall(fresh)
  /\ fresh' = NoLpNote
  /\ UNCHANGED <<lpChain, lpStore, pass, told, lpEngine, lpWoken, lpRest>>
\* The engine subscribes after it has reconciled: before, the event may be lost.
BroadcastLpChain ==
  /\ fresh # NoLpNote /\ ~ TooSmall(fresh)
  /\ \/ lpWoken' = IF lpWoken = "no" THEN "event" ELSE lpWoken
     \/ visit.does = "reconcile" /\ UNCHANGED lpWoken
  /\ fresh' = NoLpNote
  /\ UNCHANGED <<lpChain, lpStore, pass, told, lpEngine, lpRest>>

\* Mutant of SetSyncCursor: the cursor is saved before the notes are handled.
SetSyncCursorEarly ==
  /\ pass.does = "scan" /\ fresh = NoLpNote
  /\ lpCursor' = <<pass.upTo, Cardinality(LpNotes)>>
  /\ pass' = IF NextLpNote = {} THEN LpResting ELSE pass
  /\ UNCHANGED <<lpChain, ops, position, fresh, told, lpEngine, lpWoken, lpRest>>
SetSyncCursor ==
  /\ pass.does = "scan" /\ fresh = NoLpNote /\ NextLpNote = {}
  /\ lpCursor' = pass.at
  /\ pass' = LpResting
  /\ UNCHANGED <<lpChain, ops, position, fresh, told, lpEngine, lpWoken, lpRest>>

(***************************************************************************)
(* A checkpoint: value the position, read the vault's counters, send the   *)
(* note, keep the valuation.  It runs between two passes; at holds shares  *)
(* and value, upTo the new entitlement.                                    *)
(***************************************************************************)
Payout(pool, s) == IF pool.supply = 0 THEN 0 ELSE (s * pool.worth) \div pool.supply

\* Between two passes as well; the updates that wait then are taken together.
HearPools ==
  /\ pass = LpResting /\ told # lpPool /\ told' = lpPool
  /\ UNCHANGED <<lpChain, lpStore, pass, fresh, lpEngine, lpWoken, lpRest>>

\* The position and the worker's copy of the pool are read before the first wait.
ValuePosition ==
  /\ pass = LpResting /\ position.shares > 0
  /\ pass' = [does |-> "value", upTo |-> 0,
              at |-> <<position.shares, Payout(told, position.shares)>>]
  /\ UNCHANGED <<lpChain, lpStore, fresh, told, lpEngine, lpWoken, lpRest>>

\* get_vault_lp_info
ReadVault ==
  /\ pass.does = "value"
  /\ LET target == withdrawn + pass.at[2]
     IN  pass' = [does |-> IF target > entitlement THEN "send" ELSE "record",
                  at |-> pass.at, upTo |-> target]
  /\ UNCHANGED <<lpChain, lpStore, fresh, told, lpEngine, lpWoken, lpRest>>

\* The vault refuses to lower an entitlement, and the checkpoint ends there.
CheckpointEntitlement ==
  /\ pass.does = "send"
  /\ IF pass.upTo >= entitlement
     THEN /\ entitlement' = pass.upTo
          /\ pass' = [does |-> "record", at |-> pass.at, upTo |-> pass.upTo]
     ELSE UNCHANGED entitlement /\ pass' = LpResting
  /\ UNCHANGED <<height, consumedAt, withdrawn, lpStore, fresh, told, lpEngine, lpWoken, lpRest>>

RecordCheckpoint ==
  /\ pass.does = "record"
  /\ position' = [position EXCEPT !.cpShares = pass.at[1], !.cpValue = pass.at[2]]
  /\ pass' = LpResting
  /\ UNCHANGED <<lpChain, lpCursor, ops, fresh, told, lpEngine, lpWoken, lpRest>>

(***************************************************************************)
(* The engine: recover_unapplied_lp_operations reads the confirmed rows in *)
(* the order of block and created_at, and works through that list.  The    *)
(* worker's thread goes on meanwhile.                                      *)
(***************************************************************************)
\* Mutant of Confirmed: every row that is not applied is visited.
ConfirmedOrFailed == {n \in LpNotes : ops[n] \in {"confirmed", "failed"}}
Confirmed == {n \in LpNotes : ops[n] = "confirmed"}

Earlier(m, n) ==
  \/ consumedAt[m] < consumedAt[n]
  \/ /\ consumedAt[m] = consumedAt[n]
     /\ Beyond(<<LpNoteOf[n].created, n>>, <<LpNoteOf[m].created, m>>)
FirstOf(ns) == {n \in ns : \A m \in ns \ {n} : Earlier(n, m)}

VisitJournal == visit' = [does |-> "visit", todo |-> Confirmed] /\ lpWoken' = "no"

\* An event starts a visit, and the end of any handler one that is due again; not while
\* a swap is pending.
StartVisit ==
  /\ visit = NoVisit /\ lpWoken # "no" /\ ~ swapsOpen
  /\ VisitJournal
  /\ UNCHANGED <<lpChain, lpStore, lpWorker, lpBooks, swapsOpen, lpRest>>

DeferVisit ==
  /\ visit = NoVisit /\ lpWoken = "event" /\ swapsOpen
  /\ lpWoken' = "retry"
  /\ UNCHANGED <<lpChain, lpStore, lpWorker, lpEngine, lpRest>>

\* get_deposit_lp_amount_out
Minted(n) == IF lpPool.worth > 0 THEN (LpNoteOf[n].amount * lpPool.supply) \div lpPool.worth
             ELSE LpNoteOf[n].amount

\* The shares at the value of the last checkpoint, rounded up; 0 without one.
SharesHint(n) ==
  LET up == (LpNoteOf[n].amount * position.cpShares + position.cpValue - 1) \div position.cpValue
  IN  IF position.cpValue = 0 \/ position.cpShares = 0 THEN 0
      ELSE IF up < position.shares THEN up ELSE position.shares

\* The hint, if the LP has as many, or the fewest shares that are worth the amount; none
\* when they are not worth it.
Burnt(n) ==
  LET enough == {s \in 1..lpLedger : Payout(lpPool, s) >= LpNoteOf[n].amount}
  IN  IF SharesHint(n) \in 1..lpLedger THEN {SharesHint(n)} \cap enough
      ELSE {s \in enough : \A r \in enough : s <= r}

Mark(n, s, pool) ==
  /\ noted' = [m \in DOMAIN noted \cup {n} |-> IF m = n THEN s ELSE noted[m]]
  /\ lpPool' = pool

\* apply_lp_chain_event up to the commit of marker and snapshot: the row as it was read.
SaveLpApplication(n) ==
  /\ n \in FirstOf(visit.todo) /\ visit.does # "reconcile" /\ n \notin DOMAIN noted
  /\ \/ /\ LpNoteOf[n].kind = "deposit"
        /\ Mark(n, Minted(n), [supply |-> lpPool.supply + Minted(n),
                               worth |-> lpPool.worth + LpNoteOf[n].amount])
        /\ lpLedger' = lpLedger + Minted(n)
     \/ /\ LpNoteOf[n].kind = "withdraw"
        /\ \E s \in Burnt(n) :
             /\ Mark(n, s, [supply |-> IF s < lpPool.supply THEN lpPool.supply - s ELSE 0,
                            worth |-> lpPool.worth - Payout(lpPool, s)])
             /\ lpLedger' = lpLedger - s
  /\ UNCHANGED <<lpChain, lpStore, lpWorker, visit, swapsOpen, lpWoken, lpRest>>

Owned(n) == LpNoteOf[n].kind = "withdraw" => noted[n] <= position.shares

\* apply_operation, right after the marker or for one found later; an error for a row
\* that has been rejected, and for a burn of more than the position holds.
ApplyOperation(n) ==
  /\ n \in FirstOf(visit.todo) /\ n \in DOMAIN noted /\ ops[n] = "confirmed" /\ Owned(n)
  /\ ops' = [ops EXCEPT ![n] = "applied"]
  /\ position' = [position EXCEPT !.shares =
                    IF LpNoteOf[n].kind = "deposit" THEN @ + noted[n] ELSE @ - noted[n]]
  /\ visit' = [visit EXCEPT !.todo = @ \ {n}]
  /\ UNCHANGED <<lpChain, lpCursor, lpWorker, lpBooks, swapsOpen, lpWoken, lpRest>>

\* The rows that stop a visit at their turn.
Refused(n) ==
  IF n \in DOMAIN noted THEN ops[n] = "failed" \/ ~ Owned(n)
  ELSE LpNoteOf[n].kind = "withdraw" /\ Burnt(n) = {}

\* An error ends the visit, and is tried again with the next event.
VisitFails ==
  /\ visit.does = "visit" /\ \E n \in FirstOf(visit.todo) : Refused(n)
  /\ visit' = NoVisit /\ lpWoken' = "retry"
  /\ UNCHANGED <<lpChain, lpStore, lpWorker, lpBooks, swapsOpen, lpRest>>

VisitDone ==
  /\ visit.does \in {"visit", "recover"} /\ visit.todo = {}
  /\ visit' = NoVisit
  /\ UNCHANGED <<lpChain, lpStore, lpWorker, lpBooks, swapsOpen, lpWoken, lpRest>>

\* Swaps are quoted, and earn the pool something or nothing.
SwapsStart ==
  /\ visit = NoVisit /\ ~ swapsOpen /\ swapsOpen' = TRUE
  /\ \/ UNCHANGED lpPool
     \/ lpPool.worth < MaxWorth /\ lpPool' = [lpPool EXCEPT !.worth = @ + 1]
  /\ UNCHANGED <<lpChain, lpStore, lpWorker, noted, lpLedger, visit, lpWoken, lpRest>>

\* The handler that closes the last one ends with retry_pending_lp_recovery.
SwapsEnd ==
  /\ visit = NoVisit /\ swapsOpen /\ swapsOpen' = FALSE
  /\ IF lpWoken = "retry" THEN VisitJournal ELSE UNCHANGED <<visit, lpWoken>>
  /\ UNCHANGED <<lpChain, lpStore, lpWorker, lpBooks, lpRest>>

(***************************************************************************)
(* A start of the process.  initialize_sync_cursor puts a cursor that was  *)
(* never moved behind all that is consumed; the engine acknowledges the    *)
(* notes it has marked, takes its ledger from the positions and visits the *)
(* journal.  An error there ends the process.                              *)
(***************************************************************************)
Reboot ==
  /\ pass' = LpResting /\ fresh' = NoLpNote /\ told' = lpPool
  /\ visit' = [does |-> "reconcile", todo |-> Confirmed \cap DOMAIN noted]
  /\ lpLedger' = 0 /\ lpWoken' = "no" /\ swapsOpen' = FALSE
  /\ LET late == {n \in ConsumedBy(height) : \A m \in ConsumedBy(height) \ {n} :
                                               Beyond(LpKey(n), LpKey(m))}
     IN  IF lpCursor = <<0, 0>> /\ late # {}
         THEN /\ lpCursor' \in {LpKey(n) : n \in late}
              /\ baselined' = ConsumedBy(height)
         ELSE UNCHANGED <<lpCursor, baselined>>
  /\ UNCHANGED <<lpChain, ops, position, noted, lpPool>>

LpRestart == lpCrashes < MaxLpCrashes /\ lpCrashes' = lpCrashes + 1 /\ Reboot

StartupFails ==
  /\ visit.does \in {"reconcile", "recover"} /\ \E n \in FirstOf(visit.todo) : Refused(n)
  /\ Reboot /\ UNCHANGED lpCrashes

Reconciled ==
  /\ visit.does = "reconcile" /\ visit.todo = {}
  /\ lpLedger' = position.shares
  /\ visit' = [does |-> "recover", todo |-> Confirmed]
  /\ UNCHANGED <<lpChain, lpStore, lpWorker, noted, lpPool, swapsOpen, lpWoken, lpRest>>

\* Both threads run on while the process is up.
LpWorkerStep ==
  \/ StartPass \/ RecordConfirmed \/ MarkFailed \/ BroadcastLpChain \/ SetSyncCursor
  \/ ReadVault \/ CheckpointEntitlement \/ RecordCheckpoint
LpEngineStep ==
  \/ StartVisit \/ DeferVisit \/ VisitFails \/ VisitDone \/ Reconciled \/ StartupFails
  \/ \E n \in LpNotes : SaveLpApplication(n) \/ ApplyOperation(n)
LpNext ==
  \/ \E n, m \in LpNotes : ProduceBlock({n, m})
  \/ LpWorkerStep \/ ValuePosition \/ HearPools
  \/ LpEngineStep \/ SwapsStart \/ SwapsEnd \/ LpRestart

LpSpec == LpInit /\ [][LpNext]_lpAll

(***************************************************************************)
(* Properties.                                                             *)
(***************************************************************************)
\* No LP note gets behind the cursor without a row of the journal, wherever a
\* pass was cut short, but for the notes before the first cursor (sync_lp_notes).
NoLpNoteMissed ==
  \A n \in Decodable \ baselined :
    consumedAt[n] > 0 /\ ~ Beyond(LpKey(n), lpCursor) => ops[n] # "none"

\* A withdrawal that stops every visit and every start: one that is marked and burns more
\* than the position has, or the first row of the journal, whose amount the shares are
\* not worth.
Unpaid == {n \in Of("withdraw", Confirmed) :
             (n \in DOMAIN noted \/ n \in FirstOf(Confirmed)) /\ Refused(n)}

\* As long as pending swaps are closed again and again, the journal is settled again and
\* again, every note applied or rejected, or a withdrawal cannot be paid.  Nothing else
\* keeps a note waiting for ever: no event that is lost, no swap that is pending when it
\* comes, no restart, no error (recover_unapplied_lp_operations, apply_lp_chain_event,
\* apply_operation, retry_pending_lp_recovery).
LpOperationsSettle == []<> ~ swapsOpen => []<>(Confirmed = {} \/ Unpaid # {})

\* A deposit rejected for its size gets no shares, stays rejected and is never visited
\* again, whatever restarts and visits of the journal follow; except for a visit under way
\* that has read its row before (sync_lp_notes, confirmed_operations, apply_lp_chain_event).
RejectionsHold ==
  [][\A n \in LpNotes \ visit.todo :
       ops[n] = "failed" /\ n \notin DOMAIN noted =>
         ops'[n] = "failed" /\ n \notin DOMAIN noted' \cup visit'.todo]_lpAll
===============================================================================
