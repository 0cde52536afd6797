------------------------------ MODULE CashFlows ------------------------------
(***************************************************************************)
(* The cash-flow worker that follows the vault's consumed notes            *)
(* (src/src/analytics.rs) and the balance mirror of the engine that the    *)
(* worker's announcements keep warm (src/src/processing.rs).               *)
(*                                                                         *)
(* The worker makes three calls for a cash flow: record it, announce it,   *)
(* move the cursor.  It may crash between two of them and then starts      *)
(* again from the durable cursor.  What recording does to the projections  *)
(* is module AnalyticsStore; here the journal is the ids and their times.  *)
(***************************************************************************)
EXTENDS Clock, FiniteSets, Sequences, Totals

CONSTANTS
  VaultNotes,   \* ids of consumed notes, numbered in the order of stable_note_id
  NoteOf,       \* block, kind, amount and created_at of a note
  NoTime,       \* created_at is None
  NoNote,       \* the worker is between two notes
  Cold,         \* the mirror has no balance
  MaxCrashes    \* bound on restarts

FlowKinds == {"fund", "init_redeem", "redeem"}

ASSUME CashFlowsAssumption ==
  /\ VaultNotes \subseteq Nat /\ IsFiniteSet(VaultNotes)
  /\ NoNote \notin VaultNotes /\ MaxCrashes \in Nat
  /\ \A n \in VaultNotes : /\ NoteOf[n].kind \in FlowKinds \cup {"malformed", "foreign"}
                           /\ NoteOf[n].block \in Nat \ {0} /\ NoteOf[n].amount \in Nat

VARIABLES
  priced,     \* the asset has a mark
  journal,    \* analytics_events: note id -> the payload's event_time
  tip,        \* the chain's block height
  visible,    \* the height the worker has synced to
  cursor,     \* analytics_note_cursors: <<block, note id>>
  skips,      \* analytics_note_skips
  worker,     \* the note being handled and what is next for it
  news,       \* announced cash flows the engine has not applied
  mirror,     \* Processing.balances, of one user and asset
  twice,      \* ghost: flows the mirror was read with and was still to hear of
  missed,     \* ghost: flows a warm mirror never counts
  clipped,    \* ghost: what the mirror did not deduct because it was at zero
  crashes     \* restarts so far

engineVars == <<mirror, twice, missed, clipped>>
flowVars == <<now, priced, journal, tip, visible, cursor, skips, worker, news,
              engineVars, crashes>>

Idle == [note |-> NoNote, step |-> "idle"]

FlowTypeOK ==
  /\ DOMAIN journal \subseteq VaultNotes /\ skips \subseteq VaultNotes
  /\ visible <= tip /\ crashes \in 0..MaxCrashes /\ priced \in BOOLEAN
  /\ worker.note \in VaultNotes \cup {NoNote}
  /\ mirror \in Nat \cup {Cold} /\ clipped \in Nat /\ twice \cup missed \subseteq VaultNotes

FlowInit ==
  /\ priced = FALSE /\ journal = [e \in {} |-> 0]
  /\ tip = 0 /\ visible = 0 /\ cursor = <<0, 0>> /\ skips = {} /\ worker = Idle
  /\ news = <<>> /\ crashes = 0
  /\ mirror = Cold /\ twice = {} /\ missed = {} /\ clipped = 0

\* record_mark of the asset's first mark.
FirstMark ==
  /\ ~ priced /\ priced' = TRUE
  /\ UNCHANGED <<now, journal, tip, visible, cursor, skips, worker, news, engineVars, crashes>>

EventTime(n) == IF NoteOf[n].created = NoTime THEN now ELSE NoteOf[n].created

(***************************************************************************)
(* The worker.  sync_notes walks the visible notes after the cursor in     *)
(* (block, id) order; every note it is done with becomes the cursor.       *)
(***************************************************************************)
Key(n) == <<NoteOf[n].block, n>>

\* NoteCursor derives Ord: block first, then note id.
After(k, c) == k[1] > c[1] \/ (k[1] = c[1] /\ k[2] > c[2])

Unread == {n \in VaultNotes : NoteOf[n].block <= visible /\ After(Key(n), cursor)}
NextNote == {n \in Unread : \A m \in Unread \ {n} : After(Key(m), Key(n))}

BlockProduced ==
  /\ \E n \in VaultNotes : NoteOf[n].block > tip
  /\ tip' = tip + 1
  /\ UNCHANGED <<now, priced, journal, visible, cursor, skips, worker, crashes, news, engineVars>>

\* client.sync_state brings whole blocks.
SyncState ==
  /\ worker = Idle /\ visible < tip
  /\ visible' = tip
  /\ UNCHANGED <<now, priced, journal, tip, cursor, skips, worker, crashes, news, engineVars>>

\* Mutant of SkipNote: a cash flow whose asset has no mark yet is passed over.
SkipNoteUnpriced ==
  /\ worker = Idle
  /\ \E n \in NextNote : NoteOf[n].kind \in FlowKinds /\ ~ priced /\ cursor' = Key(n)
  /\ UNCHANGED <<now, priced, journal, tip, visible, skips, worker, crashes, news, engineVars>>
\* Mutant of SkipNote: a note that does not decode ends the pass.
SkipNoteForeign ==
  /\ worker = Idle
  /\ \E n \in NextNote : NoteOf[n].kind = "foreign" /\ cursor' = Key(n)
  /\ UNCHANGED <<now, priced, journal, tip, visible, skips, worker, crashes, news, engineVars>>
\* A note of another account or script, or one that does not decode.
SkipNote ==
  /\ worker = Idle
  /\ \E n \in NextNote :
       /\ NoteOf[n].kind \in {"foreign", "malformed"}
       /\ skips' = IF NoteOf[n].kind = "malformed" THEN skips \cup {n} ELSE skips
       /\ cursor' = Key(n)
  /\ UNCHANGED <<now, priced, journal, tip, visible, worker, crashes, news, engineVars>>

\* insert_event and the projections, then the announcement is due.
RecordNote ==
  /\ worker = Idle
  /\ \E n \in NextNote :
       /\ NoteOf[n].kind \in FlowKinds /\ priced
       /\ n \notin DOMAIN journal
       /\ worker' = [note |-> n, step |-> "announce"]
       /\ journal' = [e \in DOMAIN journal \cup {n} |->
                       IF e = n THEN EventTime(n) ELSE journal[e]]
  /\ UNCHANGED <<now, priced, tip, visible, cursor, skips, crashes, news, engineVars>>

\* Mutant of ReplayNote: the flow is announced again.
ReplayNoteAnnounced ==
  /\ worker = Idle
  /\ \E n \in NextNote :
       /\ NoteOf[n].kind \in FlowKinds
       /\ n \in DOMAIN journal /\ journal[n] = EventTime(n)
       /\ worker' = [note |-> n, step |-> "announce"]
  /\ UNCHANGED <<now, priced, journal, tip, visible, cursor, skips, crashes, news, engineVars>>
\* duplicate_result for a flow that is there: equal content is no second event,
\* other content is an error that ends the pass.
ReplayNote ==
  /\ worker = Idle
  /\ \E n \in NextNote :
       /\ NoteOf[n].kind \in FlowKinds
       /\ n \in DOMAIN journal /\ journal[n] = EventTime(n)
       /\ worker' = [note |-> n, step |-> "advance"]
  /\ UNCHANGED <<now, priced, journal, tip, visible, cursor, skips, crashes, news, engineVars>>

Announce ==
  /\ worker.step = "announce"
  /\ news' = Append(news, worker.note)
  /\ worker' = [worker EXCEPT !.step = "advance"]
  /\ UNCHANGED <<now, priced, journal, tip, visible, cursor, skips, crashes, engineVars>>

SetNoteCursor ==
  /\ worker.step = "advance"
  /\ cursor' = Key(worker.note)
  /\ worker' = Idle
  /\ UNCHANGED <<now, priced, journal, tip, visible, skips, crashes, news, engineVars>>

\* The process ends: the pass, the channel and the mirror are gone.
WorkerCrash ==
  /\ crashes < MaxCrashes
  /\ crashes' = crashes + 1
  /\ worker' = Idle /\ news' = <<>>
  /\ mirror' = Cold /\ twice' = {} /\ missed' = {} /\ clipped' = 0
  /\ UNCHANGED <<now, priced, journal, tip, visible, cursor, skips>>

(***************************************************************************)
(* The engine's balance mirror, for one user and one asset.  Swaps, which  *)
(* the mirror follows itself, are left out.                                *)
(***************************************************************************)
Moves == {n \in VaultNotes : NoteOf[n].kind \in {"fund", "init_redeem"}}
FlowsUpTo(height) == {n \in Moves : NoteOf[n].block <= height}

\* What a balance is made of that counts flow n times[n] times.
BalanceOf(times) ==
  IntTotal([n \in Moves |-> times[n] * (IF NoteOf[n].kind = "fund" THEN NoteOf[n].amount
                                        ELSE - NoteOf[n].amount)])
Once(ns) == [n \in Moves |-> IF n \in ns THEN 1 ELSE 0]

\* What the vault answers at the end of a block.
ChainBalance == BalanceOf(Once(FlowsUpTo(tip)))

\* The vault debits a user no more than it holds for the user (NoOverdraft of Custody).
\* It consumes the notes of a block in the order of execution, which need not be
\* the order of their ids, so only the ends of blocks are known to be solvent.
ASSUME SolventAssumption ==
  \A n \in VaultNotes : BalanceOf(Once(FlowsUpTo(NoteOf[n].block))) >= 0

\* Consumed flows the engine is still to hear of.
Outstanding ==
  {n \in FlowsUpTo(tip) :
     \/ n \notin DOMAIN journal
     \/ worker = [note |-> n, step |-> "announce"]
     \/ n \in {news[i] : i \in DOMAIN news}}

\* balance_of: a quote needs the balance and the mirror has none.
Hydrate ==
  /\ mirror = Cold
  /\ mirror' = ChainBalance
  /\ twice' = Outstanding /\ missed' = {} /\ clipped' = 0
  /\ UNCHANGED <<now, priced, journal, tip, visible, cursor, skips, worker, news, crashes>>

Minus(x, y) == IF x < y THEN 0 ELSE x - y

\* apply_vault_cashflow_to_balances: a fund starts a cold mirror with its own amount,
\* whatever was funded before, and a deduction stops at zero.
ApplyCashFlow ==
  /\ news # <<>> /\ news' = Tail(news)
  /\ LET n == Head(news)
         f == NoteOf[n]
     IN  CASE f.kind = "fund" /\ mirror = Cold ->
                /\ mirror' = f.amount
                /\ missed' = FlowsUpTo(tip) \ Outstanding
                /\ twice' = {} /\ clipped' = 0
           [] f.kind = "fund" /\ mirror # Cold ->
                mirror' = mirror + f.amount /\ UNCHANGED <<twice, missed, clipped>>
           [] f.kind = "init_redeem" /\ mirror # Cold ->
                /\ mirror' = Minus(mirror, f.amount)
                /\ clipped' = clipped + (mirror' - (mirror - f.amount))
                /\ UNCHANGED <<twice, missed>>
           [] OTHER -> UNCHANGED engineVars
  /\ UNCHANGED <<now, priced, journal, tip, visible, cursor, skips, worker, crashes>>

\* The engine's receiver lags: the oldest announcement is overwritten in the
\* channel, the loop warns and goes on, and a warm balance stays as it is.  (The
\* channel's capacity is left out: any announcement may be lost.)
LoseNews ==
  /\ news # <<>> /\ news' = Tail(news)
  /\ LET lost == {Head(news)} \cap Moves
     IN  IF mirror = Cold THEN UNCHANGED <<twice, missed>>
         ELSE /\ missed' = missed \cup (lost \ twice)
              /\ twice' = twice \ lost
  /\ UNCHANGED <<now, priced, journal, tip, visible, cursor, skips, worker, mirror,
                 clipped, crashes>>

FlowTick ==
  ClockAdvances /\ UNCHANGED <<priced, journal, tip, visible, cursor, skips, worker,
                               news, engineVars, crashes>>

\* The interval of run() polls for ever.
WorkerStep ==
  SyncState \/ SkipNote \/ RecordNote \/ ReplayNote \/ Announce \/ SetNoteCursor
FlowNext ==
  \/ FirstMark \/ BlockProduced \/ WorkerStep \/ WorkerCrash
  \/ Hydrate \/ ApplyCashFlow \/ LoseNews \/ FlowTick

FlowSpec == now = 0 /\ FlowInit /\ [][FlowNext]_flowVars

(***************************************************************************)
(* Properties.                                                             *)
(***************************************************************************)
\* The cursor never passes a cash flow that is not in the journal: whatever block
\* it shares with others and wherever the worker crashed (sync_notes, NoteCursor).
NoFlowPassedOver ==
  \A n \in VaultNotes :
    NoteOf[n].kind \in FlowKinds /\ ~ After(Key(n), cursor) => n \in DOMAIN journal

\* With a mark for the asset the worker gets to the end of what it can see, again
\* and again, unless a flow recorded before a crash has no creation time of its own and its
\* replay differs (run, sync_notes, duplicate_result).
FlowsGetCounted ==
  []<>(\/ ~ priced \/ Unread = {}
       \/ \E w \in DOMAIN journal \cap VaultNotes :
            After(Key(w), cursor) /\ NoteOf[w].created = NoTime)

\* With every announcement applied and the worker at rest, a warm balance of the
\* mirror counts each flow of the chain exactly once, also when a crash makes the
\* worker go over it again, but for what the code does not prevent: a flow that
\* was outstanding when the mirror was read from the chain is counted twice; one
\* whose announcement the receiver lost, or that a fund on a cold mirror hides,
\* not at all; and a deduction is cut off at zero, when a redeem sorts before the
\* fund of the same block (balance_of, apply_vault_cashflow_to_balances, run,
\* sync_notes).
MirrorFollowsChain ==
  (news = <<>> /\ worker = Idle /\ Unread = {} /\ visible = tip /\ mirror # Cold) =>
    mirror = clipped + BalanceOf([n \in Moves |-> IF n \notin FlowsUpTo(tip) \ missed THEN 0
                                                  ELSE IF n \in twice THEN 2 ELSE 1])
===============================================================================
