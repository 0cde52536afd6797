------------------------------ MODULE MCLpNotes ------------------------------
(***************************************************************************)
(* LP notes from both sides: the LP worker with its journal, positions and *)
(* checkpoints, and the processing loop with its channels and snapshots.   *)
(* Each side appears in the other's module as its environment; a behaviour *)
(* is one of the two at work, under the fairness of its loops.             *)
(***************************************************************************)
EXTENDS Processing, Liquidity

VARIABLE side   \* the one at work

notesVars == <<side, vars, lpAll>>
Loop == side = "loop"
Journal == side = "journal"

NotesInit == side \in {"loop", "journal"} /\ Init /\ LpInit

NotesNext ==
  /\ UNCHANGED side
  /\ \/ Loop /\ Next /\ UNCHANGED lpAll
     \/ Journal /\ LpNext /\ UNCHANGED vars

NotesSpec ==
  /\ NotesInit /\ [][NotesNext]_notesVars
  /\ WF_vars(Loop /\ PassStep) /\ WF_vars(Loop /\ LpStep) /\ WF_vars(Loop /\ ObserverStep)
  /\ WF_vars(Loop /\ (OnConfirmed \/ OnFailed))
  /\ WF_vars(Loop /\ OnPoolState)
  /\ WF_vars(Loop /\ (OnBatchFailed \/ OnOrdersExecuted))
  /\ WF_vars(Loop /\ OnLpChain)
  /\ WF_vars(Loop /\ \E b, C \in SUBSET Orders : Settle(b, C))
  /\ WF_vars(Loop /\ Restart) /\ WF_vars(Loop /\ Serve)
  /\ WF_lpAll(Journal /\ LpWorkerStep) /\ WF_lpAll(Journal /\ LpEngineStep)

\* A deposit, a withdrawal that counts as earlier within a block, and a deposit too small.
\* Two shares are worth three to begin with: the deposit gets two, and these pay the
\* withdrawal if swaps have earned the pool something or the small deposit has got one.
MCLpNoteOf ==
  LET Note(k, m, c) == [kind |-> k, amount |-> m, created |-> c]
  IN  <<Note("deposit", 4, 1), Note("withdraw", 4, 0), Note("deposit", 2, 1)>>
MCSeedPool == [supply |-> 2, worth |-> 3]
==============================================================================
