-------------------------------- MODULE FeeKeeper --------------------------------
(***************************************************************************)
(* The fee keeper (src/src/bin/fee_updater.rs): a loop that samples the    *)
(* reference oracle on one timer and, on another, evaluates the policy     *)
(* (src/src/fee/policy.rs) on the latest volatility estimate               *)
(* (src/src/fee/volatility.rs) and pushes a batch to the server.           *)
(*                                                                         *)
(* An estimate is whether it is a spike.  Whether the target fee is        *)
(* outside the deadband or a refresh is due is left open.  The server may  *)
(* refuse a batch or be away, and its answer may be lost.                  *)
(***************************************************************************)
EXTENDS Integers

CONSTANTS
  MaxSampleAge,  \* MAX_SAMPLE_AGE_SECS
  Warmup         \* VOLATILITY_WARMUP_SAMPLES

ASSUME KeeperAssumption == Warmup \in Nat \ {0} /\ MaxSampleAge \in Nat

VARIABLES
  estimate,   \* VolatilityEstimator: prices seen, the latest snapshot and its age
  keeper,     \* FeePolicy (pushed once, spike_active) and the push under way
  answered    \* ghost: a batch for a spike was stored since spike_active fell

keeperVars == <<estimate, keeper, answered>>

KeeperTypeOK ==
  /\ estimate \in [prices : 0..(Warmup + 1), age : 0..(MaxSampleAge + 1), spike : BOOLEAN]
  /\ keeper \in [pushed : BOOLEAN, active : BOOLEAN, sends : BOOLEAN, spike : BOOLEAN]
  /\ answered \in BOOLEAN
  /\ keeper.active \/ keeper.sends => estimate.prices > Warmup

KeeperInit ==
  /\ estimate = [prices |-> 0, age |-> 0, spike |-> FALSE]
  /\ keeper = [pushed |-> FALSE, active |-> FALSE, sends |-> FALSE, spike |-> FALSE]
  /\ answered = FALSE

\* update: the first price gives no return; counts saturate above the warm-up.
\* The loop does not sample while it waits for the answer to a push.
SamplePrice(spike) ==
  LET n == IF estimate.prices > Warmup THEN Warmup + 1 ELSE estimate.prices + 1
  IN  /\ ~ keeper.sends /\ (n = 1 => ~ spike)
      /\ estimate' = [prices |-> n, age |-> 0, spike |-> spike]
      /\ UNCHANGED <<keeper, answered>>

\* An age above the limit counts no further.
SampleAges ==
  /\ estimate' = [estimate EXCEPT !.age = IF @ > MaxSampleAge THEN @ ELSE @ + 1]
  /\ UNCHANGED <<keeper, answered>>

Usable == estimate.prices > Warmup /\ estimate.age <= MaxSampleAge

\* A spike that was not answered, or the first push.
PushDue == (estimate.spike /\ ~ keeper.active) \/ ~ keeper.pushed

\* evaluate says Push, and the batch is posted.
SendBatch(other) ==
  /\ ~ keeper.sends /\ Usable /\ (other \/ PushDue)
  /\ keeper' = [keeper EXCEPT !.sends = TRUE, !.spike = estimate.spike]
  /\ UNCHANGED <<estimate, answered>>

\* evaluate says NoChange and follows the estimate.
NoChange ==
  /\ ~ keeper.sends /\ Usable /\ ~ PushDue
  /\ keeper' = [keeper EXCEPT !.active = estimate.spike]
  /\ answered' = (answered /\ estimate.spike)
  /\ UNCHANGED estimate

Pushed == [pushed |-> TRUE, active |-> keeper.spike, sends |-> FALSE, spike |-> FALSE]
GivenUp == [pushed |-> keeper.pushed, active |-> keeper.active, sends |-> FALSE, spike |-> FALSE]

\* The batch is stored and the answer arrives: mark_pushed.
MarkPushed ==
  /\ keeper.sends /\ keeper' = Pushed
  /\ answered' = keeper.spike
  /\ UNCHANGED estimate

\* The batch is stored, but the keeper never learns of it.
AnswerLost ==
  /\ keeper.sends /\ keeper' = GivenUp
  /\ answered' = (answered \/ keeper.spike)
  /\ UNCHANGED estimate

\* Mutant of PushFails: the push counts as done whatever the answer was.
PushFailsMarked ==
  /\ keeper.sends /\ keeper' = Pushed
  /\ UNCHANGED <<estimate, answered>>
\* Refused, or never there; the previous keeper state is retained.
PushFails ==
  /\ keeper.sends /\ keeper' = GivenUp
  /\ UNCHANGED <<estimate, answered>>

KeeperNext ==
  \/ \E b \in BOOLEAN : SamplePrice(b) \/ SendBatch(b)
  \/ SampleAges \/ NoChange \/ MarkPushed \/ AnswerLost \/ PushFails

KeeperSpec == KeeperInit /\ [][KeeperNext]_keeperVars

(***************************************************************************)
(* Properties.                                                             *)
(***************************************************************************)
\* The keeper goes on as if a spike were answered only if a batch for this spike
\* was stored: refused, failed and unanswered pushes keep the edge (evaluate,
\* mark_pushed).
SpikesAnswered == keeper.active => answered
===============================================================================
