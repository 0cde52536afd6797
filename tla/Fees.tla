---------------------------------- MODULE Fees ----------------------------------
(***************************************************************************)
(* Volatility fees at the server: the durable batches                      *)
(* (src/src/fee_store.rs), the handlers and the expiry task that change    *)
(* them and announce the result (src/src/api.rs, src/src/main.rs), and the *)
(* engine that charges the fee it was told of (src/src/processing.rs).     *)
(* What the keeper pushes, and when, is module FeeKeeper.                  *)
(*                                                                         *)
(* A handler applies its batch, reads the active one back, and announces   *)
(* it: three steps that others may come between.  A batch's version is its *)
(* place in fee_batches; one surge value goes to every asset, so the fee   *)
(* itself is told by the version.                                          *)
(***************************************************************************)
EXTENDS Clock, Sequences, FiniteSets

CONSTANTS
  Validity,      \* validity_secs of every batch
  FutureSlack,   \* how far issued_at may be ahead
  NewsCapacity,  \* BROKER_FEE_STATE_CAPACITY
  MaxBatches     \* bound on batches

ASSUME FeesAssumption ==
  /\ {Validity, NewsCapacity} \subseteq Nat \ {0}
  /\ {FutureSlack, MaxBatches} \subseteq Nat

VARIABLES
  batches,    \* fee_batches, by version
  calls,      \* the two handlers and the expiry task: what each is about to do
  feeNews,    \* announced fee states the engine has not received
  newsLost,   \* the engine's receiver has lagged
  inForce     \* the pools' volatility_fee_version and _valid_until

feeStore == <<batches, calls, feeNews, newsLost>>
feeVars == <<now, feeStore, inForce>>

NoFee == [version |-> 0, until |-> 0]
Callers == {"keeper", "admin", "expiry"}
AtRest == [does |-> "rest", fee |-> NoFee]
Active == {v \in DOMAIN batches : batches[v].status = "active"}

FeeTypeOK ==
  /\ Cardinality(Active) <= 1 /\ Len(batches) <= MaxBatches
  /\ \A v \in DOMAIN batches :
       /\ batches[v].status \in {"active", "superseded", "expired", "cleared"}
       /\ batches[v].source \in {"automatic", "manual"}
  /\ \A c \in Callers : calls[c].does \in {"rest", "read", "announce"}
  /\ Len(feeNews) <= NewsCapacity /\ newsLost \in BOOLEAN
  /\ inForce.version \in 0..Len(batches)

FeeInit ==
  /\ batches = <<>> /\ calls = [c \in Callers |-> AtRest]
  /\ feeNews = <<>> /\ newsLost = FALSE /\ inForce = NoFee

(***************************************************************************)
(* The store and the server.                                               *)
(***************************************************************************)
WithStatus(vs, status) ==
  [v \in DOMAIN batches |-> IF v \in vs THEN [batches[v] EXCEPT !.status = status]
                            ELSE batches[v]]
Lapsed == {v \in Active : batches[v].until <= now}
ActiveFee == IF Active \ Lapsed = {} THEN NoFee
             ELSE LET v == CHOOSE v \in Active \ Lapsed : TRUE
                  IN  [version |-> v, until |-> batches[v].until]

\* apply_batch bails: future, expired, stale, or under a manual override.
Refused(b) ==
  \/ b.issued > now + FutureSlack \/ b.until <= now
  \/ \E v \in Active \ Lapsed :
       b.issued < batches[v].issued
         \/ (batches[v].source = "manual" /\ b.source = "automatic")

Batch(source, issued) ==
  [source |-> source, issued |-> issued, until |-> issued + Validity, status |-> "active"]

\* The lapsed batch is marked first, the other superseded with the insert.
Stored(b) ==
  Append([v \in DOMAIN batches |->
            CASE v \in Lapsed -> [batches[v] EXCEPT !.status = "expired"]
              [] v \in Active \ Lapsed -> [batches[v] EXCEPT !.status = "superseded"]
              [] OTHER -> batches[v]], b)

ApplyBatch(caller, b) ==
  /\ calls[caller] = AtRest /\ ~ Refused(b) /\ Len(batches) < MaxBatches
  /\ batches' = Stored(b)
  /\ calls' = [calls EXCEPT ![caller].does = "read"]

\* issued_at is the clock of whoever sends the batch, at the time of sending.
ApplyManualBatch(issued) ==
  /\ ApplyBatch("admin", Batch("manual", issued))
  /\ UNCHANGED <<now, feeNews, newsLost, inForce>>
ApplyAutomaticBatch(issued) ==
  /\ ApplyBatch("keeper", Batch("automatic", issued))
  /\ UNCHANGED <<now, feeNews, newsLost, inForce>>

\* A request that comes twice finds its batch_id and changes nothing but what has lapsed.
RepeatManualBatch ==
  /\ calls["admin"] = AtRest
  /\ \E v \in DOMAIN batches : /\ batches[v].source = "manual"
                             /\ batches[v].issued + Validity > now
  /\ batches' = WithStatus(Lapsed, "expired")
  /\ calls' = [calls EXCEPT !["admin"].does = "read"]
  /\ UNCHANGED <<now, feeNews, newsLost, inForce>>

ClearManual ==
  /\ calls["admin"] = AtRest
  /\ batches' = [v \in DOMAIN batches |->
       IF v \in Active /\ batches[v].source = "manual"
       THEN [batches[v] EXCEPT !.status = "cleared",
                               !.until = IF now < @ THEN now ELSE @]
       ELSE batches[v]]
  /\ calls' = [calls EXCEPT !["admin"].does = "read"]
  /\ UNCHANGED <<now, feeNews, newsLost, inForce>>

\* active_states, under a lock of its own.
ReadActive(caller) ==
  /\ calls[caller].does = "read"
  /\ calls' = [calls EXCEPT ![caller] = [does |-> "announce", fee |-> ActiveFee]]
  /\ UNCHANGED <<now, batches, feeNews, newsLost, inForce>>

\* The expiry task announces that there is no fee, whatever was applied since.
ExpireFees ==
  /\ calls["expiry"] = AtRest /\ Lapsed # {}
  /\ batches' = WithStatus(Lapsed, "expired")
  /\ calls' = [calls EXCEPT !["expiry"] = [does |-> "announce", fee |-> NoFee]]
  /\ UNCHANGED <<now, feeNews, newsLost, inForce>>

BroadcastFeeState(caller) ==
  /\ calls[caller].does = "announce"
  /\ calls' = [calls EXCEPT ![caller] = AtRest]
  /\ IF Len(feeNews) < NewsCapacity
     THEN feeNews' = Append(feeNews, calls[caller].fee) /\ UNCHANGED newsLost
     ELSE feeNews' = Append(Tail(feeNews), calls[caller].fee) /\ newsLost' = TRUE
  /\ UNCHANGED <<now, batches, inForce>>

(***************************************************************************)
(* The engine.                                                             *)
(***************************************************************************)
ApplyFeeState ==
  /\ ~ newsLost /\ feeNews # <<>>
  /\ inForce' = Head(feeNews) /\ feeNews' = Tail(feeNews)
  /\ UNCHANGED <<now, batches, calls, newsLost>>

\* A lagged receiver reads the store; what it still holds comes after.
RecoverFeeState ==
  /\ newsLost /\ newsLost' = FALSE
  /\ inForce' = ActiveFee
  /\ UNCHANGED <<now, batches, calls, feeNews>>

\* Mutant of SurchargeDue: the fee in force is charged until it is cleared.
SurchargeDueAlways == inForce.version # 0
\* quote_swap, which takes the last second as valid.
SurchargeDue == inForce.version # 0 /\ inForce.until >= now

\* The server stops and starts: handlers and channel are gone, startup reads the store.
FeeRestart ==
  /\ calls' = [c \in Callers |-> AtRest]
  /\ feeNews' = <<>> /\ newsLost' = FALSE /\ inForce' = ActiveFee
  /\ UNCHANGED <<now, batches>>

FeeTick == ClockAdvances /\ UNCHANGED <<feeStore, inForce>>

FeeNext ==
  \/ \E issued \in 0..(MaxNow + FutureSlack) :
       ApplyManualBatch(issued) \/ ApplyAutomaticBatch(issued)
  \/ RepeatManualBatch \/ ClearManual \/ ExpireFees
  \/ \E c \in Callers : ReadActive(c) \/ BroadcastFeeState(c)
  \/ ApplyFeeState \/ RecoverFeeState \/ FeeRestart \/ FeeTick

FeeSpec == now = 0 /\ FeeInit /\ [][FeeNext]_feeVars

(***************************************************************************)
(* Properties.                                                             *)
(***************************************************************************)
\* No trade pays a surcharge past the validity of the batch it comes from, even
\* if every announcement of its end is late or lost (quote_swap, apply_batch).
SurchargesExpire ==
  SurchargeDue => batches[inForce.version].issued + Validity >= now

\* With nothing under way the engine charges what the store has active
\* (fee_state is a DurableWakeup channel).
EngineFollowsStore ==
  (\A c \in Callers : calls[c] = AtRest) /\ feeNews = <<>> /\ ~ newsLost =>
    ActiveFee = NoFee \/ inForce.version = ActiveFee.version
===============================================================================
