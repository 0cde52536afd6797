------------------------------- MODULE PriceFeed -------------------------------
(***************************************************************************)
(* The way of a price from the oracle to a WebSocket client, for one asset *)
(* and one subscriber: the oracle's event stream (src/src/oracle_sse.rs),  *)
(* the broker's bounded channel (src/src/message_broker), the throttle     *)
(* (src/src/websocket/oracle_throttle.rs), the connection's queue with its *)
(* coalescing slot (connection_manager.rs) and the task that writes to the *)
(* socket (handlers.rs).                                                   *)
(*                                                                         *)
(* The oracle publishes Tape in order; a price is its position on the      *)
(* tape.  The throttle's clock is the time since its last emission, which  *)
(* matters up to MinInterval.                                              *)
(***************************************************************************)
EXTENDS Integers, Sequences

CONSTANTS
  Tape,             \* the prices the oracle publishes
  BrokerCapacity,   \* BROKER_ORACLE_CAPACITY
  MinInterval,      \* ORACLE_WS_MIN_INTERVAL_MS
  BpsThreshold,     \* ORACLE_WS_BPS_THRESHOLD
  BpsDenominator,   \* BPS_DENOMINATOR
  BacklogCapacity   \* ws_queue_capacity

ASSUME PriceFeedAssumption ==
  /\ Tape \in Seq(Nat) /\ {MinInterval, BpsThreshold} \subseteq Nat
  /\ {BrokerCapacity, BpsDenominator, BacklogCapacity} \subseteq Nat \ {0}

VARIABLES
  published,  \* prices the oracle has published
  stream,     \* the EventSource: "open" or "closed"
  quoted,     \* the last price handed to the broker, 0 before the first
  channel,    \* the forwarding task's receiver
  emitted,    \* AssetState::last_emitted_price, 0 before the first
  since,      \* time since last_emitted_at
  pending,    \* AssetState::pending, 0 for None
  backlog,    \* the connection's mpsc queue
  slot,       \* its coalesced message, 0 for none
  shown,      \* what the client got last
  reached     \* ghost: the newest the client ever got

tapeVars == <<published, stream, quoted, channel>>
throttleVars == <<emitted, since, pending>>
clientVars == <<backlog, slot, shown, reached>>
priceVars == <<tapeVars, throttleVars, clientVars>>

Ticks == 0..Len(Tape)

PriceTypeOK ==
  /\ {published, quoted, emitted, pending, slot, shown, reached} \subseteq Ticks
  /\ stream \in {"open", "closed"} /\ since \in 0..MinInterval
  /\ Len(channel) <= BrokerCapacity /\ Len(backlog) <= BacklogCapacity
  /\ \A k \in Ticks \ {0} : k > published => k \notin {quoted, emitted, pending, slot, shown}

PriceInit ==
  /\ published = 0 /\ stream = "open" /\ quoted = 0 /\ channel = <<>>
  /\ emitted = 0 /\ since = 0 /\ pending = 0
  /\ backlog = <<>> /\ slot = 0 /\ shown = 0 /\ reached = 0

(***************************************************************************)
(* The oracle and the broker.                                              *)
(***************************************************************************)
\* A receiver that lags loses its oldest values.
Offer(q, k) ==
  IF Len(q) < BrokerCapacity THEN Append(q, k) ELSE Append(Tail(q), k)

\* A price published while the stream is down is not asked for later.
PublishPrice ==
  /\ published < Len(Tape)
  /\ published' = published + 1
  /\ IF stream = "open"
     THEN quoted' = published' /\ channel' = Offer(channel, published')
     ELSE UNCHANGED <<quoted, channel>>
  /\ UNCHANGED <<stream, throttleVars, clientVars>>

StreamDrops ==
  /\ stream = "open" /\ stream' = "closed"
  /\ UNCHANGED <<published, quoted, channel, throttleVars, clientVars>>
\* The loop of start() waits and connects again.
StreamReopens ==
  /\ stream = "closed" /\ stream' = "open"
  /\ UNCHANGED <<published, quoted, channel, throttleVars, clientVars>>

(***************************************************************************)
(* The throttle and the forwarding task.                                   *)
(***************************************************************************)
MovementReachesThreshold(old, new) ==
  IF old = 0 THEN new # 0 \/ BpsThreshold = 0
  ELSE (IF old < new THEN new - old ELSE old - new) * BpsDenominator >= old * BpsThreshold

\* try_send; a full queue leaves the message in the slot, over an older one.
BroadcastToChannel(k) ==
  IF Len(backlog) < BacklogCapacity
  THEN backlog' = Append(backlog, k) /\ UNCHANGED <<slot, shown, reached>>
  ELSE slot' = k /\ UNCHANGED <<backlog, shown, reached>>

Emit(k) ==
  /\ emitted' = k /\ since' = 0 /\ pending' = 0
  /\ BroadcastToChannel(k)

DueNow(k) ==
  \/ emitted = 0 \/ since = MinInterval
  \/ MovementReachesThreshold(Tape[emitted], Tape[k])

\* push: the newest price held back replaces the one before.
PushPrice ==
  /\ channel # <<>>
  /\ channel' = Tail(channel)
  /\ LET k == Head(channel)
     IN  IF DueNow(k) THEN Emit(k)
         ELSE pending' = k /\ UNCHANGED <<emitted, since, clientVars>>
  /\ UNCHANGED <<published, stream, quoted>>

\* Mutant of FlushDue: what is held back waits for the next price.
FlushDueNever == FALSE /\ UNCHANGED priceVars
\* next_deadline has passed.
FlushDue ==
  /\ pending # 0 /\ since = MinInterval
  /\ Emit(pending)
  /\ UNCHANGED tapeVars

TimePasses ==
  /\ since < MinInterval /\ since' = since + 1
  /\ UNCHANGED <<tapeVars, emitted, pending, clientVars>>

(***************************************************************************)
(* The sender task: the queue, and every 100 ms the slot.                  *)
(***************************************************************************)
Show(k) == shown' = k /\ reached' = IF k > reached THEN k ELSE reached

SendQueued ==
  /\ backlog # <<>>
  /\ Show(Head(backlog)) /\ backlog' = Tail(backlog)
  /\ UNCHANGED <<slot, tapeVars, throttleVars>>
TakeCoalesced ==
  /\ slot # 0
  /\ Show(slot) /\ slot' = 0
  /\ UNCHANGED <<backlog, tapeVars, throttleVars>>

\* Time passes, and the two tasks run while the connection lives.  A flush is
\* taken in the end even if prices keep coming: select! polls in random order.
ForwardStep == PushPrice \/ FlushDue
PriceNext ==
  \/ PublishPrice \/ StreamDrops \/ StreamReopens
  \/ ForwardStep \/ TimePasses \/ SendQueued \/ TakeCoalesced

PriceSpec == PriceInit /\ [][PriceNext]_priceVars

(***************************************************************************)
(* Properties.                                                             *)
(***************************************************************************)
\* The client catches up with the prices handed to the broker, again and again:
\* the last of a burst is neither lost to lag nor held back for ever (push,
\* flush_due, broadcast_to_channel, take_coalesced).
PricesReachClients == []<>(reached >= quoted)
===============================================================================
