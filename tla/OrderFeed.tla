------------------------------ MODULE OrderFeed ------------------------------
(***************************************************************************)
(* The life of an order as its readers see it: the typed order states of   *)
(* src/src/order.rs, the order_updates channel of the message broker, the  *)
(* history service (src/src/history.rs) and the in-memory Orders index     *)
(* that the execution worker keeps from the same channel.                  *)
(*                                                                         *)
(* An order exists once it is admitted.  Its New update is published by    *)
(* the request that admitted it, every later update by the engine, the     *)
(* executor and the finality observer; nothing orders the first against    *)
(* the others, and a lost request never publishes it.  A subscriber that   *)
(* falls more than the channel's capacity behind loses the oldest updates. *)
(* A restart empties the channels and the index and announces outcomes     *)
(* again; the history database stays.                                      *)
(***************************************************************************)
EXTENDS Integers, FiniteSets, Sequences

CONSTANTS
  Orders,       \* admitted orders
  FeedCapacity, \* BROKER_ORDER_CAPACITY
  NoOrder       \* no trade half recorded

ASSUME FeedAssumption == FeedCapacity \in Nat \ {0} /\ NoOrder \notin Orders

VARIABLES
  life,       \* how far each order is
  heralded,   \* orders whose New update was published
  inbox,      \* undelivered updates of the two subscribers
  row,        \* history: orders.status
  trades,     \* history: order_id of trades
  candles,    \* history: trades counted in the candles
  halfTrade,  \* the trade inserted whose candles are not written yet
  buckets,    \* the maps of Orders that hold each order
  late,       \* ghost: orders whose New came after another update
  lossy,      \* ghost: some update was lost by lag or a restart
  restarts    \* restarts so far

feedVars == <<life, heralded, inbox, row, trades, candles, halfTrade, buckets,
              late, lossy, restarts>>

Statuses == {"created", "processing", "processed", "submitted", "confirmed", "failed"}
Readers == {"history", "index"}

FeedTypeOK ==
  /\ life \in [Orders -> Statuses \cup {"none"}]
  /\ heralded \subseteq Orders /\ late \subseteq Orders
  /\ inbox \in [Readers -> Seq(Orders \X Statuses)]
  /\ \A r \in Readers : Len(inbox[r]) <= FeedCapacity
  /\ row \in [Orders -> Statuses \cup {"none"}]
  /\ trades \subseteq Orders /\ candles \in Nat
  /\ halfTrade \in Orders \cup {NoOrder}
  /\ buckets \in [Orders -> SUBSET Statuses]
  /\ lossy \in BOOLEAN /\ restarts \in 0..1

FeedInit ==
  /\ life = [o \in Orders |-> "none"]
  /\ heralded = {} /\ late = {}
  /\ inbox = [r \in Readers |-> <<>>]
  /\ row = [o \in Orders |-> "none"]
  /\ trades = {} /\ candles = 0 /\ halfTrade = NoOrder
  /\ buckets = [o \in Orders |-> {}]
  /\ lossy = FALSE /\ restarts = 0

\* broadcast_order_update: the channel keeps the newest FeedCapacity updates.
Publish(o, status) ==
  LET Push(q) == LET all == Append(q, <<o, status>>)
                 IN  IF Len(all) > FeedCapacity THEN Tail(all) ELSE all
  IN  /\ inbox' = [r \in Readers |-> Push(inbox[r])]
      /\ lossy' = (lossy \/ \E r \in Readers : Len(inbox[r]) = FeedCapacity)

Admit(o) ==
  /\ life[o] = "none"
  /\ life' = [life EXCEPT ![o] = "created"]
  /\ UNCHANGED <<heralded, inbox, row, trades, candles, halfTrade, buckets,
                 late, lossy, restarts>>

\* The end of order_new; not after a restart, which ends the request.
PublishNew(o) ==
  /\ life[o] # "none" /\ o \notin heralded /\ restarts = 0
  /\ heralded' = heralded \cup {o}
  /\ late' = IF life[o] = "created" THEN late ELSE late \cup {o}
  /\ Publish(o, "created")
  /\ UNCHANGED <<life, row, trades, candles, halfTrade, buckets, restarts>>

\* The transitions of the typed states.
Follows(s) == CASE s = "created" -> {"processing"}
                [] s = "processing" -> {"processed", "failed"}
                [] s = "processed" -> {"submitted", "failed"}
                [] s = "submitted" -> {"confirmed", "failed"}
                [] OTHER -> {}

Advance(o, status) ==
  /\ life[o] # "none" /\ status \in Follows(life[o])
  /\ life' = [life EXCEPT ![o] = status]
  /\ Publish(o, status)
  /\ UNCHANGED <<heralded, row, trades, candles, halfTrade, buckets, late, restarts>>

\* A restarted process claims again, or announces a terminal batch again.
Republish(o) ==
  /\ restarts > 0 /\ life[o] \in {"processing", "confirmed", "failed"}
  /\ Publish(o, life[o])
  /\ UNCHANGED <<life, heralded, row, trades, candles, halfTrade, buckets, late, restarts>>

IsPublicTrade(status) == status = "confirmed"

\* Mutant of RecordTrade: the insert's row count is not looked at.
RecordTradeAgain(o) == trades' = trades \cup {o} /\ halfTrade' = o
\* record_trade inserts by order id and stops when the row was there.
RecordTrade(o) ==
  /\ trades' = trades \cup {o}
  /\ halfTrade' = IF o \in trades THEN NoOrder ELSE o

\* Mutant of PersistOrderUpdate: COALESCE keeps the status that is there.
PersistOrderUpdateFirst(o, status) ==
  row' = IF row[o] = "none" THEN [row EXCEPT ![o] = status] ELSE row
\* The upsert overwrites the status, whatever it was.
PersistOrderUpdate(o, status) == row' = [row EXCEPT ![o] = status]

(***************************************************************************)
(* The history thread: persist the update, record a public trade, then its *)
(* candles in statements of their own.                                     *)
(***************************************************************************)
HistoryStep ==
  /\ inbox["history"] # <<>> /\ halfTrade = NoOrder
  /\ LET o == Head(inbox["history"])[1]
         status == Head(inbox["history"])[2]
     IN  /\ PersistOrderUpdate(o, status)
         /\ IF IsPublicTrade(status) THEN RecordTrade(o)
            ELSE UNCHANGED <<trades, halfTrade>>
  /\ inbox' = [inbox EXCEPT !["history"] = Tail(@)]
  /\ UNCHANGED <<life, heralded, candles, buckets, late, lossy, restarts>>

UpsertCandles ==
  /\ halfTrade # NoOrder
  /\ candles' = candles + 1
  /\ halfTrade' = NoOrder
  /\ UNCHANGED <<life, heralded, inbox, row, trades, buckets, late, lossy, restarts>>

\* The maps an update takes its order out of: its predecessor's, or all.
Leaves(status) ==
  CASE status = "processing" -> {"created"}
    [] status = "processed" -> {"processing"}
    [] status = "submitted" -> {"processed"}
    [] status = "confirmed" -> {"submitted"}
    [] status = "failed" -> Statuses
    [] OTHER -> {}

ApplyOrderUpdate ==
  /\ inbox["index"] # <<>>
  /\ LET o == Head(inbox["index"])[1]
         status == Head(inbox["index"])[2]
     IN  buckets' = [buckets EXCEPT ![o] = (@ \ Leaves(status)) \cup {status}]
  /\ inbox' = [inbox EXCEPT !["index"] = Tail(@)]
  /\ UNCHANGED <<life, heralded, row, trades, candles, halfTrade, late, lossy, restarts>>

Restart ==
  /\ restarts = 0
  /\ restarts' = 1
  /\ inbox' = [r \in Readers |-> <<>>]
  /\ buckets' = [o \in Orders |-> {}]
  /\ halfTrade' = NoOrder
  /\ lossy' = TRUE
  /\ UNCHANGED <<life, heralded, row, trades, candles, late>>

FeedNext ==
  \/ \E o \in Orders : \/ Admit(o) \/ PublishNew(o) \/ Republish(o)
                       \/ \E s \in Statuses : Advance(o, s)
  \/ HistoryStep \/ UpsertCandles \/ ApplyOrderUpdate \/ Restart

FeedSpec == FeedInit /\ [][FeedNext]_feedVars

(***************************************************************************)
(* The candles never count a trade twice, although outcomes are announced  *)
(* again after a restart.  They may miss one: the process can stop between *)
(* the trade's insert and the candles' upserts, and the replay skips it.   *)
(***************************************************************************)
CandlesCountTradesOnce ==
  candles + (IF halfTrade = NoOrder THEN 0 ELSE 1) <= Cardinality(trades)

(***************************************************************************)
(* With no update lost and none in flight the history shows the order's    *)
(* state, except where a New that came late put "created" back over it.    *)
(***************************************************************************)
HistoryCurrent ==
  ~lossy /\ inbox["history"] = <<>> =>
    \A o \in Orders :
      \/ row[o] = life[o]
      \/ row[o] = "created" /\ o \in late
      \/ row[o] = "none" /\ life[o] = "created"

(***************************************************************************)
(* With no update lost an order is in one map of the index, unless its New *)
(* came late; a failed order is in no other map even after losses, again   *)
(* but for a late New.                                                     *)
(***************************************************************************)
IndexUnambiguous ==
  \A o \in Orders :
    /\ ~lossy /\ o \notin late => Cardinality(buckets[o]) <= 1
    /\ "failed" \in buckets[o] => buckets[o] \subseteq {"failed", "created"}

(***************************************************************************)
(* What the readers of order_updates keep of an order is its state: the    *)
(* history's row and the execution worker's index.                         *)
(***************************************************************************)
ReadersCurrent == HistoryCurrent /\ IndexUnambiguous
===============================================================================
