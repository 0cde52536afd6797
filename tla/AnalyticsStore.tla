---------------------------- MODULE AnalyticsStore ----------------------------
(***************************************************************************)
(* The analytics journal and its projections: src/src/analytics_store.rs.  *)
(* Every record_* call inserts its event and updates the projections in    *)
(* one transaction; an event whose id is in the journal changes nothing.   *)
(* Finalized swaps come from the engine, cash flows from the worker of     *)
(* module CashFlows, marks from the oracle.  A user may have been funded   *)
(* before the journal began, so any flow may come first.                   *)
(***************************************************************************)
EXTENDS Clock, FiniteSets, Sequences, Totals

CONSTANTS
  Holders,      \* user ids
  Assets,       \* supported faucets, also the pools
  Usd,          \* "oracle_usd"
  Prices,       \* oracle prices, in units of 1/PriceScale
  PriceScale,   \* 10^asset_decimals
  MaxMarks,     \* bound on the marks of an asset
  Swaps,        \* order ids
  SwapOf,       \* the FinalizedSwap stored with an order
  Flows,        \* note ids of cash flows
  FlowOf        \* kind, user, asset, amount and event_time of a cash flow

Quotes == Assets \cup {Usd}
CashKinds == {"fund", "init_redeem", "redeem"}

ASSUME AnalyticsAssumption ==
  /\ PriceScale \in Nat \ {0} /\ MaxMarks \in Nat /\ Usd \notin Assets
  /\ IsFiniteSet(Assets) /\ Prices \subseteq Nat
  /\ Swaps \cap Flows = {}
  /\ \A n \in Flows : /\ FlowOf[n].kind \in CashKinds /\ FlowOf[n].user \in Holders
                      /\ FlowOf[n].asset \in Assets
                      /\ FlowOf[n].amount \in Nat /\ FlowOf[n].time \in Nat
  /\ \A s \in Swaps : /\ SwapOf[s].user \in Holders
                      /\ SwapOf[s].assetIn \in Assets /\ SwapOf[s].assetOut \in Assets
                      /\ SwapOf[s].assetIn # SwapOf[s].assetOut
                      /\ SwapOf[s].amountIn \in Nat \ {0} /\ SwapOf[s].amountOut \in Nat
                      /\ SwapOf[s].value \in Nat /\ SwapOf[s].fee \in Nat

VARIABLES
  marks,      \* analytics_marks, per asset in sequence order
  events,     \* analytics_events: ids of swaps and cash flows
  positions,  \* analytics_positions
  cash,       \* analytics_cash_totals
  coverage,   \* analytics_coverage
  pools       \* analytics_pool_totals

storeVars == <<marks, events, positions, cash, coverage, pools>>

EmptyPosition == [quantity |-> 0, cost |-> 0, realized |-> 0, volume |-> 0,
                  fees |-> 0, fills |-> 0, filled |-> 0]
NoCash == [fund |-> 0, init_redeem |-> 0, redeem |-> 0]
NoCoverage == [opening |-> FALSE, trades |-> FALSE, cash |-> FALSE]
NoTotals == [volume |-> 0, fees |-> 0]

Marks == [time : Nat, price : Nat]
PositionRows == [quantity : Nat, cost : Nat, realized : Int, volume : Nat,
                 fees : Nat, fills : Nat, filled : Nat]

StoreTypeOK ==
  /\ marks \in [Assets -> Seq(Marks)] /\ \A a \in Assets : Len(marks[a]) <= MaxMarks
  /\ events \subseteq Flows \cup Swaps
  /\ positions \in [Holders \X Assets \X Quotes -> PositionRows]
  /\ cash \in [Holders \X Quotes -> [fund : Nat, init_redeem : Nat, redeem : Nat]]
  /\ coverage \in [Holders -> [opening : BOOLEAN, trades : BOOLEAN, cash : BOOLEAN]]

StoreInit ==
  /\ marks = [a \in Assets |-> <<>>]
  /\ events = {}
  /\ positions = [p \in Holders \X Assets \X Quotes |-> EmptyPosition]
  /\ cash = [c \in Holders \X Quotes |-> NoCash]
  /\ coverage = [u \in Holders |-> NoCoverage]
  /\ pools = [a \in Assets |-> NoTotals]

(***************************************************************************)
(* Marks.                                                                  *)
(***************************************************************************)
\* record_mark: the event id holds asset, time and price, so a repeat is ignored.
RecordMark(a, price) ==
  /\ Len(marks[a]) < MaxMarks
  /\ [time |-> now, price |-> price] \notin {marks[a][i] : i \in DOMAIN marks[a]}
  /\ marks' = [marks EXCEPT ![a] = Append(@, [time |-> now, price |-> price])]
  /\ UNCHANGED <<now, events, positions, cash, coverage, pools>>

HasMark(a) == marks[a] # <<>>
MarksAsOf(a, at) == {i \in DOMAIN marks[a] : marks[a][i].time <= at}

\* latest_mark_for_asset: ORDER BY event_time DESC, sequence DESC LIMIT 1.
LatestMark(a, at) ==
  marks[a][CHOOSE i \in MarksAsOf(a, at) : \A j \in MarksAsOf(a, at) :
             \/ marks[a][j].time < marks[a][i].time
             \/ marks[a][j].time = marks[a][i].time /\ j <= i]

(***************************************************************************)
(* Positions: weighted average cost.                                       *)
(***************************************************************************)
Acquire(ps, p, amount, cost) ==
  [ps EXCEPT ![p] = [ps[p] EXCEPT !.quantity = @ + amount, !.cost = @ + cost]]

AllocatedCost(state, amount) ==
  IF amount = state.quantity THEN state.cost
  ELSE (state.cost * amount) \div state.quantity

\* Mutant of Dispose: the fee is taken from the proceeds of neither leg.
DisposeGross(ps, p, amount, proceeds, fee) ==
  LET allocated == AllocatedCost(ps[p], amount)
  IN  [ps EXCEPT ![p] = [ps[p] EXCEPT !.quantity = @ - amount, !.cost = @ - allocated,
                                      !.realized = @ + proceeds - allocated]]
Dispose(ps, p, amount, proceeds, fee) ==
  LET allocated == AllocatedCost(ps[p], amount)
  IN  [ps EXCEPT ![p] = [ps[p] EXCEPT !.quantity = @ - amount, !.cost = @ - allocated,
                                      !.realized = @ + ((proceeds - fee) - allocated)]]

\* Metrics are stored on the acquired leg only.
FillMetrics(ps, p, s) ==
  [ps EXCEPT ![p] = [ps[p] EXCEPT !.volume = @ + s.value, !.fees = @ + s.fee,
                                  !.fills = @ + 1, !.filled = @ + s.amountOut]]

Missing(p, amount) ==
  IF positions[p].quantity < amount THEN amount - positions[p].quantity ELSE 0

\* seed_missing_sell_basis: the shortfall at the event's fair value.
SeedCost(s, missing) == (s.value * missing) \div s.amountIn

\* record_swap, from the confirmation of the order or its replay after a restart.
RecordSwap(id) ==
  LET s == SwapOf[id]
      sold == <<s.user, s.assetIn, Usd>>
      bought == <<s.user, s.assetOut, Usd>>
      missing == Missing(sold, s.amountIn)
      basis == Acquire(positions, sold, missing, SeedCost(s, missing))
      disposed == Dispose(basis, sold, s.amountIn, s.value, s.fee)
  IN  /\ id \notin events
      /\ events' = events \cup {id}
      /\ positions' = FillMetrics(Acquire(disposed, bought, s.amountOut, s.value), bought, s)
      /\ coverage' = [coverage EXCEPT ![s.user].opening = @ \/ missing > 0,
                                      ![s.user].trades = TRUE]
      /\ pools' = [pools EXCEPT ![s.assetOut].volume = @ + s.value,
                                ![s.assetOut].fees = @ + s.fee]
      /\ UNCHANGED <<now, marks, cash>>

(***************************************************************************)
(* record_cash_flow.  Without a mark at the event's time a flow is valued  *)
(* in its own asset.  A redeem of more than the position holds makes up    *)
(* the quantity at no cost.  The worker waits for the asset's first mark.  *)
(***************************************************************************)
RecordCashFlow(n) ==
  LET f == FlowOf[n]
      marked == MarksAsOf(f.asset, f.time) # {}
      quote == IF marked THEN Usd ELSE f.asset
      value == IF marked THEN (f.amount * LatestMark(f.asset, f.time).price) \div PriceScale
               ELSE f.amount
      p == <<f.user, f.asset, quote>>
      missing == Missing(p, f.amount)
  IN  /\ n \notin events /\ HasMark(f.asset)
      /\ events' = events \cup {n}
      /\ cash' = [cash EXCEPT ![<<f.user, quote>>][f.kind] = @ + value]
      /\ positions' = CASE f.kind = "fund" -> Acquire(positions, p, f.amount, value)
                        [] f.kind = "redeem" -> Dispose(Acquire(positions, p, missing, 0),
                                                        p, f.amount, value, 0)
                        [] f.kind = "init_redeem" -> positions
      /\ coverage' = [coverage EXCEPT ![f.user].cash = TRUE]
      /\ UNCHANGED <<now, marks, pools>>

StoreTick == ClockAdvances /\ UNCHANGED storeVars

StoreNext ==
  \/ \E a \in Assets, price \in Prices : RecordMark(a, price)
  \/ \E id \in Swaps : RecordSwap(id)
  \/ \E n \in Flows : RecordCashFlow(n)
  \/ StoreTick

StoreSpec == now = 0 /\ StoreInit /\ [][StoreNext]_<<now, storeVars>>

(***************************************************************************)
(* What a caller reads: user_summary over position_analytics.  Without a   *)
(* mark for something held there is no unrealized figure and no total.     *)
(***************************************************************************)
Marked(a) == MarksAsOf(a, now) # {}
MarkValue(a, amount) == (amount * LatestMark(a, now).price) \div PriceScale

AllMarked(u) == \A a \in Assets : positions[<<u, a, Usd>>].quantity > 0 => Marked(a)

\* What the positions with a mark are worth, and what they cost.
Worth(u) ==
  Total([a \in Assets |->
           IF Marked(a) THEN MarkValue(a, positions[<<u, a, Usd>>].quantity) ELSE 0])
Invested(u) ==
  Total([a \in Assets |-> IF Marked(a) THEN positions[<<u, a, Usd>>].cost ELSE 0])

Realized(u) == IntTotal([a \in Assets |-> positions[<<u, a, Usd>>].realized])
FeesPaid(u) == Total([a \in Assets |-> positions[<<u, a, Usd>>].fees])

\* With a mark a position adds its value less its cost, without one nothing.
TotalPnl(u) == Realized(u) + (Worth(u) - Invested(u))

(***************************************************************************)
(* Properties.                                                             *)
(***************************************************************************)
\* The profit a caller reads reconciles with the money that came and went: unless
\* coverage says that an opening basis was made up, a total is what the positions
\* are worth, plus what was withdrawn, less what was deposited and the fees,
\* whatever the order of events and the rounding of average cost (user_summary,
\* acquire, dispose, increment_cash_total in analytics_store.rs).
BooksReconcile ==
  \A u \in Holders :
    ~ coverage[u].opening /\ AllMarked(u) =>
      TotalPnl(u) = ((Worth(u) + cash[<<u, Usd>>].redeem) - cash[<<u, Usd>>].fund)
                      - FeesPaid(u)
===============================================================================
