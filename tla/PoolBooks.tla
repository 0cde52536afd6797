------------------------------- MODULE PoolBooks -------------------------------
(***************************************************************************)
(* The books the engine keeps for each asset: reserve, reserve with        *)
(* slippage, liabilities and LP supply (src/src/pool.rs), what a swap does *)
(* to two of them (src/src/curve.rs) and how the engine puts swaps, their  *)
(* rollbacks and LP notes on them (src/src/processing.rs).                 *)
(*                                                                         *)
(* The curve itself is abstract: psi and the two inverses may return any   *)
(* value within the bounds that follow from psi(b, l) >= b, and the oracle *)
(* price is any number.  What the books do with these values is kept       *)
(* exactly, the wrapping subtractions of U256 and the saturating ones of a *)
(* rollback included.                                                      *)
(***************************************************************************)
EXTENDS Integers, Sequences, Totals

CONSTANTS
  Coins,          \* assets with a pool
  Lps,            \* depositors
  House,          \* the one that made the deployment's deposit
  Seed,           \* the deployment's first deposit in every pool
  Deposits,       \* amounts an LP may deposit
  Payouts,        \* amounts an LP may withdraw
  AmountsIn,      \* amounts a swap may sell
  MinOuts,        \* signed minimums
  RawOuts,        \* outputs before fees, effective input times price
  BackstopFee,    \* fee rates charged on the output, in parts of FeePrecision
  ProtocolFee,
  VolatilityFee,
  LpFeeRate,      \* swap_fee
  FeePrecision,   \* FEE_PRECISION
  Modulus,        \* values of a U256
  MaxSwaps,       \* bound on swaps quoted
  MaxEvents       \* bound on swaps quoted and LP notes applied

ASSUME PoolBooksAssumption ==
  /\ House \in Lps /\ Seed \in Nat \ {0} /\ Modulus \in Nat \ {0} /\ FeePrecision \in Nat \ {0}
  /\ BackstopFee \in Nat /\ ProtocolFee \in Nat /\ VolatilityFee \in Nat /\ LpFeeRate \in Nat
  /\ MaxSwaps \in Nat /\ MaxEvents \in Nat
  /\ Deposits \subseteq Nat /\ Payouts \subseteq Nat \ {0}
  /\ AmountsIn \subseteq Nat /\ MinOuts \subseteq Nat /\ RawOuts \subseteq Nat

VARIABLES
  books,      \* PoolState.balances of each asset
  lpSupply,   \* PoolState.lp_total_supply
  lpShares,   \* LpLedger.shares
  swaps,      \* swaps in the order of their quotes, with the pending deltas
  lpOps,      \* LP notes applied so far
  held,       \* ghost: what the vault holds for the pool, unsettled swaps included
  excuses     \* ghost: what has happened to a pool that excuses a property

booksVars == <<books, lpSupply, lpShares, swaps, lpOps, held, excuses>>

Balances == [reserve : 0 .. Modulus - 1, slip : Nat, liab : Nat]
Pair == [sell : Balances, buy : Balances]
PendingSwaps == [status : {"pending"}, sell : Coins, buy : Coins, in : Nat, out : Nat,
                 before : Pair, after : Pair]
SettledSwaps == [status : {"confirmed", "failed"}, sell : Coins, buy : Coins]
Room == Len(swaps) + lpOps < MaxEvents
Pending == {s \in DOMAIN swaps : swaps[s].status = "pending"}

\* U256 arithmetic wraps; the other sums stay far below it.
Wrap(n) == n % Modulus

\* U256::saturating_sub.
Monus(n, m) == IF n >= m THEN n - m ELSE 0

BooksTypeOK ==
  /\ books \in [Coins -> Balances]
  /\ lpSupply \in [Coins -> Nat] /\ lpShares \in [Coins -> [Lps -> Nat]]
  /\ held \in [Coins -> Int] /\ excuses \in [Coins -> SUBSET {"clipped", "overtaken", "blank"}]
  /\ swaps \in Seq(PendingSwaps \cup SettledSwaps)

\* The deployment's deposit is the first position.
BooksInit ==
  /\ books = [a \in Coins |-> [reserve |-> Wrap(Seed), slip |-> Seed, liab |-> Seed]]
  /\ lpSupply = [a \in Coins |-> Seed]
  /\ lpShares = [a \in Coins |-> [p \in Lps |-> IF p = House THEN Seed ELSE 0]]
  /\ swaps = <<>> /\ lpOps = 0
  /\ held = [a \in Coins |-> Seed] /\ excuses = [a \in Coins |-> {}]

----------------------------------------------------------------------------
\* The curve.

\* What min(psi(b, l), slip) may be: psi is at least b.
PsiWithin(b, slip) == {v \in 0 .. slip : v >= b \/ v = slip}

\* What an inverse may return: the t that lifts psi(b + t, ...) to target; with
\* b beyond the target the subtraction wraps and any value up to cap may come.
InverseOf(b, target, cap) == IF b <= target THEN 0 .. target - b ELSE 0 .. cap

----------------------------------------------------------------------------
\* LP notes: apply_lp_chain_event, once no swap is pending.

\* Mutant of Minted: the division rounds up.
MintedUp(a, inc) ==
  IF books[a].liab > 0 THEN (inc * lpSupply[a] + books[a].liab - 1) \div books[a].liab ELSE inc

\* Shares for an increment of the reserve, at the price of the old ones.
Minted(a, inc) ==
  IF books[a].liab > 0 THEN (inc * lpSupply[a]) \div books[a].liab ELSE inc

\* Mutant of DepositLp: the bonus of the curve is counted as cash.
DepositLpBonus(a, p, amount) ==
  /\ Pending = {} /\ Room
  /\ \E t \in InverseOf(books[a].reserve, books[a].slip + amount, amount) :
       LET inc == IF t < amount THEN amount ELSE t
       IN  /\ books' = [books EXCEPT ![a] = [reserve |-> Wrap(@.reserve + inc),
                                             slip |-> @.slip + inc, liab |-> @.liab + inc]]
           /\ lpSupply' = [lpSupply EXCEPT ![a] = @ + Minted(a, inc)]
           /\ lpShares' = [lpShares EXCEPT ![a][p] = @ + Minted(a, inc)]
  /\ held' = [held EXCEPT ![a] = @ + amount]
  /\ lpOps' = lpOps + 1
  /\ UNCHANGED <<swaps, excuses>>

\* get_deposit_lp_amount_out and LpLedger.mint.
DepositLp(a, p, amount) ==
  /\ Pending = {} /\ Room
  /\ \E t \in InverseOf(books[a].reserve, books[a].slip + amount, amount) :
       LET inc == IF t < amount THEN amount ELSE t
       IN  /\ books' = [books EXCEPT ![a] = [reserve |-> Wrap(@.reserve + inc),
                                             slip |-> @.slip + amount, liab |-> @.liab + inc]]
           /\ lpSupply' = [lpSupply EXCEPT ![a] = @ + Minted(a, inc)]
           /\ lpShares' = [lpShares EXCEPT ![a][p] = @ + Minted(a, inc)]
  /\ held' = [held EXCEPT ![a] = @ + amount]
  /\ lpOps' = lpOps + 1
  /\ UNCHANGED <<swaps, excuses>>

\* get_withdraw_asset_amount_out and LpLedger.burn.  The shares come from a
\* checkpoint or from a search: any number the LP owns that pays enough.  The
\* vault has paid the note's amount, the books give up what the shares are worth.
WithdrawLp(a, p, amount) ==
  /\ Pending = {} /\ Room
  /\ \E burnt \in 1 .. lpShares[a][p] :
       LET dec == (burnt * books[a].liab) \div lpSupply[a]
           reduced == Wrap(books[a].reserve - dec)
       IN  \E after \in PsiWithin(reduced, books[a].slip) :
             LET payout == IF books[a].slip - after > dec THEN dec ELSE books[a].slip - after
             IN  /\ payout >= amount
                 /\ books' = [books EXCEPT ![a] = [reserve |-> reduced, slip |-> @.slip - payout,
                                                   liab |-> @.liab - dec]]
                 /\ lpSupply' = [lpSupply EXCEPT ![a] = @ - burnt]
                 /\ lpShares' = [lpShares EXCEPT ![a][p] = @ - burnt]
  /\ held' = [held EXCEPT ![a] = @ - amount]
  /\ lpOps' = lpOps + 1
  /\ UNCHANGED <<swaps, excuses>>

----------------------------------------------------------------------------
\* Swaps.

\* Each fee is rounded down on its own.
FeesOf(raw) ==
  (raw * BackstopFee) \div FeePrecision + (raw * ProtocolFee) \div FeePrecision
    + (raw * VolatilityFee) \div FeePrecision

\* Mutant of CreditTo: only the reserve keeps the surplus.
CreditToReserve(new, surplus) == [new EXCEPT !.reserve = Wrap(@ + surplus)]

\* SwapQuote::credit_to: what is above the signed minimum stays in the pool.
CreditTo(new, surplus) ==
  [reserve |-> Wrap(new.reserve + surplus), slip |-> new.slip + surplus, liab |-> new.liab]

\* The quote against pools i and o: amount out and new balances of both.
QuoteOf(i, o, amountIn, eff, raw, lpFee, after) ==
  LET reduced == Wrap(books[o].reserve - raw + FeesOf(raw))
  IN  IF books[i].reserve + eff > 2 * books[i].liab
      THEN [out |-> 0, sell |-> books[i], buy |-> books[o]]
      ELSE [out  |-> books[o].slip - after,
            sell |-> [reserve |-> Wrap(books[i].reserve + eff), slip |-> books[i].slip + amountIn,
                      liab |-> books[i].liab],
            buy  |-> [reserve |-> Wrap(reduced + lpFee), slip |-> after,
                      liab |-> books[o].liab + lpFee]]

\* process_orders for one order that is not rejected.
QuoteSwap(i, o, amountIn, minOut) ==
  /\ i # o /\ Room /\ Len(swaps) < MaxSwaps
  /\ \E raw \in RawOuts, eff \in InverseOf(books[i].reserve, books[i].slip + amountIn, amountIn) :
     LET reduced == Wrap(books[o].reserve - raw + FeesOf(raw))
         maxLpFee == (raw * LpFeeRate) \div FeePrecision
     IN  \E fee \in InverseOf(reduced, books[o].slip, maxLpFee) :
         LET lpFee == IF fee > maxLpFee THEN maxLpFee ELSE fee
         IN  \E after \in PsiWithin(Wrap(reduced + lpFee), books[o].slip) :
             LET quote == QuoteOf(i, o, amountIn, eff, raw, lpFee, after)
                 bought == CreditTo(quote.buy, quote.out - minOut)
             IN  /\ after > 0 /\ quote.out >= minOut
                 /\ books' = [books EXCEPT ![i] = quote.sell, ![o] = bought]
                 /\ swaps' = Append(swaps,
                      [status |-> "pending", sell |-> i, buy |-> o, in |-> amountIn, out |-> minOut,
                       before |-> [sell |-> books[i], buy |-> books[o]],
                       after |-> [sell |-> quote.sell, buy |-> bought]])
                 /\ excuses' = IF quote.out = 0 THEN [excuses EXCEPT ![i] = @ \cup {"blank"},
                                                                 ![o] = @ \cup {"blank"}]
                                              ELSE excuses
  /\ held' = [held EXCEPT ![i] = @ + amountIn, ![o] = @ - minOut]
  /\ UNCHANGED <<lpSupply, lpShares, lpOps>>

\* pending_swaps.remove: the deltas are forgotten.
Settled(s, status) ==
  [swaps EXCEPT ![s] = [status |-> status, sell |-> @.sell, buy |-> @.buy]]

\* Order confirmed: what it did to the books stays.
SwapConfirmed(s) ==
  /\ s \in Pending
  /\ swaps' = Settled(s, "confirmed")
  /\ UNCHANGED <<books, lpSupply, lpShares, lpOps, held, excuses>>

\* revert_u256 and revert_balances.
Revert(current, before, after) ==
  IF after >= before THEN Monus(current, after - before) ELSE current + (before - after)
RevertReserve(current, before, after) ==
  IF after >= before THEN Monus(current, after - before)
  ELSE IF current + (before - after) < Modulus THEN current + (before - after) ELSE Modulus - 1
RevertBalances(b, before, after) ==
  [reserve |-> RevertReserve(b.reserve, before.reserve, after.reserve),
   slip    |-> Revert(b.slip, before.slip, after.slip),
   liab    |-> Revert(b.liab, before.liab, after.liab)]

\* What a rollback marks on asset a.
Clips(b, before, after) == after.slip > before.slip /\ b.slip < after.slip - before.slip
Later(s, a) == \E r \in DOMAIN swaps : /\ r > s /\ swaps[r].status # "failed"
                                       /\ a \in {swaps[r].sell, swaps[r].buy}

\* Order failed: rollback_pending_swap.
SwapFailed(s) ==
  /\ s \in Pending
  /\ LET i == swaps[s].sell
         o == swaps[s].buy
     IN  /\ books' = [books EXCEPT
                        ![i] = RevertBalances(@, swaps[s].before.sell, swaps[s].after.sell),
                        ![o] = RevertBalances(@, swaps[s].before.buy, swaps[s].after.buy)]
         /\ held' = [held EXCEPT ![i] = @ - swaps[s].in, ![o] = @ + swaps[s].out]
         /\ excuses' = [a \in Coins |->
                        excuses[a]
                          \cup (IF a = i /\ Clips(books[i], swaps[s].before.sell,
                                                  swaps[s].after.sell)
                                THEN {"clipped"} ELSE {})
                          \cup (IF a \in {i, o} /\ Later(s, a) THEN {"overtaken"} ELSE {})]
  /\ swaps' = Settled(s, "failed")
  /\ UNCHANGED <<lpSupply, lpShares, lpOps>>

BooksNext ==
  \/ \E a \in Coins, p \in Lps :
       \/ \E n \in Deposits : DepositLp(a, p, n)
       \/ \E n \in Payouts : WithdrawLp(a, p, n)
  \/ \E i, o \in Coins, n \in AmountsIn, m \in MinOuts : QuoteSwap(i, o, n, m)
  \/ \E s \in DOMAIN swaps : SwapConfirmed(s) \/ SwapFailed(s)

BooksSpec == BooksInit /\ [][BooksNext]_booksVars

----------------------------------------------------------------------------
\* Properties.

\* The books never claim more cash than the vault holds for the pool, whatever
\* the curve and the prices say: deposits, swaps, surpluses kept by credit_to,
\* withdrawals and rollbacks all move reserve_with_slippage by at most the cash
\* they move; unless a rollback was clipped at zero.
BooksWithinCash == \A a \in Coins : "clipped" \in excuses[a] \/ books[a].slip <= held[a]

\* The supply the share price is computed with is what the ledger has handed out.
SupplyIsShares ==
  \A a \in Coins : lpSupply[a] = Total(lpShares[a])

\* The reserve the curve starts from is covered by the reserve with slippage.
\* Three things may break it: a swap accepted with nothing out, whose reserve may
\* have wrapped, a rollback clipped at zero, and one behind a later swap that stands.
ReserveCovered ==
  \A a \in Coins : excuses[a] # {} \/ books[a].reserve <= books[a].slip

\* Liabilities without the LP fees of swaps that may still fail.
PendingFees(a) ==
  [s \in DOMAIN swaps |-> IF swaps[s].status = "pending" /\ swaps[s].buy = a
                          THEN swaps[s].after.buy.liab - swaps[s].before.buy.liab ELSE 0]
SettledLiab(a) == books[a].liab - Total(PendingFees(a))

\* What a share is entitled to never falls, whoever deposits, withdraws or swaps
\* and whichever swaps fail: every division rounds towards those who stay.
SharePriceNeverFalls ==
  [][\A a \in Coins : lpSupply'[a] > 0 =>
        SettledLiab(a)' * lpSupply[a] >= SettledLiab(a) * lpSupply'[a]]_booksVars
===============================================================================
