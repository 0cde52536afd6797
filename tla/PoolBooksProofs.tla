---------------------------- MODULE PoolBooksProofs ----------------------------
(***************************************************************************)
(* Proofs about PoolBooks for any curve within its bounds, any prices,     *)
(* fees, amounts and bounds.                                               *)
(***************************************************************************)
EXTENDS PoolBooks, SharedLemmas

--------------------------------------------------------------------------------
\* The pending swaps of a queue: what they may still take from the liabilities
\* (fees of the pool that is bought from) and the cash sold that the books of the
\* pool sold to do not show.

FeeIn(w, a) == IF w.status = "pending" /\ w.buy = a THEN w.after.buy.liab - w.before.buy.liab ELSE 0
FeesIn(q, a) == [s \in DOMAIN q |-> FeeIn(q[s], a)]
SlackIn(w, a) == IF w.status = "pending" /\ w.sell = a
                 THEN w.in - (w.after.sell.slip - w.before.sell.slip) ELSE 0
SlacksIn(q, a) == [s \in DOMAIN q |-> SlackIn(q[s], a)]

\* What a quote wrote down.
Shape(w) ==
  /\ w.sell # w.buy
  /\ w.after.sell.liab = w.before.sell.liab
  /\ w.before.sell.slip <= w.after.sell.slip
  /\ w.after.sell.slip - w.before.sell.slip <= w.in
  /\ w.before.buy.liab <= w.after.buy.liab
  /\ w.before.buy.slip = w.after.buy.slip + w.out
QueueOK(q) ==
  /\ q \in Seq(PendingSwaps \cup SettledSwaps)
  /\ \A s \in DOMAIN q : q[s].status = "pending" => Shape(q[s])
Countable(q, a) == IsFiniteSet(Units(FeesIn(q, a))) /\ IsFiniteSet(Units(SlacksIn(q, a)))
Joins(q, w, r) == QueueOK(q) /\ w \in PendingSwaps /\ Shape(w) /\ r = Append(q, w)
Settles(q, x, w, r) ==
  QueueOK(q) /\ x \in DOMAIN q /\ w \in SettledSwaps /\ r = [q EXCEPT ![x] = w]

\* A swap of the queue and its two amounts.
LEMMA EntryTyped ==
    ASSUME NEW q, QueueOK(q), NEW s \in DOMAIN q, NEW a
    PROVE  /\ q[s].sell \in Coins /\ q[s].buy \in Coins
           /\ q[s].status = "pending" => q[s] \in PendingSwaps /\ Shape(q[s])
           /\ q[s].status # "pending" => q[s] \in SettledSwaps
           /\ FeeIn(q[s], a) \in Nat /\ SlackIn(q[s], a) \in Nat
<1>1. q[s] \in PendingSwaps \cup SettledSwaps
  BY DEF QueueOK
<1>2. CASE q[s] \in PendingSwaps
  <2>1. q[s].status = "pending" /\ Shape(q[s]) /\ q[s].sell \in Coins /\ q[s].buy \in Coins
    BY <1>2 DEF QueueOK, PendingSwaps
  <2>2. /\ q[s].in \in Nat
        /\ q[s].after.buy.liab \in Nat /\ q[s].before.buy.liab \in Nat
        /\ q[s].after.sell.slip \in Nat /\ q[s].before.sell.slip \in Nat
    BY <1>2 DEF PendingSwaps, Pair, Balances
  <2> QED
    BY <1>2, <2>1, <2>2 DEF FeeIn, SlackIn, Shape
<1>3. CASE q[s] \in SettledSwaps
  BY <1>3 DEF SettledSwaps, FeeIn, SlackIn
<1> QED
  BY <1>1, <1>2, <1>3

\* A swap joins the queue.
LEMMA AppendSums ==
    ASSUME NEW q, NEW w, NEW r, Joins(q, w, r), NEW a, Countable(q, a)
    PROVE  /\ QueueOK(r)
           /\ IsFiniteSet(Units(FeesIn(r, a)))
           /\ Total(FeesIn(q, a)) \in Nat
           /\ Total(FeesIn(r, a)) = Total(FeesIn(q, a)) + FeeIn(w, a)
           /\ IsFiniteSet(Units(SlacksIn(r, a)))
           /\ Total(SlacksIn(q, a)) \in Nat
           /\ Total(SlacksIn(r, a)) = Total(SlacksIn(q, a)) + SlackIn(w, a)
<1> USE DEF Joins, Countable
<1> DEFINE x == Len(q) + 1
<1>1. /\ r \in Seq(PendingSwaps \cup SettledSwaps)
      /\ DOMAIN r = DOMAIN q \cup {x} /\ r[x] = w /\ x \notin DOMAIN q
      /\ \A s \in DOMAIN q : r[s] = q[s]
  BY DEF QueueOK
<1> HIDE DEF x
<1>2. QueueOK(r)
  BY <1>1 DEF QueueOK
<1>3. \A s \in DOMAIN q : FeeIn(q[s], a) \in Nat /\ SlackIn(q[s], a) \in Nat
  BY EntryTyped
<1>4. \A s \in DOMAIN r : FeeIn(r[s], a) \in Nat /\ SlackIn(r[s], a) \in Nat
  BY <1>2, EntryTyped
<1>5. /\ FeesIn(q, a) \in [DOMAIN q -> Nat] /\ FeesIn(r, a) \in [DOMAIN q \cup {x} -> Nat]
      /\ FeesIn(r, a)[x] = FeeIn(w, a)
      /\ \A s \in DOMAIN q : FeesIn(r, a)[s] = FeesIn(q, a)[s]
  BY <1>1, <1>3, <1>4 DEF FeesIn
<1>6. /\ IsFiniteSet(Units(FeesIn(r, a))) /\ Total(FeesIn(q, a)) \in Nat
      /\ Total(FeesIn(r, a)) = Total(FeesIn(q, a)) + FeesIn(r, a)[x]
  <2>1. Differ(FeesIn(q, a), FeesIn(r, a), DOMAIN q, x) /\ At(FeesIn(q, a), DOMAIN q, x) = 0
    BY <1>1, <1>5 DEF Differ, At
  <2>2. /\ IsFiniteSet(Units(FeesIn(r, a))) /\ Total(FeesIn(q, a)) \in Nat
        /\ FeesIn(r, a)[x] \in Nat
        /\ Total(FeesIn(r, a)) = Total(FeesIn(q, a)) + FeesIn(r, a)[x] - 0
    BY <2>1, TotalChange
  <2> QED
    BY <2>2
<1>7. /\ SlacksIn(q, a) \in [DOMAIN q -> Nat] /\ SlacksIn(r, a) \in [DOMAIN q \cup {x} -> Nat]
      /\ SlacksIn(r, a)[x] = SlackIn(w, a)
      /\ \A s \in DOMAIN q : SlacksIn(r, a)[s] = SlacksIn(q, a)[s]
  BY <1>1, <1>3, <1>4 DEF SlacksIn
<1>8. /\ IsFiniteSet(Units(SlacksIn(r, a))) /\ Total(SlacksIn(q, a)) \in Nat
      /\ Total(SlacksIn(r, a)) = Total(SlacksIn(q, a)) + SlacksIn(r, a)[x]
  <2>1. Differ(SlacksIn(q, a), SlacksIn(r, a), DOMAIN q, x) /\ At(SlacksIn(q, a), DOMAIN q, x) = 0
    BY <1>1, <1>7 DEF Differ, At
  <2>2. /\ IsFiniteSet(Units(SlacksIn(r, a))) /\ Total(SlacksIn(q, a)) \in Nat
        /\ SlacksIn(r, a)[x] \in Nat
        /\ Total(SlacksIn(r, a)) = Total(SlacksIn(q, a)) + SlacksIn(r, a)[x] - 0
    BY <2>1, TotalChange
  <2> QED
    BY <2>2
<1>9. FeeIn(w, a) \in Nat /\ SlackIn(w, a) \in Nat
  BY <1>1, <1>4
<1> QED
  BY <1>2, <1>5, <1>6, <1>7, <1>8, <1>9

\* A swap of the queue is settled.
LEMMA SettleSums ==
    ASSUME NEW q, NEW x, NEW w, NEW r, Settles(q, x, w, r), NEW a, Countable(q, a)
    PROVE  /\ QueueOK(r)
           /\ IsFiniteSet(Units(FeesIn(r, a)))
           /\ FeeIn(q[x], a) \in Nat /\ Total(FeesIn(q, a)) \in Nat
           /\ FeeIn(q[x], a) <= Total(FeesIn(q, a))
           /\ Total(FeesIn(r, a)) = Total(FeesIn(q, a)) - FeeIn(q[x], a)
           /\ IsFiniteSet(Units(SlacksIn(r, a)))
           /\ SlackIn(q[x], a) \in Nat /\ Total(SlacksIn(q, a)) \in Nat
           /\ SlackIn(q[x], a) <= Total(SlacksIn(q, a))
           /\ Total(SlacksIn(r, a)) = Total(SlacksIn(q, a)) - SlackIn(q[x], a)
<1> USE DEF Settles, Countable
<1>1. /\ r \in Seq(PendingSwaps \cup SettledSwaps)
      /\ DOMAIN r = DOMAIN q /\ r[x] = w
      /\ \A s \in DOMAIN q : s # x => r[s] = q[s]
  BY DEF QueueOK
<1>2. w.status # "pending"
  BY DEF SettledSwaps
<1>3. QueueOK(r)
  BY <1>1, <1>2 DEF QueueOK
<1>4. \A s \in DOMAIN q : FeeIn(q[s], a) \in Nat /\ SlackIn(q[s], a) \in Nat
  BY EntryTyped
<1>5. \A s \in DOMAIN r : FeeIn(r[s], a) \in Nat /\ SlackIn(r[s], a) \in Nat
  BY <1>3, EntryTyped
<1>6. FeeIn(w, a) = 0 /\ SlackIn(w, a) = 0
  BY <1>2 DEF FeeIn, SlackIn
<1>8. /\ FeesIn(q, a) \in [DOMAIN q -> Nat] /\ FeesIn(r, a) \in [DOMAIN q -> Nat]
      /\ FeesIn(r, a)[x] = 0 /\ FeesIn(q, a)[x] = FeeIn(q[x], a)
      /\ \A s \in DOMAIN q : s # x => FeesIn(r, a)[s] = FeesIn(q, a)[s]
  BY <1>1, <1>4, <1>5, <1>6 DEF FeesIn
<1>9. /\ IsFiniteSet(Units(FeesIn(r, a))) /\ Total(FeesIn(q, a)) \in Nat
      /\ Total(FeesIn(r, a)) = Total(FeesIn(q, a)) + FeesIn(r, a)[x] - FeesIn(q, a)[x]
  <2>1. DOMAIN q \cup {x} = DOMAIN q
    OBVIOUS
  <2>2. /\ Differ(FeesIn(q, a), FeesIn(r, a), DOMAIN q, x)
        /\ At(FeesIn(q, a), DOMAIN q, x) = FeesIn(q, a)[x]
    BY <1>8, <2>1 DEF Differ, At
  <2> QED
    BY <2>2, TotalChange
<1>10. FeesIn(q, a)[x] <= Total(FeesIn(q, a))
  BY <1>8, TotalBounds
<1>11. /\ SlacksIn(q, a) \in [DOMAIN q -> Nat] /\ SlacksIn(r, a) \in [DOMAIN q -> Nat]
       /\ SlacksIn(r, a)[x] = 0 /\ SlacksIn(q, a)[x] = SlackIn(q[x], a)
       /\ \A s \in DOMAIN q : s # x => SlacksIn(r, a)[s] = SlacksIn(q, a)[s]
  BY <1>1, <1>4, <1>5, <1>6 DEF SlacksIn
<1>12. /\ IsFiniteSet(Units(SlacksIn(r, a))) /\ Total(SlacksIn(q, a)) \in Nat
       /\ Total(SlacksIn(r, a)) = Total(SlacksIn(q, a)) + SlacksIn(r, a)[x] - SlacksIn(q, a)[x]
  <2>1. DOMAIN q \cup {x} = DOMAIN q
    OBVIOUS
  <2>2. /\ Differ(SlacksIn(q, a), SlacksIn(r, a), DOMAIN q, x)
        /\ At(SlacksIn(q, a), DOMAIN q, x) = SlacksIn(q, a)[x]
    BY <1>11, <2>1 DEF Differ, At
  <2> QED
    BY <2>2, TotalChange
<1>13. SlacksIn(q, a)[x] <= Total(SlacksIn(q, a))
  BY <1>11, TotalBounds
<1>14. /\ FeeIn(q[x], a) \in Nat /\ SlackIn(q[x], a) \in Nat
  BY <1>4
<1>15. Total(FeesIn(r, a)) = Total(FeesIn(q, a)) - FeeIn(q[x], a)
  BY <1>8, <1>9, <1>14
<1>16. Total(SlacksIn(r, a)) = Total(SlacksIn(q, a)) - SlackIn(q[x], a)
  BY <1>11, <1>12, <1>14
<1> QED
  BY <1>3, <1>8, <1>9, <1>10, <1>11, <1>12, <1>13, <1>14, <1>15, <1>16

--------------------------------------------------------------------------------
\* Arithmetic.

\* A wrapped number is a U256.
LEMMA WrapType ==
    ASSUME NEW n \in Int
    PROVE  Wrap(n) \in 0 .. Modulus - 1
BY PoolBooksAssumption DEF Wrap

\* The fees on an output are an amount.
LEMMA FeesAmount ==
    ASSUME NEW raw \in Nat
    PROVE  FeesOf(raw) \in Nat
<1>1. /\ raw * BackstopFee \in Nat /\ raw * ProtocolFee \in Nat /\ raw * VolatilityFee \in Nat
      /\ FeePrecision \in Nat /\ FeePrecision > 0
  BY PoolBooksAssumption
<1>2. (raw * BackstopFee) \div FeePrecision \in Nat
  BY <1>1, DivFloor
<1>3. (raw * ProtocolFee) \div FeePrecision \in Nat
  BY <1>1, DivFloor
<1>4. (raw * VolatilityFee) \div FeePrecision \in Nat
  BY <1>1, DivFloor
<1> QED
  BY <1>2, <1>3, <1>4 DEF FeesOf

\* A deposit that mints no more than its share.
LEMMA PriceUp ==
    ASSUME NEW L \in Nat, NEW S \in Nat, NEW m \in Nat, NEW r \in Nat, L * m <= r * S
    PROVE  (L + r) * S >= L * (S + m)
<1>1. (L + r) * S = L * S + r * S
  OBVIOUS
<1>2. L * (S + m) = L * S + L * m
  OBVIOUS
<1> QED
  BY <1>1, <1>2

\* A withdrawal that takes no more than its share.
LEMMA PriceKept ==
    ASSUME NEW L \in Nat, NEW S \in Nat, NEW w \in Nat, NEW d \in Nat, S * d <= w * L
    PROVE  (L - d) * S >= L * (S - w)
<1>1. (L - d) * S = L * S - d * S
  OBVIOUS
<1>2. L * (S - w) = L * S - L * w
  OBVIOUS
<1> QED
  BY <1>1, <1>2

--------------------------------------------------------------------------------
\* The inductive invariant.

CoinOK(a) ==
  /\ IsFiniteSet(Units(lpShares[a])) /\ lpSupply[a] = Total(lpShares[a])
  /\ IsFiniteSet(Units(FeesIn(swaps, a))) /\ Total(FeesIn(swaps, a)) <= books[a].liab
  /\ IsFiniteSet(Units(SlacksIn(swaps, a)))
  /\ "clipped" \in excuses[a] \/ books[a].slip + Total(SlacksIn(swaps, a)) <= held[a]
IInv ==
  /\ BooksTypeOK /\ QueueOK(swaps)
  /\ \A a \in Coins : CoinOK(a)

\* What one step does to the price of asset a's shares.
PriceStep(a) == SettledLiab(a)' * lpSupply[a] >= SettledLiab(a) * lpSupply'[a]

\* The functions whose totals the invariant speaks of.
LEMMA SumsTyped ==
    ASSUME IInv, NEW a \in Coins
    PROVE  /\ Total(FeesIn(swaps, a)) \in Nat /\ Total(SlacksIn(swaps, a)) \in Nat
           /\ FeesIn(swaps, a) \in [DOMAIN swaps -> Nat]
           /\ SlacksIn(swaps, a) \in [DOMAIN swaps -> Nat]
           /\ SettledLiab(a) = books[a].liab - Total(FeesIn(swaps, a))
<1>1. IsFiniteSet(Units(FeesIn(swaps, a))) /\ IsFiniteSet(Units(SlacksIn(swaps, a)))
  BY DEF IInv, CoinOK
<1>2. \A s \in DOMAIN swaps : FeeIn(swaps[s], a) \in Nat /\ SlackIn(swaps[s], a) \in Nat
  BY EntryTyped DEF IInv
<1>3. Total(FeesIn(swaps, a)) \in Nat /\ Total(SlacksIn(swaps, a)) \in Nat
  BY <1>1, FS_CardinalityType DEF Total
<1>4. PendingFees(a) = FeesIn(swaps, a)
  BY DEF PendingFees, FeesIn, FeeIn
<1> QED
  BY <1>2, <1>3, <1>4 DEF FeesIn, SlacksIn, SettledLiab

\* With nothing pending, nothing is owed or hidden.
LEMMA NothingPending ==
    ASSUME IInv, Pending = {}, NEW a \in Coins
    PROVE  Total(FeesIn(swaps, a)) = 0 /\ Total(SlacksIn(swaps, a)) = 0
<1>1. \A s \in DOMAIN swaps : swaps[s].status # "pending"
  BY DEF Pending
<1>2. /\ FeesIn(swaps, a) \in [DOMAIN swaps -> Nat] /\ SlacksIn(swaps, a) \in [DOMAIN swaps -> Nat]
  BY SumsTyped
<1>3. /\ \A s \in DOMAIN swaps : FeesIn(swaps, a)[s] = 0
      /\ \A s \in DOMAIN swaps : SlacksIn(swaps, a)[s] = 0
  BY <1>1 DEF FeesIn, FeeIn, SlacksIn, SlackIn
<1> QED
  BY <1>2, <1>3, TotalZero

--------------------------------------------------------------------------------
\* The steps.

\* What LP notes leave alone.
LEMMA OtherCoin ==
    ASSUME IInv, NEW c \in Coins, swaps' = swaps, books'[c] = books[c], lpShares'[c] = lpShares[c],
           lpSupply'[c] = lpSupply[c], held'[c] = held[c], excuses'[c] = excuses[c]
    PROVE  CoinOK(c)' /\ PriceStep(c)
<1>1. CoinOK(c)' /\ SettledLiab(c)' = SettledLiab(c)
  BY DEF IInv, CoinOK, SettledLiab, PendingFees
<1>2. SettledLiab(c) \in Int /\ lpSupply[c] \in Nat
  BY SumsTyped DEF IInv, BooksTypeOK, Balances
<1> QED
  BY <1>1, <1>2 DEF PriceStep

\* A deposit.
LEMMA DepositStep ==
    ASSUME IInv, NEW a \in Coins, NEW p \in Lps, NEW amount \in Deposits, DepositLp(a, p, amount)
    PROVE  IInv' /\ \A c \in Coins : PriceStep(c)
<1> DEFINE L == books[a].liab
           S == lpSupply[a]
<1>1. /\ L \in Nat /\ S \in Nat /\ amount \in Nat
      /\ books \in [Coins -> Balances] /\ books[a].slip \in Nat /\ books[a].reserve \in Nat
      /\ lpSupply \in [Coins -> Nat] /\ lpShares \in [Coins -> [Lps -> Nat]]
      /\ held \in [Coins -> Int]
  BY PoolBooksAssumption DEF IInv, BooksTypeOK, Balances
<1>2. PICK t \in InverseOf(books[a].reserve, books[a].slip + amount, amount) :
        LET inc == IF t < amount THEN amount ELSE t
        IN  /\ books' = [books EXCEPT ![a] = [reserve |-> Wrap(@.reserve + inc),
                                              slip |-> @.slip + amount, liab |-> @.liab + inc]]
            /\ lpSupply' = [lpSupply EXCEPT ![a] = @ + Minted(a, inc)]
            /\ lpShares' = [lpShares EXCEPT ![a][p] = @ + Minted(a, inc)]
  BY DEF DepositLp
<1> DEFINE inc == IF t < amount THEN amount ELSE t
           m == Minted(a, inc)
<1>3. inc \in Nat
  BY <1>1 DEF InverseOf
<1> HIDE DEF inc
<1>4. m \in Nat /\ L * m <= inc * S
  <2>1. CASE L > 0
    <3>1. inc * S \in Nat
      BY <1>1, <1>3
    <3>2. (inc * S) \div L \in Nat /\ L * ((inc * S) \div L) <= inc * S
      BY <1>1, <2>1, <3>1, DivFloor
    <3> QED
      BY <2>1, <3>2 DEF Minted
  <2>2. CASE ~(L > 0)
    <3>1. L = 0 /\ m = inc
      BY <1>1, <2>2 DEF Minted
    <3>2. 0 * inc = 0 /\ inc * S \in Nat
      BY <1>1, <1>3
    <3> QED
      BY <1>3, <3>1, <3>2
  <2> QED
    BY <2>1, <2>2
<1> HIDE DEF m
<1>5. /\ books' = [books EXCEPT ![a] = [reserve |-> Wrap(books[a].reserve + inc),
                                        slip |-> books[a].slip + amount, liab |-> L + inc]]
      /\ lpSupply' = [lpSupply EXCEPT ![a] = S + m]
      /\ lpShares' = [lpShares EXCEPT ![a] = [lpShares[a] EXCEPT ![p] = lpShares[a][p] + m]]
  BY <1>1, <1>2 DEF inc, m
<1>6. /\ held' = [held EXCEPT ![a] = held[a] + amount]
      /\ swaps' = swaps /\ excuses' = excuses /\ Pending = {}
  BY <1>1 DEF DepositLp
<1>7. Wrap(books[a].reserve + inc) \in 0 .. Modulus - 1
  BY <1>1, <1>3, WrapType
<1>8. BooksTypeOK' /\ QueueOK(swaps)'
  <2>1. /\ books' \in [Coins -> Balances] /\ lpSupply' \in [Coins -> Nat]
        /\ held' \in [Coins -> Int]
    BY <1>1, <1>3, <1>4, <1>5, <1>6, <1>7 DEF Balances
  <2>2. lpShares' \in [Coins -> [Lps -> Nat]]
    BY <1>1, <1>4, <1>5
  <2> QED
    BY <1>6, <2>1, <2>2 DEF IInv, BooksTypeOK, QueueOK
<1>9. /\ books'[a].slip = books[a].slip + amount /\ books'[a].liab = L + inc
      /\ lpSupply'[a] = S + m /\ held'[a] = held[a] + amount
      /\ lpShares'[a] = [lpShares[a] EXCEPT ![p] = lpShares[a][p] + m]
  BY <1>1, <1>5, <1>6
<1>10. Total(FeesIn(swaps, a)) = 0 /\ Total(SlacksIn(swaps, a)) = 0
  BY <1>6, NothingPending
<1>11. CoinOK(a)'
  <2>1. IsFiniteSet(Units(lpShares'[a])) /\ S + m = Total(lpShares'[a])
    <3>1. /\ Differ(lpShares[a], lpShares'[a], Lps, p) /\ At(lpShares[a], Lps, p) = lpShares[a][p]
          /\ lpShares'[a][p] = lpShares[a][p] + m /\ lpShares[a][p] \in Nat
      <4>1. Lps \cup {p} = Lps
        OBVIOUS
      <4> QED
        BY <1>1, <1>4, <1>9, <4>1 DEF IInv, CoinOK, Differ, At
    <3>2. /\ IsFiniteSet(Units(lpShares'[a])) /\ Total(lpShares[a]) \in Nat
          /\ Total(lpShares'[a]) = Total(lpShares[a]) + lpShares'[a][p] - At(lpShares[a], Lps, p)
      BY <3>1, TotalChange
    <3> QED
      BY <1>4, <3>1, <3>2 DEF IInv, CoinOK
  <2>2. "clipped" \in excuses[a] \/ books[a].slip + 0 <= held[a]
    BY <1>10 DEF IInv, CoinOK
  <2>3. /\ IsFiniteSet(Units(FeesIn(swaps, a))) /\ IsFiniteSet(Units(SlacksIn(swaps, a)))
    BY DEF IInv, CoinOK
  <2> QED
    BY <1>1, <1>3, <1>6, <1>9, <1>10, <2>1, <2>2, <2>3 DEF CoinOK
<1>12. PriceStep(a)
  <2>1. SettledLiab(a) = L /\ SettledLiab(a)' = L + inc
    <3>1. SettledLiab(a)' = (L + inc) - Total(FeesIn(swaps, a))
      BY <1>6, <1>9 DEF SettledLiab, PendingFees, FeesIn, FeeIn
    <3> QED
      BY <1>1, <1>3, <1>10, <3>1, SumsTyped
  <2>2. (L + inc) * S >= L * (S + m)
    BY <1>1, <1>3, <1>4, PriceUp
  <2> QED
    BY <1>9, <2>1, <2>2 DEF PriceStep
<1>13. ASSUME NEW c \in Coins, c # a PROVE CoinOK(c)' /\ PriceStep(c)
  <2>1. /\ books'[c] = books[c] /\ lpShares'[c] = lpShares[c] /\ lpSupply'[c] = lpSupply[c]
        /\ held'[c] = held[c]
    BY <1>1, <1>5, <1>6, <1>13
  <2> QED
    BY <1>6, <2>1, OtherCoin
<1> QED
  BY <1>8, <1>11, <1>12, <1>13 DEF IInv

\* A withdrawal.
LEMMA WithdrawStep ==
    ASSUME IInv, NEW a \in Coins, NEW p \in Lps, NEW amount \in Payouts, WithdrawLp(a, p, amount)
    PROVE  IInv' /\ \A c \in Coins : PriceStep(c)
<1> DEFINE L == books[a].liab
           S == lpSupply[a]
<1>1. /\ L \in Nat /\ S \in Nat /\ amount \in Nat
      /\ books \in [Coins -> Balances] /\ books[a].slip \in Nat /\ books[a].reserve \in Nat
      /\ lpSupply \in [Coins -> Nat] /\ lpShares \in [Coins -> [Lps -> Nat]]
      /\ lpShares[a] \in [Lps -> Nat] /\ lpShares[a][p] \in Nat
      /\ held \in [Coins -> Int]
  BY PoolBooksAssumption DEF IInv, BooksTypeOK, Balances
<1>2. PICK burnt \in 1 .. lpShares[a][p] :
       LET dec == (burnt * books[a].liab) \div lpSupply[a]
           reduced == Wrap(books[a].reserve - dec)
       IN  \E after \in PsiWithin(reduced, books[a].slip) :
             LET payout == IF books[a].slip - after > dec THEN dec ELSE books[a].slip - after
             IN  /\ payout >= amount
                 /\ books' = [books EXCEPT ![a] = [reserve |-> reduced, slip |-> @.slip - payout,
                                                   liab |-> @.liab - dec]]
                 /\ lpSupply' = [lpSupply EXCEPT ![a] = @ - burnt]
                 /\ lpShares' = [lpShares EXCEPT ![a][p] = @ - burnt]
  BY DEF WithdrawLp
<1> DEFINE dec == (burnt * L) \div S
           reduced == Wrap(books[a].reserve - dec)
<1>3. PICK after \in PsiWithin(reduced, books[a].slip) :
             LET payout == IF books[a].slip - after > dec THEN dec ELSE books[a].slip - after
             IN  /\ payout >= amount
                 /\ books' = [books EXCEPT ![a] = [reserve |-> reduced, slip |-> @.slip - payout,
                                                   liab |-> @.liab - dec]]
                 /\ lpSupply' = [lpSupply EXCEPT ![a] = @ - burnt]
                 /\ lpShares' = [lpShares EXCEPT ![a][p] = @ - burnt]
  BY <1>2
<1> DEFINE payout == IF books[a].slip - after > dec THEN dec ELSE books[a].slip - after
<1>4. S = Total(lpShares[a]) /\ IsFiniteSet(Units(lpShares[a]))
  BY DEF IInv, CoinOK
<1>5. burnt \in Nat /\ burnt > 0 /\ burnt <= lpShares[a][p] /\ burnt <= S /\ S > 0
  <2>1. lpShares[a][p] <= Total(lpShares[a])
    BY <1>1, <1>4, TotalBounds
  <2> QED
    BY <1>1, <1>4, <2>1
<1>6. dec \in Nat /\ S * dec <= burnt * L /\ dec <= L
  BY <1>1, <1>5, ShareOf
<1> HIDE DEF dec
<1>7. reduced \in 0 .. Modulus - 1
  BY <1>1, <1>6, WrapType
<1> HIDE DEF reduced
<1>8. payout \in Nat /\ payout <= books[a].slip /\ payout >= amount
  BY <1>1, <1>3, <1>6 DEF PsiWithin
<1>9. /\ books' = [books EXCEPT ![a] = [reserve |-> reduced, slip |-> books[a].slip - payout,
                                        liab |-> L - dec]]
      /\ lpSupply' = [lpSupply EXCEPT ![a] = S - burnt]
      /\ lpShares' = [lpShares EXCEPT ![a] = [lpShares[a] EXCEPT ![p] = lpShares[a][p] - burnt]]
  BY <1>1, <1>3
<1> HIDE DEF payout
<1>10. /\ held' = [held EXCEPT ![a] = held[a] - amount]
       /\ swaps' = swaps /\ excuses' = excuses /\ Pending = {}
  BY <1>1 DEF WithdrawLp
<1>11. BooksTypeOK' /\ QueueOK(swaps)'
  <2>1. /\ books' \in [Coins -> Balances] /\ lpSupply' \in [Coins -> Nat]
        /\ held' \in [Coins -> Int]
    BY <1>1, <1>5, <1>6, <1>7, <1>8, <1>9, <1>10 DEF Balances
  <2>2. lpShares' \in [Coins -> [Lps -> Nat]]
    BY <1>1, <1>5, <1>9
  <2> QED
    BY <1>10, <2>1, <2>2 DEF IInv, BooksTypeOK, QueueOK
<1>12. /\ books'[a].slip = books[a].slip - payout /\ books'[a].liab = L - dec
       /\ lpSupply'[a] = S - burnt /\ held'[a] = held[a] - amount
       /\ lpShares'[a] = [lpShares[a] EXCEPT ![p] = lpShares[a][p] - burnt]
  BY <1>1, <1>9, <1>10
<1>13. Total(FeesIn(swaps, a)) = 0 /\ Total(SlacksIn(swaps, a)) = 0
  BY <1>10, NothingPending
<1>14. CoinOK(a)'
  <2>1. IsFiniteSet(Units(lpShares'[a])) /\ S - burnt = Total(lpShares'[a])
    <3>1. /\ Differ(lpShares[a], lpShares'[a], Lps, p) /\ At(lpShares[a], Lps, p) = lpShares[a][p]
          /\ lpShares'[a][p] = lpShares[a][p] - burnt
      <4>1. Lps \cup {p} = Lps
        OBVIOUS
      <4> QED
        BY <1>1, <1>4, <1>5, <1>12, <4>1 DEF Differ, At
    <3>2. /\ IsFiniteSet(Units(lpShares'[a])) /\ Total(lpShares[a]) \in Nat
          /\ Total(lpShares'[a]) = Total(lpShares[a]) + lpShares'[a][p] - At(lpShares[a], Lps, p)
      BY <3>1, TotalChange
    <3> QED
      BY <1>1, <1>4, <1>5, <3>1, <3>2
  <2>2. "clipped" \in excuses[a] \/ books[a].slip + 0 <= held[a]
    BY <1>13 DEF IInv, CoinOK
  <2>3. /\ IsFiniteSet(Units(FeesIn(swaps, a))) /\ IsFiniteSet(Units(SlacksIn(swaps, a)))
    BY DEF IInv, CoinOK
  <2> QED
    BY <1>1, <1>6, <1>8, <1>10, <1>12, <1>13, <2>1, <2>2, <2>3 DEF CoinOK
<1>15. PriceStep(a)
  <2>1. SettledLiab(a) = L /\ SettledLiab(a)' = L - dec
    <3>1. SettledLiab(a)' = (L - dec) - Total(FeesIn(swaps, a))
      BY <1>10, <1>12 DEF SettledLiab, PendingFees, FeesIn, FeeIn
    <3> QED
      BY <1>1, <1>6, <1>13, <3>1, SumsTyped
  <2>2. (L - dec) * S >= L * (S - burnt)
    BY <1>1, <1>5, <1>6, PriceKept
  <2> QED
    BY <1>12, <2>1, <2>2 DEF PriceStep
<1>16. ASSUME NEW c \in Coins, c # a PROVE CoinOK(c)' /\ PriceStep(c)
  <2>1. /\ books'[c] = books[c] /\ lpShares'[c] = lpShares[c] /\ lpSupply'[c] = lpSupply[c]
        /\ held'[c] = held[c]
    BY <1>1, <1>9, <1>10, <1>16
  <2> QED
    BY <1>10, <2>1, OtherCoin
<1> QED
  BY <1>11, <1>14, <1>15, <1>16 DEF IInv

\* Steps of swaps: they leave supply and shares alone.
LEMMA SwapPrice ==
    ASSUME IInv, NEW c \in Coins, lpSupply' = lpSupply,
           books'[c].liab \in Nat, Total(FeesIn(swaps', c)) \in Nat,
           Total(FeesIn(swaps', c)) <= books'[c].liab,
           books[c].liab - Total(FeesIn(swaps, c)) <= books'[c].liab - Total(FeesIn(swaps', c))
    PROVE  PriceStep(c)
<1>1. SettledLiab(c)' = books'[c].liab - Total(FeesIn(swaps', c))
  BY DEF SettledLiab, PendingFees, FeesIn, FeeIn
<1>2. /\ SettledLiab(c) = books[c].liab - Total(FeesIn(swaps, c))
      /\ Total(FeesIn(swaps, c)) \in Nat
  BY SumsTyped
<1>3. /\ books[c].liab \in Nat /\ lpSupply[c] \in Nat
      /\ Total(FeesIn(swaps, c)) <= books[c].liab
  BY DEF IInv, BooksTypeOK, Balances, CoinOK
<1>4. SettledLiab(c) \in Nat /\ SettledLiab(c)' \in Nat /\ SettledLiab(c) <= SettledLiab(c)'
  BY <1>1, <1>2, <1>3
<1> QED
  BY <1>3, <1>4, PriceMore DEF PriceStep

\* A quote of the curve.
Quoted(i, o, amountIn, q) ==
  /\ i \in Coins /\ o \in Coins /\ amountIn \in Nat
  /\ \E eff, raw, lpFee \in Nat, after \in 0 .. books[o].slip :
       q = QuoteOf(i, o, amountIn, eff, raw, lpFee, after)

\* The new balances of a quote.
LEMMA QuoteTyped ==
    ASSUME BooksTypeOK, NEW i, NEW o, NEW amountIn, NEW q, Quoted(i, o, amountIn, q)
    PROVE  /\ q.out \in Nat /\ q.sell \in Balances /\ q.buy \in Balances
           /\ q.sell.liab = books[i].liab
           /\ books[i].slip <= q.sell.slip /\ q.sell.slip - books[i].slip <= amountIn
           /\ books[o].liab <= q.buy.liab /\ books[o].slip = q.buy.slip + q.out
<1>0. PICK eff \in Nat, raw \in Nat, lpFee \in Nat, after \in 0 .. books[o].slip :
        q = QuoteOf(i, o, amountIn, eff, raw, lpFee, after)
  BY DEF Quoted
<1> DEFINE reduced == Wrap((books[o].reserve - raw) + FeesOf(raw))
<1>1. /\ books[i] \in Balances /\ books[o] \in Balances
      /\ books[i].slip \in Nat /\ books[i].reserve \in Nat /\ books[i].liab \in Nat
      /\ books[o].slip \in Nat /\ books[o].reserve \in Nat /\ books[o].liab \in Nat /\ amountIn \in Nat
  BY DEF Quoted, BooksTypeOK, Balances
<1>2. FeesOf(raw) \in Nat
  BY FeesAmount
<1>3. /\ reduced \in 0 .. Modulus - 1
      /\ Wrap(books[i].reserve + eff) \in 0 .. Modulus - 1
  BY <1>1, <1>2, WrapType
<1>4. Wrap(reduced + lpFee) \in 0 .. Modulus - 1
  <2>1. reduced + lpFee \in Int
    BY <1>3
  <2> QED
    BY <2>1, WrapType
<1>5. Wrap(books[o].reserve - raw + FeesOf(raw)) = reduced
  BY <1>1, <1>2
<1> HIDE DEF reduced
<1>6. CASE books[i].reserve + eff > 2 * books[i].liab
  <2>1. q = [out |-> 0, sell |-> books[i], buy |-> books[o]]
    BY <1>0, <1>6 DEF QuoteOf
  <2>2. q.out = 0 /\ q.sell = books[i] /\ q.buy = books[o]
    BY <2>1
  <2> QED
    BY <1>1, <2>2
<1>7. CASE ~(books[i].reserve + eff > 2 * books[i].liab)
  <2>1. /\ q.out = books[o].slip - after
        /\ q.sell = [reserve |-> Wrap(books[i].reserve + eff), slip |-> books[i].slip + amountIn,
                     liab |-> books[i].liab]
        /\ q.buy = [reserve |-> Wrap(reduced + lpFee), slip |-> after, liab |-> books[o].liab + lpFee]
    BY <1>0, <1>1, <1>5, <1>7 DEF QuoteOf
  <2> QED
    BY <1>1, <1>3, <1>4, <2>1 DEF Balances
<1> QED
  BY <1>6, <1>7

\* What is kept above the minimum joins both reserves.
LEMMA CreditTyped ==
    ASSUME NEW b \in Balances, NEW n \in Nat
    PROVE  /\ CreditTo(b, n) \in Balances
           /\ CreditTo(b, n).slip = b.slip + n /\ CreditTo(b, n).liab = b.liab
<1>1. b.reserve \in Nat /\ b.slip \in Nat /\ b.liab \in Nat
  BY DEF Balances
<1>2. Wrap(b.reserve + n) \in 0 .. Modulus - 1
  BY <1>1, WrapType
<1> QED
  BY <1>1, <1>2 DEF Balances, CreditTo

\* A swap is quoted.
LEMMA QuoteStep ==
    ASSUME IInv, NEW i \in Coins, NEW o \in Coins, NEW amountIn \in AmountsIn, NEW minOut \in MinOuts,
           QuoteSwap(i, o, amountIn, minOut)
    PROVE  IInv' /\ \A c \in Coins : PriceStep(c)
<1> DEFINE Reduced(raw) == Wrap(books[o].reserve - raw + FeesOf(raw))
           MaxLpFee(raw) == (raw * LpFeeRate) \div FeePrecision
           LpFee(raw, fee) == IF fee > MaxLpFee(raw) THEN MaxLpFee(raw) ELSE fee
           Quote(raw, eff, fee, after) == QuoteOf(i, o, amountIn, eff, raw, LpFee(raw, fee), after)
           Bought(q) == CreditTo(q.buy, q.out - minOut)
           Entry(q) == [status |-> "pending", sell |-> i, buy |-> o, in |-> amountIn, out |-> minOut,
                        before |-> [sell |-> books[i], buy |-> books[o]],
                        after |-> [sell |-> q.sell, buy |-> Bought(q)]]
<1>1. /\ i # o /\ amountIn \in Nat /\ minOut \in Nat
      /\ books \in [Coins -> Balances] /\ books[i] \in Balances /\ books[o] \in Balances
      /\ books[i].slip \in Nat /\ books[i].liab \in Nat /\ books[i].reserve \in Nat
      /\ books[o].slip \in Nat /\ books[o].liab \in Nat /\ books[o].reserve \in Nat
      /\ held \in [Coins -> Int]
      /\ excuses \in [Coins -> SUBSET {"clipped", "overtaken", "blank"}]
  <2>1. i # o
    BY DEF QuoteSwap
  <2>2. amountIn \in Nat /\ minOut \in Nat
    BY PoolBooksAssumption
  <2> QED
    BY <2>1, <2>2 DEF IInv, BooksTypeOK, Balances
<1>2. PICK raw \in RawOuts,
           eff \in InverseOf(books[i].reserve, books[i].slip + amountIn, amountIn) :
      \E fee \in InverseOf(Reduced(raw), books[o].slip, MaxLpFee(raw)) :
      \E after \in PsiWithin(Wrap(Reduced(raw) + LpFee(raw, fee)), books[o].slip) :
      LET quote == Quote(raw, eff, fee, after)
      IN  /\ after > 0 /\ quote.out >= minOut
          /\ books' = [books EXCEPT ![i] = quote.sell, ![o] = Bought(quote)]
          /\ swaps' = Append(swaps, Entry(quote))
          /\ excuses' = IF quote.out = 0 THEN [excuses EXCEPT ![i] = @ \cup {"blank"},
                                                          ![o] = @ \cup {"blank"}]
                                         ELSE excuses
  BY Zenon DEF QuoteSwap
<1>3. PICK fee \in InverseOf(Reduced(raw), books[o].slip, MaxLpFee(raw)) :
      \E after \in PsiWithin(Wrap(Reduced(raw) + LpFee(raw, fee)), books[o].slip) :
      LET quote == Quote(raw, eff, fee, after)
      IN  /\ after > 0 /\ quote.out >= minOut
          /\ books' = [books EXCEPT ![i] = quote.sell, ![o] = Bought(quote)]
          /\ swaps' = Append(swaps, Entry(quote))
          /\ excuses' = IF quote.out = 0 THEN [excuses EXCEPT ![i] = @ \cup {"blank"},
                                                          ![o] = @ \cup {"blank"}]
                                         ELSE excuses
  BY <1>2
<1>4. PICK after \in PsiWithin(Wrap(Reduced(raw) + LpFee(raw, fee)), books[o].slip) :
      LET quote == Quote(raw, eff, fee, after)
      IN  /\ after > 0 /\ quote.out >= minOut
          /\ books' = [books EXCEPT ![i] = quote.sell, ![o] = Bought(quote)]
          /\ swaps' = Append(swaps, Entry(quote))
          /\ excuses' = IF quote.out = 0 THEN [excuses EXCEPT ![i] = @ \cup {"blank"},
                                                          ![o] = @ \cup {"blank"}]
                                         ELSE excuses
  BY <1>3
<1>5. /\ held' = [held EXCEPT ![i] = @ + amountIn, ![o] = @ - minOut]
      /\ lpSupply' = lpSupply /\ lpShares' = lpShares
  BY DEF QuoteSwap
<1>6. raw \in Nat /\ eff \in Nat /\ after \in 0 .. books[o].slip
  BY <1>1, PoolBooksAssumption DEF InverseOf, PsiWithin
<1>7. MaxLpFee(raw) \in Nat
  <2>1. raw * LpFeeRate \in Nat /\ FeePrecision \in Nat /\ FeePrecision > 0
    BY <1>6, PoolBooksAssumption
  <2> QED
    BY <2>1, DivFloor
<1> HIDE DEF MaxLpFee
<1>8. Reduced(raw) \in Nat
  <2>1. FeesOf(raw) \in Nat
    BY <1>6, FeesAmount
  <2>2. books[o].reserve - raw + FeesOf(raw) \in Int
    BY <1>1, <1>6, <2>1
  <2> QED
    BY <2>2, WrapType
<1> HIDE DEF Reduced
<1>9. LpFee(raw, fee) \in Nat
  BY <1>1, <1>7, <1>8 DEF InverseOf
<1> HIDE DEF LpFee
<1> DEFINE q == Quote(raw, eff, fee, after)
           bought == Bought(q)
           w == Entry(q)
<1>10. /\ q.out \in Nat /\ q.sell \in Balances /\ q.buy \in Balances
       /\ q.sell.liab = books[i].liab
       /\ books[i].slip <= q.sell.slip /\ q.sell.slip - books[i].slip <= amountIn
       /\ books[o].liab <= q.buy.liab /\ books[o].slip = q.buy.slip + q.out
  <2>1. BooksTypeOK
    BY DEF IInv
  <2>2. Quoted(i, o, amountIn, q)
    BY <1>1, <1>6, <1>9 DEF Quoted
  <2> HIDE DEF q, Quote
  <2> QED
    BY <2>1, <2>2, QuoteTyped
<1>11. /\ q.out >= minOut
       /\ books' = [books EXCEPT ![i] = q.sell, ![o] = bought]
       /\ swaps' = Append(swaps, w)
       /\ excuses' = IF q.out = 0 THEN [excuses EXCEPT ![i] = @ \cup {"blank"},
                                                   ![o] = @ \cup {"blank"}]
                                  ELSE excuses
  BY <1>4
<1> HIDE DEF Quote, q
<1>12. /\ bought \in Balances /\ bought.liab = q.buy.liab
       /\ bought.liab \in Nat /\ bought.slip \in Nat /\ books[o].slip = bought.slip + minOut
       /\ q.sell.liab \in Nat /\ q.sell.slip \in Nat
  <2>1. q.out - minOut \in Nat
    BY <1>1, <1>10, <1>11
  <2>2. /\ CreditTo(q.buy, q.out - minOut) \in Balances
        /\ CreditTo(q.buy, q.out - minOut).slip = q.buy.slip + (q.out - minOut)
        /\ CreditTo(q.buy, q.out - minOut).liab = q.buy.liab
    BY <1>10, <2>1, CreditTyped
  <2>3. q.buy.slip \in Nat /\ q.buy.liab \in Nat /\ q.sell.liab \in Nat /\ q.sell.slip \in Nat
    BY <1>10 DEF Balances
  <2>4. /\ bought \in Balances /\ bought.liab = q.buy.liab
        /\ bought.slip = q.buy.slip + (q.out - minOut)
    BY <2>2
  <2> HIDE DEF bought
  <2> QED
    BY <1>1, <1>10, <2>1, <2>3, <2>4
<1> HIDE DEF bought
<1>13. /\ books' \in [Coins -> Balances] /\ books'[i] = q.sell /\ books'[o] = bought
       /\ \A c \in Coins : c # i /\ c # o => books'[c] = books[c]
  BY <1>1, <1>10, <1>11, <1>12
<1>14. /\ held' \in [Coins -> Int] /\ held'[i] = held[i] + amountIn /\ held'[o] = held[o] - minOut
       /\ \A c \in Coins : c # i /\ c # o => held'[c] = held[c]
  BY <1>1, <1>5
<1>15. /\ excuses' \in [Coins -> SUBSET {"clipped", "overtaken", "blank"}]
       /\ \A c \in Coins : "clipped" \in excuses[c] => "clipped" \in excuses'[c]
  BY <1>1, <1>11
<1>16. /\ w.status = "pending" /\ w.sell = i /\ w.buy = o /\ w.in = amountIn /\ w.out = minOut
       /\ w.before.sell = books[i] /\ w.before.buy = books[o]
       /\ w.after.sell = q.sell /\ w.after.buy = bought
  BY DEF bought
<1>17. w \in PendingSwaps
  BY <1>1, <1>10, <1>12 DEF PendingSwaps, Pair, bought
<1> HIDE DEF w
<1>18. Shape(w)
  BY <1>1, <1>10, <1>12, <1>16 DEF Shape
<1>19. ASSUME NEW c \in Coins
       PROVE  /\ QueueOK(swaps') /\ IsFiniteSet(Units(FeesIn(swaps', c)))
              /\ Total(FeesIn(swaps', c)) = Total(FeesIn(swaps, c)) + FeeIn(w, c)
              /\ IsFiniteSet(Units(SlacksIn(swaps', c)))
              /\ Total(SlacksIn(swaps', c)) = Total(SlacksIn(swaps, c)) + SlackIn(w, c)
  <2>1. Joins(swaps, w, swaps') /\ Countable(swaps, c)
    BY <1>11, <1>17, <1>18 DEF IInv, CoinOK, Joins, Countable
  <2> QED
    BY <2>1, AppendSums
<1>20. QueueOK(swaps')
  BY <1>1, <1>19
<1>21. BooksTypeOK'
  BY <1>5, <1>13, <1>14, <1>15, <1>20 DEF IInv, BooksTypeOK, QueueOK
<1>22. ASSUME NEW c \in Coins PROVE CoinOK(c)' /\ PriceStep(c)
  <2>1. /\ books[c].liab \in Nat /\ books[c].slip \in Nat /\ held[c] \in Int
        /\ Total(FeesIn(swaps, c)) \in Nat /\ Total(SlacksIn(swaps, c)) \in Nat
        /\ Total(FeesIn(swaps, c)) <= books[c].liab
        /\ "clipped" \in excuses[c] \/ books[c].slip + Total(SlacksIn(swaps, c)) <= held[c]
        /\ IsFiniteSet(Units(lpShares[c])) /\ lpSupply[c] = Total(lpShares[c])
    BY <1>1, SumsTyped DEF IInv, CoinOK, Balances
  <2>2. /\ FeeIn(w, c) \in Nat /\ books'[c].liab = books[c].liab + FeeIn(w, c)
        /\ SlackIn(w, c) \in Nat /\ books'[c].slip \in Nat
        /\ books[c].slip - books'[c].slip + held'[c] - held[c] >= SlackIn(w, c)
    <3>1. CASE c = i
      BY <1>1, <1>10, <1>12, <1>13, <1>14, <1>16, <2>1, <3>1 DEF FeeIn, SlackIn
    <3>2. CASE c = o
      BY <1>1, <1>10, <1>12, <1>13, <1>14, <1>16, <2>1, <3>2 DEF FeeIn, SlackIn
    <3>3. CASE c # i /\ c # o
      BY <1>13, <1>14, <1>16, <2>1, <3>3 DEF FeeIn, SlackIn
    <3> QED
      BY <3>1, <3>2, <3>3
  <2>3. held'[c] \in Int
    BY <1>14
  <2>4. "clipped" \in excuses'[c] \/ books'[c].slip + Total(SlacksIn(swaps', c)) <= held'[c]
    <3>1. CASE "clipped" \in excuses[c]
      BY <1>15, <3>1
    <3>2. CASE books[c].slip + Total(SlacksIn(swaps, c)) <= held[c]
      BY <1>19, <2>1, <2>2, <2>3, <3>2
    <3> QED
      BY <2>1, <3>1, <3>2
  <2>5. Total(FeesIn(swaps', c)) \in Nat /\ Total(FeesIn(swaps', c)) <= books'[c].liab
    BY <1>19, <2>1, <2>2
  <2>6. CoinOK(c)'
    BY <1>5, <1>19, <2>1, <2>4, <2>5 DEF CoinOK
  <2>7. /\ books'[c].liab \in Nat
        /\ books[c].liab - Total(FeesIn(swaps, c)) <= books'[c].liab - Total(FeesIn(swaps', c))
    BY <1>19, <2>1, <2>2
  <2> QED
    BY <1>5, <2>5, <2>6, <2>7, SwapPrice
<1> QED
  BY <1>20, <1>21, <1>22 DEF IInv

\* A swap is settled, whichever way.
LEMMA SettledStep ==
    ASSUME IInv, NEW s \in Pending, NEW status \in {"confirmed", "failed"},
           swaps' = Settled(s, status), NEW c \in Coins
    PROVE  /\ QueueOK(swaps') /\ swaps[s] \in PendingSwaps /\ Shape(swaps[s])
           /\ IsFiniteSet(Units(FeesIn(swaps', c)))
           /\ FeeIn(swaps[s], c) \in Nat /\ FeeIn(swaps[s], c) <= Total(FeesIn(swaps, c))
           /\ Total(FeesIn(swaps', c)) = Total(FeesIn(swaps, c)) - FeeIn(swaps[s], c)
           /\ IsFiniteSet(Units(SlacksIn(swaps', c)))
           /\ SlackIn(swaps[s], c) \in Nat /\ SlackIn(swaps[s], c) <= Total(SlacksIn(swaps, c))
           /\ Total(SlacksIn(swaps', c)) = Total(SlacksIn(swaps, c)) - SlackIn(swaps[s], c)
<1> DEFINE w == [status |-> status, sell |-> swaps[s].sell, buy |-> swaps[s].buy]
<1>1. s \in DOMAIN swaps /\ swaps[s].status = "pending"
  BY DEF Pending
<1>2. /\ swaps[s].sell \in Coins /\ swaps[s].buy \in Coins
      /\ swaps[s] \in PendingSwaps /\ Shape(swaps[s])
  BY <1>1, EntryTyped DEF IInv
<1>3. w \in SettledSwaps
  BY <1>2 DEF SettledSwaps
<1>4. swaps' = [swaps EXCEPT ![s] = w]
  BY DEF Settled
<1> HIDE DEF w
<1>5. Settles(swaps, s, w, swaps') /\ Countable(swaps, c)
  BY <1>1, <1>3, <1>4 DEF IInv, CoinOK, Settles, Countable
<1> QED
  BY <1>2, <1>5, SettleSums

\* A swap is confirmed.
LEMMA ConfirmStep ==
    ASSUME IInv, NEW s \in DOMAIN swaps, SwapConfirmed(s)
    PROVE  IInv' /\ \A c \in Coins : PriceStep(c)
<1>1. /\ s \in Pending /\ swaps' = Settled(s, "confirmed") /\ books' = books
      /\ lpSupply' = lpSupply /\ lpShares' = lpShares /\ held' = held /\ excuses' = excuses
  BY DEF SwapConfirmed
<1>2. ASSUME NEW c \in Coins PROVE QueueOK(swaps') /\ CoinOK(c)' /\ PriceStep(c)
  <2>1. /\ QueueOK(swaps')
        /\ IsFiniteSet(Units(FeesIn(swaps', c)))
        /\ FeeIn(swaps[s], c) \in Nat /\ FeeIn(swaps[s], c) <= Total(FeesIn(swaps, c))
        /\ Total(FeesIn(swaps', c)) = Total(FeesIn(swaps, c)) - FeeIn(swaps[s], c)
        /\ IsFiniteSet(Units(SlacksIn(swaps', c)))
        /\ SlackIn(swaps[s], c) \in Nat /\ SlackIn(swaps[s], c) <= Total(SlacksIn(swaps, c))
        /\ Total(SlacksIn(swaps', c)) = Total(SlacksIn(swaps, c)) - SlackIn(swaps[s], c)
    BY <1>1, SettledStep
  <2>2. /\ books[c].liab \in Nat /\ books[c].slip \in Nat /\ held[c] \in Int
        /\ Total(FeesIn(swaps, c)) \in Nat /\ Total(SlacksIn(swaps, c)) \in Nat
        /\ Total(FeesIn(swaps, c)) <= books[c].liab
        /\ "clipped" \in excuses[c] \/ books[c].slip + Total(SlacksIn(swaps, c)) <= held[c]
    BY SumsTyped DEF IInv, CoinOK, BooksTypeOK, Balances
  <2>3. /\ Total(FeesIn(swaps', c)) \in Nat /\ Total(FeesIn(swaps', c)) <= books'[c].liab
        /\ books'[c].liab \in Nat
        /\ books[c].liab - Total(FeesIn(swaps, c)) <= books'[c].liab - Total(FeesIn(swaps', c))
    BY <1>1, <2>1, <2>2
  <2>4. "clipped" \in excuses'[c] \/ books'[c].slip + Total(SlacksIn(swaps', c)) <= held'[c]
    BY <1>1, <2>1, <2>2
  <2>5. CoinOK(c)'
    BY <1>1, <2>1, <2>3, <2>4 DEF IInv, CoinOK
  <2> QED
    BY <1>1, <2>1, <2>3, <2>5, SwapPrice
<1>3. QueueOK(swaps')
  <2>1. swaps[s].sell \in Coins
    BY <1>1, EntryTyped DEF IInv, Pending
  <2> QED
    BY <1>2, <2>1
<1>4. BooksTypeOK'
  BY <1>1, <1>3 DEF IInv, BooksTypeOK, QueueOK
<1> QED
  BY <1>2, <1>3, <1>4 DEF IInv

\* Undoing one number.
LEMMA RevertTyped ==
    ASSUME NEW n \in Nat, NEW x \in Nat, NEW y \in Nat
    PROVE  /\ Revert(n, x, y) \in Nat
           /\ y >= x /\ n >= y - x => Revert(n, x, y) = n - (y - x)
           /\ y <= x => Revert(n, x, y) = n + (x - y)
BY DEF Revert, Monus

\* Undoing the change of one pool.
LEMMA RevertBalancesTyped ==
    ASSUME NEW b \in Balances, NEW x \in Balances, NEW y \in Balances
    PROVE  /\ RevertBalances(b, x, y) \in Balances
           /\ RevertBalances(b, x, y).slip = Revert(b.slip, x.slip, y.slip)
           /\ RevertBalances(b, x, y).liab = Revert(b.liab, x.liab, y.liab)
<1>1. /\ b.reserve \in 0 .. Modulus - 1 /\ x.reserve \in 0 .. Modulus - 1
      /\ y.reserve \in 0 .. Modulus - 1
      /\ b.slip \in Nat /\ x.slip \in Nat /\ y.slip \in Nat
      /\ b.liab \in Nat /\ x.liab \in Nat /\ y.liab \in Nat
  BY DEF Balances
<1>2. RevertReserve(b.reserve, x.reserve, y.reserve) \in 0 .. Modulus - 1
  BY <1>1, PoolBooksAssumption DEF RevertReserve, Monus
<1>3. /\ Revert(b.slip, x.slip, y.slip) \in Nat /\ Revert(b.liab, x.liab, y.liab) \in Nat
  BY <1>1, RevertTyped
<1> QED
  BY <1>2, <1>3 DEF RevertBalances, Balances

\* A swap fails and is rolled back.
LEMMA FailStep ==
    ASSUME IInv, NEW s \in DOMAIN swaps, SwapFailed(s)
    PROVE  IInv' /\ \A c \in Coins : PriceStep(c)
<1> DEFINE w == swaps[s]
           i == w.sell
           o == w.buy
           Sold == RevertBalances(books[i], w.before.sell, w.after.sell)
           Bought == RevertBalances(books[o], w.before.buy, w.after.buy)
<1>1. /\ s \in Pending /\ swaps' = Settled(s, "failed")
      /\ lpSupply' = lpSupply /\ lpShares' = lpShares
  BY DEF SwapFailed
<1>2. w \in PendingSwaps /\ Shape(w) /\ i \in Coins /\ o \in Coins /\ w.status = "pending"
  BY <1>1, EntryTyped DEF IInv, Pending
<1>3. /\ i # o /\ w.in \in Nat /\ w.out \in Nat
      /\ w.before.sell \in Balances /\ w.before.buy \in Balances
      /\ w.after.sell \in Balances /\ w.after.buy \in Balances
  BY <1>2 DEF PendingSwaps, Pair, Shape
<1>4. /\ books \in [Coins -> Balances] /\ held \in [Coins -> Int]
      /\ excuses \in [Coins -> SUBSET {"clipped", "overtaken", "blank"}]
  BY DEF IInv, BooksTypeOK
<1>5. /\ books' = [books EXCEPT ![i] = Sold, ![o] = Bought]
      /\ held' = [held EXCEPT ![i] = held[i] - w.in, ![o] = held[o] + w.out]
  BY <1>2, <1>3, <1>4 DEF SwapFailed
<1>6. excuses' = [a \in Coins |->
                    excuses[a]
                      \cup (IF a = i /\ Clips(books[i], w.before.sell, w.after.sell)
                            THEN {"clipped"} ELSE {})
                      \cup (IF a \in {i, o} /\ Later(s, a) THEN {"overtaken"} ELSE {})]
  BY DEF SwapFailed
<1>7. /\ excuses' \in [Coins -> SUBSET {"clipped", "overtaken", "blank"}]
      /\ \A c \in Coins : "clipped" \in excuses[c] => "clipped" \in excuses'[c]
      /\ Clips(books[i], w.before.sell, w.after.sell) => "clipped" \in excuses'[i]
  BY <1>2, <1>4, <1>6
<1>8. /\ Sold \in Balances /\ Bought \in Balances
      /\ Sold.slip = Revert(books[i].slip, w.before.sell.slip, w.after.sell.slip)
      /\ Sold.liab = Revert(books[i].liab, w.before.sell.liab, w.after.sell.liab)
      /\ Bought.slip = Revert(books[o].slip, w.before.buy.slip, w.after.buy.slip)
      /\ Bought.liab = Revert(books[o].liab, w.before.buy.liab, w.after.buy.liab)
  <2>1. books[i] \in Balances /\ books[o] \in Balances
    BY <1>2, <1>4
  <2> HIDE DEF i, o, w
  <2>2. /\ Sold \in Balances
        /\ Sold.slip = Revert(books[i].slip, w.before.sell.slip, w.after.sell.slip)
        /\ Sold.liab = Revert(books[i].liab, w.before.sell.liab, w.after.sell.liab)
    BY <1>3, <2>1, RevertBalancesTyped
  <2>3. /\ Bought \in Balances
        /\ Bought.slip = Revert(books[o].slip, w.before.buy.slip, w.after.buy.slip)
        /\ Bought.liab = Revert(books[o].liab, w.before.buy.liab, w.after.buy.liab)
    BY <1>3, <2>1, RevertBalancesTyped
  <2> QED
    BY <2>2, <2>3
<1>9. /\ w.before.sell.slip \in Nat /\ w.after.sell.slip \in Nat
      /\ w.before.sell.liab \in Nat /\ w.after.sell.liab \in Nat
      /\ w.before.buy.slip \in Nat /\ w.after.buy.slip \in Nat
      /\ w.before.buy.liab \in Nat /\ w.after.buy.liab \in Nat
      /\ books[i].slip \in Nat /\ books[i].liab \in Nat
      /\ books[o].slip \in Nat /\ books[o].liab \in Nat
  BY <1>2, <1>3, <1>4 DEF Balances
<1> HIDE DEF Sold, Bought
<1>10. /\ books' \in [Coins -> Balances] /\ books'[i] = Sold /\ books'[o] = Bought
       /\ \A c \in Coins : c # i /\ c # o => books'[c] = books[c]
       /\ held' \in [Coins -> Int]
       /\ held'[i] = held[i] - w.in /\ held'[o] = held[o] + w.out
       /\ \A c \in Coins : c # i /\ c # o => held'[c] = held[c]
  BY <1>2, <1>3, <1>4, <1>5, <1>8
<1>11. ASSUME NEW c \in Coins
       PROVE  /\ QueueOK(swaps')
              /\ IsFiniteSet(Units(FeesIn(swaps', c)))
              /\ FeeIn(w, c) \in Nat /\ FeeIn(w, c) <= Total(FeesIn(swaps, c))
              /\ Total(FeesIn(swaps', c)) = Total(FeesIn(swaps, c)) - FeeIn(w, c)
              /\ IsFiniteSet(Units(SlacksIn(swaps', c)))
              /\ SlackIn(w, c) \in Nat /\ SlackIn(w, c) <= Total(SlacksIn(swaps, c))
              /\ Total(SlacksIn(swaps', c)) = Total(SlacksIn(swaps, c)) - SlackIn(w, c)
  BY <1>1, SettledStep
<1>12. QueueOK(swaps')
  BY <1>2, <1>11
<1>13. BooksTypeOK'
  BY <1>1, <1>7, <1>10, <1>12 DEF IInv, BooksTypeOK, QueueOK
<1>14. ASSUME NEW c \in Coins PROVE CoinOK(c)' /\ PriceStep(c)
  <2>1. /\ books[c].liab \in Nat /\ books[c].slip \in Nat /\ held[c] \in Int
        /\ Total(FeesIn(swaps, c)) \in Nat /\ Total(SlacksIn(swaps, c)) \in Nat
        /\ Total(FeesIn(swaps, c)) <= books[c].liab
        /\ "clipped" \in excuses[c] \/ books[c].slip + Total(SlacksIn(swaps, c)) <= held[c]
        /\ IsFiniteSet(Units(lpShares[c])) /\ lpSupply[c] = Total(lpShares[c])
    BY <1>4, SumsTyped DEF IInv, CoinOK, Balances
  <2>2. FeeIn(w, c) <= books[c].liab
    BY <1>11, <2>1
  <2>3. books'[c].liab = books[c].liab - FeeIn(w, c)
    <3>1. CASE c = i
      <4>1. FeeIn(w, c) = 0 /\ w.after.sell.liab = w.before.sell.liab
        BY <1>2, <1>3, <3>1 DEF FeeIn, Shape
      <4> QED
        BY <1>8, <1>9, <1>10, <2>1, <3>1, <4>1 DEF Revert, Monus
    <3>2. CASE c = o
      <4>1. FeeIn(w, c) = w.after.buy.liab - w.before.buy.liab
            /\ w.before.buy.liab <= w.after.buy.liab
        BY <1>2, <3>2 DEF FeeIn, Shape
      <4> QED
        BY <1>8, <1>9, <1>10, <2>1, <2>2, <3>2, <4>1 DEF Revert, Monus
    <3>3. CASE c # i /\ c # o
      BY <1>10, <2>1, <3>3 DEF FeeIn
    <3> QED
      BY <3>1, <3>2, <3>3
  <2>4. \/ "clipped" \in excuses'[c]
        \/ /\ books'[c].slip \in Nat /\ held'[c] \in Int
           /\ books'[c].slip - books[c].slip <= held'[c] - held[c] + SlackIn(w, c)
    <3>1. CASE c = i /\ ~Clips(books[i], w.before.sell, w.after.sell)
      <4>1. /\ SlackIn(w, c) = w.in - (w.after.sell.slip - w.before.sell.slip)
            /\ w.before.sell.slip <= w.after.sell.slip
            /\ books[i].slip >= w.after.sell.slip - w.before.sell.slip
        BY <1>2, <1>9, <3>1 DEF SlackIn, Shape, Clips
      <4>2. Sold.slip = books[i].slip - (w.after.sell.slip - w.before.sell.slip)
        BY <1>8, <1>9, <4>1 DEF Revert, Monus
      <4> QED
        BY <1>3, <1>4, <1>9, <1>10, <2>1, <3>1, <4>1, <4>2
    <3>2. CASE c = o
      <4>1. SlackIn(w, c) = 0 /\ w.before.buy.slip = w.after.buy.slip + w.out
        BY <1>2, <1>3, <3>2 DEF SlackIn, Shape
      <4>2. Bought.slip = books[o].slip + w.out
        <5>1. Bought.slip = Revert(books[o].slip, w.after.buy.slip + w.out, w.after.buy.slip)
          BY <1>8, <4>1
        <5>2. ASSUME NEW n \in Nat, NEW x \in Nat, NEW d \in Nat
              PROVE  Revert(n, x + d, x) = n + d
          BY DEF Revert, Monus
        <5>3. books[o].slip \in Nat /\ w.after.buy.slip \in Nat /\ w.out \in Nat
          BY <1>3, <1>9
        <5>4. Revert(books[o].slip, w.after.buy.slip + w.out, w.after.buy.slip)
                = books[o].slip + w.out
          <6> HIDE DEF w, o
          <6> QED
            BY <5>2, <5>3
        <5> QED
          BY <5>1, <5>4
      <4> QED
        BY <1>3, <1>4, <1>9, <1>10, <2>1, <3>2, <4>1, <4>2
    <3>3. CASE c # i /\ c # o
      BY <1>10, <2>1, <3>3 DEF SlackIn
    <3>4. CASE c = i /\ Clips(books[i], w.before.sell, w.after.sell)
      BY <1>7, <3>4
    <3> QED
      BY <3>1, <3>2, <3>3, <3>4
  <2>5. "clipped" \in excuses'[c] \/ books'[c].slip + Total(SlacksIn(swaps', c)) <= held'[c]
    <3>1. CASE "clipped" \in excuses[c]
      BY <1>7, <3>1
    <3>2. CASE books[c].slip + Total(SlacksIn(swaps, c)) <= held[c]
      BY <1>11, <2>1, <2>4, <3>2
    <3> QED
      BY <2>1, <3>1, <3>2
  <2>6. /\ Total(FeesIn(swaps', c)) \in Nat /\ Total(FeesIn(swaps', c)) <= books'[c].liab
        /\ books'[c].liab \in Nat
        /\ books[c].liab - Total(FeesIn(swaps, c)) <= books'[c].liab - Total(FeesIn(swaps', c))
    BY <1>11, <2>1, <2>2, <2>3
  <2>7. CoinOK(c)'
    BY <1>1, <1>11, <2>1, <2>5, <2>6 DEF CoinOK
  <2> QED
    BY <1>1, <2>6, <2>7, SwapPrice
<1> QED
  BY <1>12, <1>13, <1>14 DEF IInv

--------------------------------------------------------------------------------
\* The theorems.

\* The deployment's deposit satisfies the invariant.
LEMMA InitIInv == BooksInit => IInv
<1> SUFFICES ASSUME BooksInit PROVE IInv
  OBVIOUS
<1>1. Seed \in Nat /\ Wrap(Seed) \in 0 .. Modulus - 1 /\ House \in Lps
  BY PoolBooksAssumption, WrapType
<1>2. swaps = <<>> /\ DOMAIN swaps = {}
  BY DEF BooksInit
<1>3. QueueOK(swaps)
  BY <1>2 DEF QueueOK
<1>4. BooksTypeOK
  <2>1. /\ books \in [Coins -> Balances] /\ lpSupply \in [Coins -> Nat]
        /\ held \in [Coins -> Int]
        /\ excuses \in [Coins -> SUBSET {"clipped", "overtaken", "blank"}]
    BY <1>1 DEF BooksInit, Balances
  <2>2. lpShares \in [Coins -> [Lps -> Nat]]
    BY <1>1 DEF BooksInit
  <2> QED
    BY <1>3, <2>1, <2>2 DEF BooksTypeOK, QueueOK
<1>5. ASSUME NEW a \in Coins PROVE CoinOK(a)
  <2> DEFINE none == [p \in Lps |-> 0]
  <2>1. IsFiniteSet(Units(none)) /\ Total(none) = 0
    <3>1. none \in [Lps -> Nat] /\ \A p \in Lps : none[p] = 0
      OBVIOUS
    <3> HIDE DEF none
    <3> QED
      BY <3>1, TotalZero
  <2>2. /\ Differ(none, lpShares[a], Lps, House) /\ At(none, Lps, House) = 0
        /\ lpShares[a][House] = Seed
    <3>1. Lps \cup {House} = Lps
      BY <1>1
    <3>2. lpShares[a] = [p \in Lps |-> IF p = House THEN Seed ELSE 0]
      BY DEF BooksInit
    <3> QED
      BY <1>1, <2>1, <3>1, <3>2 DEF Differ, At
  <2> HIDE DEF none
  <2>3. /\ IsFiniteSet(Units(lpShares[a]))
        /\ Total(lpShares[a]) = Total(none) + lpShares[a][House] - At(none, Lps, House)
    BY <2>2, TotalChange
  <2>4. Total(lpShares[a]) = Seed
    BY <1>1, <2>1, <2>2, <2>3
  <2>5. /\ FeesIn(swaps, a) \in [{} -> Nat] /\ SlacksIn(swaps, a) \in [{} -> Nat]
    BY <1>2 DEF FeesIn, SlacksIn
  <2>6. /\ IsFiniteSet(Units(FeesIn(swaps, a))) /\ Total(FeesIn(swaps, a)) = 0
        /\ IsFiniteSet(Units(SlacksIn(swaps, a))) /\ Total(SlacksIn(swaps, a)) = 0
    BY <2>5, TotalZero
  <2>7. books[a].slip = Seed /\ books[a].liab = Seed /\ held[a] = Seed /\ lpSupply[a] = Seed
    BY DEF BooksInit
  <2> QED
    BY <1>1, <2>3, <2>4, <2>6, <2>7 DEF CoinOK
<1> QED
  BY <1>3, <1>4, <1>5 DEF IInv

\* Every step keeps the invariant and the price of a share.
LEMMA StepIInv == IInv /\ [BooksNext]_booksVars => IInv' /\ \A c \in Coins : PriceStep(c)
<1> SUFFICES ASSUME IInv, [BooksNext]_booksVars PROVE IInv' /\ \A c \in Coins : PriceStep(c)
  OBVIOUS
<1>1. ASSUME NEW a \in Coins, NEW p \in Lps, NEW n \in Deposits, DepositLp(a, p, n)
      PROVE  IInv' /\ \A c \in Coins : PriceStep(c)
  BY <1>1, DepositStep
<1>2. ASSUME NEW a \in Coins, NEW p \in Lps, NEW n \in Payouts, WithdrawLp(a, p, n)
      PROVE  IInv' /\ \A c \in Coins : PriceStep(c)
  BY <1>2, WithdrawStep
<1>3. ASSUME NEW i \in Coins, NEW o \in Coins, NEW n \in AmountsIn, NEW m \in MinOuts,
             QuoteSwap(i, o, n, m)
      PROVE  IInv' /\ \A c \in Coins : PriceStep(c)
  BY <1>3, QuoteStep
<1>4. ASSUME NEW s \in DOMAIN swaps, SwapConfirmed(s)
      PROVE  IInv' /\ \A c \in Coins : PriceStep(c)
  BY <1>4, ConfirmStep
<1>5. ASSUME NEW s \in DOMAIN swaps, SwapFailed(s)
      PROVE  IInv' /\ \A c \in Coins : PriceStep(c)
  BY <1>5, FailStep
<1>6. CASE UNCHANGED booksVars
  <2>1. /\ books' = books /\ lpSupply' = lpSupply /\ lpShares' = lpShares /\ swaps' = swaps
        /\ held' = held /\ excuses' = excuses
    BY <1>6 DEF booksVars
  <2>2. BooksTypeOK' /\ QueueOK(swaps)'
    BY <2>1 DEF IInv, BooksTypeOK, QueueOK
  <2>3. \A c \in Coins : CoinOK(c)' /\ PriceStep(c)
    BY <2>1, OtherCoin
  <2> QED
    BY <2>2, <2>3 DEF IInv
<1> QED
  BY <1>1, <1>2, <1>3, <1>4, <1>5, <1>6 DEF BooksNext

\* The books hold natural numbers and a reserve that fits a U256, whatever the
\* curve returns.
THEOREM BooksTyped == BooksSpec => []BooksTypeOK
<1>1. BooksInit => IInv
  BY InitIInv
<1>2. IInv /\ [BooksNext]_booksVars => IInv'
  BY StepIInv
<1>3. IInv => BooksTypeOK
  BY DEF IInv
<1> QED
  BY <1>1, <1>2, <1>3, PTL DEF BooksSpec

\* The books never claim more cash than the vault holds for a pool, unless a
\* rollback was clipped at zero.
THEOREM CashCovers == BooksSpec => []BooksWithinCash
<1>1. BooksInit => IInv
  BY InitIInv
<1>2. IInv /\ [BooksNext]_booksVars => IInv'
  BY StepIInv
<1>3. IInv => BooksWithinCash
  <2> SUFFICES ASSUME IInv, NEW a \in Coins
               PROVE  "clipped" \in excuses[a] \/ books[a].slip <= held[a]
    BY DEF BooksWithinCash
  <2>1. /\ Total(SlacksIn(swaps, a)) \in Nat /\ books[a].slip \in Nat /\ held[a] \in Int
        /\ "clipped" \in excuses[a] \/ books[a].slip + Total(SlacksIn(swaps, a)) <= held[a]
    BY SumsTyped DEF IInv, CoinOK, BooksTypeOK, Balances
  <2> QED
    BY <2>1
<1> QED
  BY <1>1, <1>2, <1>3, PTL DEF BooksSpec

\* The supply is the sum of the shares of the ledger.
THEOREM SupplyAddsUp == BooksSpec => []SupplyIsShares
<1>1. BooksInit => IInv
  BY InitIInv
<1>2. IInv /\ [BooksNext]_booksVars => IInv'
  BY StepIInv
<1>3. IInv => SupplyIsShares
  BY DEF IInv, CoinOK, SupplyIsShares
<1> QED
  BY <1>1, <1>2, <1>3, PTL DEF BooksSpec

\* No step lowers what a share is entitled to.
THEOREM PriceKeeps == BooksSpec => SharePriceNeverFalls
<1>1. BooksInit => IInv
  BY InitIInv
<1>2. IInv /\ [BooksNext]_booksVars => IInv'
  BY StepIInv
<1>3. IInv /\ [BooksNext]_booksVars
        => [\A a \in Coins : lpSupply'[a] > 0 =>
              SettledLiab(a)' * lpSupply[a] >= SettledLiab(a) * lpSupply'[a]]_booksVars
  BY StepIInv DEF PriceStep
<1> QED
  BY <1>1, <1>2, <1>3, PTL DEF BooksSpec, SharePriceNeverFalls

--------------------------------------------------------------------------------
\* The reserve and the reserve with slippage.

\* A rollback gives back what a quote found when no later swap of the pool stands,
\* so the invariant follows the pending swaps of a pool in the order of their
\* quotes: each was quoted on what the one before it left, and the last one's
\* result is what the books show.
Touches(w, a) == a \in {w.sell, w.buy}
Pre(w, a) == IF a = w.sell THEN w.before.sell ELSE w.before.buy
Post(w, a) == IF a = w.sell THEN w.after.sell ELSE w.after.buy
Stands(q, s, a) == q[s].status # "failed" /\ Touches(q[s], a)
Open(q, s, a) == q[s].status = "pending" /\ Touches(q[s], a)
Last(q, s, a) == \A r \in DOMAIN q : r > s => ~Stands(q, r, a)
Follows(q, r, s, a) == r < s /\ \A t \in DOMAIN q : r < t /\ t < s => ~Stands(q, t, a)
Covered(b) == b.reserve <= b.slip

Quotes(q, a) ==
  \A s \in DOMAIN q : Open(q, s, a) =>
    /\ Covered(Pre(q[s], a))
    /\ \A r \in DOMAIN q : Open(q, r, a) /\ Follows(q, r, s, a) => Pre(q[s], a) = Post(q[r], a)
Result(q, b, a) == \A s \in DOMAIN q : Open(q, s, a) /\ Last(q, s, a) => b = Post(q[s], a)
ChainOK(q, b, a) == Covered(b) /\ Quotes(q, a) /\ Result(q, b, a)
CoverInv == IInv /\ \A a \in Coins : excuses[a] = {} => ChainOK(swaps, books[a], a)

\* The swaps of a queue keep their pools when one of them is settled.
Renewed(q, x, w, r) ==
  /\ QueueOK(q) /\ x \in DOMAIN q /\ q[x].status = "pending"
  /\ w.status # "pending" /\ w.sell = q[x].sell /\ w.buy = q[x].buy
  /\ r = [q EXCEPT ![x] = w]

\* A swap is quoted on the books of one of its pools.
LEMMA ChainGrows ==
    ASSUME NEW q, QueueOK(q), NEW w, w.status = "pending", NEW b, NEW c, NEW a, Touches(w, a),
           ChainOK(q, b, a), Pre(w, a) = b, Post(w, a) = c, Covered(c)
    PROVE  ChainOK(Append(q, w), c, a)
<1> DEFINE r == Append(q, w)
           n == Len(q) + 1
<1>1. /\ DOMAIN r = DOMAIN q \cup {n} /\ r[n] = w /\ n \notin DOMAIN q /\ n \in Nat
      /\ \A s \in DOMAIN q : r[s] = q[s] /\ s \in Nat /\ s < n
  BY DEF QueueOK
<1> HIDE DEF r, n
<1>2. Stands(r, n, a) /\ \A s \in DOMAIN q : Stands(r, s, a) <=> Stands(q, s, a)
  BY <1>1 DEF Stands
<1>3. Open(r, n, a) /\ \A s \in DOMAIN q : Open(r, s, a) <=> Open(q, s, a)
  BY <1>1 DEF Open
<1>4. \A s \in DOMAIN q : ~Last(r, s, a)
  BY <1>1, <1>2 DEF Last
<1>5. \A s \in DOMAIN q : Follows(r, s, n, a) => Last(q, s, a)
  BY <1>1, <1>2 DEF Last, Follows
<1>6. \A s, t \in DOMAIN q : Follows(r, s, t, a) => Follows(q, s, t, a)
  BY <1>1, <1>2 DEF Follows
<1>7. Result(r, c, a)
  BY <1>1, <1>4 DEF Result
<1>8. Quotes(r, a)
  <2> SUFFICES ASSUME NEW s \in DOMAIN r, Open(r, s, a)
               PROVE  /\ Covered(Pre(r[s], a))
                      /\ \A t \in DOMAIN r : Open(r, t, a) /\ Follows(r, t, s, a)
                                               => Pre(r[s], a) = Post(r[t], a)
    BY DEF Quotes
  <2>1. CASE s = n
    <3>1. Covered(Pre(r[s], a)) /\ Pre(r[s], a) = b
      BY <1>1, <2>1 DEF ChainOK
    <3>2. ASSUME NEW t \in DOMAIN r, Open(r, t, a), Follows(r, t, s, a)
          PROVE  Pre(r[s], a) = Post(r[t], a)
      <4>1. t \in DOMAIN q
        BY <1>1, <2>1, <3>2 DEF Follows
      <4>2. Open(q, t, a) /\ Last(q, t, a) /\ r[t] = q[t]
        BY <1>1, <1>3, <1>5, <2>1, <3>2, <4>1
      <4> QED
        BY <3>1, <4>1, <4>2 DEF ChainOK, Result
    <3> QED
      BY <3>1, <3>2
  <2>2. CASE s # n
    <3>1. s \in DOMAIN q /\ r[s] = q[s] /\ Open(q, s, a)
      BY <1>1, <1>3, <2>2
    <3>2. ASSUME NEW t \in DOMAIN r, Open(r, t, a), Follows(r, t, s, a)
          PROVE  Pre(r[s], a) = Post(r[t], a)
      <4>1. t \in DOMAIN q
        BY <1>1, <3>1, <3>2 DEF Follows
      <4>2. Open(q, t, a) /\ Follows(q, t, s, a) /\ r[t] = q[t]
        BY <1>1, <1>3, <1>6, <3>1, <3>2, <4>1
      <4> QED
        BY <3>1, <4>1, <4>2 DEF ChainOK, Quotes
    <3>3. Covered(Pre(q[s], a))
      BY <3>1 DEF ChainOK, Quotes
    <3> QED
      BY <3>1, <3>2, <3>3
  <2> QED
    BY <2>1, <2>2
<1> QED
  BY <1>7, <1>8 DEF ChainOK, r

\* A swap between other pools is quoted.
LEMMA ChainApart ==
    ASSUME NEW q, QueueOK(q), NEW w, NEW b, NEW a, ~Touches(w, a), ChainOK(q, b, a)
    PROVE  ChainOK(Append(q, w), b, a)
<1> DEFINE r == Append(q, w)
           n == Len(q) + 1
<1>1. /\ DOMAIN r = DOMAIN q \cup {n} /\ r[n] = w /\ n \notin DOMAIN q /\ n \in Nat
      /\ \A s \in DOMAIN q : r[s] = q[s]
  BY DEF QueueOK
<1> HIDE DEF r, n
<1>2. \A s \in DOMAIN q : Stands(r, s, a) <=> Stands(q, s, a)
  BY <1>1 DEF Stands
<1>3. ~Open(r, n, a) /\ \A s \in DOMAIN q : Open(r, s, a) <=> Open(q, s, a)
  BY <1>1 DEF Open
<1>4. \A s \in DOMAIN q : Last(r, s, a) => Last(q, s, a)
  BY <1>1, <1>2 DEF Last
<1>5. \A s, t \in DOMAIN q : Follows(r, s, t, a) => Follows(q, s, t, a)
  BY <1>1, <1>2 DEF Follows
<1>6. \A s \in DOMAIN r : Open(r, s, a) => s \in DOMAIN q /\ Open(q, s, a) /\ r[s] = q[s]
  BY <1>1, <1>3
<1>7. Result(r, b, a)
  BY <1>4, <1>6 DEF Result, ChainOK
<1>8. Quotes(r, a)
  BY <1>5, <1>6 DEF Quotes, ChainOK
<1> QED
  BY <1>7, <1>8 DEF ChainOK, r

\* What settling a swap leaves of the others.
LEMMA RenewedParts ==
    ASSUME NEW q, NEW x, NEW w, NEW r, Renewed(q, x, w, r), NEW a
    PROVE  /\ DOMAIN r = DOMAIN q /\ x \in DOMAIN q /\ ~Open(r, x, a)
           /\ \A s \in DOMAIN q : s \in Nat
           /\ \A s \in DOMAIN q : s # x =>
                /\ r[s] = q[s] /\ Open(r, s, a) = Open(q, s, a)
                /\ Stands(r, s, a) = Stands(q, s, a)
           /\ w.status # "failed" => Stands(r, x, a) = Stands(q, x, a)
           /\ ~Touches(q[x], a) => Stands(r, x, a) = Stands(q, x, a)
           /\ w.status = "failed" => ~Stands(r, x, a)
<1>1. /\ DOMAIN r = DOMAIN q /\ r[x] = w /\ x \in DOMAIN q /\ q[x].status = "pending"
      /\ w.status # "pending" /\ w.sell = q[x].sell /\ w.buy = q[x].buy
      /\ \A s \in DOMAIN q : s # x => r[s] = q[s]
      /\ \A s \in DOMAIN q : s \in Nat
  BY DEF Renewed, QueueOK
<1>2. Touches(r[x], a) = Touches(q[x], a)
  BY <1>1 DEF Touches
<1> QED
  BY <1>1, <1>2 DEF Open, Stands

\* A swap is confirmed, or fails between other pools: what stands still stands.
LEMMA ChainKept ==
    ASSUME NEW q, NEW x, NEW w, NEW r, Renewed(q, x, w, r), NEW b, NEW a,
           w.status # "failed" \/ ~Touches(q[x], a), ChainOK(q, b, a)
    PROVE  ChainOK(r, b, a)
<1>1. /\ DOMAIN r = DOMAIN q
      /\ \A s \in DOMAIN q : Stands(r, s, a) = Stands(q, s, a)
      /\ \A s \in DOMAIN q : Open(r, s, a) => Open(q, s, a) /\ r[s] = q[s]
  BY RenewedParts
<1>2. \A s \in DOMAIN q : Last(r, s, a) => Last(q, s, a)
  BY <1>1 DEF Last
<1>3. \A s, t \in DOMAIN q : Follows(r, s, t, a) => Follows(q, s, t, a)
  BY <1>1 DEF Follows
<1>4. Result(r, b, a)
  BY <1>1, <1>2 DEF Result, ChainOK
<1>5. Quotes(r, a)
  BY <1>1, <1>3 DEF Quotes, ChainOK
<1> QED
  BY <1>4, <1>5 DEF ChainOK

\* The last swap of a pool fails and the books return to what it was quoted on.
LEMMA ChainBack ==
    ASSUME NEW q, NEW x, NEW w, NEW r, Renewed(q, x, w, r), NEW b, NEW a,
           w.status = "failed", Touches(q[x], a), Last(q, x, a), ChainOK(q, b, a)
    PROVE  ChainOK(r, Pre(q[x], a), a) /\ b = Post(q[x], a)
<1>1. /\ DOMAIN r = DOMAIN q /\ x \in DOMAIN q /\ ~Open(r, x, a) /\ ~Stands(r, x, a)
      /\ \A s \in DOMAIN q : s \in Nat
      /\ \A s \in DOMAIN q : s # x => r[s] = q[s] /\ Stands(r, s, a) = Stands(q, s, a)
      /\ \A s \in DOMAIN q : Open(r, s, a) => s # x /\ Open(q, s, a)
  BY RenewedParts
<1>2. Open(q, x, a)
  BY DEF Renewed, Open
<1>3. b = Post(q[x], a) /\ Covered(Pre(q[x], a))
  BY <1>1, <1>2 DEF ChainOK, Result, Quotes
<1>4. \A s \in DOMAIN q : Open(r, s, a) => s < x
  <2>1. \A s \in DOMAIN q : Open(q, s, a) => Stands(q, s, a)
    BY DEF Open, Stands
  <2> QED
    BY <1>1, <2>1 DEF Last
<1>5. \A s \in DOMAIN q : Open(r, s, a) /\ Last(r, s, a) => Follows(q, s, x, a)
  BY <1>1, <1>4 DEF Last, Follows
<1>6. \A s, t \in DOMAIN q : Open(r, t, a) /\ Follows(r, s, t, a) => Follows(q, s, t, a)
  BY <1>1, <1>4 DEF Follows
<1>7. Result(r, Pre(q[x], a), a)
  BY <1>1, <1>2, <1>5 DEF Result, Quotes, ChainOK
<1>8. Quotes(r, a)
  BY <1>1, <1>6 DEF Quotes, ChainOK
<1> QED
  BY <1>3, <1>7, <1>8 DEF ChainOK

\* With nothing pending only the books themselves matter.
LEMMA ChainEmpty ==
    ASSUME Pending = {}, NEW b, Covered(b), NEW a
    PROVE  ChainOK(swaps, b, a)
BY DEF Pending, ChainOK, Quotes, Result, Open

\* Undoing a change that is still the last one gives back what was there.
LEMMA RevertExact ==
    ASSUME NEW x \in Balances, NEW y \in Balances
    PROVE  RevertBalances(y, x, y) = x
<1>1. /\ x.reserve \in Nat /\ y.reserve \in Nat /\ x.slip \in Nat /\ y.slip \in Nat
      /\ x.liab \in Nat /\ y.liab \in Nat /\ x.reserve < Modulus
      /\ x = [reserve |-> x.reserve, slip |-> x.slip, liab |-> x.liab]
  BY PoolBooksAssumption DEF Balances
<1>2. ASSUME NEW m \in Nat, NEW n \in Nat
      PROVE  Revert(n, m, n) = m /\ (m < Modulus => RevertReserve(n, m, n) = m)
  BY PoolBooksAssumption DEF Revert, RevertReserve, Monus
<1>3. /\ RevertReserve(y.reserve, x.reserve, y.reserve) = x.reserve
      /\ Revert(y.slip, x.slip, y.slip) = x.slip /\ Revert(y.liab, x.liab, y.liab) = x.liab
  BY <1>1, <1>2
<1> QED
  BY <1>1, <1>3 DEF RevertBalances

\* Wrapping never makes a number larger.
LEMMA WrapLess ==
    ASSUME NEW n \in Nat
    PROVE  Wrap(n) \in Nat /\ Wrap(n) <= n
BY PoolBooksAssumption DEF Wrap

\* A deposit adds no more to the reserve than the curve leaves room for.
LEMMA DepositCovered ==
    ASSUME IInv, NEW a \in Coins, NEW p \in Lps, NEW amount \in Deposits, DepositLp(a, p, amount)
    PROVE  /\ Covered(books[a]) => Covered(books'[a])
           /\ \A c \in Coins : c # a => books'[c] = books[c]
<1>1. /\ books \in [Coins -> Balances] /\ books[a].slip \in Nat /\ books[a].reserve \in Nat
      /\ amount \in Nat
  BY PoolBooksAssumption DEF IInv, BooksTypeOK, Balances
<1>2. PICK t \in InverseOf(books[a].reserve, books[a].slip + amount, amount) :
        LET inc == IF t < amount THEN amount ELSE t
        IN  books' = [books EXCEPT ![a] = [reserve |-> Wrap(@.reserve + inc),
                                           slip |-> @.slip + amount, liab |-> @.liab + inc]]
  BY DEF DepositLp
<1> DEFINE inc == IF t < amount THEN amount ELSE t
<1>3. inc \in Nat /\ (Covered(books[a]) => books[a].reserve + inc <= books[a].slip + amount)
  BY <1>1 DEF Covered, InverseOf
<1> HIDE DEF inc
<1>4. books' = [books EXCEPT ![a] = [reserve |-> Wrap(books[a].reserve + inc),
                                     slip |-> books[a].slip + amount,
                                     liab |-> books[a].liab + inc]]
  BY <1>1, <1>2 DEF inc
<1>5. /\ books'[a].reserve = Wrap(books[a].reserve + inc)
      /\ books'[a].slip = books[a].slip + amount
  BY <1>1, <1>4
<1>6. Wrap(books[a].reserve + inc) \in Nat /\ Wrap(books[a].reserve + inc) <= books[a].reserve + inc
  <2>1. books[a].reserve + inc \in Nat
    BY <1>1, <1>3
  <2> QED
    BY <2>1, WrapLess
<1> QED
  BY <1>1, <1>3, <1>4, <1>5, <1>6 DEF Covered

\* A withdrawal that pays something leaves what the curve asks for.
LEMMA WithdrawCovered ==
    ASSUME IInv, NEW a \in Coins, NEW p \in Lps, NEW amount \in Payouts, WithdrawLp(a, p, amount)
    PROVE  Covered(books'[a]) /\ \A c \in Coins : c # a => books'[c] = books[c]
<1>1. /\ books \in [Coins -> Balances] /\ books[a].slip \in Nat /\ books[a].reserve \in Nat
      /\ books[a].liab \in Nat /\ amount \in Nat /\ amount >= 1
      /\ lpShares \in [Coins -> [Lps -> Nat]] /\ lpShares[a] \in [Lps -> Nat] /\ lpShares[a][p] \in Nat
      /\ lpSupply[a] \in Nat
  BY PoolBooksAssumption DEF IInv, BooksTypeOK, Balances
<1>2. PICK burnt \in 1 .. lpShares[a][p] :
       LET dec == (burnt * books[a].liab) \div lpSupply[a]
           reduced == Wrap(books[a].reserve - dec)
       IN  \E after \in PsiWithin(reduced, books[a].slip) :
             LET payout == IF books[a].slip - after > dec THEN dec ELSE books[a].slip - after
             IN  /\ payout >= amount
                 /\ books' = [books EXCEPT ![a] = [reserve |-> reduced, slip |-> @.slip - payout,
                                                   liab |-> @.liab - dec]]
  BY DEF WithdrawLp
<1> DEFINE dec == (burnt * books[a].liab) \div lpSupply[a]
           reduced == Wrap(books[a].reserve - dec)
<1>3. PICK after \in PsiWithin(reduced, books[a].slip) :
             LET payout == IF books[a].slip - after > dec THEN dec ELSE books[a].slip - after
             IN  /\ payout >= amount
                 /\ books' = [books EXCEPT ![a] = [reserve |-> reduced, slip |-> @.slip - payout,
                                                   liab |-> @.liab - dec]]
  BY <1>2
<1> DEFINE payout == IF books[a].slip - after > dec THEN dec ELSE books[a].slip - after
<1>4. dec \in Nat
  <2>1. lpShares[a][p] <= Total(lpShares[a]) /\ lpSupply[a] = Total(lpShares[a])
    BY <1>1, TotalBounds DEF IInv, CoinOK
  <2>2. burnt \in Nat /\ burnt <= lpSupply[a] /\ lpSupply[a] > 0
    BY <1>1, <2>1
  <2> QED
    BY <1>1, <2>2, ShareOf
<1> HIDE DEF dec
<1>5. reduced \in Nat
  BY <1>1, <1>4, WrapType
<1> HIDE DEF reduced
<1>6. payout >= amount
  BY <1>3
<1>7. books[a].slip - payout >= reduced
  BY <1>1, <1>3, <1>4, <1>5, <1>6 DEF PsiWithin
<1>8. books' = [books EXCEPT ![a] = [reserve |-> reduced, slip |-> books[a].slip - payout,
                                     liab |-> books[a].liab - dec]]
  BY <1>1, <1>3
<1> HIDE DEF payout
<1> QED
  BY <1>1, <1>7, <1>8 DEF Covered

\* The numbers of one pool.
LEMMA BookTyped ==
    ASSUME BooksTypeOK, NEW a \in Coins
    PROVE  books[a].slip \in Nat /\ books[a].reserve \in Nat /\ books[a].liab \in Nat
BY PoolBooksAssumption DEF BooksTypeOK, Balances

\* A quote that pays something: what both pools are left with is covered.
LEMMA QuoteCovered ==
    ASSUME BooksTypeOK, NEW i \in Coins, NEW o \in Coins, NEW amountIn \in Nat,
           NEW eff \in Nat, NEW raw \in Nat, NEW lpFee \in Nat, NEW after \in Nat, NEW minOut \in Nat,
           Covered(books[i]) => books[i].reserve + eff <= books[i].slip + amountIn,
           after \in PsiWithin(Wrap(Wrap(books[o].reserve - raw + FeesOf(raw)) + lpFee), books[o].slip),
           QuoteOf(i, o, amountIn, eff, raw, lpFee, after).out # 0,
           QuoteOf(i, o, amountIn, eff, raw, lpFee, after).out >= minOut
    PROVE  LET q == QuoteOf(i, o, amountIn, eff, raw, lpFee, after)
           IN  /\ Covered(books[i]) => Covered(q.sell)
               /\ Covered(CreditTo(q.buy, q.out - minOut))
<1> DEFINE q == QuoteOf(i, o, amountIn, eff, raw, lpFee, after)
           reduced == Wrap((books[o].reserve - raw) + FeesOf(raw))
           b == Wrap(reduced + lpFee)
<1>1. /\ books[i].slip \in Nat /\ books[i].reserve \in Nat /\ books[i].liab \in Nat
      /\ books[o].slip \in Nat /\ books[o].reserve \in Nat /\ books[o].liab \in Nat
  BY BookTyped
<1>2. FeesOf(raw) \in Nat
  BY FeesAmount
<1>3. reduced \in Nat
  BY <1>1, <1>2, WrapType
<1>4. Wrap(books[o].reserve - raw + FeesOf(raw)) = reduced
  BY <1>1, <1>2
<1> HIDE DEF reduced
<1>5. b \in Nat /\ after \in PsiWithin(b, books[o].slip)
  <2>1. reduced + lpFee \in Int
    BY <1>3
  <2> QED
    BY <1>4, <2>1, WrapType
<1>6. q.out # 0 /\ q.out >= minOut
  OBVIOUS
<1>7. ~(books[i].reserve + eff > 2 * books[i].liab)
  BY <1>6 DEF QuoteOf
<1>8. /\ q.out = books[o].slip - after
      /\ q.sell = [reserve |-> Wrap(books[i].reserve + eff), slip |-> books[i].slip + amountIn,
                   liab |-> books[i].liab]
      /\ q.buy = [reserve |-> b, slip |-> after, liab |-> books[o].liab + lpFee]
  BY <1>1, <1>4, <1>7 DEF QuoteOf
<1> HIDE DEF q, b
<1>9. Covered(books[i]) => Covered(q.sell)
  <2>1. books[i].reserve + eff \in Nat
    BY <1>1
  <2>2. Wrap(books[i].reserve + eff) \in Nat /\ Wrap(books[i].reserve + eff) <= books[i].reserve + eff
    BY <2>1, WrapLess
  <2> QED
    BY <1>1, <1>8, <2>2 DEF Covered
<1>10. Covered(CreditTo(q.buy, q.out - minOut))
  <2> DEFINE d == q.out - minOut
  <2>1. d \in Nat /\ b <= after
    BY <1>1, <1>5, <1>6, <1>8 DEF PsiWithin
  <2>2. q.buy.reserve = b /\ q.buy.slip = after
    BY <1>8
  <2> HIDE DEF d
  <2>3. b + d \in Nat
    BY <1>5, <2>1
  <2>4. Wrap(b + d) \in Nat /\ Wrap(b + d) <= b + d
    BY <2>3, WrapLess
  <2>5. /\ CreditTo(q.buy, d).reserve = Wrap(b + d)
        /\ CreditTo(q.buy, d).slip = after + d
    BY <2>2 DEF CreditTo
  <2>6. Wrap(b + d) <= after + d
    BY <1>5, <2>1, <2>4
  <2>7. Covered(CreditTo(q.buy, d))
    BY <2>5, <2>6 DEF Covered
  <2> QED
    BY <2>7 DEF d
<1> QED
  BY <1>9, <1>10 DEF q

\* A swap is quoted: both its pools grow their chain, or are marked.
LEMMA QuoteChain ==
    ASSUME IInv, NEW i \in Coins, NEW o \in Coins, NEW amountIn \in AmountsIn, NEW minOut \in MinOuts,
           QuoteSwap(i, o, amountIn, minOut), NEW a \in Coins, excuses'[a] = {},
           excuses[a] = {} => ChainOK(swaps, books[a], a)
    PROVE  ChainOK(swaps', books'[a], a)
<1> DEFINE Reduced(raw) == Wrap(books[o].reserve - raw + FeesOf(raw))
           MaxLpFee(raw) == (raw * LpFeeRate) \div FeePrecision
           LpFee(raw, fee) == IF fee > MaxLpFee(raw) THEN MaxLpFee(raw) ELSE fee
           Quote(raw, eff, fee, after) == QuoteOf(i, o, amountIn, eff, raw, LpFee(raw, fee), after)
           Bought(q) == CreditTo(q.buy, q.out - minOut)
           Entry(q) == [status |-> "pending", sell |-> i, buy |-> o, in |-> amountIn, out |-> minOut,
                        before |-> [sell |-> books[i], buy |-> books[o]],
                        after |-> [sell |-> q.sell, buy |-> Bought(q)]]
           Taken(q, n) == /\ n > 0 /\ q.out >= minOut
                          /\ books' = [books EXCEPT ![i] = q.sell, ![o] = Bought(q)]
                          /\ swaps' = Append(swaps, Entry(q))
                          /\ excuses' = IF q.out = 0
                                        THEN [excuses EXCEPT ![i] = @ \cup {"blank"},
                                                             ![o] = @ \cup {"blank"}]
                                        ELSE excuses
<1>1. /\ i # o /\ amountIn \in Nat /\ minOut \in Nat
      /\ books \in [Coins -> Balances]
      /\ books[i].slip \in Nat /\ books[i].liab \in Nat /\ books[i].reserve \in Nat
      /\ books[o].slip \in Nat /\ books[o].liab \in Nat /\ books[o].reserve \in Nat
      /\ excuses \in [Coins -> SUBSET {"clipped", "overtaken", "blank"}]
      /\ BooksTypeOK /\ QueueOK(swaps)
  <2>1. i # o
    BY DEF QuoteSwap
  <2>2. amountIn \in Nat /\ minOut \in Nat
    BY PoolBooksAssumption
  <2> QED
    BY <2>1, <2>2, BookTyped DEF IInv, BooksTypeOK
<1>2. PICK raw \in RawOuts,
           eff \in InverseOf(books[i].reserve, books[i].slip + amountIn, amountIn) :
      \E fee \in InverseOf(Reduced(raw), books[o].slip, MaxLpFee(raw)) :
      \E after \in PsiWithin(Wrap(Reduced(raw) + LpFee(raw, fee)), books[o].slip) :
        Taken(Quote(raw, eff, fee, after), after)
  BY Zenon DEF QuoteSwap
<1>3. PICK fee \in InverseOf(Reduced(raw), books[o].slip, MaxLpFee(raw)) :
      \E after \in PsiWithin(Wrap(Reduced(raw) + LpFee(raw, fee)), books[o].slip) :
        Taken(Quote(raw, eff, fee, after), after)
  BY <1>2
<1>4. PICK after \in PsiWithin(Wrap(Reduced(raw) + LpFee(raw, fee)), books[o].slip) :
        Taken(Quote(raw, eff, fee, after), after)
  BY <1>3
<1>5. /\ raw \in Nat /\ eff \in Nat /\ after \in Nat
      /\ Covered(books[i]) => books[i].reserve + eff <= books[i].slip + amountIn
  BY <1>1, PoolBooksAssumption DEF InverseOf, PsiWithin, Covered
<1>6. LpFee(raw, fee) \in Nat
  <2>1. raw * LpFeeRate \in Nat /\ FeePrecision \in Nat /\ FeePrecision > 0
    BY <1>5, PoolBooksAssumption
  <2>2. MaxLpFee(raw) \in Nat
    BY <2>1, DivFloor
  <2>3. FeesOf(raw) \in Nat
    BY <1>5, FeesAmount
  <2>4. books[o].reserve - raw + FeesOf(raw) \in Int
    BY <1>1, <1>5, <2>3
  <2>5. Reduced(raw) \in Nat
    BY <2>4, WrapType
  <2> HIDE DEF MaxLpFee, Reduced
  <2> QED
    BY <1>1, <2>2, <2>5 DEF InverseOf
<1> DEFINE q == Quote(raw, eff, fee, after)
           bought == Bought(q)
           w == Entry(q)
<1>7. Taken(q, after)
  BY <1>4
<1>8. q.out # 0 =>
        /\ Covered(books[i]) => Covered(q.sell)
        /\ Covered(bought)
  <2> HIDE DEF LpFee
  <2> QED
    BY <1>1, <1>5, <1>6, <1>7, QuoteCovered
<1> HIDE DEF Quote, q
<1>9. /\ books' = [books EXCEPT ![i] = q.sell, ![o] = bought] /\ swaps' = Append(swaps, w)
      /\ excuses' = IF q.out = 0 THEN [excuses EXCEPT ![i] = @ \cup {"blank"},
                                                  ![o] = @ \cup {"blank"}]
                                 ELSE excuses
  BY <1>7
<1> HIDE DEF Bought, Taken
<1>10. /\ w.status = "pending" /\ w.sell = i /\ w.buy = o
       /\ w.before.sell = books[i] /\ w.before.buy = books[o]
       /\ w.after.sell = q.sell /\ w.after.buy = bought
  OBVIOUS
<1> HIDE DEF w, bought
<1>11. /\ books'[i] = q.sell /\ books'[o] = bought
       /\ \A c \in Coins : c # i /\ c # o => books'[c] = books[c]
  BY <1>1, <1>9
<1>12. excuses[a] = {} /\ (a \in {i, o} => q.out # 0)
  <2>1. CASE q.out = 0
    BY <1>1, <1>9, <2>1
  <2>2. CASE q.out # 0
    BY <1>9, <2>2
  <2> QED
    BY <2>1, <2>2
<1>13. ChainOK(swaps, books[a], a) /\ Covered(books[a])
  BY <1>12 DEF ChainOK
<1>14. CASE a = i
  <2>1. Touches(w, a) /\ Pre(w, a) = books[a] /\ Post(w, a) = books'[a] /\ Covered(books'[a])
    BY <1>8, <1>10, <1>11, <1>12, <1>13, <1>14 DEF Touches, Pre, Post
  <2> QED
    BY <1>1, <1>9, <1>10, <1>13, <2>1, ChainGrows
<1>15. CASE a = o
  <2>1. Touches(w, a) /\ Pre(w, a) = books[a] /\ Post(w, a) = books'[a] /\ Covered(books'[a])
    BY <1>1, <1>8, <1>10, <1>11, <1>12, <1>13, <1>15 DEF Touches, Pre, Post
  <2> QED
    BY <1>1, <1>9, <1>10, <1>13, <2>1, ChainGrows
<1>16. CASE a # i /\ a # o
  <2>1. ~Touches(w, a) /\ books'[a] = books[a]
    BY <1>10, <1>11, <1>16 DEF Touches
  <2> QED
    BY <1>1, <1>9, <1>13, <2>1, ChainApart
<1> QED
  BY <1>14, <1>15, <1>16

\* A swap is settled and keeps its two pools.
LEMMA SettledRenews ==
    ASSUME IInv, NEW s \in Pending, NEW status \in {"confirmed", "failed"},
           swaps' = Settled(s, status)
    PROVE  \E w : Renewed(swaps, s, w, swaps') /\ w.status = status
<1> DEFINE w == [status |-> status, sell |-> swaps[s].sell, buy |-> swaps[s].buy]
<1>1. /\ w.status = status /\ w.sell = swaps[s].sell /\ w.buy = swaps[s].buy
      /\ swaps' = [swaps EXCEPT ![s] = w]
  BY DEF Settled
<1> HIDE DEF w
<1>2. s \in DOMAIN swaps /\ swaps[s].status = "pending" /\ QueueOK(swaps)
  BY DEF Pending, IInv
<1>3. Renewed(swaps, s, w, swaps')
  BY <1>1, <1>2 DEF Renewed
<1> QED
  BY <1>1, <1>3

\* A swap fails: its pools return to what it was quoted on, or are marked.
LEMMA FailChain ==
    ASSUME IInv, NEW s \in DOMAIN swaps, SwapFailed(s), NEW a \in Coins, excuses'[a] = {},
           excuses[a] = {} => ChainOK(swaps, books[a], a)
    PROVE  ChainOK(swaps', books'[a], a)
<1> DEFINE z == swaps[s]
           i == z.sell
           o == z.buy
<1>1. s \in Pending /\ swaps' = Settled(s, "failed")
  BY DEF SwapFailed
<1>2. z \in PendingSwaps /\ Shape(z) /\ i \in Coins /\ o \in Coins
  BY <1>1, EntryTyped DEF IInv, Pending
<1>3. /\ i # o /\ z.before.sell \in Balances /\ z.before.buy \in Balances
      /\ z.after.sell \in Balances /\ z.after.buy \in Balances
  BY <1>2 DEF PendingSwaps, Pair, Shape
<1>4. books \in [Coins -> Balances]
  BY DEF IInv, BooksTypeOK
<1>5. excuses[a] = {} /\ (a \in {i, o} => ~Later(s, a))
  BY DEF SwapFailed
<1>6. books' = [books EXCEPT ![i] = RevertBalances(books[i], z.before.sell, z.after.sell),
                             ![o] = RevertBalances(books[o], z.before.buy, z.after.buy)]
  BY <1>2, <1>3, <1>4 DEF SwapFailed
<1>7. /\ books'[i] = RevertBalances(books[i], z.before.sell, z.after.sell)
      /\ books'[o] = RevertBalances(books[o], z.before.buy, z.after.buy)
      /\ \A c \in Coins : c # i /\ c # o => books'[c] = books[c]
  BY <1>2, <1>3, <1>4, <1>6
<1>8. PICK w : Renewed(swaps, s, w, swaps') /\ w.status = "failed"
  BY <1>1, SettledRenews
<1>9. ChainOK(swaps, books[a], a)
  BY <1>5
<1>10. CASE Touches(z, a)
  <2>1. a \in {i, o}
    BY <1>10 DEF Touches
  <2>2. Last(swaps, s, a)
    BY <1>5, <2>1 DEF Later, Last, Stands, Touches
  <2>3. ChainOK(swaps', Pre(z, a), a) /\ books[a] = Post(z, a)
    BY <1>8, <1>9, <1>10, <2>2, ChainBack
  <2>4. books'[a] = RevertBalances(books[a], Pre(z, a), Post(z, a))
    BY <1>3, <1>7, <2>1 DEF Pre, Post
  <2>5. Pre(z, a) \in Balances /\ Post(z, a) \in Balances
    BY <1>3, <2>1 DEF Pre, Post
  <2>6. books'[a] = Pre(z, a)
    BY <2>3, <2>4, <2>5, RevertExact
  <2> QED
    BY <2>3, <2>6
<1>11. CASE ~Touches(z, a)
  <2>1. books'[a] = books[a]
    BY <1>7, <1>11 DEF Touches
  <2> QED
    BY <1>8, <1>9, <1>11, <2>1, ChainKept
<1> QED
  BY <1>10, <1>11

\* Every step keeps the chains of the pools that are not marked.
LEMMA StepCover == CoverInv /\ [BooksNext]_booksVars => CoverInv'
<1> SUFFICES ASSUME CoverInv, [BooksNext]_booksVars PROVE CoverInv'
  OBVIOUS
<1>1. IInv /\ IInv'
  BY StepIInv DEF CoverInv
<1>2. SUFFICES ASSUME NEW c \in Coins, excuses'[c] = {}
               PROVE  ChainOK(swaps', books'[c], c)
  BY <1>1 DEF CoverInv
<1>3. excuses[c] = {} => ChainOK(swaps, books[c], c) /\ Covered(books[c])
  BY DEF CoverInv, ChainOK
<1>4. ASSUME NEW a \in Coins, NEW p \in Lps, NEW n \in Deposits, DepositLp(a, p, n)
      PROVE  ChainOK(swaps', books'[c], c)
  <2>1. swaps' = swaps /\ excuses' = excuses /\ Pending = {}
    BY <1>4 DEF DepositLp
  <2>2. Covered(books'[c])
    BY <1>1, <1>2, <1>3, <1>4, <2>1, DepositCovered
  <2> QED
    BY <2>1, <2>2, ChainEmpty
<1>5. ASSUME NEW a \in Coins, NEW p \in Lps, NEW n \in Payouts, WithdrawLp(a, p, n)
      PROVE  ChainOK(swaps', books'[c], c)
  <2>1. swaps' = swaps /\ excuses' = excuses /\ Pending = {}
    BY <1>5 DEF WithdrawLp
  <2>2. Covered(books'[c])
    BY <1>1, <1>2, <1>3, <1>5, <2>1, WithdrawCovered
  <2> QED
    BY <2>1, <2>2, ChainEmpty
<1>6. ASSUME NEW i \in Coins, NEW o \in Coins, NEW n \in AmountsIn, NEW m \in MinOuts,
             QuoteSwap(i, o, n, m)
      PROVE  ChainOK(swaps', books'[c], c)
  BY <1>1, <1>2, <1>3, <1>6, QuoteChain
<1>7. ASSUME NEW s \in DOMAIN swaps, SwapConfirmed(s) PROVE ChainOK(swaps', books'[c], c)
  <2>1. s \in Pending /\ swaps' = Settled(s, "confirmed") /\ books' = books /\ excuses' = excuses
    BY <1>7 DEF SwapConfirmed
  <2>2. PICK w : Renewed(swaps, s, w, swaps') /\ w.status = "confirmed"
    BY <1>1, <2>1, SettledRenews
  <2> QED
    BY <1>2, <1>3, <2>1, <2>2, ChainKept
<1>8. ASSUME NEW s \in DOMAIN swaps, SwapFailed(s) PROVE ChainOK(swaps', books'[c], c)
  BY <1>1, <1>2, <1>3, <1>8, FailChain
<1>9. CASE UNCHANGED booksVars
  BY <1>2, <1>3, <1>9 DEF booksVars
<1> QED
  BY <1>4, <1>5, <1>6, <1>7, <1>8, <1>9 DEF BooksNext

\* The reserve of a pool is covered by its reserve with slippage, whatever the
\* curve returns, until a swap with nothing out, a clipped rollback or a rollback
\* behind a later swap touches the pool.
THEOREM ReserveStaysCovered == BooksSpec => []ReserveCovered
<1>1. BooksInit => CoverInv
  <2> SUFFICES ASSUME BooksInit, NEW a \in Coins PROVE IInv /\ ChainOK(swaps, books[a], a)
    BY InitIInv DEF CoverInv
  <2>1. Pending = {}
    BY DEF BooksInit, Pending
  <2>2. books[a].reserve = Wrap(Seed) /\ books[a].slip = Seed
    BY DEF BooksInit
  <2>3. Covered(books[a])
    BY <2>2, PoolBooksAssumption, WrapLess DEF Covered
  <2> QED
    BY <2>1, <2>3, InitIInv, ChainEmpty
<1>2. CoverInv /\ [BooksNext]_booksVars => CoverInv'
  BY StepCover
<1>3. CoverInv => ReserveCovered
  BY DEF CoverInv, ReserveCovered, ChainOK, Covered
<1> QED
  BY <1>1, <1>2, <1>3, PTL DEF BooksSpec
================================================================================
