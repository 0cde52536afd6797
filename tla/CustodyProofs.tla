---------------------------- MODULE CustodyProofs ----------------------------
(***************************************************************************)
(* Proofs about Custody for any users, assets, pools, liquidity providers, *)
(* capacities and amounts.                                                 *)
(*                                                                         *)
(* NoOverdraft is not inductive by itself.  A swap reads the counters of   *)
(* the slot its key resolves to, so it needs that slots do not alias and   *)
(* that a slot allocated by the swap itself reads as zero; a registration  *)
(* points the redeem checks at a shard, so it needs that an unregistered   *)
(* user has no cells and no redeems.                                       *)
(***************************************************************************)
EXTENDS Custody, SharedLemmas

\* Slots that were never allocated hold zero.
FreshSlotsZero ==
    \A p \in Pools : \A s \in Slots :
        s > nextCell[p] => bought[p][s] = 0 /\ sold[p][s] = 0

\* The key and the pool of a user are stored together, and a bound pool is
\* authorized.
Registration ==
    \A u \in Users :
        /\ pubkey[u] = NoKey <=> userPool[u] = NoPool
        /\ userPool[u] \in authorized \cup {NoPool}

\* The inductive invariant.
IInv ==
    /\ TypeOK
    /\ Registration
    /\ PlacementCountsExact
    /\ CellsDoNotAlias
    /\ FreshSlotsZero
    /\ CellsFollowPlacement
    /\ NoOverdraft
    /\ LpPaidWithinEntitlement

----------------------------------------------------------------------------
\* Allocating a cell for one key keeps the allocation well formed, leaves the
\* other keys alone and gives the key a slot: its own, or the next fresh one.
LEMMA Allocation ==
    ASSUME NEW next \in 0 .. MaxPoolCells,
           NEW index \in [Keys -> {NoCell} \cup Slots],
           WellAllocated(next, index),
           NEW k \in Keys,
           CanAllocate(next, index, k)
    PROVE  /\ NextAfter(next, index, k) \in 0 .. MaxPoolCells
           /\ NextAfter(next, index, k) >= next
           /\ IndexAfter(next, index, k) \in [Keys -> {NoCell} \cup Slots]
           /\ WellAllocated(NextAfter(next, index, k), IndexAfter(next, index, k))
           /\ IndexAfter(next, index, k)[k] \in Slots
           /\ IndexAfter(next, index, k)[k] =
                 IF index[k] = NoCell THEN next + 1 ELSE index[k]
           /\ \A j \in Keys : j # k => IndexAfter(next, index, k)[j] = index[j]
<1>1. CASE index[k] # NoCell
  <2>1. NextAfter(next, index, k) = next /\ IndexAfter(next, index, k) = index
    BY <1>1 DEF NextAfter, IndexAfter
  <2> QED
    BY <1>1, <2>1
<1>2. CASE index[k] = NoCell
  <2> DEFINE index2 == [index EXCEPT ![k] = next + 1]
  <2>1. NextAfter(next, index, k) = next + 1 /\ IndexAfter(next, index, k) = index2
    BY <1>2 DEF NextAfter, IndexAfter
  <2>2. next + 1 \in Slots /\ next + 1 # NoCell
    BY <1>2, MaxPoolCellsAssumption DEF CanAllocate, Slots, NoCell
  <2>3. index2 \in [Keys -> {NoCell} \cup Slots]
    BY <2>2
  <2>4. /\ index2[k] = next + 1
        /\ \A j \in Keys : j # k => index2[j] = index[j]
    OBVIOUS
  <2>5. \A j \in Keys : index[j] # next + 1
    <3> SUFFICES ASSUME NEW j \in Keys, index[j] = next + 1 PROVE FALSE
      OBVIOUS
    <3>1. index[j] \in 1 .. next
      BY <2>2 DEF WellAllocated
    <3> QED
      BY <3>1
  <2>6. \A k1, k2 \in Keys : index2[k1] = index2[k2] => k1 = k2 \/ index2[k1] = NoCell
    BY <2>4, <2>5 DEF WellAllocated
  <2>7. {index2[j] : j \in Keys} \ {NoCell} = 1 .. (next + 1)
    <3>1. ASSUME NEW x \in {index2[j] : j \in Keys} \ {NoCell} PROVE x \in 1 .. (next + 1)
      <4>1. PICK j \in Keys : x = index2[j]
        OBVIOUS
      <4>2. CASE j = k
        BY <4>1, <4>2, <2>4
      <4>3. CASE j # k
        <5>1. x \in 1 .. next
          BY <4>1, <4>3, <2>4 DEF WellAllocated
        <5> QED
          BY <5>1
      <4> QED
        BY <4>2, <4>3
    <3>2. ASSUME NEW x \in 1 .. (next + 1) PROVE x \in {index2[j] : j \in Keys} \ {NoCell}
      <4>1. CASE x = next + 1
        BY <4>1, <2>2, <2>4
      <4>2. CASE x # next + 1
        <5>1. x \in 1 .. next
          BY <4>2
        <5>2. x \in {index[j] : j \in Keys} \ {NoCell}
          BY <5>1 DEF WellAllocated
        <5>3. PICK j \in Keys : x = index[j]
          BY <5>2
        <5>4. j # k
          BY <5>2, <5>3, <1>2
        <5> QED
          BY <5>2, <5>3, <5>4, <2>4
      <4> QED
        BY <4>1, <4>2
    <3> QED
      BY <3>1, <3>2
  <2>8. WellAllocated(next + 1, index2)
    BY <2>6, <2>7 DEF WellAllocated
  <2>9. next + 1 \in 0 .. MaxPoolCells
    BY <2>2, MaxPoolCellsAssumption DEF Slots
  <2> QED
    BY <1>2, <2>1, <2>2, <2>3, <2>4, <2>8, <2>9
<1> QED
  BY <1>1, <1>2

\* A slot in use is at most next.
LEMMA SlotsInUse ==
    ASSUME NEW next \in Nat, NEW index, WellAllocated(next, index), NEW k \in Keys,
           index[k] # NoCell
    PROVE  index[k] \in 1 .. next
BY DEF WellAllocated

----------------------------------------------------------------------------
\* What a swap does to the cells, key by key, over all shards.
LEMMA SwapCells ==
    ASSUME IInv,
           NEW p \in Pools, NEW u \in Users, NEW sell \in Assets, NEW buy \in Assets,
           NEW sellAmount \in Amounts, NEW buyAmount \in Amounts, NEW nonce \in Nonces,
           Swap(p, u, sell, sellAmount, buy, buyAmount, nonce)
    PROVE  /\ PoolTypeOK'
           /\ CellsDoNotAlias'
           /\ FreshSlotsZero'
           /\ CellsFollowPlacement'
           /\ Available(CellBought(p, <<u, sell>>), CellSold(p, <<u, sell>>), funding[<<u, sell>>],
                        redeemed[<<u, sell>>], Pending(<<u, sell>>)) >= sellAmount
           /\ \A k \in Keys :
                 /\ CellSold(p, k)' = CellSold(p, k) + (IF k = <<u, sell>> THEN sellAmount ELSE 0)
                 /\ CellBought(p, k)' = CellBought(p, k) + (IF k = <<u, buy>> THEN buyAmount ELSE 0)
<1> DEFINE sellKey == <<u, sell>>
           buyKey == <<u, buy>>
           next0 == nextCell[p]
           index0 == cellIndex[p]
           next1 == NextAfter(next0, index0, sellKey)
           index1 == IndexAfter(next0, index0, sellKey)
           next2 == NextAfter(next1, index1, buyKey)
           index2 == IndexAfter(next1, index1, buyKey)
           sellSlot == index2[sellKey]
           buySlot == index2[buyKey]
<1>1. /\ PoolTypeOK /\ sellKey \in Keys /\ buyKey \in Keys
      /\ sellAmount \in Nat /\ buyAmount \in Nat
      /\ p = userPool[u]
  BY AmountsAssumption, MaxFeltAssumption DEF IInv, TypeOK, Keys, Swap, Routed
<1>2. /\ next0 \in 0 .. MaxPoolCells
      /\ index0 \in [Keys -> {NoCell} \cup Slots]
      /\ WellAllocated(next0, index0)
  BY <1>1 DEF PoolTypeOK, IInv, CellsDoNotAlias
<1>3a. /\ CanAllocate(next0, index0, sellKey)
       /\ CanAllocate(next1, index1, buyKey)
  BY DEF Swap, ExecuteSwap
<1>3. /\ PrepareVerdict(nonceWindow[p][u], nonce) = "accepted"
      /\ Available(bought[p][sellSlot], sold[p][sellSlot], funding[sellKey], redeemed[sellKey],
                   Pending(sellKey)) >= sellAmount
      /\ sold[p][sellSlot] + sellAmount <= MaxFelt
      /\ bought[p][buySlot] + buyAmount <= MaxFelt
      /\ nextCell' = [nextCell EXCEPT ![p] = next2]
      /\ cellIndex' = [cellIndex EXCEPT ![p] = index2]
      /\ sold' = [sold EXCEPT ![p][sellSlot] = @ + sellAmount]
      /\ bought' = [bought EXCEPT ![p][buySlot] = @ + buyAmount]
      /\ nonceWindow' = [nonceWindow EXCEPT ![p][u] = Prepared(@, nonce)]
  BY DEF Swap, ExecuteSwap
<1>4. /\ next1 \in 0 .. MaxPoolCells /\ next1 >= next0
      /\ index1 \in [Keys -> {NoCell} \cup Slots]
      /\ WellAllocated(next1, index1)
      /\ index1[sellKey] \in Slots
      /\ index1[sellKey] = IF index0[sellKey] = NoCell THEN next0 + 1 ELSE index0[sellKey]
      /\ \A j \in Keys : j # sellKey => index1[j] = index0[j]
  BY <1>1, <1>2, <1>3a, Allocation
<1>5. /\ next2 \in 0 .. MaxPoolCells /\ next2 >= next1
      /\ index2 \in [Keys -> {NoCell} \cup Slots]
      /\ WellAllocated(next2, index2)
      /\ buySlot \in Slots
      /\ buySlot = IF index1[buyKey] = NoCell THEN next1 + 1 ELSE index1[buyKey]
      /\ \A j \in Keys : j # buyKey => index2[j] = index1[j]
  BY <1>1, <1>3a, <1>4, Allocation
<1> HIDE DEF next1, index1, next2, index2
<1>6. sellSlot = index1[sellKey] /\ sellSlot \in Slots
  <2>1. CASE sellKey = buyKey
    BY <2>1, <1>4, <1>5 DEF Slots, NoCell
  <2>2. CASE sellKey # buyKey
    BY <2>2, <1>1, <1>4, <1>5
  <2> QED
    BY <2>1, <2>2
<1>7. \A k \in Keys : /\ index0[k] # NoCell => index2[k] = index0[k]
                      /\ index0[k] = NoCell /\ index2[k] # NoCell =>
                            index2[k] > next0 /\ (k = sellKey \/ k = buyKey)
  BY <1>1, <1>2, <1>4, <1>5, <1>6 DEF NoCell
<1>8. \A k \in Keys : index2[k] # NoCell =>
          /\ index2[k] \in Slots
          /\ CellSold(p, k) = sold[p][index2[k]]
          /\ CellBought(p, k) = bought[p][index2[k]]
  <2> SUFFICES ASSUME NEW k \in Keys, index2[k] # NoCell
               PROVE  /\ index2[k] \in Slots
                      /\ CellSold(p, k) = sold[p][index2[k]]
                      /\ CellBought(p, k) = bought[p][index2[k]]
    OBVIOUS
  <2>1. index2[k] \in Slots
    BY <1>5
  <2>2. CASE index0[k] # NoCell
    BY <2>1, <2>2, <1>7 DEF CellSold, CellBought
  <2>3. CASE index0[k] = NoCell
    <3>1. sold[p][index2[k]] = 0 /\ bought[p][index2[k]] = 0
      BY <2>1, <2>3, <1>7 DEF IInv, FreshSlotsZero
    <3> QED
      BY <2>1, <2>3, <3>1 DEF CellSold, CellBought
  <2> QED
    BY <2>2, <2>3
<1>9. Available(CellBought(p, sellKey), CellSold(p, sellKey), funding[sellKey],
                redeemed[sellKey], Pending(sellKey)) >= sellAmount
  <2>1. CellSold(p, sellKey) = sold[p][sellSlot] /\ CellBought(p, sellKey) = bought[p][sellSlot]
    BY <1>1, <1>6, <1>8 DEF Slots, NoCell
  <2> QED
    BY <2>1, <1>3
<1>10. /\ nextCell'[p] = next2 /\ cellIndex'[p] = index2
       /\ sold'[p] = [sold[p] EXCEPT ![sellSlot] = @ + sellAmount]
       /\ bought'[p] = [bought[p] EXCEPT ![buySlot] = @ + buyAmount]
       /\ \A q \in Pools : q # p => /\ nextCell'[q] = nextCell[q]
                                    /\ cellIndex'[q] = cellIndex[q]
                                    /\ sold'[q] = sold[q]
                                    /\ bought'[q] = bought[q]
  BY <1>1, <1>3 DEF PoolTypeOK
<1>11. PoolTypeOK'
  <2>1. nextCell' \in [Pools -> 0 .. MaxPoolCells]
    BY <1>1, <1>3, <1>5 DEF PoolTypeOK
  <2>2. cellIndex' \in [Pools -> [Keys -> {NoCell} \cup Slots]]
    BY <1>1, <1>3, <1>5 DEF PoolTypeOK
  <2>3. sold' \in [Pools -> [Slots -> Felt]]
    <3>0. sold[p] \in [Slots -> Felt]
      BY <1>1 DEF PoolTypeOK
    <3>1. sold[p][sellSlot] + sellAmount \in Felt
      BY <3>0, <1>1, <1>3, <1>6, MaxFeltAssumption DEF Felt
    <3> QED
      BY <3>0, <3>1, <1>1, <1>3 DEF PoolTypeOK
  <2>4. bought' \in [Pools -> [Slots -> Felt]]
    <3>0. bought[p] \in [Slots -> Felt]
      BY <1>1 DEF PoolTypeOK
    <3>1. bought[p][buySlot] + buyAmount \in Felt
      BY <3>0, <1>1, <1>3, <1>5, MaxFeltAssumption DEF Felt
    <3> QED
      BY <3>0, <3>1, <1>1, <1>3 DEF PoolTypeOK
  <2>5. nonceWindow' \in [Pools -> [Users -> Windows]]
    <3>1. nonceWindow[p][u] \in Windows
      BY <1>1 DEF PoolTypeOK
    <3>2. Prepared(nonceWindow[p][u], nonce) \in Windows
      BY <3>1, <1>3, PreparedType
    <3> QED
      BY <3>2, <1>1, <1>3 DEF PoolTypeOK
  <2> QED
    BY <2>1, <2>2, <2>3, <2>4, <2>5 DEF PoolTypeOK
<1>12. CellsDoNotAlias'
  <2> SUFFICES ASSUME NEW q \in Pools PROVE WellAllocated(nextCell'[q], cellIndex'[q])
    BY DEF CellsDoNotAlias, WellAllocated
  <2>1. CASE q = p
    BY <2>1, <1>5, <1>10
  <2>2. CASE q # p
    BY <2>2, <1>10 DEF IInv, CellsDoNotAlias
  <2> QED
    BY <2>1, <2>2
<1>13. FreshSlotsZero'
  <2> SUFFICES ASSUME NEW q \in Pools, NEW s \in Slots, s > nextCell'[q]
               PROVE  bought'[q][s] = 0 /\ sold'[q][s] = 0
    BY DEF FreshSlotsZero
  <2>1. CASE q = p
    <3>1. s > next2 /\ s > next0
      BY <2>1, <1>2, <1>4, <1>5, <1>10 DEF Slots
    <3>2. sellSlot \in 1 .. next2 /\ buySlot \in 1 .. next2
      BY <1>1, <1>5, <1>6, SlotsInUse DEF Slots, NoCell
    <3>3. s # sellSlot /\ s # buySlot
      BY <3>1, <3>2, <1>5 DEF Slots
    <3>4. bought[p][s] = 0 /\ sold[p][s] = 0
      BY <3>1 DEF IInv, FreshSlotsZero
    <3>5. sold[p] \in [Slots -> Felt] /\ bought[p] \in [Slots -> Felt]
      BY <1>1 DEF PoolTypeOK
    <3> QED
      BY <2>1, <3>3, <3>4, <3>5, <1>10
  <2>2. CASE q # p
    BY <2>2, <1>10 DEF IInv, FreshSlotsZero
  <2> QED
    BY <2>1, <2>2
<1>14. CellsFollowPlacement'
  <2> SUFFICES ASSUME NEW q \in Pools, NEW k \in Keys, cellIndex'[q][k] # NoCell
               PROVE  userPool'[k[1]] = q
    BY DEF CellsFollowPlacement
  <2>0. userPool' = userPool
    BY DEF Swap, vaultVars, placementVars
  <2>1. CASE q # p
    BY <2>0, <2>1, <1>10 DEF IInv, CellsFollowPlacement
  <2>2. CASE q = p /\ index0[k] # NoCell
    BY <2>0, <2>2, <1>10 DEF IInv, CellsFollowPlacement
  <2>3. CASE q = p /\ index0[k] = NoCell
    <3>1. k = sellKey \/ k = buyKey
      BY <2>3, <1>7, <1>10
    <3> QED
      BY <2>0, <2>3, <3>1, <1>1
  <2> QED
    BY <2>1, <2>2, <2>3
<1>15. ASSUME NEW k \in Keys
       PROVE  /\ CellSold(p, k)' = CellSold(p, k) + (IF k = sellKey THEN sellAmount ELSE 0)
              /\ CellBought(p, k)' = CellBought(p, k) + (IF k = buyKey THEN buyAmount ELSE 0)
  <2>1. sold[p] \in [Slots -> Nat] /\ bought[p] \in [Slots -> Nat]
    BY <1>1, MaxFeltAssumption DEF PoolTypeOK, Felt
  <2>2. CASE index2[k] = NoCell
    <3>1. index0[k] = NoCell /\ k # sellKey /\ k # buyKey
      BY <2>2, <1>5, <1>6, <1>7 DEF Slots, NoCell
    <3> QED
      BY <2>2, <3>1, <1>10 DEF CellSold, CellBought
  <2>3. CASE index2[k] # NoCell
    <3>1. index2[k] \in Slots
      BY <2>3, <1>8
    <3>2. index2[k] = sellSlot <=> k = sellKey
      BY <2>3, <1>1, <1>5 DEF WellAllocated
    <3>3. index2[k] = buySlot <=> k = buyKey
      BY <2>3, <1>1, <1>5 DEF WellAllocated
    <3>4. CellSold(p, k)' = sold'[p][index2[k]] /\ CellBought(p, k)' = bought'[p][index2[k]]
      BY <2>3, <1>10 DEF CellSold, CellBought
    <3>5. sold'[p][index2[k]] = sold[p][index2[k]] + (IF k = sellKey THEN sellAmount ELSE 0)
      BY <2>1, <3>1, <3>2, <1>10
    <3>6. bought'[p][index2[k]] = bought[p][index2[k]] + (IF k = buyKey THEN buyAmount ELSE 0)
      BY <2>1, <3>1, <3>3, <1>10
    <3> QED
      BY <2>3, <3>4, <3>5, <3>6, <1>8
  <2> QED
    BY <2>2, <2>3
<1> QED
  BY <1>9, <1>11, <1>12, <1>13, <1>14, <1>15

----------------------------------------------------------------------------
(* One lemma per transaction: the inductive invariant survives it. *)

\* The conjuncts that only talk about the cells survive a vault transaction
\* that leaves the placement alone.
LEMMA CellsUntouched ==
    ASSUME IInv, UNCHANGED <<placementVars, poolVars>>
    PROVE  /\ PoolTypeOK' /\ Registration' /\ PlacementCountsExact'
           /\ CellsDoNotAlias' /\ FreshSlotsZero' /\ CellsFollowPlacement'
           /\ \A p \in Pools, k \in Keys : /\ CellSold(p, k)' = CellSold(p, k)
                                          /\ CellBought(p, k)' = CellBought(p, k)
<1>1. /\ nextCell' = nextCell /\ cellIndex' = cellIndex /\ bought' = bought
      /\ sold' = sold /\ nonceWindow' = nonceWindow /\ userPool' = userPool
      /\ pubkey' = pubkey /\ authorized' = authorized /\ poolUserCount' = poolUserCount
  BY DEF placementVars, poolVars
<1>2. PoolTypeOK'
  BY <1>1 DEF IInv, TypeOK, PoolTypeOK
<1>3. Registration' /\ PlacementCountsExact'
  BY <1>1 DEF IInv, Registration, PlacementCountsExact
<1>4. CellsDoNotAlias' /\ FreshSlotsZero' /\ CellsFollowPlacement'
  BY <1>1 DEF IInv, CellsDoNotAlias, WellAllocated, FreshSlotsZero, CellsFollowPlacement
<1> QED
  BY <1>1, <1>2, <1>3, <1>4 DEF CellSold, CellBought

\* The cell counters are naturals.
LEMMA CellsNat ==
    ASSUME PoolTypeOK, NEW p \in Pools, NEW k \in Keys
    PROVE  CellSold(p, k) \in Nat /\ CellBought(p, k) \in Nat
<1>1. /\ cellIndex[p][k] \in {NoCell} \cup Slots
      /\ sold[p] \in [Slots -> Felt] /\ bought[p] \in [Slots -> Felt]
  BY DEF PoolTypeOK
<1>2. Felt \subseteq Nat
  BY MaxFeltAssumption DEF Felt
<1> QED
  BY <1>1, <1>2 DEF CellSold, CellBought

\* The vault's counters are naturals.
LEMMA VaultNat ==
    ASSUME VaultTypeOK, NEW k \in Keys
    PROVE  funding[k] \in Nat /\ initiated[k] \in Nat /\ redeemed[k] \in Nat
BY MaxFeltAssumption DEF VaultTypeOK, Felt

\* add_pool touches only the set of pools.
LEMMA AddPoolPreserves ==
    ASSUME IInv, NEW p \in Pools, AddPool(p)
    PROVE  IInv'
<1>1. /\ authorized' = authorized \cup {p} /\ activePool' = p
      /\ poolUserCount' = poolUserCount /\ pubkey' = pubkey /\ userPool' = userPool
      /\ funding' = funding /\ initiated' = initiated /\ redeemed' = redeemed
      /\ entitlement' = entitlement /\ withdrawn' = withdrawn /\ holdings' = holdings
      /\ nextCell' = nextCell /\ cellIndex' = cellIndex /\ bought' = bought
      /\ sold' = sold /\ nonceWindow' = nonceWindow
  BY DEF AddPool, AddAuthorizedPool, cashVars, lpVars, poolVars
<1>2. TypeOK'
  BY <1>1 DEF IInv, TypeOK, VaultTypeOK, PoolTypeOK
<1>3. Registration' /\ PlacementCountsExact'
  BY <1>1 DEF IInv, Registration, PlacementCountsExact
<1>4. CellsDoNotAlias' /\ FreshSlotsZero' /\ CellsFollowPlacement'
  BY <1>1 DEF IInv, CellsDoNotAlias, WellAllocated, FreshSlotsZero, CellsFollowPlacement
<1>5. NoOverdraft' /\ LpPaidWithinEntitlement'
  BY <1>1 DEF IInv, NoOverdraft, CellSold, CellBought, LpPaidWithinEntitlement
<1> QED
  BY <1>2, <1>3, <1>4, <1>5 DEF IInv

\* Registration binds a user who has no cells and no redeems, and raises the
\* counter of the pool by the one user it gains.
LEMMA RegisterPreserves ==
    ASSUME IInv, NEW u \in Users, NEW key \in PubKeys, Register(u, key)
    PROVE  IInv'
<1>1. /\ authorized' = authorized /\ activePool' = activePool
      /\ funding' = funding /\ initiated' = initiated /\ redeemed' = redeemed
      /\ entitlement' = entitlement /\ withdrawn' = withdrawn /\ holdings' = holdings
      /\ nextCell' = nextCell /\ cellIndex' = cellIndex /\ bought' = bought
      /\ sold' = sold /\ nonceWindow' = nonceWindow
      /\ pubkey[u] = NoKey /\ activePool \in authorized
      /\ poolUserCount[activePool] < PoolUserCapacity
      /\ poolUserCount' = [poolUserCount EXCEPT ![activePool] = @ + 1]
      /\ userPool' = [userPool EXCEPT ![u] = activePool]
      /\ pubkey' = [pubkey EXCEPT ![u] = key]
  BY DEF Register, RegisterUser, cashVars, lpVars, poolVars
<1>2. /\ VaultTypeOK /\ PoolTypeOK /\ activePool \in Pools /\ activePool # NoPool
      /\ userPool[u] = NoPool
  BY <1>1, NoPoolAssumption DEF IInv, TypeOK, VaultTypeOK, Registration
<1>3. TypeOK'
  <2>1. poolUserCount' \in [Pools -> Nat]
    BY <1>1, <1>2 DEF VaultTypeOK
  <2>2. pubkey' \in [Users -> PubKeys \cup {NoKey}] /\ userPool' \in [Users -> Pools \cup {NoPool}]
    BY <1>1, <1>2 DEF VaultTypeOK
  <2> QED
    BY <1>1, <1>2, <2>1, <2>2 DEF TypeOK, VaultTypeOK, PoolTypeOK
<1>4. Registration'
  BY <1>1, <1>2, NoKeyAssumption, NoPoolAssumption DEF IInv, Registration, VaultTypeOK
<1>5. PlacementCountsExact'
  <2> SUFFICES ASSUME NEW p \in Pools
               PROVE  /\ poolUserCount'[p] = Cardinality({v \in Users : userPool'[v] = p})
                      /\ poolUserCount'[p] <= PoolUserCapacity
    BY DEF PlacementCountsExact
  <2> DEFINE before == {v \in Users : userPool[v] = p}
             after == {v \in Users : userPool'[v] = p}
  <2>1. poolUserCount[p] = Cardinality(before) /\ poolUserCount[p] <= PoolUserCapacity
    BY DEF IInv, PlacementCountsExact
  <2>2. IsFiniteSet(before)
    BY FS_Subset, UsersFinite
  <2>3. CASE p = activePool
    <3>1. after = before \cup {u} /\ u \notin before
      BY <2>3, <1>1, <1>2 DEF VaultTypeOK
    <3>2. Cardinality(after) = Cardinality(before) + 1
      BY <3>1, <2>2, FS_AddElement
    <3>3. poolUserCount'[p] = poolUserCount[p] + 1
      BY <2>3, <1>1, <1>2 DEF VaultTypeOK
    <3>4. poolUserCount[p] \in Nat
      BY <1>2 DEF VaultTypeOK
    <3> QED
      BY <2>1, <2>3, <3>2, <3>3, <3>4, <1>1, PoolUserCapacityAssumption
  <2>4. CASE p # activePool
    <3>1. after = before
      BY <2>4, <1>1, <1>2, NoPoolAssumption DEF VaultTypeOK
    <3>2. poolUserCount'[p] = poolUserCount[p]
      BY <2>4, <1>1, <1>2 DEF VaultTypeOK
    <3> QED
      BY <2>1, <3>1, <3>2
  <2> QED
    BY <2>3, <2>4
<1>6. CellsDoNotAlias' /\ FreshSlotsZero'
  BY <1>1 DEF IInv, CellsDoNotAlias, WellAllocated, FreshSlotsZero
<1>7. \A v \in Users : v # u => userPool'[v] = userPool[v]
  BY <1>1, <1>2 DEF VaultTypeOK
<1>8. \A p \in Pools, k \in Keys : k[1] = u => cellIndex[p][k] = NoCell
  BY <1>2, NoPoolAssumption DEF IInv, CellsFollowPlacement
<1>9. CellsFollowPlacement'
  <2> SUFFICES ASSUME NEW p \in Pools, NEW k \in Keys, cellIndex[p][k] # NoCell
               PROVE  userPool'[k[1]] = p
    BY <1>1 DEF CellsFollowPlacement
  <2>1. userPool[k[1]] = p /\ k[1] # u /\ k[1] \in Users
    BY <1>8 DEF IInv, CellsFollowPlacement, Keys
  <2> QED
    BY <2>1, <1>7
<1>10. NoOverdraft'
  <2> SUFFICES ASSUME NEW k \in Keys
               PROVE  /\ redeemed[k] <= initiated[k]
                      /\ userPool'[k[1]] = NoPool => initiated[k] = 0
                      /\ \A p \in Pools : userPool'[k[1]] = p =>
                            initiated[k] + CellSold(p, k) <= funding[k] + CellBought(p, k)
    BY <1>1 DEF NoOverdraft, CellSold, CellBought
  <2>1. k[1] \in Users
    BY DEF Keys
  <2>2. CASE k[1] = u
    <3>1. initiated[k] = 0 /\ redeemed[k] <= initiated[k]
      BY <2>2, <1>2 DEF IInv, NoOverdraft
    <3>2. \A p \in Pools : CellSold(p, k) = 0 /\ CellBought(p, k) = 0
      BY <2>2, <1>8 DEF CellSold, CellBought
    <3>3. funding[k] \in Nat
      BY <1>2, VaultNat
    <3> QED
      BY <3>1, <3>2, <3>3
  <2>3. CASE k[1] # u
    BY <2>1, <2>3, <1>7 DEF IInv, NoOverdraft
  <2> QED
    BY <2>2, <2>3
<1>11. LpPaidWithinEntitlement'
  BY <1>1 DEF IInv, LpPaidWithinEntitlement
<1> QED
  BY <1>3, <1>4, <1>5, <1>6, <1>9, <1>10, <1>11 DEF IInv

\* A deposit credits the record and the holdings alike.
LEMMA FundPreserves ==
    ASSUME IInv, NEW u \in Users, NEW a \in Assets, NEW amount \in Amounts,
           FundUser(u, a, amount)
    PROVE  IInv'
<1> DEFINE key == <<u, a>>
<1>1. /\ UNCHANGED <<placementVars, poolVars>>
      /\ initiated' = initiated /\ redeemed' = redeemed
      /\ entitlement' = entitlement /\ withdrawn' = withdrawn
      /\ holdings[a] + amount <= MaxFelt
      /\ holdings' = [holdings EXCEPT ![a] = @ + amount]
      /\ funding[key] + amount <= MaxFelt
      /\ funding' = [funding EXCEPT ![key] = @ + amount]
  BY DEF FundUser, Fund, ReceiveAsset, CanAdd, Added, lpVars
<1>2. VaultTypeOK /\ PoolTypeOK /\ key \in Keys /\ amount \in Nat
  BY AmountsAssumption, MaxFeltAssumption DEF IInv, TypeOK, Keys
<1>3. VaultTypeOK'
  BY <1>1, <1>2, MaxFeltAssumption DEF VaultTypeOK, placementVars, Felt
<1>4. NoOverdraft'
  <2> SUFFICES ASSUME NEW k \in Keys
               PROVE  /\ redeemed[k] <= initiated[k]
                      /\ userPool[k[1]] = NoPool => initiated[k] = 0
                      /\ \A p \in Pools : userPool[k[1]] = p =>
                            initiated[k] + CellSold(p, k) <= funding'[k] + CellBought(p, k)
    BY <1>1, CellsUntouched DEF NoOverdraft, placementVars
  <2>1. funding[k] \in Nat /\ initiated[k] \in Nat
    BY <1>2, VaultNat
  <2>2. funding'[k] >= funding[k] /\ funding'[k] \in Nat
    BY <2>1, <1>1, <1>2 DEF VaultTypeOK
  <2>3. \A p \in Pools : CellSold(p, k) \in Nat /\ CellBought(p, k) \in Nat
    BY <1>2, CellsNat
  <2> QED
    BY <2>1, <2>2, <2>3 DEF IInv, NoOverdraft
<1>5. LpPaidWithinEntitlement'
  BY <1>1 DEF IInv, LpPaidWithinEntitlement
<1> QED
  BY <1>1, <1>3, <1>4, <1>5, CellsUntouched DEF IInv, TypeOK

\* An initiated redeem stays within what the shard reports as available.
LEMMA InitRedeemPreserves ==
    ASSUME IInv, NEW u \in Users, NEW a \in Assets, NEW amount \in Amounts,
           InitRedeemUser(u, a, amount)
    PROVE  IInv'
<1> DEFINE key == <<u, a>>
           pool == userPool[u]
<1>1. /\ UNCHANGED <<placementVars, poolVars>>
      /\ funding' = funding /\ redeemed' = redeemed
      /\ entitlement' = entitlement /\ withdrawn' = withdrawn /\ holdings' = holdings
      /\ pool \in authorized
      /\ initiated[key] + amount <= MaxFelt
      /\ initiated' = [initiated EXCEPT ![key] = @ + amount]
      /\ (funding[key] + CellBought(pool, key) - CellSold(pool, key) - redeemed[key])
            - (initiated[key] - redeemed[key]) >= amount
  BY DEF InitRedeemUser, InitiateRedeem, CanAdd, Added, lpVars, DetailsDefined, UserAvailable,
         UserBalance, Balance, Pending
<1>2. VaultTypeOK /\ PoolTypeOK /\ key \in Keys /\ amount \in Nat /\ pool \in Pools
  BY <1>1, AmountsAssumption, MaxFeltAssumption DEF IInv, TypeOK, VaultTypeOK, Keys
<1>3. VaultTypeOK'
  BY <1>1, <1>2, MaxFeltAssumption DEF VaultTypeOK, placementVars, Felt
<1>4. NoOverdraft'
  <2> SUFFICES ASSUME NEW k \in Keys
               PROVE  /\ redeemed[k] <= initiated'[k]
                      /\ userPool[k[1]] = NoPool => initiated'[k] = 0
                      /\ \A p \in Pools : userPool[k[1]] = p =>
                            initiated'[k] + CellSold(p, k) <= funding[k] + CellBought(p, k)
    BY <1>1, CellsUntouched DEF NoOverdraft, placementVars
  <2>1. funding[k] \in Nat /\ initiated[k] \in Nat /\ redeemed[k] \in Nat
    BY <1>2, VaultNat
  <2>2. CASE k = key
    <3>1. initiated'[k] = initiated[k] + amount
      BY <2>2, <1>1, <1>2 DEF VaultTypeOK
    <3>2. CellSold(pool, k) \in Nat /\ CellBought(pool, k) \in Nat
      BY <1>2, CellsNat
    <3>3. initiated[k] + amount + CellSold(pool, k) <= funding[k] + CellBought(pool, k)
      BY <2>1, <2>2, <3>2, <1>1, <1>2
    <3>4. redeemed[k] <= initiated[k]
      BY DEF IInv, NoOverdraft
    <3> QED
      BY <2>1, <2>2, <3>1, <3>3, <3>4, <1>2, NoPoolAssumption
  <2>3. CASE k # key
    <3>1. initiated'[k] = initiated[k]
      BY <2>3, <1>1, <1>2 DEF VaultTypeOK
    <3> QED
      BY <3>1 DEF IInv, NoOverdraft
  <2> QED
    BY <2>2, <2>3
<1>5. LpPaidWithinEntitlement'
  BY <1>1 DEF IInv, LpPaidWithinEntitlement
<1> QED
  BY <1>1, <1>3, <1>4, <1>5, CellsUntouched DEF IInv, TypeOK

\* Both halves of a redeem.
LEMMA RedeemPreserves ==
    ASSUME IInv, NEW u \in Users, NEW a \in Assets, NEW amount \in Amounts,
           RedeemUser(u, a, amount)
    PROVE  IInv'
<1> DEFINE key == <<u, a>>
<1>1. /\ UNCHANGED <<placementVars, poolVars>>
      /\ funding' = funding /\ initiated' = initiated
      /\ entitlement' = entitlement /\ withdrawn' = withdrawn
      /\ initiated[key] - redeemed[key] >= amount
      /\ redeemed[key] + amount <= MaxFelt
      /\ redeemed' = [redeemed EXCEPT ![key] = @ + amount]
      /\ holdings[a] >= amount
      /\ holdings' = [holdings EXCEPT ![a] = @ - amount]
  BY DEF RedeemUser, Redeem, PayOut, CanAdd, Added, lpVars, Pending
<1>2. VaultTypeOK /\ PoolTypeOK /\ key \in Keys /\ amount \in Nat
  BY AmountsAssumption, MaxFeltAssumption DEF IInv, TypeOK, Keys
<1>3. VaultTypeOK'
  BY <1>1, <1>2, MaxFeltAssumption DEF VaultTypeOK, placementVars, Felt
<1>4. NoOverdraft'
  <2> SUFFICES ASSUME NEW k \in Keys
               PROVE  /\ redeemed'[k] <= initiated[k]
                      /\ userPool[k[1]] = NoPool => initiated[k] = 0
                      /\ \A p \in Pools : userPool[k[1]] = p =>
                            initiated[k] + CellSold(p, k) <= funding[k] + CellBought(p, k)
    BY <1>1, CellsUntouched DEF NoOverdraft, placementVars
  <2>1. initiated[k] \in Nat /\ redeemed[k] \in Nat
    BY <1>2, VaultNat
  <2>2. redeemed'[k] <= initiated[k]
    BY <2>1, <1>1, <1>2 DEF IInv, NoOverdraft, VaultTypeOK
  <2> QED
    BY <2>2 DEF IInv, NoOverdraft
<1>5. LpPaidWithinEntitlement'
  BY <1>1 DEF IInv, LpPaidWithinEntitlement
<1> QED
  BY <1>1, <1>3, <1>4, <1>5, CellsUntouched DEF IInv, TypeOK

\* LP funding and payouts.
LEMMA LpPreserves ==
    ASSUME IInv, NEW l \in Lps, NEW a \in Assets, NEW amount \in Amounts,
           Deposit(l, a, amount) \/ Checkpoint(l, a, amount) \/ Withdraw(l, a, amount)
    PROVE  IInv'
<1> DEFINE key == <<l, a>>
<1>1. /\ UNCHANGED <<placementVars, poolVars>>
      /\ funding' = funding /\ initiated' = initiated /\ redeemed' = redeemed
  BY DEF Deposit, DepositLiquidity, Checkpoint, CheckpointLpEntitlement, Withdraw,
         WithdrawLiquidity, cashVars
<1>2. VaultTypeOK /\ PoolTypeOK /\ key \in LpKeys /\ amount \in Nat
  BY AmountsAssumption, MaxFeltAssumption DEF IInv, TypeOK, LpKeys
<1>3. NoOverdraft'
  BY <1>1, CellsUntouched DEF IInv, NoOverdraft, placementVars
<1>4. \A k \in LpKeys : entitlement[k] \in Nat /\ withdrawn[k] \in Nat
                        /\ withdrawn[k] <= entitlement[k]
  BY <1>2, MaxFeltAssumption DEF IInv, LpPaidWithinEntitlement, VaultTypeOK, Felt
<1>5. CASE Deposit(l, a, amount)
  <2>1. /\ holdings[a] + amount <= MaxFelt
        /\ holdings' = [holdings EXCEPT ![a] = @ + amount]
        /\ entitlement[key] + amount <= MaxFelt
        /\ entitlement' = [entitlement EXCEPT ![key] = @ + amount]
        /\ withdrawn' = withdrawn
    BY <1>5 DEF Deposit, DepositLiquidity, ReceiveAsset, CanAdd, Added
  <2>2. VaultTypeOK'
    BY <2>1, <1>1, <1>2, MaxFeltAssumption DEF VaultTypeOK, placementVars, Felt
  <2>3. LpPaidWithinEntitlement'
    BY <2>1, <1>2, <1>4 DEF LpPaidWithinEntitlement, VaultTypeOK
  <2> QED
    BY <2>2, <2>3, <1>1, <1>3, CellsUntouched DEF IInv, TypeOK
<1>6. CASE Checkpoint(l, a, amount)
  <2>1. /\ amount >= entitlement[key]
        /\ amount <= MaxFelt
        /\ entitlement' = [entitlement EXCEPT ![key] = amount]
        /\ withdrawn' = withdrawn /\ holdings' = holdings
    BY <1>6, AmountsAssumption, MaxFeltAssumption DEF Checkpoint, CheckpointLpEntitlement
  <2>2. VaultTypeOK'
    BY <2>1, <1>1, <1>2, MaxFeltAssumption DEF VaultTypeOK, placementVars, Felt
  <2>3. LpPaidWithinEntitlement'
    BY <2>1, <1>2, <1>4 DEF LpPaidWithinEntitlement, VaultTypeOK
  <2> QED
    BY <2>2, <2>3, <1>1, <1>3, CellsUntouched DEF IInv, TypeOK
<1>7. CASE Withdraw(l, a, amount)
  <2>1. /\ entitlement[key] - withdrawn[key] >= amount
        /\ withdrawn[key] + amount <= MaxFelt
        /\ withdrawn' = [withdrawn EXCEPT ![key] = @ + amount]
        /\ holdings[a] >= amount
        /\ holdings' = [holdings EXCEPT ![a] = @ - amount]
        /\ entitlement' = entitlement
    BY <1>7 DEF Withdraw, WithdrawLiquidity, PayOut, CanAdd, Added, Withdrawable
  <2>2. VaultTypeOK'
    BY <2>1, <1>1, <1>2, MaxFeltAssumption DEF VaultTypeOK, placementVars, Felt
  <2>3. LpPaidWithinEntitlement'
    BY <2>1, <1>2, <1>4 DEF LpPaidWithinEntitlement, VaultTypeOK
  <2> QED
    BY <2>2, <2>3, <1>1, <1>3, CellsUntouched DEF IInv, TypeOK
<1> QED
  BY <1>5, <1>6, <1>7

\* A swap sells no more than the available balance, so pending redeems stay
\* covered, and it touches no key but its own two.
LEMMA SwapPreserves ==
    ASSUME IInv,
           NEW p \in Pools, NEW u \in Users, NEW sell \in Assets, NEW buy \in Assets,
           NEW sellAmount \in Amounts, NEW buyAmount \in Amounts, NEW nonce \in Nonces,
           Swap(p, u, sell, sellAmount, buy, buyAmount, nonce)
    PROVE  IInv'
<1> DEFINE sellKey == <<u, sell>>
<1>1. UNCHANGED vaultVars /\ p = userPool[u]
  BY DEF Swap, Routed
<1>2. /\ UNCHANGED <<placementVars, cashVars, lpVars>>
      /\ authorized' = authorized /\ activePool' = activePool
      /\ poolUserCount' = poolUserCount /\ pubkey' = pubkey /\ userPool' = userPool
      /\ funding' = funding /\ initiated' = initiated /\ redeemed' = redeemed
      /\ entitlement' = entitlement /\ withdrawn' = withdrawn /\ holdings' = holdings
  BY <1>1 DEF vaultVars, placementVars, cashVars, lpVars
<1>3. /\ VaultTypeOK /\ PoolTypeOK /\ sellAmount \in Nat /\ buyAmount \in Nat /\ sellKey \in Keys
  BY AmountsAssumption, MaxFeltAssumption DEF IInv, TypeOK, Keys
<1>4. /\ PoolTypeOK' /\ CellsDoNotAlias' /\ FreshSlotsZero' /\ CellsFollowPlacement'
      /\ Available(CellBought(p, sellKey), CellSold(p, sellKey), funding[sellKey],
                   redeemed[sellKey], Pending(sellKey)) >= sellAmount
      /\ \A k \in Keys :
            /\ CellSold(p, k)' = CellSold(p, k) + (IF k = sellKey THEN sellAmount ELSE 0)
            /\ CellBought(p, k)' = CellBought(p, k) + (IF k = <<u, buy>> THEN buyAmount ELSE 0)
  BY SwapCells
<1>5. VaultTypeOK'
  BY <1>2, <1>3 DEF VaultTypeOK
<1>6. Registration' /\ PlacementCountsExact' /\ LpPaidWithinEntitlement'
  BY <1>2 DEF IInv, Registration, PlacementCountsExact, LpPaidWithinEntitlement
<1>7. NoOverdraft'
  <2> SUFFICES ASSUME NEW k \in Keys, NEW q \in Pools, userPool[k[1]] = q
               PROVE  initiated[k] + CellSold(q, k)' <= funding[k] + CellBought(q, k)'
    BY <1>2 DEF IInv, NoOverdraft
  <2>1. /\ funding[k] \in Nat /\ initiated[k] \in Nat /\ redeemed[k] \in Nat
        /\ CellSold(q, k) \in Nat /\ CellBought(q, k) \in Nat
        /\ initiated[k] + CellSold(q, k) <= funding[k] + CellBought(q, k)
    BY <1>3, VaultNat, CellsNat DEF IInv, NoOverdraft
  <2>2. CASE q = p
    <3>1. CASE k = sellKey
      <4>1. funding[k] + CellBought(p, k) - CellSold(p, k) - redeemed[k]
               - (initiated[k] - redeemed[k]) >= sellAmount
        <5>1. Available(CellBought(p, k), CellSold(p, k), funding[k], redeemed[k], Pending(k))
                >= sellAmount
          BY <3>1, <1>4
        <5> QED
          BY <5>1, <2>1, <2>2, <1>3 DEF Available, Balance, Pending
      <4>2. CellSold(p, k)' = CellSold(p, k) + sellAmount
        BY <3>1, <1>4
      <4>3. CellBought(p, k)' \in Nat /\ CellBought(p, k)' >= CellBought(p, k)
        BY <1>3, <1>4, <2>1, <2>2
      <4>4. initiated[k] + (CellSold(p, k) + sellAmount) <= funding[k] + CellBought(p, k)
        BY <2>1, <2>2, <4>1, <1>3
      <4> QED
        BY <2>1, <2>2, <4>2, <4>3, <4>4, <1>3
    <3>2. CASE k # sellKey
      <4>1. CellSold(p, k)' = CellSold(p, k)
        BY <3>2, <1>4, <2>1, <2>2
      <4>2. CellBought(p, k)' \in Nat /\ CellBought(p, k)' >= CellBought(p, k)
        BY <1>3, <1>4, <2>1, <2>2
      <4> QED
        BY <2>1, <2>2, <4>1, <4>2
    <3> QED
      BY <3>1, <3>2
  <2>3. CASE q # p
    <3>1. CellSold(q, k)' = CellSold(q, k) /\ CellBought(q, k)' = CellBought(q, k)
      BY <2>3, <1>3 DEF Swap, ExecuteSwap, PoolTypeOK, CellSold, CellBought
    <3> QED
      BY <2>1, <3>1
  <2> QED
    BY <2>2, <2>3
<1> QED
  BY <1>4, <1>5, <1>6, <1>7 DEF IInv, TypeOK

----------------------------------------------------------------------------
(* The theorems. *)

\* The deployed accounts satisfy it.
LEMMA InitEstablishes == Init => IInv
<1> SUFFICES ASSUME Init PROVE IInv
  OBVIOUS
<1>1. VaultInit /\ PoolInit
  BY DEF Init
<1>2. VaultTypeOK
  BY <1>1, MaxFeltAssumption DEF VaultInit, VaultTypeOK, Felt
<1>3. PoolTypeOK
  <2>1. EmptyWindow \in Windows
    BY MaxNonceAssumption DEF EmptyWindow, Windows, Limbs, Nonces
  <2> QED
    BY <1>1, <2>1, MaxFeltAssumption, MaxPoolCellsAssumption DEF PoolInit, PoolTypeOK, Felt
<1>4. Registration /\ LpPaidWithinEntitlement
  BY <1>1 DEF VaultInit, Registration, LpPaidWithinEntitlement
<1>5. PlacementCountsExact
  <2> SUFFICES ASSUME NEW p \in Pools
               PROVE  Cardinality({u \in Users : userPool[u] = p}) = 0
    BY <1>1, PoolUserCapacityAssumption DEF PlacementCountsExact, VaultInit
  <2>1. {u \in Users : userPool[u] = p} = {}
    BY <1>1, NoPoolAssumption DEF VaultInit
  <2> QED
    BY <2>1, FS_EmptySet
<1>6. CellsDoNotAlias
  <2> SUFFICES ASSUME NEW p \in Pools PROVE WellAllocated(nextCell[p], cellIndex[p])
    BY DEF CellsDoNotAlias
  <2>1. nextCell[p] = 0 /\ \A k \in Keys : cellIndex[p][k] = NoCell
    BY <1>1 DEF PoolInit
  <2> QED
    BY <2>1 DEF WellAllocated
<1>7. FreshSlotsZero /\ CellsFollowPlacement
  BY <1>1 DEF PoolInit, FreshSlotsZero, CellsFollowPlacement
<1>8. NoOverdraft
  <2>1. \A p \in Pools, k \in Keys : CellSold(p, k) = 0 /\ CellBought(p, k) = 0
    BY <1>1 DEF PoolInit, CellSold, CellBought
  <2>2. \A k \in Keys : funding[k] = 0 /\ initiated[k] = 0 /\ redeemed[k] = 0
    BY <1>1 DEF VaultInit
  <2> QED
    BY <2>1, <2>2 DEF NoOverdraft
<1> QED
  BY <1>2, <1>3, <1>4, <1>5, <1>6, <1>7, <1>8 DEF IInv, TypeOK

\* Every step keeps the invariant.
LEMMA StepPreserves == IInv /\ [Next]_vars => IInv'
<1> SUFFICES ASSUME IInv, [Next]_vars PROVE IInv'
  OBVIOUS
<1>1. ASSUME NEW p \in Pools, AddPool(p) PROVE IInv'
  BY <1>1, AddPoolPreserves
<1>2. ASSUME NEW u \in Users, NEW key \in PubKeys, Register(u, key) PROVE IInv'
  BY <1>2, RegisterPreserves
<1>3. ASSUME NEW u \in Users, NEW a \in Assets, NEW amount \in Amounts,
             FundUser(u, a, amount)
      PROVE  IInv'
  BY <1>3, FundPreserves
<1>4. ASSUME NEW u \in Users, NEW a \in Assets, NEW amount \in Amounts,
             InitRedeemUser(u, a, amount)
      PROVE  IInv'
  BY <1>4, InitRedeemPreserves
<1>5. ASSUME NEW u \in Users, NEW a \in Assets, NEW amount \in Amounts,
             RedeemUser(u, a, amount)
      PROVE  IInv'
  BY <1>5, RedeemPreserves
<1>6. ASSUME NEW l \in Lps, NEW a \in Assets, NEW amount \in Amounts,
             Deposit(l, a, amount) \/ Checkpoint(l, a, amount) \/ Withdraw(l, a, amount)
      PROVE  IInv'
  BY <1>6, LpPreserves
<1>7. ASSUME NEW p \in Pools, NEW u \in Users, NEW sell \in Assets, NEW buy \in Assets,
             NEW sellAmount \in Amounts, NEW buyAmount \in Amounts, NEW nonce \in Nonces,
             Swap(p, u, sell, sellAmount, buy, buyAmount, nonce)
      PROVE  IInv'
  BY <1>7, SwapPreserves
<1>8. CASE UNCHANGED vars
  <2>1. UNCHANGED <<placementVars, poolVars>> /\ UNCHANGED vaultVars
    BY <1>8 DEF vars, vaultVars
  <2>2. /\ activePool' = activePool
        /\ funding' = funding /\ initiated' = initiated /\ redeemed' = redeemed
        /\ entitlement' = entitlement /\ withdrawn' = withdrawn /\ holdings' = holdings
    BY <2>1 DEF vaultVars, placementVars, cashVars, lpVars
  <2>3. VaultTypeOK'
    BY <2>1, <2>2 DEF IInv, TypeOK, VaultTypeOK, placementVars
  <2>4. NoOverdraft' /\ LpPaidWithinEntitlement'
    BY <2>1, <2>2, CellsUntouched DEF IInv, NoOverdraft, LpPaidWithinEntitlement, placementVars
  <2> QED
    BY <2>1, <2>3, <2>4, CellsUntouched DEF IInv, TypeOK
<1> QED
  BY <1>1, <1>2, <1>3, <1>4, <1>5, <1>6, <1>7, <1>8 DEF Next

\* The invariant holds in every state.
LEMMA Inductive == Spec => []IInv
BY InitEstablishes, StepPreserves, PTL DEF Spec

\* The vault and the shards keep their types: no counter leaves the felts and
\* no cell index leaves the account's slots.
THEOREM TypeCorrect == Spec => []TypeOK
BY Inductive, PTL DEF IInv

\* For any users, shards and capacities, swaps and redeems never spend the
\* same tokens twice.
THEOREM NeverOverdrawn == Spec => []NoOverdraft
BY Inductive, PTL DEF IInv

\* For any cell capacity, the cells of a shard never alias.
THEOREM CellsDistinct == Spec => []CellsDoNotAlias
BY Inductive, PTL DEF IInv

\* A user's swap counters live on the user's own shard only.
THEOREM CellsPlaced == Spec => []CellsFollowPlacement
BY Inductive, PTL DEF IInv

\* Registration counters are exact and within the capacity.
THEOREM CountsExact == Spec => []PlacementCountsExact
BY Inductive, PTL DEF IInv

\* Liquidity providers are never paid beyond their entitlement.
THEOREM LpWithinEntitlement == Spec => []LpPaidWithinEntitlement
BY Inductive, PTL DEF IInv

\* No transaction rebinds a registered user or revokes a pool.
THEOREM PlacementNeverChanges == Spec => PlacementPermanent
<1>1. IInv /\ [Next]_vars => [KeepsPlacement]_vars
  <2> SUFFICES ASSUME IInv, Next PROVE KeepsPlacement
    OBVIOUS
  <2>1. ASSUME NEW p \in Pools, AddPool(p) PROVE KeepsPlacement
    BY <2>1 DEF AddPool, AddAuthorizedPool, KeepsPlacement
  <2>2. ASSUME NEW u \in Users, NEW key \in PubKeys, Register(u, key) PROVE KeepsPlacement
    <3>1. /\ authorized' = authorized /\ pubkey[u] = NoKey
          /\ userPool' = [userPool EXCEPT ![u] = activePool]
          /\ pubkey' = [pubkey EXCEPT ![u] = key]
      BY <2>2 DEF Register, RegisterUser
    <3>2. userPool[u] = NoPool
      BY <3>1 DEF IInv, Registration
    <3>3. \A v \in Users : v # u => userPool'[v] = userPool[v] /\ pubkey'[v] = pubkey[v]
      BY <3>1 DEF IInv, TypeOK, VaultTypeOK
    <3> QED
      BY <3>1, <3>2, <3>3 DEF KeepsPlacement
  <2>3. ASSUME UNCHANGED placementVars PROVE KeepsPlacement
    BY <2>3 DEF placementVars, KeepsPlacement
  <2>4. ASSUME NEW u \in Users, NEW a \in Assets, NEW amount \in Amounts,
               \/ FundUser(u, a, amount)
               \/ InitRedeemUser(u, a, amount)
               \/ RedeemUser(u, a, amount)
        PROVE  KeepsPlacement
    BY <2>3, <2>4 DEF FundUser, Fund, InitRedeemUser, InitiateRedeem, RedeemUser, Redeem
  <2>5. ASSUME NEW l \in Lps, NEW a \in Assets, NEW amount \in Amounts,
               Deposit(l, a, amount) \/ Checkpoint(l, a, amount) \/ Withdraw(l, a, amount)
        PROVE  KeepsPlacement
    BY <2>3, <2>5 DEF Deposit, DepositLiquidity, Checkpoint, CheckpointLpEntitlement, Withdraw,
                      WithdrawLiquidity
  <2>6. ASSUME NEW p \in Pools, NEW u \in Users, NEW sell \in Assets, NEW buy \in Assets,
               NEW sellAmount \in Amounts, NEW buyAmount \in Amounts, NEW nonce \in Nonces,
               Swap(p, u, sell, sellAmount, buy, buyAmount, nonce)
        PROVE  KeepsPlacement
    <3>1. UNCHANGED placementVars
      BY <2>6 DEF Swap, vaultVars
    <3> QED
      BY <3>1, <2>3
  <2> QED
    BY <2>1, <2>2, <2>4, <2>5, <2>6 DEF Next
<1> QED
  BY <1>1, Inductive, PTL DEF Spec, PlacementPermanent

----------------------------------------------------------------------------
(* The vault's holdings against its records. *)

\* Holdings h against redeems r, funding f and what the LPs are owed o, with
\* totals that exist.
RecordOf(h, r, f, o) ==
    \A a \in Assets :
        /\ IsFiniteSet(Units(Column(r, Users, a)))
        /\ IsFiniteSet(Units(Column(f, Users, a)))
        /\ IsFiniteSet(Units(Column(o, Lps, a)))
        /\ h[a] + Total(Column(r, Users, a)) <= Total(Column(f, Users, a)) + Total(Column(o, Lps, a))

RecordInv == RecordOf(holdings, redeemed, funding, Owed)

\* d is c with one counter changed.
Changed(c, d, holders, h, a) ==
    /\ c \in [holders \X Assets -> Nat] /\ d \in [holders \X Assets -> Nat]
    /\ h \in holders /\ a \in Assets
    /\ \A k \in holders \X Assets : k # <<h, a>> => d[k] = c[k]

\* Changing a counter changes the total of its asset by as much, and no other.
LEMMA ColumnChange ==
    ASSUME NEW holders, NEW c, NEW d, NEW h, NEW a, Changed(c, d, holders, h, a),
           \A b \in Assets : IsFiniteSet(Units(Column(c, holders, b)))
    PROVE  /\ \A b \in Assets : IsFiniteSet(Units(Column(d, holders, b)))
           /\ \A b \in Assets : b # a => Column(d, holders, b) = Column(c, holders, b)
           /\ Total(Column(c, holders, a)) \in Nat /\ Total(Column(d, holders, a)) \in Nat
           /\ Total(Column(d, holders, a)) = Total(Column(c, holders, a)) + d[<<h, a>>] - c[<<h, a>>]
<1> DEFINE f == Column(c, holders, a)
           g == Column(d, holders, a)
<1>1. ASSUME NEW b \in Assets, b # a PROVE Column(d, holders, b) = Column(c, holders, b)
  BY <1>1 DEF Changed, Column
<1>2. /\ f \in [holders -> Nat] /\ g \in [holders -> Nat] /\ holders \cup {h} = holders
      /\ \A y \in holders : y # h => g[y] = f[y]
      /\ f[h] = c[<<h, a>>] /\ g[h] = d[<<h, a>>] /\ h \in holders
  BY DEF Changed, Column
<1>3. IsFiniteSet(Units(f))
  BY DEF Changed
<1> HIDE DEF f, g
<1>4. Differ(f, g, holders, h) /\ At(f, holders, h) = f[h]
  BY <1>2, <1>3 DEF Differ, At
<1>5. /\ IsFiniteSet(Units(g)) /\ Total(f) \in Nat /\ Total(g) \in Nat
      /\ Total(g) = Total(f) + g[h] - f[h]
  BY <1>4, TotalChange
<1>6. ASSUME NEW b \in Assets PROVE IsFiniteSet(Units(Column(d, holders, b)))
  BY <1>1, <1>5, <1>6 DEF g
<1> QED
  BY <1>1, <1>2, <1>5, <1>6 DEF f, g

\* The records' types.
RecordTypes(h, r, f, o) ==
    /\ h \in [Assets -> Nat] /\ r \in [Keys -> Nat] /\ f \in [Keys -> Nat] /\ o \in [LpKeys -> Nat]

\* The totals of a record that exists.
LEMMA RecordNat ==
    ASSUME NEW h, NEW r, NEW f, NEW o, RecordTypes(h, r, f, o), RecordOf(h, r, f, o), NEW a \in Assets
    PROVE  /\ h[a] \in Nat /\ Total(Column(r, Users, a)) \in Nat
           /\ Total(Column(f, Users, a)) \in Nat /\ Total(Column(o, Lps, a)) \in Nat
BY FS_CardinalityType DEF Total, RecordOf, RecordTypes

\* h2 differs from h in one asset, by n.
Moved(h, h2, a, n) == h2[a] = h[a] + n /\ \A b \in Assets : b # a => h2[b] = h[b]

\* Funding and holdings move together.
LEMMA FundingMoves ==
    ASSUME NEW h, NEW r, NEW f, NEW o, RecordTypes(h, r, f, o), RecordOf(h, r, f, o),
           NEW h2, NEW c, NEW x, NEW a, NEW n \in Int, RecordTypes(h2, r, c, o),
           Changed(f, c, Users, x, a), Moved(h, h2, a, n), n = c[<<x, a>>] - f[<<x, a>>]
    PROVE  RecordOf(h2, r, c, o)
<1>1. a \in Assets /\ <<x, a>> \in Users \X Assets
      /\ f[<<x, a>>] \in Nat /\ c[<<x, a>>] \in Nat
  BY DEF Changed
<1>2. \A b \in Assets : IsFiniteSet(Units(Column(f, Users, b)))
  BY DEF RecordOf
<1>3. /\ \A b \in Assets : IsFiniteSet(Units(Column(c, Users, b)))
      /\ \A b \in Assets : b # a => Column(c, Users, b) = Column(f, Users, b)
      /\ Total(Column(c, Users, a)) \in Nat
      /\ Total(Column(c, Users, a))
           = Total(Column(f, Users, a)) + c[<<x, a>>] - f[<<x, a>>]
  BY <1>2, ColumnChange
<1>4. h[a] \in Nat /\ h2[a] \in Nat /\ h2[a] = h[a] + n
  BY <1>1 DEF RecordTypes, Moved
<1>5. /\ Total(Column(r, Users, a)) \in Nat /\ Total(Column(f, Users, a)) \in Nat
      /\ Total(Column(o, Lps, a)) \in Nat
      /\ h[a] + Total(Column(r, Users, a)) <= Total(Column(f, Users, a)) + Total(Column(o, Lps, a))
  BY <1>1, RecordNat DEF RecordOf
<1>6. h2[a] + Total(Column(r, Users, a))
        <= Total(Column(c, Users, a)) + Total(Column(o, Lps, a))
  BY <1>1, <1>3, <1>4, <1>5
<1>7. ASSUME NEW b \in Assets
      PROVE  h2[b] + Total(Column(r, Users, b))
               <= Total(Column(c, Users, b)) + Total(Column(o, Lps, b))
  BY <1>3, <1>6 DEF RecordOf, Moved
<1> QED
  BY <1>3, <1>7 DEF RecordOf

\* What is redeemed leaves the holdings.
LEMMA RedeemMoves ==
    ASSUME NEW h, NEW r, NEW f, NEW o, RecordTypes(h, r, f, o), RecordOf(h, r, f, o),
           NEW h2, NEW c, NEW x, NEW a, NEW n \in Int, RecordTypes(h2, c, f, o),
           Changed(r, c, Users, x, a), Moved(h, h2, a, n), n = r[<<x, a>>] - c[<<x, a>>]
    PROVE  RecordOf(h2, c, f, o)
<1>1. a \in Assets /\ <<x, a>> \in Users \X Assets
      /\ r[<<x, a>>] \in Nat /\ c[<<x, a>>] \in Nat
  BY DEF Changed
<1>2. \A b \in Assets : IsFiniteSet(Units(Column(r, Users, b)))
  BY DEF RecordOf
<1>3. /\ \A b \in Assets : IsFiniteSet(Units(Column(c, Users, b)))
      /\ \A b \in Assets : b # a => Column(c, Users, b) = Column(r, Users, b)
      /\ Total(Column(c, Users, a)) \in Nat
      /\ Total(Column(c, Users, a))
           = Total(Column(r, Users, a)) + c[<<x, a>>] - r[<<x, a>>]
  BY <1>2, ColumnChange
<1>4. h[a] \in Nat /\ h2[a] \in Nat /\ h2[a] = h[a] + n
  BY <1>1 DEF RecordTypes, Moved
<1>5. /\ Total(Column(r, Users, a)) \in Nat /\ Total(Column(f, Users, a)) \in Nat
      /\ Total(Column(o, Lps, a)) \in Nat
      /\ h[a] + Total(Column(r, Users, a)) <= Total(Column(f, Users, a)) + Total(Column(o, Lps, a))
  BY <1>1, RecordNat DEF RecordOf
<1>6. h2[a] + Total(Column(c, Users, a))
        <= Total(Column(f, Users, a)) + Total(Column(o, Lps, a))
  BY <1>1, <1>3, <1>4, <1>5
<1>7. ASSUME NEW b \in Assets
      PROVE  h2[b] + Total(Column(c, Users, b))
               <= Total(Column(f, Users, b)) + Total(Column(o, Lps, b))
  BY <1>3, <1>6 DEF RecordOf, Moved
<1> QED
  BY <1>3, <1>7 DEF RecordOf

\* The holdings gain no more than the LPs are owed more.
LEMMA OwedMoves ==
    ASSUME NEW h, NEW r, NEW f, NEW o, RecordTypes(h, r, f, o), RecordOf(h, r, f, o),
           NEW h2, NEW c, NEW x, NEW a, NEW n \in Int, RecordTypes(h2, r, f, c),
           Changed(o, c, Lps, x, a), Moved(h, h2, a, n), n <= c[<<x, a>>] - o[<<x, a>>]
    PROVE  RecordOf(h2, r, f, c)
<1>1. a \in Assets /\ <<x, a>> \in Lps \X Assets
      /\ o[<<x, a>>] \in Nat /\ c[<<x, a>>] \in Nat
  BY DEF Changed
<1>2. \A b \in Assets : IsFiniteSet(Units(Column(o, Lps, b)))
  BY DEF RecordOf
<1>3. /\ \A b \in Assets : IsFiniteSet(Units(Column(c, Lps, b)))
      /\ \A b \in Assets : b # a => Column(c, Lps, b) = Column(o, Lps, b)
      /\ Total(Column(c, Lps, a)) \in Nat
      /\ Total(Column(c, Lps, a))
           = Total(Column(o, Lps, a)) + c[<<x, a>>] - o[<<x, a>>]
  BY <1>2, ColumnChange
<1>4. h[a] \in Nat /\ h2[a] \in Nat /\ h2[a] = h[a] + n
  BY <1>1 DEF RecordTypes, Moved
<1>5. /\ Total(Column(r, Users, a)) \in Nat /\ Total(Column(f, Users, a)) \in Nat
      /\ Total(Column(o, Lps, a)) \in Nat
      /\ h[a] + Total(Column(r, Users, a)) <= Total(Column(f, Users, a)) + Total(Column(o, Lps, a))
  BY <1>1, RecordNat DEF RecordOf
<1>6. h2[a] + Total(Column(r, Users, a))
        <= Total(Column(f, Users, a)) + Total(Column(c, Lps, a))
  BY <1>1, <1>3, <1>4, <1>5
<1>7. ASSUME NEW b \in Assets
      PROVE  h2[b] + Total(Column(r, Users, b))
               <= Total(Column(f, Users, b)) + Total(Column(c, Lps, b))
  BY <1>3, <1>6 DEF RecordOf, Moved
<1> QED
  BY <1>3, <1>7 DEF RecordOf

\* The records as counters of naturals.
LEMMA Records ==
    ASSUME VaultTypeOK, LpPaidWithinEntitlement
    PROVE  /\ RecordTypes(holdings, redeemed, funding, Owed)
           /\ entitlement \in [LpKeys -> Nat] /\ withdrawn \in [LpKeys -> Nat]
           /\ \A k \in LpKeys : Owed[k] = entitlement[k] - withdrawn[k]
<1>1. /\ funding \in [Keys -> Nat] /\ redeemed \in [Keys -> Nat]
      /\ holdings \in [Assets -> Nat]
      /\ entitlement \in [LpKeys -> Nat] /\ withdrawn \in [LpKeys -> Nat]
  BY MaxFeltAssumption DEF VaultTypeOK, Felt
<1>2. \A k \in LpKeys : Owed[k] = entitlement[k] - withdrawn[k] /\ Owed[k] \in Nat
  BY <1>1 DEF Owed, Withdrawable, LpPaidWithinEntitlement
<1>3. Owed \in [LpKeys -> Nat]
  BY <1>2 DEF Owed
<1> QED
  BY <1>1, <1>2, <1>3 DEF RecordTypes

\* Each transaction moves as much on the records as into or out of the vault;
\* only a checkpoint adds to the records alone.
LEMMA RecordStep == IInv /\ IInv' /\ RecordInv /\ [Next]_vars => RecordInv'
<1> SUFFICES ASSUME IInv, IInv', RecordInv, [Next]_vars PROVE RecordInv'
  OBVIOUS
<1>1. /\ RecordTypes(holdings, redeemed, funding, Owed)
      /\ entitlement \in [LpKeys -> Nat] /\ withdrawn \in [LpKeys -> Nat]
      /\ \A k \in LpKeys : Owed[k] = entitlement[k] - withdrawn[k]
  BY Records DEF IInv, TypeOK
<1>2. RecordTypes(holdings', redeemed', funding', Owed')
      /\ \A k \in LpKeys : Owed'[k] = entitlement'[k] - withdrawn'[k]
  <2>1. /\ funding' \in [Keys -> Nat] /\ redeemed' \in [Keys -> Nat]
        /\ holdings' \in [Assets -> Nat]
        /\ entitlement' \in [LpKeys -> Nat] /\ withdrawn' \in [LpKeys -> Nat]
    BY MaxFeltAssumption DEF IInv, TypeOK, VaultTypeOK, Felt
  <2>2. \A k \in LpKeys : Owed'[k] = entitlement'[k] - withdrawn'[k] /\ Owed'[k] \in Nat
    BY <2>1 DEF Owed, Withdrawable, IInv, LpPaidWithinEntitlement
  <2>3. Owed' \in [LpKeys -> Nat]
    BY <2>2 DEF Owed
  <2> QED
    BY <2>1, <2>2, <2>3 DEF RecordTypes
<1>3. RecordOf(holdings, redeemed, funding, Owed)
  BY DEF RecordInv
<1>4. (UNCHANGED lpVars) => Owed' = Owed
  BY DEF Owed, Withdrawable, lpVars
<1>5. SUFFICES RecordOf(holdings', redeemed', funding', Owed')
  BY DEF RecordInv
<1>6. ASSUME NEW u \in Users, NEW a \in Assets, NEW amount \in Amounts, FundUser(u, a, amount)
      PROVE  RecordOf(holdings', redeemed', funding', Owed')
  <2>1. /\ holdings' = [holdings EXCEPT ![a] = @ + amount] /\ redeemed' = redeemed
        /\ funding' = [funding EXCEPT ![<<u, a>>] = @ + amount] /\ UNCHANGED lpVars
    BY <1>6 DEF FundUser, Fund, ReceiveAsset, Added
  <2>2. amount \in Nat /\ amount \in Int /\ -amount \in Int /\ <<u, a>> \in Keys
    BY AmountsAssumption, MaxFeltAssumption DEF Keys
  <2>3. Moved(holdings, holdings', a, amount)
    BY <1>1, <2>1, <2>2 DEF Moved, RecordTypes
  <2>4. Changed(funding, funding', Users, u, a) /\ amount = funding'[<<u, a>>] - funding[<<u, a>>]
    BY <1>1, <1>2, <2>1, <2>2 DEF Changed, RecordTypes, Keys
  <2>5. Owed' = Owed /\ RecordTypes(holdings', redeemed, funding', Owed)
    BY <1>2, <1>4, <2>1
  <2>6. RecordOf(holdings', redeemed, funding', Owed)
    BY <1>1, <1>3, <2>2, <2>3, <2>4, <2>5, FundingMoves
  <2> QED
    BY <2>1, <2>5, <2>6
<1>7. ASSUME NEW u \in Users, NEW a \in Assets, NEW amount \in Amounts, RedeemUser(u, a, amount)
      PROVE  RecordOf(holdings', redeemed', funding', Owed')
  <2>1. /\ holdings' = [holdings EXCEPT ![a] = @ - amount] /\ funding' = funding
        /\ redeemed' = [redeemed EXCEPT ![<<u, a>>] = @ + amount] /\ UNCHANGED lpVars
    BY <1>7 DEF RedeemUser, Redeem, PayOut, Added
  <2>2. amount \in Nat /\ amount \in Int /\ -amount \in Int /\ <<u, a>> \in Keys
    BY AmountsAssumption, MaxFeltAssumption DEF Keys
  <2>3. Moved(holdings, holdings', a, -amount)
    BY <1>1, <2>1, <2>2 DEF Moved, RecordTypes
  <2>4. Changed(redeemed, redeemed', Users, u, a) /\ -amount = redeemed[<<u, a>>] - redeemed'[<<u, a>>]
    BY <1>1, <1>2, <2>1, <2>2 DEF Changed, RecordTypes, Keys
  <2>5. Owed' = Owed /\ RecordTypes(holdings', redeemed', funding, Owed)
    BY <1>2, <1>4, <2>1
  <2>6. RecordOf(holdings', redeemed', funding, Owed)
    BY <1>1, <1>3, <2>2, <2>3, <2>4, <2>5, RedeemMoves
  <2> QED
    BY <2>1, <2>5, <2>6
<1>8. ASSUME NEW l \in Lps, NEW a \in Assets, NEW amount \in Amounts,
             Deposit(l, a, amount) \/ Checkpoint(l, a, amount) \/ Withdraw(l, a, amount)
      PROVE  RecordOf(holdings', redeemed', funding', Owed')
  <2>1. amount \in Nat /\ <<l, a>> \in LpKeys
    BY AmountsAssumption, MaxFeltAssumption DEF LpKeys
  <2>2. /\ redeemed' = redeemed /\ funding' = funding
        /\ \A k \in LpKeys : k # <<l, a>> => entitlement'[k] = entitlement[k] /\ withdrawn'[k] = withdrawn[k]
    BY <1>1, <1>8, <2>1 DEF Deposit, DepositLiquidity, Checkpoint, CheckpointLpEntitlement, Withdraw,
         WithdrawLiquidity, Added, cashVars
  <2>3. \E n \in Int : Moved(holdings, holdings', a, n) /\ n <= Owed'[<<l, a>>] - Owed[<<l, a>>]
    <3>1. CASE Deposit(l, a, amount)
      <4>1. /\ holdings' = [holdings EXCEPT ![a] = @ + amount] /\ withdrawn' = withdrawn
            /\ entitlement' = [entitlement EXCEPT ![<<l, a>>] = @ + amount]
        BY <3>1 DEF Deposit, DepositLiquidity, ReceiveAsset, Added
      <4>2. Moved(holdings, holdings', a, amount)
        BY <1>1, <2>1, <4>1 DEF Moved, RecordTypes
      <4>3. amount <= Owed'[<<l, a>>] - Owed[<<l, a>>]
        BY <1>1, <1>2, <2>1, <4>1
      <4> QED
        BY <2>1, <4>2, <4>3
    <3>2. CASE Checkpoint(l, a, amount)
      <4>1. /\ holdings' = holdings /\ withdrawn' = withdrawn /\ amount >= entitlement[<<l, a>>]
            /\ entitlement' = [entitlement EXCEPT ![<<l, a>>] = amount]
        BY <3>2 DEF Checkpoint, CheckpointLpEntitlement
      <4>2. Moved(holdings, holdings', a, 0)
        BY <1>1, <4>1 DEF Moved, RecordTypes
      <4>3. 0 <= Owed'[<<l, a>>] - Owed[<<l, a>>]
        BY <1>1, <1>2, <2>1, <4>1
      <4> QED
        BY <4>2, <4>3
    <3>3. CASE Withdraw(l, a, amount)
      <4>1. /\ holdings' = [holdings EXCEPT ![a] = @ - amount] /\ entitlement' = entitlement
            /\ withdrawn' = [withdrawn EXCEPT ![<<l, a>>] = @ + amount]
        BY <3>3 DEF Withdraw, WithdrawLiquidity, PayOut, Added
      <4>2. Moved(holdings, holdings', a, -amount)
        BY <1>1, <2>1, <4>1 DEF Moved, RecordTypes
      <4>3. -amount <= Owed'[<<l, a>>] - Owed[<<l, a>>]
        BY <1>1, <1>2, <2>1, <4>1
      <4> QED
        BY <2>1, <4>2, <4>3
    <3> QED
      BY <1>8, <3>1, <3>2, <3>3
  <2>4. PICK n \in Int : Moved(holdings, holdings', a, n) /\ n <= Owed'[<<l, a>>] - Owed[<<l, a>>]
    BY <2>3
  <2>5. Changed(Owed, Owed', Lps, l, a)
    <3>1. \A k \in LpKeys : k # <<l, a>> => Owed'[k] = Owed[k]
      BY <1>1, <1>2, <2>2
    <3> QED
      BY <1>1, <1>2, <3>1 DEF Changed, RecordTypes, LpKeys
  <2> QED
    BY <1>1, <1>2, <1>3, <2>2, <2>4, <2>5, OwedMoves
<1>9. ASSUME UNCHANGED <<funding, redeemed, lpVars, holdings>>
      PROVE  RecordOf(holdings', redeemed', funding', Owed')
  BY <1>3, <1>4, <1>9
<1>10. ASSUME NEW u \in Users, NEW a \in Assets, NEW amount \in Amounts, InitRedeemUser(u, a, amount)
       PROVE  UNCHANGED <<funding, redeemed, lpVars, holdings>>
  BY <1>10 DEF InitRedeemUser, InitiateRedeem
<1>11. ASSUME NEW p \in Pools, AddPool(p) PROVE UNCHANGED <<funding, redeemed, lpVars, holdings>>
  BY <1>11 DEF AddPool, AddAuthorizedPool, cashVars
<1>12. ASSUME NEW u \in Users, NEW key \in PubKeys, Register(u, key)
       PROVE  UNCHANGED <<funding, redeemed, lpVars, holdings>>
  BY <1>12 DEF Register, RegisterUser, cashVars
<1>13. ASSUME NEW p \in Pools, NEW u \in Users, NEW sell \in Assets, NEW buy \in Assets,
              NEW sellAmount \in Amounts, NEW buyAmount \in Amounts, NEW nonce \in Nonces,
              Swap(p, u, sell, sellAmount, buy, buyAmount, nonce)
       PROVE  UNCHANGED <<funding, redeemed, lpVars, holdings>>
  BY <1>13 DEF Swap, vaultVars, cashVars
<1>14. CASE UNCHANGED vars
  BY <1>9, <1>14 DEF vars, vaultVars, cashVars
<1> QED
  BY <1>6, <1>7, <1>8, <1>9, <1>10, <1>11, <1>12, <1>13, <1>14 DEF Next

\* An empty vault has an empty record.
LEMMA RecordStart == Init => RecordInv
<1> SUFFICES ASSUME Init PROVE RecordInv
  OBVIOUS
<1>1. /\ funding = [k \in Keys |-> 0] /\ redeemed = [k \in Keys |-> 0]
      /\ holdings = [a \in Assets |-> 0] /\ Owed = [k \in LpKeys |-> 0]
  BY DEF Init, VaultInit, Owed, Withdrawable
<1> SUFFICES ASSUME NEW a \in Assets
             PROVE  /\ IsFiniteSet(Units(Column(redeemed, Users, a)))
                    /\ IsFiniteSet(Units(Column(funding, Users, a)))
                    /\ IsFiniteSet(Units(Column(Owed, Lps, a)))
                    /\ holdings[a] + Total(Column(redeemed, Users, a))
                          <= Total(Column(funding, Users, a)) + Total(Column(Owed, Lps, a))
  BY DEF RecordInv, RecordOf
<1>2. ASSUME NEW S, NEW c, c = [k \in S \X Assets |-> 0]
      PROVE  IsFiniteSet(Units(Column(c, S, a))) /\ Total(Column(c, S, a)) = 0
  <2>1. Column(c, S, a) \in [S -> Nat] /\ \A x \in S : Column(c, S, a)[x] = 0
    BY <1>2 DEF Column
  <2> QED
    BY <2>1, TotalZero
<1>3. /\ IsFiniteSet(Units(Column(redeemed, Users, a))) /\ Total(Column(redeemed, Users, a)) = 0
      /\ IsFiniteSet(Units(Column(funding, Users, a))) /\ Total(Column(funding, Users, a)) = 0
      /\ IsFiniteSet(Units(Column(Owed, Lps, a))) /\ Total(Column(Owed, Lps, a)) = 0
  BY <1>1, <1>2 DEF Keys, LpKeys
<1> QED
  BY <1>1, <1>3

\* For any amounts, users and LPs, what the vault holds is on record.
THEOREM HoldingsRecorded == Spec => []HoldingsOnRecord
<1>1. RecordInv => HoldingsOnRecord
  BY DEF RecordInv, RecordOf, HoldingsOnRecord
<1> QED
  BY <1>1, Inductive, RecordStart, RecordStep, PTL DEF Spec

----------------------------------------------------------------------------
(* The ledger.  Each transaction of the composed accounts is one operation *)
(* of the bank, or none; IInv says what a user's counters add up to on the *)
(* one shard that has them.                                                *)

\* The books as the counters of the two accounts, key by key.
BookValues ==
    \A k \in Keys :
        /\ Reserved[k] = initiated[k] - redeemed[k]
        /\ userPool[k[1]] = NoPool => Owned[k] = funding[k]
        /\ \A p \in Pools : userPool[k[1]] = p =>
              Owned[k] = funding[k] + CellBought(p, k) - CellSold(p, k) - redeemed[k]

\* The books are functions of the keys.
BooksTyped ==
    /\ Owned = [k \in Keys |-> Owned[k]]
    /\ Reserved = [k \in Keys |-> Reserved[k]]
    /\ Owed = [k \in LpKeys |-> entitlement[k] - withdrawn[k]]

Books == BookValues /\ BooksTyped

\* The books are what the definitions say, in every state...
LEMMA BooksNow == Books
<1>1. BooksTyped
  BY DEF BooksTyped, Owned, Reserved, Owed, Withdrawable
<1> SUFFICES ASSUME NEW k \in Keys
             PROVE  /\ Reserved[k] = initiated[k] - redeemed[k]
                    /\ userPool[k[1]] = NoPool => Owned[k] = funding[k]
                    /\ \A p \in Pools : userPool[k[1]] = p =>
                          Owned[k] = funding[k] + CellBought(p, k) - CellSold(p, k) - redeemed[k]
  BY <1>1 DEF Books, BookValues
<1>2. k = <<k[1], k[2]>>
  BY DEF Keys
<1> QED
  BY <1>2, NoPoolAssumption DEF Owned, Reserved, Pending, UserBalance, Balance

\* ... and in every next one.
LEMMA BooksNext == Books'
BY BooksNow, PTL

\* What a user owns as integers, and the part of it that is reserved.
LEMMA BooksSound ==
    ASSUME IInv, NEW k \in Keys
    PROVE  /\ Owned[k] \in Int /\ Reserved[k] \in Nat
           /\ userPool[k[1]] = NoPool => initiated[k] = 0 /\ redeemed[k] = 0
           /\ \A p \in Pools : userPool[k[1]] # p => CellBought(p, k) = 0 /\ CellSold(p, k) = 0
<1>1. /\ funding[k] \in Nat /\ initiated[k] \in Nat /\ redeemed[k] \in Nat
      /\ userPool[k[1]] \in Pools \cup {NoPool}
      /\ \A p \in Pools : CellSold(p, k) \in Nat /\ CellBought(p, k) \in Nat
  BY VaultNat, CellsNat DEF IInv, TypeOK, VaultTypeOK, Keys
<1>2. redeemed[k] <= initiated[k] /\ (userPool[k[1]] = NoPool => initiated[k] = 0)
  BY DEF IInv, NoOverdraft
<1>3. \A p \in Pools : userPool[k[1]] # p => CellBought(p, k) = 0 /\ CellSold(p, k) = 0
  BY DEF IInv, CellsFollowPlacement, CellBought, CellSold
<1>4. /\ Reserved[k] = initiated[k] - redeemed[k]
      /\ userPool[k[1]] = NoPool => Owned[k] = funding[k]
      /\ \A p \in Pools : userPool[k[1]] = p =>
            Owned[k] = funding[k] + CellBought(p, k) - CellSold(p, k) - redeemed[k]
  BY BooksNow DEF Books, BookValues
<1> QED
  BY <1>1, <1>2, <1>3, <1>4

\* While placement and cells stay, a book moves with the vault's counters.
LEMMA OwnedMoves ==
    ASSUME IInv, UNCHANGED <<placementVars, poolVars>>, NEW k \in Keys, NEW n \in Int,
           funding'[k] \in Nat, redeemed'[k] \in Nat,
           userPool[k[1]] = NoPool => redeemed'[k] = redeemed[k],
           funding'[k] - redeemed'[k] = funding[k] - redeemed[k] + n
    PROVE  Owned'[k] = Owned[k] + n
<1>1. \A p \in Pools : CellSold(p, k)' = CellSold(p, k) /\ CellBought(p, k)' = CellBought(p, k)
  BY CellsUntouched
<1>2. userPool' = userPool
  BY DEF placementVars
<1>3. /\ funding[k] \in Nat /\ redeemed[k] \in Nat
      /\ userPool[k[1]] \in Pools \cup {NoPool}
      /\ \A p \in Pools : CellSold(p, k) \in Nat /\ CellBought(p, k) \in Nat
  BY VaultNat, CellsNat DEF IInv, TypeOK, VaultTypeOK, Keys
<1>4. userPool[k[1]] = NoPool => Owned[k] = funding[k] /\ Owned'[k] = funding'[k]
  BY <1>2, BooksNow, BooksNext DEF Books, BookValues
<1>5. \A p \in Pools : userPool[k[1]] = p =>
         /\ Owned[k] = funding[k] + CellBought(p, k) - CellSold(p, k) - redeemed[k]
         /\ Owned'[k] = funding'[k] + CellBought(p, k) - CellSold(p, k) - redeemed'[k]
  BY <1>1, <1>2, BooksNow, BooksNext DEF Books, BookValues
<1> QED
  BY <1>3, <1>4, <1>5

\* A book that differs at one key, as the ledger writes it.
LEMMA OneEntry ==
    ASSUME NEW D, NEW f, NEW g, f = [x \in D |-> f[x]], g = [x \in D |-> g[x]],
           NEW k \in D, NEW n, g[k] = f[k] + n, \A x \in D : x # k => g[x] = f[x]
    PROVE  g = Ledger!Plus(f, k, n)
BY DEF Ledger!Plus

\* Nothing moved in a book.
LEMMA NoEntry ==
    ASSUME NEW D, NEW f, NEW g, f = [x \in D |-> f[x]], g = [x \in D |-> g[x]],
           \A x \in D : g[x] = f[x]
    PROVE  g = f
<1> QED
  BY Zenon

\* One operation of the bank, or none.
LedgerStep == [Ledger!Next]_Ledger!ledgerVars

\* Authorizing a pool moves no money.
LEMMA LedgerAddPool ==
    ASSUME IInv, NEW p \in Pools, AddPool(p)
    PROVE  LedgerStep
<1>1. /\ userPool' = userPool /\ funding' = funding /\ initiated' = initiated
      /\ redeemed' = redeemed /\ holdings' = holdings
      /\ entitlement' = entitlement /\ withdrawn' = withdrawn
      /\ nextCell' = nextCell /\ cellIndex' = cellIndex /\ bought' = bought /\ sold' = sold
  BY DEF AddPool, AddAuthorizedPool, cashVars, lpVars, poolVars
<1>2. Owned' = Owned /\ Reserved' = Reserved /\ Owed' = Owed
  BY <1>1 DEF Owned, Reserved, Owed, UserBalance, Balance, CellBought, CellSold, Pending,
              Withdrawable
<1> QED
  BY <1>1, <1>2 DEF LedgerStep, Ledger!ledgerVars

\* Neither does binding a user: the user has no cells and no redeems yet.
LEMMA LedgerRegister ==
    ASSUME IInv, NEW u \in Users, NEW key \in PubKeys, Register(u, key)
    PROVE  LedgerStep
<1>1. /\ funding' = funding /\ initiated' = initiated /\ redeemed' = redeemed
      /\ entitlement' = entitlement /\ withdrawn' = withdrawn /\ holdings' = holdings
      /\ cellIndex' = cellIndex /\ bought' = bought /\ sold' = sold
      /\ pubkey[u] = NoKey /\ activePool \in authorized
      /\ userPool' = [userPool EXCEPT ![u] = activePool]
  BY DEF Register, RegisterUser, cashVars, lpVars, poolVars
<1>2. PICK p \in Pools : p = activePool /\ userPool[u] = NoPool
  BY <1>1 DEF IInv, TypeOK, VaultTypeOK, Registration
<1>3. \A q \in Pools, k \in Keys : CellSold(q, k)' = CellSold(q, k) /\ CellBought(q, k)' = CellBought(q, k)
  BY <1>1 DEF CellSold, CellBought
<1>4. ASSUME NEW k \in Keys PROVE Owned'[k] = Owned[k]
  <2>1. /\ k[1] \in Users /\ funding[k] \in Nat
        /\ userPool[k[1]] \in Pools \cup {NoPool}
    BY VaultNat DEF IInv, TypeOK, VaultTypeOK, Keys
  <2>2. CASE k[1] = u
    <3>1. /\ redeemed[k] = 0
          /\ CellBought(p, k) = 0 /\ CellSold(p, k) = 0
      BY <1>2, <2>2, BooksSound, NoPoolAssumption
    <3>2. Owned[k] = funding[k]
      BY <1>2, <2>2, BooksNow DEF Books, BookValues
    <3>3. Owned'[k] = funding'[k] + CellBought(p, k)' - CellSold(p, k)' - redeemed'[k]
      <4>1. userPool'[k[1]] = p
        BY <1>1, <1>2, <2>1, <2>2 DEF IInv, TypeOK, VaultTypeOK
      <4> QED
        BY <1>2, <4>1, BooksNext DEF Books, BookValues
    <3> QED
      BY <1>1, <1>2, <1>3, <2>1, <3>1, <3>2, <3>3
  <2>3. CASE k[1] # u
    <3>1. userPool'[k[1]] = userPool[k[1]]
      BY <1>1, <2>1, <2>3 DEF IInv, TypeOK, VaultTypeOK
    <3>2. CASE userPool[k[1]] = NoPool
      BY <1>1, <3>1, <3>2, BooksNow, BooksNext DEF Books, BookValues
    <3>3. CASE userPool[k[1]] \in Pools
      BY <1>1, <1>3, <3>1, <3>3, BooksNow, BooksNext DEF Books, BookValues
    <3> QED
      BY <2>1, <3>2, <3>3
  <2> QED
    BY <2>2, <2>3
<1>5. Owned' = Owned
  BY <1>4, BooksNow, BooksNext, NoEntry DEF Books, BooksTyped
<1>6. Reserved' = Reserved /\ Owed' = Owed
  BY <1>1 DEF Reserved, Owed, Pending, Withdrawable
<1> QED
  BY <1>1, <1>5, <1>6 DEF LedgerStep, Ledger!ledgerVars

\* Funding.
LEMMA LedgerFund ==
    ASSUME IInv, NEW u \in Users, NEW a \in Assets, NEW amount \in Amounts,
           FundUser(u, a, amount)
    PROVE  LedgerStep
<1> DEFINE key == <<u, a>>
<1>1. /\ UNCHANGED <<placementVars, poolVars>>
      /\ initiated' = initiated /\ redeemed' = redeemed
      /\ entitlement' = entitlement /\ withdrawn' = withdrawn
      /\ holdings' = [holdings EXCEPT ![a] = @ + amount]
      /\ funding' = [funding EXCEPT ![key] = @ + amount]
  BY DEF FundUser, Fund, ReceiveAsset, CanAdd, Added, lpVars
<1>2. key \in Keys /\ amount \in Nat /\ VaultTypeOK
  BY AmountsAssumption, MaxFeltAssumption DEF Keys, IInv, TypeOK
<1>3. Owned'[key] = Owned[key] + amount
  <2>1. funding'[key] = funding[key] + amount /\ funding[key] \in Nat /\ redeemed[key] \in Nat
    BY <1>1, <1>2, VaultNat DEF VaultTypeOK
  <2> QED
    BY <1>1, <1>2, <2>1, OwnedMoves
<1>4. ASSUME NEW k \in Keys, k # key PROVE Owned'[k] = Owned[k]
  <2>1. funding'[k] = funding[k] /\ funding[k] \in Nat /\ redeemed[k] \in Nat
    BY <1>1, <1>2, <1>4, VaultNat DEF VaultTypeOK
  <2>2. Owned'[k] = Owned[k] + 0 /\ Owned[k] \in Int
    BY <1>1, <2>1, OwnedMoves, BooksSound
  <2> QED
    BY <2>2
<1>5. Owned' = Ledger!Plus(Owned, key, amount)
  <2> HIDE DEF key
  <2> QED
    BY <1>2, <1>3, <1>4, BooksNow, BooksNext, OneEntry DEF Books, BooksTyped
<1>6. Reserved' = Reserved /\ Owed' = Owed
  BY <1>1 DEF Reserved, Owed, Pending, Withdrawable
<1>7. Ledger!Fund(u, a, amount)
  BY <1>1, <1>5, <1>6 DEF Ledger!Fund, Ledger!Plus
<1> QED
  BY <1>7 DEF LedgerStep, Ledger!Next

\* A request to redeem reserves what is available.
LEMMA LedgerReserve ==
    ASSUME IInv, NEW u \in Users, NEW a \in Assets, NEW amount \in Amounts,
           InitRedeemUser(u, a, amount)
    PROVE  LedgerStep
<1> DEFINE key == <<u, a>>
<1>1. /\ UNCHANGED <<placementVars, poolVars>>
      /\ funding' = funding /\ redeemed' = redeemed
      /\ entitlement' = entitlement /\ withdrawn' = withdrawn /\ holdings' = holdings
      /\ UserAvailable(u, a) >= amount /\ userPool[u] \in authorized
      /\ initiated' = [initiated EXCEPT ![key] = @ + amount]
  BY DEF InitRedeemUser, InitiateRedeem, CanAdd, Added, lpVars
<1>2. key \in Keys /\ amount \in Nat /\ VaultTypeOK /\ userPool[u] \in Pools
  BY <1>1, AmountsAssumption, MaxFeltAssumption DEF Keys, IInv, TypeOK, VaultTypeOK
<1>3. Owned[key] - Reserved[key] >= amount
  <2>1. Owned[key] = UserBalance(u, a) /\ Reserved[key] = Pending(key)
    BY <1>2, NoPoolAssumption DEF Owned, Reserved
  <2> QED
    BY <1>1, <2>1 DEF UserAvailable
<1>4. ASSUME NEW k \in Keys PROVE Owned'[k] = Owned[k]
  <2>1. funding[k] \in Nat /\ redeemed[k] \in Nat
    BY <1>2, VaultNat
  <2>2. Owned'[k] = Owned[k] + 0 /\ Owned[k] \in Int
    BY <1>1, <2>1, OwnedMoves, BooksSound
  <2> QED
    BY <2>2
<1>5. Owned' = Owned
  BY <1>4, BooksNow, BooksNext, NoEntry DEF Books, BooksTyped
<1>6. Reserved'[key] = Reserved[key] + amount
      /\ \A k \in Keys : k # key => Reserved'[k] = Reserved[k]
  <2>1. /\ initiated'[key] = initiated[key] + amount /\ initiated[key] \in Nat /\ redeemed[key] \in Nat
        /\ \A k \in Keys : k # key => initiated'[k] = initiated[k]
    BY <1>1, <1>2, VaultNat DEF VaultTypeOK
  <2>2. \A k \in Keys : /\ Reserved[k] = initiated[k] - redeemed[k]
                        /\ Reserved'[k] = initiated'[k] - redeemed[k]
    BY <1>1, BooksNow, BooksNext DEF Books, BookValues
  <2> QED
    BY <1>2, <2>1, <2>2
<1>7. Reserved' = Ledger!Plus(Reserved, key, amount)
  <2> HIDE DEF key
  <2> QED
    BY <1>2, <1>6, BooksNow, BooksNext, OneEntry DEF Books, BooksTyped
<1>8. Owed' = Owed
  BY <1>1 DEF Owed, Withdrawable
<1>9. Ledger!Reserve(u, a, amount)
  BY <1>1, <1>3, <1>5, <1>7, <1>8 DEF Ledger!Reserve
<1> QED
  BY <1>9 DEF LedgerStep, Ledger!Next

\* A redeem pays out what was reserved.
LEMMA LedgerPay ==
    ASSUME IInv, NEW u \in Users, NEW a \in Assets, NEW amount \in Amounts,
           RedeemUser(u, a, amount)
    PROVE  LedgerStep
<1> DEFINE key == <<u, a>>
<1>1. /\ UNCHANGED <<placementVars, poolVars>>
      /\ funding' = funding /\ initiated' = initiated
      /\ entitlement' = entitlement /\ withdrawn' = withdrawn
      /\ initiated[key] - redeemed[key] >= amount /\ userPool[u] \in authorized
      /\ redeemed' = [redeemed EXCEPT ![key] = @ + amount]
      /\ holdings[a] >= amount
      /\ holdings' = [holdings EXCEPT ![a] = @ - amount]
  BY DEF RedeemUser, Redeem, PayOut, CanAdd, Added, lpVars, Pending
<1>2. key \in Keys /\ amount \in Nat /\ VaultTypeOK /\ userPool[u] \in Pools
  BY <1>1, AmountsAssumption, MaxFeltAssumption DEF Keys, IInv, TypeOK, VaultTypeOK
<1>3. /\ redeemed'[key] = redeemed[key] + amount
      /\ funding[key] \in Nat /\ initiated[key] \in Nat /\ redeemed[key] \in Nat
      /\ \A k \in Keys : k # key => redeemed'[k] = redeemed[k]
  BY <1>1, <1>2, VaultNat DEF VaultTypeOK
<1>4. Owned'[key] = Owned[key] + -amount
  BY <1>1, <1>2, <1>3, NoPoolAssumption, OwnedMoves
<1>5. ASSUME NEW k \in Keys, k # key PROVE Owned'[k] = Owned[k]
  <2>1. funding[k] \in Nat /\ redeemed[k] \in Nat /\ redeemed'[k] = redeemed[k]
    BY <1>2, <1>3, <1>5, VaultNat
  <2>2. Owned'[k] = Owned[k] + 0 /\ Owned[k] \in Int
    BY <1>1, <2>1, OwnedMoves, BooksSound
  <2> QED
    BY <2>2
<1>6. Owned' = Ledger!Plus(Owned, key, -amount)
  <2> HIDE DEF key
  <2> QED
    BY <1>2, <1>4, <1>5, BooksNow, BooksNext, OneEntry DEF Books, BooksTyped
<1>7. /\ Reserved[key] >= amount
      /\ Reserved'[key] = Reserved[key] + -amount
      /\ \A k \in Keys : k # key => Reserved'[k] = Reserved[k]
  <2>1. \A k \in Keys : /\ Reserved[k] = initiated[k] - redeemed[k]
                        /\ Reserved'[k] = initiated[k] - redeemed'[k]
    BY <1>1, BooksNow, BooksNext DEF Books, BookValues
  <2> QED
    BY <1>1, <1>2, <1>3, <2>1
<1>8. Reserved' = Ledger!Plus(Reserved, key, -amount)
  <2> HIDE DEF key
  <2> QED
    BY <1>2, <1>7, BooksNow, BooksNext, OneEntry DEF Books, BooksTyped
<1>9. Owed' = Owed
  BY <1>1 DEF Owed, Withdrawable
<1>10. holdings' = Ledger!Plus(holdings, a, -amount)
  <2>1. holdings[a] \in Int
    BY <1>2, MaxFeltAssumption DEF VaultTypeOK, Felt
  <2>2. holdings[a] - amount = holdings[a] + -amount
    BY <1>2, <2>1
  <2> QED
    BY <1>1, <2>2 DEF Ledger!Plus
<1>11. Ledger!Pay(u, a, amount)
  BY <1>1, <1>6, <1>7, <1>8, <1>9, <1>10 DEF Ledger!Pay
<1> QED
  BY <1>11 DEF LedgerStep, Ledger!Next

\* What the liquidity providers do leaves the users' books alone.
LEMMA LedgerUsersKeep ==
    ASSUME UNCHANGED <<placementVars, cashVars, poolVars>>
    PROVE  Owned' = Owned /\ Reserved' = Reserved
<1>1. /\ userPool' = userPool /\ funding' = funding /\ initiated' = initiated
      /\ redeemed' = redeemed /\ cellIndex' = cellIndex /\ bought' = bought /\ sold' = sold
  BY DEF placementVars, cashVars, poolVars
<1> QED
  BY <1>1 DEF Owned, Reserved, UserBalance, Balance, CellBought, CellSold, Pending

\* Liquidity.
LEMMA LedgerLp ==
    ASSUME IInv, NEW l \in Lps, NEW a \in Assets, NEW amount \in Amounts,
           Deposit(l, a, amount) \/ Checkpoint(l, a, amount) \/ Withdraw(l, a, amount)
    PROVE  LedgerStep
<1> DEFINE key == <<l, a>>
<1>1. UNCHANGED <<placementVars, cashVars, poolVars>>
  BY DEF Deposit, DepositLiquidity, Checkpoint, CheckpointLpEntitlement, Withdraw,
         WithdrawLiquidity
<1>2. Owned' = Owned /\ Reserved' = Reserved
  BY <1>1, LedgerUsersKeep
<1>3. /\ key \in LpKeys /\ amount \in Nat /\ amount \in 0 .. MaxFelt
      /\ entitlement \in [LpKeys -> Nat] /\ withdrawn \in [LpKeys -> Nat]
      /\ holdings \in [Assets -> Nat]
  BY AmountsAssumption, MaxFeltAssumption DEF LpKeys, IInv, TypeOK, VaultTypeOK, Felt
<1>4. /\ \A k \in LpKeys : /\ Owed[k] = entitlement[k] - withdrawn[k]
                           /\ Owed'[k] = entitlement'[k] - withdrawn'[k]
      /\ Owed = [k \in LpKeys |-> Owed[k]] /\ Owed' = [k \in LpKeys |-> Owed'[k]]
  BY DEF Owed, Withdrawable
<1>5. CASE Deposit(l, a, amount)
  <2>1. /\ holdings' = [holdings EXCEPT ![a] = @ + amount]
        /\ entitlement' = [entitlement EXCEPT ![key] = @ + amount]
        /\ withdrawn' = withdrawn
    BY <1>5 DEF Deposit, DepositLiquidity, ReceiveAsset, Added
  <2>2. Owed'[key] = Owed[key] + amount /\ \A k \in LpKeys : k # key => Owed'[k] = Owed[k]
    BY <1>3, <1>4, <2>1
  <2>3. Owed' = Ledger!Plus(Owed, key, amount)
    <3> HIDE DEF key
    <3> QED
      BY <1>3, <1>4, <2>2, OneEntry
  <2>4. Ledger!Deposit(l, a, amount)
    BY <1>2, <2>1, <2>3 DEF Ledger!Deposit, Ledger!Plus
  <2> QED
    BY <2>4 DEF LedgerStep, Ledger!Next
<1>6. CASE Checkpoint(l, a, amount)
  <2>1. /\ amount >= entitlement[key] /\ holdings' = holdings
        /\ entitlement' = [entitlement EXCEPT ![key] = amount]
        /\ withdrawn' = withdrawn
    BY <1>6 DEF Checkpoint, CheckpointLpEntitlement
  <2> DEFINE new == amount - withdrawn[key]
  <2>2. /\ entitlement[key] \in Nat /\ withdrawn[key] \in Nat /\ withdrawn[key] <= entitlement[key]
        /\ Owed[key] = entitlement[key] - withdrawn[key]
    BY <1>3, <1>4 DEF IInv, LpPaidWithinEntitlement
  <2>3. new \in 0 .. MaxFelt /\ new >= Owed[key]
    BY <1>3, <2>1, <2>2, MaxFeltAssumption
  <2>4. Owed'[key] = new /\ \A k \in LpKeys : k # key => Owed'[k] = Owed[k]
    BY <1>3, <1>4, <2>1
  <2>5. Owed' = [Owed EXCEPT ![key] = new]
    <3> HIDE DEF key, new
    <3> QED
      BY <1>3, <1>4, <2>4
  <2>6. Ledger!Accrue(l, a, new)
    BY <1>2, <2>1, <2>3, <2>5 DEF Ledger!Accrue
  <2> QED
    BY <2>3, <2>6 DEF LedgerStep, Ledger!Next
<1>7. CASE Withdraw(l, a, amount)
  <2>1. /\ Owed[key] >= amount /\ holdings[a] >= amount
        /\ holdings' = [holdings EXCEPT ![a] = @ - amount]
        /\ withdrawn' = [withdrawn EXCEPT ![key] = @ + amount]
        /\ entitlement' = entitlement
    BY <1>7, <1>3 DEF Withdraw, WithdrawLiquidity, PayOut, Added, Owed
  <2>2. Owed'[key] = Owed[key] + -amount /\ \A k \in LpKeys : k # key => Owed'[k] = Owed[k]
    BY <1>3, <1>4, <2>1
  <2>3. Owed' = Ledger!Plus(Owed, key, -amount)
    <3> HIDE DEF key
    <3> QED
      BY <1>3, <1>4, <2>2, OneEntry
  <2>4. holdings' = Ledger!Plus(holdings, a, -amount)
    <3>1. holdings[a] - amount = holdings[a] + -amount
      BY <1>3
    <3> QED
      BY <2>1, <3>1 DEF Ledger!Plus
  <2>5. Ledger!Withdraw(l, a, amount)
    BY <1>2, <2>1, <2>3, <2>4 DEF Ledger!Withdraw
  <2> QED
    BY <2>5 DEF LedgerStep, Ledger!Next
<1> QED
  BY <1>5, <1>6, <1>7

\* A swap trades what is not reserved, whichever cells it allocates.
LEMMA LedgerTrade ==
    ASSUME IInv,
           NEW p \in Pools, NEW u \in Users, NEW sell \in Assets, NEW buy \in Assets,
           NEW sellAmount \in Amounts, NEW buyAmount \in Amounts, NEW nonce \in Nonces,
           Swap(p, u, sell, sellAmount, buy, buyAmount, nonce)
    PROVE  LedgerStep
<1> DEFINE sellKey == <<u, sell>>
           buyKey == <<u, buy>>
<1>1. UNCHANGED vaultVars /\ p = userPool[u]
  BY DEF Swap, Routed
<1>2. /\ userPool' = userPool /\ funding' = funding /\ initiated' = initiated
      /\ redeemed' = redeemed /\ holdings' = holdings
      /\ entitlement' = entitlement /\ withdrawn' = withdrawn
  BY <1>1 DEF vaultVars, placementVars, cashVars, lpVars
<1>3. /\ sellAmount \in Nat /\ buyAmount \in Nat /\ sellKey \in Keys /\ buyKey \in Keys
      /\ VaultTypeOK /\ PoolTypeOK
  BY AmountsAssumption, MaxFeltAssumption DEF Keys, IInv, TypeOK
<1>4. /\ Available(CellBought(p, sellKey), CellSold(p, sellKey), funding[sellKey],
                   redeemed[sellKey], Pending(sellKey)) >= sellAmount
      /\ \A k \in Keys :
            /\ CellSold(p, k)' = CellSold(p, k) + (IF k = sellKey THEN sellAmount ELSE 0)
            /\ CellBought(p, k)' = CellBought(p, k) + (IF k = buyKey THEN buyAmount ELSE 0)
  BY SwapCells
<1>5. Owned[sellKey] - Reserved[sellKey] >= sellAmount
  <2>1. /\ Owned[sellKey] = Balance(CellBought(p, sellKey), CellSold(p, sellKey),
                                    funding[sellKey], redeemed[sellKey])
        /\ Reserved[sellKey] = Pending(sellKey)
    BY <1>1, <1>3, NoPoolAssumption DEF Owned, Reserved, UserBalance
  <2> QED
    BY <1>4, <2>1 DEF Available
<1>6. ASSUME NEW k \in Keys
      PROVE  Owned'[k] = Owned[k] + (IF k = sellKey THEN -sellAmount ELSE 0)
                                  + (IF k = buyKey THEN buyAmount ELSE 0)
  <2>1. /\ funding[k] \in Nat /\ redeemed[k] \in Nat
        /\ userPool[k[1]] \in Pools \cup {NoPool} /\ Owned[k] \in Int
        /\ \A q \in Pools : CellSold(q, k) \in Nat /\ CellBought(q, k) \in Nat
    BY <1>3, VaultNat, CellsNat, BooksSound DEF VaultTypeOK, Keys
  <2>2. CASE userPool[k[1]] = p
    <3>1. /\ Owned[k] = funding[k] + CellBought(p, k) - CellSold(p, k) - redeemed[k]
          /\ Owned'[k] = funding[k] + CellBought(p, k)' - CellSold(p, k)' - redeemed[k]
      BY <1>2, <2>2, BooksNow, BooksNext DEF Books, BookValues
    <3>2. /\ CellSold(p, k)' = CellSold(p, k) + (IF k = sellKey THEN sellAmount ELSE 0)
          /\ CellBought(p, k)' = CellBought(p, k) + (IF k = buyKey THEN buyAmount ELSE 0)
      BY <1>4
    <3> HIDE DEF sellKey, buyKey
    <3> QED
      BY <1>3, <2>1, <3>1, <3>2
  <2>3. CASE userPool[k[1]] # p
    <3>1. k # sellKey /\ k # buyKey
      BY <1>1, <2>3
    <3>2. CASE userPool[k[1]] = NoPool
      <4>1. Owned'[k] = Owned[k]
        BY <1>2, <3>2, BooksNow, BooksNext DEF Books, BookValues
      <4> QED
        BY <2>1, <3>1, <4>1
    <3>3. ASSUME NEW q \in Pools, userPool[k[1]] = q PROVE Owned'[k] = Owned[k]
      <4>1. q # p
        BY <2>3, <3>3
      <4>2. CellSold(q, k)' = CellSold(q, k) /\ CellBought(q, k)' = CellBought(q, k)
        BY <4>1, <1>3 DEF Swap, ExecuteSwap, PoolTypeOK, CellSold, CellBought
      <4> QED
        BY <1>2, <3>3, <4>2, BooksNow, BooksNext DEF Books, BookValues
    <3>4. userPool[k[1]] \in Pools => Owned'[k] = Owned[k]
      BY <3>3
    <3> QED
      BY <2>1, <3>1, <3>2, <3>4
  <2> QED
    BY <2>2, <2>3
<1>7. Owned' = Ledger!Plus(Ledger!Plus(Owned, sellKey, -sellAmount), buyKey, buyAmount)
  <2> DEFINE mid == [k \in Keys |-> Owned[k] + (IF k = sellKey THEN -sellAmount ELSE 0)]
  <2>1. \A k \in Keys : Owned[k] \in Int
    BY BooksSound
  <2> HIDE DEF sellKey, buyKey
  <2>2. mid = Ledger!Plus(Owned, sellKey, -sellAmount)
    <3>1. mid[sellKey] = Owned[sellKey] + -sellAmount /\ \A k \in Keys : k # sellKey => mid[k] = Owned[k]
      BY <1>3, <2>1
    <3>2. mid = [k \in Keys |-> mid[k]]
      OBVIOUS
    <3> HIDE DEF mid
    <3> QED
      BY <1>3, <3>1, <3>2, BooksNow, OneEntry DEF Books, BooksTyped
  <2>3. /\ Owned'[buyKey] = mid[buyKey] + buyAmount
        /\ \A k \in Keys : k # buyKey => Owned'[k] = mid[k]
    BY <1>3, <1>6, <2>1
  <2>4. mid = [k \in Keys |-> mid[k]]
    OBVIOUS
  <2> HIDE DEF mid
  <2>5. Owned' = Ledger!Plus(mid, buyKey, buyAmount)
    BY <1>3, <2>3, <2>4, BooksNext, OneEntry DEF Books, BooksTyped
  <2> QED
    BY <2>2, <2>5
<1>8. Reserved' = Reserved /\ Owed' = Owed
  BY <1>2 DEF Reserved, Owed, Pending, Withdrawable
<1>9. Ledger!Trade(u, sell, sellAmount, buy, buyAmount)
  BY <1>2, <1>5, <1>7, <1>8 DEF Ledger!Trade
<1> QED
  BY <1>9 DEF LedgerStep, Ledger!Next

\* Every transaction is an operation of the bank or none.
LEMMA LedgerInduction == IInv /\ [Next]_vars => [Ledger!Next]_Ledger!ledgerVars
<1> SUFFICES ASSUME IInv, [Next]_vars PROVE LedgerStep
  BY DEF LedgerStep
<1>1. CASE UNCHANGED vars
  <2>1. UNCHANGED <<placementVars, cashVars, poolVars>> /\ UNCHANGED <<lpVars, holdings>>
    BY <1>1 DEF vars, vaultVars
  <2>2. Owed' = Owed
    BY <2>1 DEF Owed, Withdrawable, lpVars
  <2> QED
    BY <2>1, <2>2, LedgerUsersKeep DEF LedgerStep, Ledger!ledgerVars
<1> QED
  BY <1>1, LedgerAddPool, LedgerRegister, LedgerFund, LedgerReserve, LedgerPay, LedgerLp, LedgerTrade
     DEF Next

\* The deployed accounts are an empty bank.
LEMMA LedgerStart == Init => Ledger!Init
<1> SUFFICES ASSUME Init PROVE Ledger!Init
  OBVIOUS
<1>1. /\ userPool = [u \in Users |-> NoPool] /\ funding = [k \in Keys |-> 0]
      /\ initiated = [k \in Keys |-> 0] /\ redeemed = [k \in Keys |-> 0]
      /\ entitlement = [k \in LpKeys |-> 0] /\ withdrawn = [k \in LpKeys |-> 0]
      /\ holdings = [a \in Assets |-> 0]
  BY DEF Init, VaultInit
<1>2. Owned = [k \in Keys |-> 0] /\ Reserved = [k \in Keys |-> 0] /\ Owed = [k \in LpKeys |-> 0]
  BY <1>1 DEF Owned, Reserved, Owed, Pending, Withdrawable, Keys
<1> QED
  BY <1>1, <1>2 DEF Ledger!Init, Keys, LpKeys

\* For any users, shards, liquidity providers, capacities and amounts, the
\* vault and the shards together are the books of one bank.
THEOREM CustodyImplementsLedger == Spec => ImplementsLedger
BY LedgerStart, LedgerInduction, Inductive, PTL DEF Spec, ImplementsLedger, Ledger!Spec

=============================================================================
