--------------------------------- MODULE Pool ---------------------------------
(***************************************************************************)
(* The pool shard accounts (masm/accounts/pool.masm): the generic cells    *)
(* that hold each (user, asset) pair's swap counters, their allocation,    *)
(* the per-user nonce windows and execute_swap.                            *)
(*                                                                         *)
(* A cell slot id is the position of the slot, 1..MaxPoolCells; NoCell is  *)
(* the zero word cell_index returns for a key that has no cell.            *)
(***************************************************************************)
EXTENDS ChainBase, NonceBitmap

CONSTANT MaxPoolCells   \* MAX_POOL_CELLS, 247

ASSUME MaxPoolCellsAssumption == MaxPoolCells \in Nat

VARIABLES nextCell,     \* next_cell, per pool
          cellIndex,    \* cell_index, per pool: key -> slot id
          bought,       \* the cells' first element, per pool and slot
          sold,         \* the cells' second element, per pool and slot
          nonceWindow   \* user_nonce_windows, per pool

poolVars == <<nextCell, cellIndex, bought, sold, nonceWindow>>

NoCell == 0

Slots == 1 .. MaxPoolCells

PoolTypeOK ==
    /\ nextCell \in [Pools -> 0 .. MaxPoolCells]
    /\ cellIndex \in [Pools -> [Keys -> {NoCell} \cup Slots]]
    /\ bought \in [Pools -> [Slots -> Felt]]
    /\ sold \in [Pools -> [Slots -> Felt]]
    /\ nonceWindow \in [Pools -> [Users -> Windows]]

PoolInit ==
    /\ nextCell = [p \in Pools |-> 0]
    /\ cellIndex = [p \in Pools |-> [k \in Keys |-> NoCell]]
    /\ bought = [p \in Pools |-> [s \in Slots |-> 0]]
    /\ sold = [p \in Pools |-> [s \in Slots |-> 0]]
    /\ nonceWindow = [p \in Pools |-> [u \in Users |-> EmptyWindow]]

----------------------------------------------------------------------------
\* get_cell_word: a missing cell reads as zero.
CellBought(p, k) == IF cellIndex[p][k] = NoCell THEN 0 ELSE bought[p][cellIndex[p][k]]

CellSold(p, k) == IF cellIndex[p][k] = NoCell THEN 0 ELSE sold[p][cellIndex[p][k]]

\* compute_balance_details on a cell's counters and the vault's totals: f
\* funding, r redeemed, pending.
Balance(b, s, f, r) == f + b - s - r

Available(b, s, f, r, pending) == Balance(b, s, f, r) - pending

\* Where safe_add overflows or a safe_sub underflows the transaction aborts.
\* The subtrahends are naturals, so the last difference decides.
BalanceDefined(b, s, f, r, pending) ==
    /\ f + b <= MaxFelt
    /\ Available(b, s, f, r, pending) >= 0

\* get_or_create_cell_slot_id on a pool's allocation state: the slot of k in
\* the index, or the next generic cell.
CanAllocate(next, index, k) == index[k] # NoCell \/ next < MaxPoolCells

\* Mutated form of NextAfter: the counter is not advanced.
NextAfterStuck(next, index, k) == next

NextAfter(next, index, k) == IF index[k] = NoCell THEN next + 1 ELSE next

IndexAfter(next, index, k) == IF index[k] = NoCell THEN [index EXCEPT ![k] = next + 1] ELSE index

----------------------------------------------------------------------------
\* execute_swap on shard p, with f, r and pending the vault's values for
\* (u, sell) and key the commitment the vault returns with them.  The expiry
\* and domain checks reject intents and change nothing: an intent here is one
\* that passed them.
ExecuteSwap(p, u, sell, sellAmount, buy, buyAmount, nonce, f, r, pending, key) ==
    LET sellKey == <<u, sell>>
        buyKey == <<u, buy>>
        next1 == NextAfter(nextCell[p], cellIndex[p], sellKey)
        index1 == IndexAfter(nextCell[p], cellIndex[p], sellKey)
        next2 == NextAfter(next1, index1, buyKey)
        index2 == IndexAfter(next1, index1, buyKey)
        sellSlot == index2[sellKey]
        buySlot == index2[buyKey]
    IN  /\ PrepareVerdict(nonceWindow[p][u], nonce) = "accepted"
        /\ key # NoKey
        /\ CanAllocate(nextCell[p], cellIndex[p], sellKey)
        /\ CanAllocate(next1, index1, buyKey)
        /\ BalanceDefined(bought[p][sellSlot], sold[p][sellSlot], f, r, pending)
        /\ Available(bought[p][sellSlot], sold[p][sellSlot], f, r, pending) >= sellAmount
        /\ sold[p][sellSlot] + sellAmount <= MaxFelt
        /\ bought[p][buySlot] + buyAmount <= MaxFelt
        /\ nextCell' = [nextCell EXCEPT ![p] = next2]
        /\ cellIndex' = [cellIndex EXCEPT ![p] = index2]
        /\ sold' = [sold EXCEPT ![p][sellSlot] = @ + sellAmount]
        /\ bought' = [bought EXCEPT ![p][buySlot] = @ + buyAmount]
        /\ nonceWindow' = [nonceWindow EXCEPT ![p][u] = Prepared(@, nonce)]
=============================================================================
