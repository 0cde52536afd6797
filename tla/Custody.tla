------------------------------- MODULE Custody -------------------------------
(***************************************************************************)
(* The on-chain system: the vault composed with the pool shards.  Every    *)
(* action is one transaction of one native account; the other account is   *)
(* read by a foreign procedure invocation, which returns its committed     *)
(* values.                                                                 *)
(***************************************************************************)
EXTENDS Vault, Pool, Totals

vars == <<vaultVars, poolVars>>

TypeOK == VaultTypeOK /\ PoolTypeOK

Init == VaultInit /\ PoolInit

----------------------------------------------------------------------------
\* fetch_user_asset_balance_details: the vault resolves the user's pool and
\* hands it the vault totals.
UserBalance(u, a) ==
    LET p == userPool[u]
        k == <<u, a>>
    IN  Balance(CellBought(p, k), CellSold(p, k), funding[k], redeemed[k])

UserAvailable(u, a) == UserBalance(u, a) - Pending(<<u, a>>)

DetailsDefined(u, a) ==
    LET p == userPool[u]
        k == <<u, a>>
    IN  /\ p \in authorized
        /\ BalanceDefined(CellBought(p, k), CellSold(p, k), funding[k], redeemed[k], Pending(k))

AddPool(p) == AddAuthorizedPool(p) /\ UNCHANGED poolVars

Register(u, key) == RegisterUser(u, key) /\ UNCHANGED poolVars

FundUser(u, a, amount) == Fund(u, a, amount) /\ UNCHANGED poolVars

InitRedeemUser(u, a, amount) ==
    /\ DetailsDefined(u, a)
    /\ InitiateRedeem(u, a, amount, UserBalance(u, a), UserAvailable(u, a))
    /\ UNCHANGED poolVars

RedeemUser(u, a, amount) ==
    /\ DetailsDefined(u, a)
    /\ Redeem(u, a, amount, UserBalance(u, a), UserAvailable(u, a))
    /\ UNCHANGED poolVars

Deposit(l, a, amount) == DepositLiquidity(l, a, amount) /\ UNCHANGED poolVars

Checkpoint(l, a, new) == CheckpointLpEntitlement(l, a, new) /\ UNCHANGED poolVars

Withdraw(l, a, amount) == WithdrawLiquidity(l, a, amount) /\ UNCHANGED poolVars

\* The execution worker sends a user's orders to the shard the vault bound
\* the user to (resolve_user_pool).
Routed(u, p) == p = userPool[u]

Swap(p, u, sell, sellAmount, buy, buyAmount, nonce) ==
    /\ Routed(u, p)
    /\ ExecuteSwap(p, u, sell, sellAmount, buy, buyAmount, nonce,
                   funding[<<u, sell>>], redeemed[<<u, sell>>], Pending(<<u, sell>>), pubkey[u])
    /\ UNCHANGED vaultVars

Next ==
    \/ \E p \in Pools : AddPool(p)
    \/ \E u \in Users, key \in PubKeys : Register(u, key)
    \/ \E u \in Users, a \in Assets, amount \in Amounts :
          \/ FundUser(u, a, amount)
          \/ InitRedeemUser(u, a, amount)
          \/ RedeemUser(u, a, amount)
    \/ \E l \in Lps, a \in Assets, amount \in Amounts :
          \/ Deposit(l, a, amount)
          \/ Checkpoint(l, a, amount)
          \/ Withdraw(l, a, amount)
    \/ \E p \in Pools, u \in Users, sell, buy \in Assets,
          sellAmount, buyAmount \in Amounts, nonce \in Nonces :
          Swap(p, u, sell, sellAmount, buy, buyAmount, nonce)

Spec == Init /\ [][Next]_vars

----------------------------------------------------------------------------
(* Properties *)

\* Swaps on the shard and redeems on the vault, two accounts that check each
\* other's counters in separate transactions, never spend the same tokens
\* twice: what a user sold and asked to redeem is covered by what was funded
\* and bought.  Hence the balance that vault.masm and pool.masm derive is
\* never below the pending redeem, no safe_sub of theirs ever underflows, and
\* a REDEEM within the pending amount is never refused for the pool balance.
NoOverdraft ==
    \A k \in Keys :
        /\ redeemed[k] <= initiated[k]
        /\ userPool[k[1]] = NoPool => initiated[k] = 0
        /\ \A p \in Pools : userPool[k[1]] = p =>
              initiated[k] + CellSold(p, k) <= funding[k] + CellBought(p, k)

\* Distinct keys have distinct slots, and the slots in use are exactly those
\* up to next.
WellAllocated(next, index) ==
    /\ \A k1, k2 \in Keys : index[k1] = index[k2] => k1 = k2 \/ index[k1] = NoCell
    /\ {index[k] : k \in Keys} \ {NoCell} = 1 .. next

\* Lazily allocated cells never alias: two keys of a shard never share a slot,
\* and next_cell counts the slots in use (get_or_create_cell_slot_id, also
\* when one swap allocates two cells).
CellsDoNotAlias == \A p \in Pools : WellAllocated(nextCell[p], cellIndex[p])

\* Registration counts are exact and bounded: a shard's counter is the number
\* of users bound to it and never exceeds the capacity (register_user).
PlacementCountsExact ==
    \A p \in Pools :
        /\ poolUserCount[p] = Cardinality({u \in Users : userPool[u] = p})
        /\ poolUserCount[p] <= PoolUserCapacity

\* A user has cells only on the shard the vault bound the user to, so the
\* vault's redeem checks see every swap of the user.
CellsFollowPlacement ==
    \A p \in Pools, k \in Keys : cellIndex[p][k] # NoCell => userPool[k[1]] = p

\* LPs are never paid more than they are entitled to, whatever the order of
\* deposits, operator checkpoints and withdrawals.
LpPaidWithinEntitlement ==
    \A k \in LpKeys : withdrawn[k] <= entitlement[k]

\* One asset's counters, by holder.
Column(counter, holders, a) == [h \in holders |-> counter[<<h, a>>]]

\* What the vault owes to the LPs.
Owed == [k \in LpKeys |-> Withdrawable(k)]

\* Every token in the vault is on record: with what was redeemed, the vault's
\* holdings never exceed the funding plus the outstanding LP entitlements.
HoldingsOnRecord ==
    \A a \in Assets :
        holdings[a] + Total(Column(redeemed, Users, a))
            <= Total(Column(funding, Users, a)) + Total(Column(Owed, Lps, a))

\* A step that keeps the pool and the key of every bound user, and every
\* authorization.
KeepsPlacement ==
    /\ authorized \subseteq authorized'
    /\ \A u \in Users : userPool[u] # NoPool => /\ userPool'[u] = userPool[u]
                                                /\ pubkey'[u] = pubkey[u]

\* Placement is permanent and outlives later ADD_POOL and REGISTER notes: a
\* bound user keeps pool and key, an authorized pool stays authorized.
PlacementPermanent == [][KeepsPlacement]_vars

\* "LPs can always self-custodially withdraw up to entitlement - withdrawn"
\* (masm/accounts/vault.masm, LP DEPOSIT / WITHDRAW): the vault holds enough
\* of each asset to pay every outstanding entitlement.
LpWithdrawalsFunded ==
    \A a \in Assets : holdings[a] >= Total(Column(Owed, Lps, a))
----------------------------------------------------------------------------
(* The ledger this implements. *)

\* What a user owns: the balance the user's shard derives, or the funding while
\* no shard is bound.
Owned == [k \in Keys |-> IF userPool[k[1]] = NoPool THEN funding[k]
                         ELSE UserBalance(k[1], k[2])]

Reserved == [k \in Keys |-> Pending(k)]

Ledger == INSTANCE AccountLedger WITH
    balance <- Owned, reserved <- Reserved, owed <- Owed, cash <- holdings

\* The vault and the shards, whose counters live in different accounts, in cells
\* allocated on the way, and are checked by reading one account from a
\* transaction of the other, behave as the books of one bank: registration and
\* cell allocation move no money, a swap spends nothing that is reserved, and a
\* payout takes what was reserved and is in the vault.
ImplementsLedger == Ledger!Spec
=============================================================================
