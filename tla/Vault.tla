-------------------------------- MODULE Vault --------------------------------
(***************************************************************************)
(* The vault account (masm/accounts/vault.masm), one action per exported   *)
(* procedure together with the note script that calls it.  A transaction   *)
(* whose assertion fails leaves no trace, so a failed assertion is a       *)
(* disabled action.                                                        *)
(*                                                                         *)
(* The redeem flows read the user's pool by foreign procedure invocation;  *)
(* the values it returns, `balance` and `available`, are parameters here   *)
(* and are supplied by Custody, which composes the vault with the pools.   *)
(***************************************************************************)
EXTENDS ChainBase

CONSTANTS Lps,               \* liquidity providers
          PoolUserCapacity   \* pool_user_capacity

ASSUME PoolUserCapacityAssumption == PoolUserCapacity \in Nat

VARIABLES
    authorized,      \* authorized_pools
    activePool,      \* active_pool
    poolUserCount,   \* pool_user_counts
    pubkey,          \* user_pubkeys
    userPool,        \* user_pool
    funding,         \* user_asset_total_funding
    initiated,       \* user_asset_total_initiated_redeems
    redeemed,        \* user_asset_total_redeems
    entitlement,     \* lp_entitlements
    withdrawn,       \* lp_withdrawn
    holdings         \* the assets in the account's own asset vault

placementVars == <<authorized, activePool, poolUserCount, pubkey, userPool>>
cashVars == <<funding, initiated, redeemed>>
lpVars == <<entitlement, withdrawn>>
vaultVars == <<placementVars, cashVars, lpVars, holdings>>

LpKeys == Lps \X Assets

VaultTypeOK ==
    /\ authorized \subseteq Pools
    /\ activePool \in Pools \cup {NoPool}
    /\ poolUserCount \in [Pools -> Nat]
    /\ pubkey \in [Users -> PubKeys \cup {NoKey}]
    /\ userPool \in [Users -> Pools \cup {NoPool}]
    /\ funding \in [Keys -> Felt]
    /\ initiated \in [Keys -> Felt]
    /\ redeemed \in [Keys -> Felt]
    /\ entitlement \in [LpKeys -> Felt]
    /\ withdrawn \in [LpKeys -> Felt]
    /\ holdings \in [Assets -> Felt]

VaultInit ==
    /\ authorized = {}
    /\ activePool = NoPool
    /\ poolUserCount = [p \in Pools |-> 0]
    /\ pubkey = [u \in Users |-> NoKey]
    /\ userPool = [u \in Users |-> NoPool]
    /\ funding = [k \in Keys |-> 0]
    /\ initiated = [k \in Keys |-> 0]
    /\ redeemed = [k \in Keys |-> 0]
    /\ entitlement = [k \in LpKeys |-> 0]
    /\ withdrawn = [k \in LpKeys |-> 0]
    /\ holdings = [a \in Assets |-> 0]

----------------------------------------------------------------------------
\* get_user_asset_pending_redeem_amount
Pending(k) == initiated[k] - redeemed[k]

\* get_lp_withdrawable
Withdrawable(k) == entitlement[k] - withdrawn[k]

\* storage_utils::add_to_map_item on a counter: map[k] += amount, or abort.
CanAdd(counter, k, amount) == counter[k] + amount <= MaxFelt

Added(counter, k, amount) == [counter EXCEPT ![k] = @ + amount]

\* wallet::add_assets_to_account and the P2ID note of the paying flows.
ReceiveAsset(a, amount) ==
    /\ CanAdd(holdings, a, amount)
    /\ holdings' = Added(holdings, a, amount)

PayOut(a, amount) ==
    /\ holdings[a] >= amount
    /\ holdings' = [holdings EXCEPT ![a] = @ - amount]

----------------------------------------------------------------------------
\* ADD_POOL note, consumed for the operator: authorize p and make it active.
AddAuthorizedPool(p) ==
    /\ authorized' = authorized \cup {p}
    /\ activePool' = p
    /\ UNCHANGED <<poolUserCount, pubkey, userPool, cashVars, lpVars, holdings>>

\* REGISTER note: bind the sender to the active pool for good.
RegisterUser(u, key) ==
    /\ pubkey[u] = NoKey
    /\ activePool \in authorized
    /\ poolUserCount[activePool] < PoolUserCapacity
    /\ poolUserCount' = [poolUserCount EXCEPT ![activePool] = @ + 1]
    /\ userPool' = [userPool EXCEPT ![u] = activePool]
    /\ pubkey' = [pubkey EXCEPT ![u] = key]
    /\ UNCHANGED <<authorized, activePool, cashVars, lpVars, holdings>>

\* Mutated form: the assets arrive but the beneficiary is not credited.
FundUnrecorded(u, a, amount) ==
    /\ ReceiveAsset(a, amount)
    /\ UNCHANGED <<placementVars, cashVars, lpVars>>

\* FUND note.  The beneficiary need not be registered.
Fund(u, a, amount) ==
    /\ ReceiveAsset(a, amount)
    /\ CanAdd(funding, <<u, a>>, amount)
    /\ funding' = Added(funding, <<u, a>>, amount)
    /\ UNCHANGED <<placementVars, initiated, redeemed, lpVars>>

\* Mutated form: the check against the balance instead of the available one.
InitiateRedeemFromBalance(u, a, amount, balance, available) ==
    /\ userPool[u] \in authorized
    /\ balance >= amount
    /\ CanAdd(initiated, <<u, a>>, amount)
    /\ initiated' = Added(initiated, <<u, a>>, amount)
    /\ UNCHANGED <<placementVars, funding, redeemed, lpVars, holdings>>

\* INIT_REDEEM note.
InitiateRedeem(u, a, amount, balance, available) ==
    /\ userPool[u] \in authorized
    /\ available >= amount
    /\ CanAdd(initiated, <<u, a>>, amount)
    /\ initiated' = Added(initiated, <<u, a>>, amount)
    /\ UNCHANGED <<placementVars, funding, redeemed, lpVars, holdings>>

\* REDEEM note, with the P2ID payout its script creates.
Redeem(u, a, amount, balance, available) ==
    /\ Pending(<<u, a>>) >= amount
    /\ userPool[u] \in authorized
    /\ balance >= amount
    /\ CanAdd(redeemed, <<u, a>>, amount)
    /\ redeemed' = Added(redeemed, <<u, a>>, amount)
    /\ PayOut(a, amount)
    /\ UNCHANGED <<placementVars, funding, initiated, lpVars>>

\* DEPOSIT note: the principal is withdrawable at once.
DepositLiquidity(l, a, amount) ==
    /\ ReceiveAsset(a, amount)
    /\ CanAdd(entitlement, <<l, a>>, amount)
    /\ entitlement' = Added(entitlement, <<l, a>>, amount)
    /\ UNCHANGED <<placementVars, cashVars, withdrawn>>

\* CHECKPOINT note of the operator: the entitlement only grows.
CheckpointLpEntitlement(l, a, new) ==
    /\ new >= entitlement[<<l, a>>]
    /\ entitlement' = [entitlement EXCEPT ![<<l, a>>] = new]
    /\ UNCHANGED <<placementVars, cashVars, withdrawn, holdings>>

\* WITHDRAW note, with the P2ID payout its script creates.
WithdrawLiquidity(l, a, amount) ==
    /\ Withdrawable(<<l, a>>) >= amount
    /\ CanAdd(withdrawn, <<l, a>>, amount)
    /\ withdrawn' = Added(withdrawn, <<l, a>>, amount)
    /\ PayOut(a, amount)
    /\ UNCHANGED <<placementVars, cashVars, entitlement>>
=============================================================================
