------------------------------ MODULE MCCustody ------------------------------
(* Instances of Custody for TLC. *)
EXTENDS Custody, TLC

CONSTANT Trader

\* Users, pools and LPs are interchangeable: no definition of Custody names one
\* of them, and this module names only Trader.
Interchangeable ==
    Permutations(Users \ {Trader}) \cup Permutations(Pools) \cup Permutations(Lps)

\* Entitlements that are fully backed by deposits: the operator checkpoints no
\* accrued fees.
PrincipalOnlyNext == Next /\ (entitlement' # entitlement => holdings' # holdings)

PrincipalOnlySpec == Init /\ [][PrincipalOnlyNext]_vars

\* The money case: Trader alone on one shard, beside LPs in one asset.
OneTrader ==
    /\ Cardinality(authorized) <= 1
    /\ Cardinality({k \in LpKeys : entitlement[k] > 0}) <= 1
    /\ \A u \in Users \ {Trader} :
          userPool[u] = NoPool /\ \A a \in Assets : funding[<<u, a>>] = 0

\* The placement case: many users and shards, single units, nonce 0, no LP
\* and no redeem.
SingleUnits ==
    /\ \A k \in Keys : funding[k] <= 1 /\ initiated[k] = 0
    /\ \A k \in LpKeys : entitlement[k] = 0
    /\ \A p \in Pools :
          /\ \A s \in Slots : bought[p][s] <= 1 /\ sold[p][s] <= 1
          /\ \A u \in Users : nonceWindow[p][u].base = 0 /\ ~ BitSet(nonceWindow[p][u], 1)

\* Both cases in one run: a product of the two would be out of reach.
BothCasesSpec == Init /\ [][Next /\ (OneTrader' \/ SingleUnits')]_vars
=============================================================================
