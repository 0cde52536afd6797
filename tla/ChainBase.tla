------------------------------ MODULE ChainBase ------------------------------
(***************************************************************************)
(* What the vault account and the pool shard accounts share: identities,   *)
(* the (user, asset) key of their maps and the range of their felts.       *)
(***************************************************************************)
EXTENDS Integers, FiniteSets

CONSTANTS Users,      \* trading accounts
          Assets,     \* fungible faucets
          Pools,      \* pool shard accounts
          PubKeys,    \* key commitments users register
          Amounts,    \* amounts a note or an intent can carry
          MaxFelt     \* largest value math::safe_add accepts

CONSTANTS NoPool,     \* the zero word where a pool id is expected
          NoKey       \* the zero word where a key commitment is expected

ASSUME UsersFinite == IsFiniteSet(Users)
ASSUME MaxFeltAssumption == MaxFelt \in Nat
ASSUME AmountsAssumption == Amounts \subseteq 0 .. MaxFelt
ASSUME NoPoolAssumption == NoPool \notin Pools
ASSUME NoKeyAssumption == NoKey \notin PubKeys

Felt == 0 .. MaxFelt

\* [asset_suffix, asset_prefix, user_suffix, user_prefix]
Keys == Users \X Assets
=============================================================================
