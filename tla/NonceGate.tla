------------------------------ MODULE NonceGate ------------------------------
(***************************************************************************)
(* What a sliding nonce window promises (docs/schemas.md, "Nonces below    *)
(* base_nonce are rejected as stale; already-set bits are rejected as      *)
(* replays; nonces above the window slide it forward"): a nonce is         *)
(* accepted exactly when it is not below the floor and was never accepted  *)
(* before, and the floor trails the largest accepted nonce by Width - 1.   *)
(***************************************************************************)
EXTENDS Integers

CONSTANTS Width, MaxNonce

VARIABLES floor,   \* every nonce below is stale
          used,    \* every nonce accepted so far
          reply    \* the last request and its verdict

gateVars == <<floor, used, reply>>

GateInit ==
    /\ floor = 0
    /\ used = {}
    /\ reply = [nonce |-> 0, verdict |-> "none"]

Accept(n) ==
    /\ n >= floor
    /\ n \notin used
    /\ used' = used \cup {n}
    /\ floor' = IF n - floor < Width THEN floor ELSE n - (Width - 1)
    /\ reply' = [nonce |-> n, verdict |-> "accepted"]

RejectStale(n) ==
    /\ n < floor
    /\ reply' = [nonce |-> n, verdict |-> "stale"]
    /\ UNCHANGED <<floor, used>>

RejectReplay(n) ==
    /\ n >= floor
    /\ n \in used
    /\ reply' = [nonce |-> n, verdict |-> "consumed"]
    /\ UNCHANGED <<floor, used>>

GateNext == \E n \in 0 .. MaxNonce : Accept(n) \/ RejectStale(n) \/ RejectReplay(n)

GateSpec == GateInit /\ [][GateNext]_gateVars
=============================================================================
