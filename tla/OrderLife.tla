------------------------------ MODULE OrderLife ------------------------------
(***************************************************************************)
(* What trade execution promises about every order, whatever processes,    *)
(* batches, claims and retries there are behind it: an order is either     *)
(* dropped before it was sent or carried by one transaction; all orders of *)
(* a transaction are settled in one step and alike, confirmed only when    *)
(* the chain has committed it; and only a settled order is reported.  A    *)
(* transaction may be given up although it is committed, or will be: the   *)
(* verdict "failed" promises nothing about the chain.                      *)
(***************************************************************************)
CONSTANTS
  Orders,
  Tx,        \* transactions that may carry orders
  NoTx       \* the order is not carried by any

VARIABLES
  phase,     \* "unknown", "open", "riding", "confirmed" or "failed"
  ride,      \* the transaction that carries the order
  landed,    \* transactions the chain has committed
  heard      \* orders whose outcome was reported

lifeVars == <<phase, ride, landed, heard>>

Init ==
  /\ phase = [o \in Orders |-> "unknown"]
  /\ ride = [o \in Orders |-> NoTx]
  /\ landed = {}
  /\ heard = {}

\* The phase of the orders of S becomes p.
Put(S, p) == phase' = [o \in Orders |-> IF o \in S THEN p ELSE phase[o]]

Open(o) ==
  /\ phase[o] = "unknown"
  /\ Put({o}, "open")
  /\ UNCHANGED <<ride, landed, heard>>

\* Orders that will not be sent, or whose transaction was never recorded.
Drop(S) ==
  /\ \A o \in S : phase[o] = "open"
  /\ Put(S, "failed")
  /\ UNCHANGED <<ride, landed, heard>>

\* t takes orders aboard once.
Board(t, S) ==
  /\ \A o \in Orders : ride[o] # t
  /\ \A o \in S : phase[o] = "open"
  /\ Put(S, "riding")
  /\ ride' = [o \in Orders |-> IF o \in S THEN t ELSE ride[o]]
  /\ UNCHANGED <<landed, heard>>

Land(t) ==
  /\ landed' = landed \cup {t}
  /\ UNCHANGED <<phase, ride, heard>>

Riders(t) == {o \in Orders : phase[o] = "riding" /\ ride[o] = t}

Verdicts(t) == {"failed"} \cup (IF t \in landed THEN {"confirmed"} ELSE {})

\* The verdict on t, one for everyone aboard.
Settle(t) ==
  /\ \E v \in Verdicts(t) : Put(Riders(t), v)
  /\ UNCHANGED <<ride, landed, heard>>

Tell(S) ==
  /\ \A o \in S : phase[o] \in {"confirmed", "failed"}
  /\ heard' = heard \cup S
  /\ UNCHANGED <<phase, ride, landed>>

Next ==
  \/ \E o \in Orders : Open(o)
  \/ \E S \in SUBSET Orders : Drop(S) \/ Tell(S)
  \/ \E t \in Tx : Land(t) \/ Settle(t) \/ \E S \in SUBSET Orders : Board(t, S)

Spec == Init /\ [][Next]_lifeVars
=============================================================================
