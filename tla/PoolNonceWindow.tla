--------------------------- MODULE PoolNonceWindow ---------------------------
(***************************************************************************)
(* The nonce window of one trader as the pool account keeps it: the state  *)
(* machine of prepare_user_nonce_window in masm/accounts/pool.masm,        *)
(* followed by the store at the end of execute_swap.                       *)
(***************************************************************************)
EXTENDS NonceBitmap

VARIABLES window,     \* user_nonce_windows[user_key]
          accepted    \* history: nonces whose swap was executed

vars == <<window, accepted>>

Init ==
    /\ window = EmptyWindow
    /\ accepted = {}

\* A rejected nonce aborts the transaction and leaves the account unchanged.
Execute(n) ==
    /\ PrepareVerdict(window, n) = "accepted"
    /\ window' = Prepared(window, n)
    /\ accepted' = accepted \cup {n}

Next == \E n \in Nonces : Execute(n)

Spec == Init /\ [][Next]_vars

----------------------------------------------------------------------------
\* "Bit i of the concatenated 96-bit bitmap marks nonce (base_nonce + i) as
\* consumed" (masm/accounts/pool.masm): after any history of swaps the bits
\* are exactly the nonces executed inside the window.
BitmapMarksConsumed ==
    \A i \in 0 .. WindowSize - 1 : BitSet(window, i) <=> window.base + i \in accepted
=============================================================================
