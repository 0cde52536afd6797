----------------------------- MODULE NonceWindow -----------------------------
(***************************************************************************)
(* The nonce window of one trader as a state machine, driven by            *)
(* NonceWindow::consume of src/nonce_window.rs, and shown to implement     *)
(* NonceGate.  `accepted` is a history variable: the nonces for which      *)
(* consume answered Ok.                                                    *)
(***************************************************************************)
EXTENDS NonceBitmap

VARIABLES window,     \* the stored word [base, bitmap0, bitmap1, bitmap2]
          accepted,   \* history: nonces accepted so far
          reply       \* the last nonce offered and its verdict

vars == <<window, accepted, reply>>

TypeOK ==
    /\ window \in Windows
    /\ accepted \subseteq Nonces
    /\ reply \in [nonce : Nonces, verdict : Verdicts \cup {"none"}]

Init ==
    /\ window = EmptyWindow
    /\ accepted = {}
    /\ reply = [nonce |-> 0, verdict |-> "none"]

Accept(n) ==
    /\ ConsumeVerdict(window, n) = "accepted"
    /\ window' = Consumed(window, n)
    /\ accepted' = accepted \cup {n}
    /\ reply' = [nonce |-> n, verdict |-> "accepted"]

Reject(n) ==
    /\ ConsumeVerdict(window, n) \in {"stale", "consumed"}
    /\ reply' = [nonce |-> n, verdict |-> ConsumeVerdict(window, n)]
    /\ UNCHANGED <<window, accepted>>

Next == \E n \in Nonces : Accept(n) \/ Reject(n)

Spec == Init /\ [][Next]_vars

----------------------------------------------------------------------------
\* The three limbs hold exactly the history: slot i of the window is marked
\* iff nonce base + i was accepted, through every slide across limb borders
\* (shift_right and set_bit of src/nonce_window.rs), and no accepted nonce
\* lies above the window, where no slot could remember it.
WindowRecordsHistory ==
    /\ \A i \in 0 .. WindowSize - 1 : BitSet(window, i) <=> window.base + i \in accepted
    /\ \A n \in accepted : n < window.base + WindowSize

Gate == INSTANCE NonceGate WITH Width <- WindowSize,
                                floor <- window.base,
                                used <- accepted

\* consume implements the gate: it accepts a nonce exactly when the nonce is
\* neither below the base nor accepted earlier, whatever the order.
ImplementsGate == Gate!GateSpec
=============================================================================
