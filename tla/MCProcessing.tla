---------------------------- MODULE MCProcessing ----------------------------
(* Model-checking instances of Processing. *)
EXTENDS Processing, TLC

\* Orders are interchangeable in the safety runs.
OrderSymmetry == Permutations(Orders)

\* A fee update sends one more copy of the curve round; the run about the curve,
\* which has enough of them, does without.
CurveNext == Next /\ UNCHANGED fees
CurveSpec == Init /\ [][CurveNext]_vars
=============================================================================
