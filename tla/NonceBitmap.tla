---------------------------- MODULE NonceBitmap ----------------------------
(***************************************************************************)
(* The 96-slot sliding nonce window of one trader: the pure operations of  *)
(* src/nonce_window.rs and of prepare_user_nonce_window in                 *)
(* masm/accounts/pool.masm.                                                *)
(*                                                                         *)
(* A 32-bit limb is the set of its 1-bits, a subset of 0..LimbBits-1, so a *)
(* left shift still drops the bits that leave the limb.  LimbBits is 32 in *)
(* the code; every statement is about an arbitrary width.                  *)
(***************************************************************************)
EXTENDS Integers

CONSTANTS LimbBits,    \* bits per limb
          MaxNonce,    \* largest nonce, 2^32 - 1 in the code
          FieldPrime   \* modulus of the VM's field elements

ASSUME LimbBitsAssumption == LimbBits \in Nat \ {0}
ASSUME MaxNonceAssumption == MaxNonce \in Nat

\* The field is far larger than any nonce: 2^64 - 2^32 + 1 against 2^32.
ASSUME FieldAssumption == FieldPrime \in Nat /\ FieldPrime > MaxNonce + 3 * LimbBits

WindowSize == 3 * LimbBits

Nonces == 0 .. MaxNonce

Limbs == SUBSET (0 .. LimbBits - 1)

Windows == [base : Nonces, limb0 : Limbs, limb1 : Limbs, limb2 : Limbs]

EmptyWindow == [base |-> 0, limb0 |-> {}, limb1 |-> {}, limb2 |-> {}]

Verdicts == {"accepted", "stale", "consumed"}

----------------------------------------------------------------------------
\* b >> s and b << s on one limb.  Shl(b, LimbBits) is the 0 of
\* checked_shl(..).unwrap_or(0).
Shr(limb, s) == {i \in 0 .. LimbBits - 1 : i + s \in limb}

Shl(limb, s) == {i \in 0 .. LimbBits - 1 : i - s \in limb}

\* shift_right: the bitmap moves down by `shift` positions across the limbs.
ShiftRight(w, shift) ==
    IF shift = 0 THEN w
    ELSE IF shift >= WindowSize
    THEN [w EXCEPT !.limb0 = {}, !.limb1 = {}, !.limb2 = {}]
    ELSE IF shift >= 2 * LimbBits
    THEN LET s == shift - 2 * LimbBits
         IN  [w EXCEPT !.limb0 = Shr(w.limb2, s), !.limb1 = {}, !.limb2 = {}]
    ELSE IF shift >= LimbBits
    THEN LET s == shift - LimbBits
         IN  [w EXCEPT !.limb0 = Shr(w.limb1, s) \cup Shl(w.limb2, LimbBits - s),
                       !.limb1 = Shr(w.limb2, s),
                       !.limb2 = {}]
    ELSE [w EXCEPT !.limb0 = Shr(w.limb0, shift) \cup Shl(w.limb1, LimbBits - shift),
                   !.limb1 = Shr(w.limb1, shift) \cup Shl(w.limb2, LimbBits - shift),
                   !.limb2 = Shr(w.limb2, shift)]

BitSet(w, offset) ==
    IF offset < LimbBits THEN offset \in w.limb0
    ELSE IF offset < 2 * LimbBits THEN offset - LimbBits \in w.limb1
    ELSE offset - 2 * LimbBits \in w.limb2

SetBit(w, offset) ==
    IF offset < LimbBits THEN [w EXCEPT !.limb0 = @ \cup {offset}]
    ELSE IF offset < 2 * LimbBits THEN [w EXCEPT !.limb1 = @ \cup {offset - LimbBits}]
    ELSE [w EXCEPT !.limb2 = @ \cup {offset - 2 * LimbBits}]

----------------------------------------------------------------------------
\* Mutated form of ConsumeShift: slides one slot too far.
ConsumeShiftFar(w, nonce) == (nonce - (WindowSize - 2)) - w.base

\* The window positioned so that `nonce` fits: unchanged, or slid forward by
\* `shift` so that `nonce` takes the top slot.
SlidTo(w, nonce, shift) ==
    IF nonce - w.base < WindowSize THEN w
    ELSE [ShiftRight(w, shift) EXCEPT !.base = nonce - (WindowSize - 1)]

\* The distance NonceWindow::consume slides by.
ConsumeShift(w, nonce) == (nonce - (WindowSize - 1)) - w.base

\* Subtraction of field elements.
FeltSub(a, b) == IF a >= b THEN a - b ELSE FieldPrime + a - b

\* The distance prepare_user_nonce_window slides by.  The stack is
\* [base, new_base, new_base]; `swap sub` computes next - top, which is
\* base - new_base in the field.
PrepareShift(w, nonce) == FeltSub(w.base, nonce - (WindowSize - 1))

\* The verdict of both procedures once the slid window is known.
VerdictOn(w, nonce, slid) ==
    IF nonce < w.base THEN "stale"
    ELSE IF BitSet(slid, nonce - slid.base) THEN "consumed"
    ELSE "accepted"

ConsumeVerdict(w, nonce) == VerdictOn(w, nonce, SlidTo(w, nonce, ConsumeShift(w, nonce)))

PrepareVerdict(w, nonce) == VerdictOn(w, nonce, SlidTo(w, nonce, PrepareShift(w, nonce)))

\* The window stored after an accepted nonce; a rejected one stores nothing.
MarkOn(slid, nonce) == SetBit(slid, nonce - slid.base)

Consumed(w, nonce) == MarkOn(SlidTo(w, nonce, ConsumeShift(w, nonce)), nonce)

Prepared(w, nonce) == MarkOn(SlidTo(w, nonce, PrepareShift(w, nonce)), nonce)
=============================================================================
