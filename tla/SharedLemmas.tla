---------------------------- MODULE SharedLemmas ----------------------------
(***************************************************************************)
(* Facts about the operators that several components share: how a total    *)
(* changes with its function, for functions on any set, how a division     *)
(* rounds, and what the limb operations of the nonce window compute, for   *)
(* every limb width.                                                       *)
(***************************************************************************)
EXTENDS Totals, NonceBitmap, FiniteSetTheorems, WellFoundedInduction, TLAPS

\* A nonempty set of numbers below a bound has a largest.
LEMMA LargestBelow ==
    ASSUME NEW T, T \subseteq Nat, T # {}, NEW n \in Nat, \A x \in T : x <= n
    PROVE  \E x \in T : \A y \in T : y <= x
<1> DEFINE D == {d \in Nat : n - d \in T}
           R == OpToRel(<, Nat)
<1>1. \A x \in T : n - x \in D
  OBVIOUS
<1>2. D \subseteq Nat /\ D # {}
  BY <1>1
<1>3. \E d \in D : \A e \in D : ~ (<<e, d>> \in R)
  <2> HIDE DEF D
  <2>1. IsWellFoundedOn(R, Nat)
    BY NatLessThanWellFounded
  <2> HIDE DEF R
  <2> QED
    BY <1>2, <2>1, WFMin
<1>4. PICK d \in D : \A e \in D : ~ (<<e, d>> \in R)
  BY <1>3
<1>5. \A e \in D : ~ (e < d)
  BY <1>4 DEF OpToRel
<1>6. d \in Nat /\ n - d \in T
  OBVIOUS
<1> HIDE DEF D, R
<1>7. \A y \in T : y <= n - d
  <2> SUFFICES ASSUME NEW y \in T PROVE y <= n - d
    OBVIOUS
  <2>1. ~ (n - y < d) /\ y \in Nat
    BY <1>1, <1>5
  <2> QED
    BY <1>6, <2>1
<1> QED
  BY <1>6, <1>7

\* The units of one argument.
LEMMA RowSize ==
    ASSUME NEW x, NEW n \in Nat
    PROVE  IsFiniteSet({x} \X (1 .. n)) /\ Cardinality({x} \X (1 .. n)) = n
<1>1. IsFiniteSet({x}) /\ Cardinality({x}) = 1
  BY FS_Singleton
<1>2. IsFiniteSet(1 .. n) /\ Cardinality(1 .. n) = n
  BY FS_Interval
<1>3. /\ IsFiniteSet({x} \X (1 .. n))
      /\ Cardinality({x} \X (1 .. n)) = Cardinality({x}) * Cardinality(1 .. n)
  BY <1>1, <1>2, FS_Product
<1> QED
  BY <1>1, <1>2, <1>3

\* The size of a union of disjoint sets.
LEMMA UnionSize ==
    ASSUME NEW A, NEW B, IsFiniteSet(A), IsFiniteSet(B), A \cap B = {}
    PROVE  /\ IsFiniteSet(A \cup B)
           /\ Cardinality(A \cup B) = Cardinality(A) + Cardinality(B)
<1>1. /\ IsFiniteSet(A \cup B)
      /\ Cardinality(A \cup B) = Cardinality(A) + Cardinality(B) - Cardinality(A \cap B)
  BY FS_Union
<1>2. Cardinality(A \cap B) = 0
  BY FS_EmptySet
<1>3. Cardinality(A) \in Nat /\ Cardinality(B) \in Nat
  BY FS_CardinalityType
<1> QED
  BY <1>1, <1>2, <1>3

\* g is f with one argument changed or added.
Differ(f, g, S, x) ==
  /\ f \in [S -> Nat] /\ IsFiniteSet(Units(f))
  /\ g \in [S \cup {x} -> Nat] /\ \A y \in S : y # x => g[y] = f[y]
At(f, S, x) == IF x \in S THEN f[x] ELSE 0

\* Changing or adding one argument changes the total by the difference.
LEMMA TotalChange ==
    ASSUME NEW S, NEW f, NEW x, NEW g, Differ(f, g, S, x)
    PROVE  /\ IsFiniteSet(Units(g)) /\ Total(f) \in Nat /\ Total(g) \in Nat
           /\ At(f, S, x) \in Nat /\ g[x] \in Nat
           /\ Total(g) = Total(f) + g[x] - At(f, S, x)
<1> USE DEF Differ
<1> DEFINE old == At(f, S, x)
           Row(n) == {x} \X (1 .. n)
           Rest == {u \in Units(f) : u[1] # x}
<1>1. old \in Nat /\ g[x] \in Nat
  BY DEF At
<1>2. IsFiniteSet(Rest) /\ Cardinality(Rest) \in Nat
  BY FS_Subset, FS_CardinalityType
<1>3. /\ IsFiniteSet(Row(old)) /\ Cardinality(Row(old)) = old
      /\ IsFiniteSet(Row(g[x])) /\ Cardinality(Row(g[x])) = g[x]
  BY <1>1, RowSize
<1>4. Units(f) = Rest \cup Row(old)
  BY DEF Units, At
<1>5. Units(g) = Rest \cup Row(g[x])
  BY DEF Units
<1>6. Rest \cap Row(old) = {} /\ Rest \cap Row(g[x]) = {}
  OBVIOUS
<1> HIDE DEF Rest, Row, old
<1>7. Cardinality(Rest \cup Row(old)) = Cardinality(Rest) + old
  BY <1>1, <1>2, <1>3, <1>6, UnionSize
<1>8. /\ IsFiniteSet(Rest \cup Row(g[x]))
      /\ Cardinality(Rest \cup Row(g[x])) = Cardinality(Rest) + g[x]
  BY <1>1, <1>2, <1>3, <1>6, UnionSize
<1> QED
  BY <1>1, <1>2, <1>4, <1>5, <1>7, <1>8 DEF Total, old

\* No argument has more than the total.
LEMMA TotalBounds ==
    ASSUME NEW S, NEW f, f \in [S -> Nat], IsFiniteSet(Units(f)), NEW x, x \in S
    PROVE  Total(f) \in Nat /\ f[x] <= Total(f)
<1>1. {x} \X (1 .. f[x]) \in SUBSET Units(f)
  BY DEF Units
<1>2. Cardinality({x} \X (1 .. f[x])) = f[x]
  BY RowSize
<1> QED
  BY <1>1, <1>2, FS_Subset, FS_CardinalityType DEF Total

\* A function that is zero everywhere.
LEMMA TotalZero ==
    ASSUME NEW S, NEW f \in [S -> Nat], \A x \in S : f[x] = 0
    PROVE  IsFiniteSet(Units(f)) /\ Total(f) = 0
<1>1. Units(f) = {}
  BY DEF Units
<1> QED
  BY <1>1, FS_EmptySet DEF Total

\* A function on a finite set has finitely many units.
LEMMA TotalFinite ==
    ASSUME NEW S, IsFiniteSet(S), NEW f \in [S -> Nat]
    PROVE  IsFiniteSet(Units(f)) /\ Total(f) \in Nat
<1> DEFINE rows == {{x} \X (1 .. f[x]) : x \in S}
           g == [x \in S |-> {x} \X (1 .. f[x])]
<1>1. g \in Surjection(S, rows)
  BY DEF Surjection
<1>2. IsFiniteSet(rows)
  BY <1>1, FS_Surjection
<1>3. ASSUME NEW T \in rows PROVE IsFiniteSet(T)
  <2>1. PICK x \in S : T = {x} \X (1 .. f[x])
    OBVIOUS
  <2>2. f[x] \in Nat
    OBVIOUS
  <2> QED
    BY <2>1, <2>2, RowSize
<1>4. IsFiniteSet(UNION rows)
  BY <1>2, <1>3, FS_UNION
<1>5. Units(f) = UNION rows
  BY DEF Units
<1> QED
  BY <1>4, <1>5, FS_CardinalityType DEF Total

\* The total over two disjoint sets.
LEMMA TotalSplit ==
    ASSUME NEW f, NEW A, NEW B, A \cap B = {}, DOMAIN f = A \cup B, IsFiniteSet(Units(f))
    PROVE  /\ Total([x \in A |-> f[x]]) \in Nat /\ Total([x \in B |-> f[x]]) \in Nat
           /\ Total(f) = Total([x \in A |-> f[x]]) + Total([x \in B |-> f[x]])
<1> DEFINE fa == [x \in A |-> f[x]]
           fb == [x \in B |-> f[x]]
<1>1. Units(f) = Units(fa) \cup Units(fb) /\ Units(fa) \cap Units(fb) = {}
  BY DEF Units
<1>2. IsFiniteSet(Units(fa)) /\ IsFiniteSet(Units(fb))
  BY <1>1, FS_Subset
<1> HIDE DEF fa, fb
<1>3. Total(f) = Total(fa) + Total(fb)
  BY <1>1, <1>2, UnionSize DEF Total
<1>4. Total(fa) \in Nat /\ Total(fb) \in Nat
  BY <1>2, FS_CardinalityType DEF Total
<1> QED
  BY <1>3, <1>4 DEF fa, fb

\* A sum of integers when one of them changes.
LEMMA IntTotalChange ==
    ASSUME NEW S, IsFiniteSet(S), NEW f \in [S -> Int], NEW g \in [S -> Int], NEW x \in S,
           \A y \in S : y # x => g[y] = f[y]
    PROVE  /\ IntTotal(f) \in Int /\ IntTotal(g) \in Int
           /\ IntTotal(g) = IntTotal(f) + (g[x] - f[x])
<1> DEFINE fa == [y \in S |-> Above(f[y])]
           fb == [y \in S |-> Below(f[y])]
           ga == [y \in S |-> Above(g[y])]
           gb == [y \in S |-> Below(g[y])]
<1>1. fa \in [S -> Nat] /\ fb \in [S -> Nat] /\ ga \in [S -> Nat] /\ gb \in [S -> Nat]
  BY DEF Above, Below
<1>2. /\ IntTotal(f) = Total(fa) - Total(fb) /\ IntTotal(g) = Total(ga) - Total(gb)
  BY DEF IntTotal
<1>3. \A y \in S : y # x => ga[y] = fa[y] /\ gb[y] = fb[y]
  OBVIOUS
<1>4. fa[x] - fb[x] = f[x] /\ ga[x] - gb[x] = g[x]
  BY DEF Above, Below
<1> HIDE DEF fa, fb, ga, gb
<1>5. IsFiniteSet(Units(fa)) /\ IsFiniteSet(Units(fb))
  BY <1>1, TotalFinite
<1>6. S \cup {x} = S
  OBVIOUS
<1>7. /\ Differ(fa, ga, S, x) /\ At(fa, S, x) = fa[x]
      /\ Differ(fb, gb, S, x) /\ At(fb, S, x) = fb[x]
  BY <1>1, <1>3, <1>5, <1>6 DEF Differ, At
<1>8. /\ Total(fa) \in Nat /\ Total(ga) \in Nat /\ Total(ga) = Total(fa) + ga[x] - fa[x]
      /\ Total(fb) \in Nat /\ Total(gb) \in Nat /\ Total(gb) = Total(fb) + gb[x] - fb[x]
  BY <1>7, TotalChange
<1>9. fa[x] \in Nat /\ fb[x] \in Nat /\ ga[x] \in Nat /\ gb[x] \in Nat
  BY <1>1
<1> QED
  BY <1>2, <1>4, <1>8, <1>9

\* The same for naturals.
LEMMA TotalMoves ==
    ASSUME NEW S, IsFiniteSet(S), NEW f \in [S -> Nat], NEW g \in [S -> Nat], NEW x \in S,
           \A y \in S : y # x => g[y] = f[y]
    PROVE  Total(f) \in Nat /\ Total(g) \in Nat /\ Total(g) = Total(f) + (g[x] - f[x])
<1>1. IsFiniteSet(Units(f)) /\ S \cup {x} = S
  BY TotalFinite
<1>2. Differ(f, g, S, x) /\ At(f, S, x) = f[x]
  BY <1>1 DEF Differ, At
<1> QED
  BY <1>2, TotalChange

\* Division rounds down.
LEMMA DivFloor ==
    ASSUME NEW n \in Nat, NEW d \in Nat, d > 0
    PROVE  n \div d \in Nat /\ d * (n \div d) <= n
OBVIOUS

\* A larger factor.
LEMMA PriceMore ==
    ASSUME NEW L \in Nat, NEW M \in Nat, NEW S \in Nat, L <= M
    PROVE  M * S >= L * S
<1>1. (M - L) * S >= 0 /\ M * S = L * S + (M - L) * S
  OBVIOUS
<1> QED
  BY <1>1

\* The part of an amount that belongs to some of its shares, rounded down.
LEMMA ShareOf ==
    ASSUME NEW L \in Nat, NEW S \in Nat, S > 0, NEW w \in Nat, w <= S
    PROVE  (w * L) \div S \in Nat /\ S * ((w * L) \div S) <= w * L /\ (w * L) \div S <= L
<1>1. w * L \in Nat /\ w * L <= S * L
  BY PriceMore
<1>2. (w * L) \div S \in Nat /\ S * ((w * L) \div S) <= w * L
  BY <1>1, DivFloor
<1>3. ASSUME NEW d \in Nat, S * d <= S * L PROVE d <= L
  BY <1>3
<1> QED
  BY <1>1, <1>2, <1>3

--------------------------------------------------------------------------------
\* ShiftRight keeps every window a window with the same base.
LEMMA ShiftRightType ==
    ASSUME NEW w \in Windows, NEW shift \in Nat
    PROVE  ShiftRight(w, shift) \in Windows /\ ShiftRight(w, shift).base = w.base
BY LimbBitsAssumption DEF ShiftRight, Windows, Limbs, Shr, Shl, WindowSize

\* The limb-by-limb shift of src/nonce_window.rs moves the concatenated bitmap
\* down by `shift` slots and brings in zeros at the top.
LEMMA ShiftRightBits ==
    ASSUME NEW w \in Windows, NEW shift \in Nat, NEW k \in 0 .. WindowSize - 1
    PROVE  BitSet(ShiftRight(w, shift), k)
              <=> k + shift < WindowSize /\ BitSet(w, k + shift)
<1>1. CASE shift = 0
  BY <1>1, LimbBitsAssumption DEF ShiftRight, WindowSize
<1>2. CASE shift >= WindowSize
  BY <1>2, LimbBitsAssumption DEF ShiftRight, Windows, BitSet, WindowSize
<1>3. CASE shift >= 2 * LimbBits /\ shift < WindowSize
  BY <1>3, LimbBitsAssumption DEF ShiftRight, Windows, Limbs, Shr, BitSet, WindowSize
<1>4. CASE shift >= LimbBits /\ shift < 2 * LimbBits
  BY <1>4, LimbBitsAssumption DEF ShiftRight, Windows, Limbs, Shr, Shl, BitSet, WindowSize
<1>5. CASE 0 < shift /\ shift < LimbBits
  BY <1>5, LimbBitsAssumption DEF ShiftRight, Windows, Limbs, Shr, Shl, BitSet, WindowSize
<1> QED
  BY <1>1, <1>2, <1>3, <1>4, <1>5, LimbBitsAssumption DEF WindowSize

\* SetBit marks one slot and no other.
LEMMA SetBitBits ==
    ASSUME NEW w \in Windows, NEW j \in 0 .. WindowSize - 1
    PROVE  /\ SetBit(w, j) \in Windows
           /\ SetBit(w, j).base = w.base
           /\ \A k \in 0 .. WindowSize - 1 : BitSet(SetBit(w, j), k) <=> k = j \/ BitSet(w, k)
<1>1. CASE j < LimbBits
  BY <1>1, LimbBitsAssumption DEF SetBit, BitSet, Windows, Limbs, WindowSize
<1>2. CASE j >= LimbBits /\ j < 2 * LimbBits
  BY <1>2, LimbBitsAssumption DEF SetBit, BitSet, Windows, Limbs, WindowSize
<1>3. CASE j >= 2 * LimbBits
  BY <1>3, LimbBitsAssumption DEF SetBit, BitSet, Windows, Limbs, WindowSize
<1> QED
  BY <1>1, <1>2, <1>3, LimbBitsAssumption DEF WindowSize

\* The window that execute_swap stores after an accepted nonce is a window.
LEMMA PreparedType ==
    ASSUME NEW w \in Windows, NEW n \in Nonces, PrepareVerdict(w, n) = "accepted"
    PROVE  Prepared(w, n) \in Windows
<1> DEFINE shift == PrepareShift(w, n)
           slid == SlidTo(w, n, shift)
<1>1. w.base \in Nat /\ n \in Nat /\ n <= MaxNonce /\ w.base <= MaxNonce
  BY MaxNonceAssumption DEF Windows, Nonces
<1>2. WindowSize \in Nat /\ WindowSize >= 3
  BY LimbBitsAssumption DEF WindowSize
<1>3. n >= w.base
  BY <1>1 DEF PrepareVerdict, VerdictOn
<1>4. slid \in Windows /\ n - slid.base \in 0 .. WindowSize - 1
  <2>1. CASE n - w.base < WindowSize
    BY <2>1, <1>1, <1>2, <1>3 DEF SlidTo
  <2>2. CASE ~(n - w.base < WindowSize)
    <3>1. shift \in Nat
      BY <1>1, <1>2, <2>2, FieldAssumption, MaxNonceAssumption, LimbBitsAssumption
         DEF PrepareShift, FeltSub, WindowSize
    <3>2. ShiftRight(w, shift) \in Windows
      BY <3>1, ShiftRightType
    <3>3. n - (WindowSize - 1) \in Nonces
      BY <1>1, <1>2, <2>2, MaxNonceAssumption DEF Nonces
    <3>4. slid = [ShiftRight(w, shift) EXCEPT !.base = n - (WindowSize - 1)]
      BY <2>2 DEF SlidTo
    <3>5. slid \in Windows /\ slid.base = n - (WindowSize - 1)
      BY <3>2, <3>3, <3>4 DEF Windows
    <3> QED
      BY <3>5, <1>1, <1>2
  <2> QED
    BY <2>1, <2>2
<1> QED
  BY <1>4, SetBitBits DEF Prepared, MarkOn
================================================================================
