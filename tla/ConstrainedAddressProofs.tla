----------------------- MODULE ConstrainedAddressProofs -----------------------
(***************************************************************************)
(* Theorems about the search for an address under constraints, for every   *)
(* number of bits, every pool and every vector of functions.               *)
(***************************************************************************)
EXTENDS ConstrainedAddress, FiniteSetTheorems, SequenceTheorems,
        TLAPS

(* Functions and addresses are finite sets of bits.                        *)
LEMMA LineIsFinite ==
  /\ MaxBits \in Nat /\ CACHELINE_OFFSET \in Nat
  /\ CACHELINE_OFFSET <= MaxBits
  /\ \A S \in SUBSET LineBit : IsFiniteSet(S)
<1>1. MaxBits \in Nat /\ CACHELINE_OFFSET \in Nat /\ CACHELINE_OFFSET <= MaxBits
  BY ConstraintsAssumption
<1>2. IsFiniteSet(LineBit)
  BY <1>1, FS_Interval DEF LineBit
<1>. QED
  BY <1>1, <1>2, FS_Subset

(* The parity of a symmetric difference.                                   *)
LEMMA XorCardinality ==
  ASSUME NEW A, NEW B, IsFiniteSet(A), IsFiniteSet(B)
  PROVE  /\ Cardinality(A) \in Nat /\ Cardinality(B) \in Nat
         /\ Cardinality(Xor(A, B)) \in Nat
         /\ Cardinality(Xor(A, B)) % 2
              = ((Cardinality(A) % 2) + (Cardinality(B) % 2)) % 2
<1>1. /\ IsFiniteSet(A \ B) /\ IsFiniteSet(B \ A) /\ IsFiniteSet(A \cap B)
      /\ Cardinality(A \ B) = Cardinality(A) - Cardinality(A \cap B)
      /\ Cardinality(B \ A) = Cardinality(B) - Cardinality(B \cap A)
  BY FS_Difference, FS_Intersection
<1>2. /\ (A \ B) \cap (B \ A) = {}
      /\ B \cap A = A \cap B
  OBVIOUS
<1>3. /\ IsFiniteSet(Xor(A, B))
      /\ Cardinality(Xor(A, B))
           = Cardinality(A \ B) + Cardinality(B \ A) - Cardinality({})
  BY <1>1, <1>2, FS_Union DEF Xor
<1>4. Cardinality({}) = 0
  BY FS_EmptySet
<1>5. /\ Cardinality(A) \in Nat /\ Cardinality(B) \in Nat
      /\ Cardinality(A \cap B) \in Nat /\ Cardinality(Xor(A, B)) \in Nat
      /\ Cardinality(A \ B) \in Nat /\ Cardinality(B \ A) \in Nat
  BY <1>1, <1>3, FS_CardinalityType
<1>6. Cardinality(Xor(A, B))
        = Cardinality(A) + Cardinality(B) - 2 * Cardinality(A \cap B)
  <2>1. Cardinality(B \ A) = Cardinality(B) - Cardinality(A \cap B)
    BY <1>1, <1>2
  <2>2. Cardinality(Xor(A, B)) = Cardinality(A \ B) + Cardinality(B \ A)
    BY <1>3, <1>4, <1>5
  <2>. QED
    BY <1>1, <1>5, <2>1, <2>2
<1>7. ASSUME NEW x \in Nat, NEW y \in Nat, NEW z \in Nat, NEW s \in Nat,
             s = x + y - 2 * z
      PROVE  s % 2 = ((x % 2) + (y % 2)) % 2
  BY <1>7
<1>. QED
  BY <1>5, <1>6, <1>7

(* An output bit is a bit, and linear in the function and in the address.  *)
LEMMA ParityType ==
  ASSUME NEW f \in SUBSET LineBit, NEW a \in SUBSET LineBit
  PROVE  XORReductionWithMask(f, a) \in {0, 1}
<1>1. f \cap a \in SUBSET LineBit
  OBVIOUS
<1>2. Cardinality(f \cap a) \in Nat
  BY <1>1, LineIsFinite, FS_CardinalityType
<1>. QED
  BY <1>2 DEF XORReductionWithMask

LEMMA ParityLinear ==
  ASSUME NEW f \in SUBSET LineBit, NEW g \in SUBSET LineBit,
         NEW a \in SUBSET LineBit
  PROVE  XORReductionWithMask(Xor(f, g), a)
           = Plus(XORReductionWithMask(f, a), XORReductionWithMask(g, a))
<1>1. /\ f \cap a \in SUBSET LineBit
      /\ g \cap a \in SUBSET LineBit
      /\ Xor(f, g) \cap a = Xor(f \cap a, g \cap a)
  BY DEF Xor
<1>2. IsFiniteSet(f \cap a) /\ IsFiniteSet(g \cap a)
  BY <1>1, LineIsFinite
<1>3. Cardinality(Xor(f \cap a, g \cap a)) % 2
        = ((Cardinality(f \cap a) % 2) + (Cardinality(g \cap a) % 2)) % 2
  BY <1>2, XorCardinality
<1>4. XORReductionWithMask(Xor(f, g), a)
        = Cardinality(Xor(f \cap a, g \cap a)) % 2
  BY <1>1 DEF XORReductionWithMask
<1>5. Plus(XORReductionWithMask(f, a), XORReductionWithMask(g, a))
        = ((Cardinality(f \cap a) % 2) + (Cardinality(g \cap a) % 2)) % 2
  BY Zenon DEF XORReductionWithMask, Plus
<1>. QED
  BY <1>3, <1>4, <1>5, Zenon

LEMMA ParitySymmetric ==
  ASSUME NEW f, NEW a
  PROVE  XORReductionWithMask(f, a) = XORReductionWithMask(a, f)
<1>1. f \cap a = a \cap f
  OBVIOUS
<1>. QED
  BY <1>1 DEF XORReductionWithMask

(* The parities that the search computes with.                             *)
LEMMA ParityFew ==
  ASSUME NEW f, NEW a
  PROVE  /\ f \cap a = {} => XORReductionWithMask(f, a) = 0
         /\ \A b : f \cap a = {b} => XORReductionWithMask(f, a) = 1
         /\ \A b, c : b # c /\ f \cap a = {b, c}
                        => XORReductionWithMask(f, a) = 0
<1>1. Cardinality({}) = 0
  BY FS_EmptySet
<1>2. \A b : Cardinality({b}) = 1
  BY FS_Singleton
<1>3. ASSUME NEW b, NEW c, b # c PROVE Cardinality({b, c}) = 2
  <2>1. IsFiniteSet({b}) /\ c \notin {b} /\ {b, c} = {b} \cup {c}
    BY <1>3, FS_Singleton
  <2>2. Cardinality({b} \cup {c}) = Cardinality({b}) + 1
    BY <2>1, FS_AddElement
  <2>. QED
    BY <2>1, <2>2, <1>2
<1>4. 0 % 2 = 0 /\ 1 % 2 = 1 /\ 2 % 2 = 0
  OBVIOUS
<1>5. f \cap a = {} => XORReductionWithMask(f, a) = 0
  BY <1>1, <1>4 DEF XORReductionWithMask
<1>6. ASSUME NEW b, f \cap a = {b} PROVE XORReductionWithMask(f, a) = 1
  <2>1. Cardinality(f \cap a) = 1
    BY <1>2, <1>6
  <2>. QED
    BY <2>1, <1>4 DEF XORReductionWithMask
<1>7. ASSUME NEW b, NEW c, b # c, f \cap a = {b, c}
      PROVE  XORReductionWithMask(f, a) = 0
  <2>0. Cardinality({b, c}) = 2
    BY <1>3, <1>7
  <2>1. Cardinality(f \cap a) = 2
    BY <2>0, <1>7
  <2>. QED
    BY <2>1, <1>4 DEF XORReductionWithMask
<1>. QED
  BY <1>5, <1>6, <1>7

-----------------------------------------------------------------------------
(* The rows of the matrix are those of the one vector, then of the other.  *)
LEMMA TwoParts ==
  ASSUME NEW n \in Nat, NEW m \in Nat
  PROVE  /\ \A k \in 1 .. n : k \in 1 .. (n + m) /\ k <= n
         /\ \A k \in 1 .. m : /\ (n + k) \in 1 .. (n + m)
                              /\ ~((n + k) <= n)
                              /\ (n + k) - n = k
         /\ \A i \in 1 .. (n + m) :
              i \in 1 .. n \/ \E k \in 1 .. m : i = n + k
<1>1. \A i \in 1 .. (n + m) : i \in 1 .. n \/ \E k \in 1 .. m : i = n + k
  <2> TAKE i \in 1 .. (n + m)
  <2>1. CASE ~(i <= n)
    <3>1. (i - n) \in 1 .. m /\ i = n + (i - n)
      BY <2>1
    <3>. QED
      BY <3>1
  <2>2. CASE i <= n
    BY <2>2
  <2>. QED
    BY <2>1, <2>2
<1>. QED
  BY <1>1

(* The right-hand side, row by row.                                        *)
LEMMA GivenRows ==
  ASSUME NEW q \in Queries, NEW n \in Nat, NEW m \in Nat,
         DOMAIN q.same = 1 .. n, DOMAIN q.diff = 1 .. m
  PROVE  /\ q.first \in SUBSET LineBit
         /\ Len(q.same) = n /\ Len(q.diff) = m
         /\ \A k \in 1 .. n : q.same[k] \in SUBSET LineBit
         /\ \A k \in 1 .. m : q.diff[k] \in SUBSET LineBit
         /\ (q.same \o q.diff) \in Seq(SUBSET LineBit)
         /\ Len(q.same \o q.diff) = n + m
         /\ DOMAIN (q.same \o q.diff) = 1 .. (n + m)
         /\ \A k \in 1 .. n : (q.same \o q.diff)[k] = q.same[k]
         /\ \A k \in 1 .. m : (q.same \o q.diff)[n + k] = q.diff[k]
<1>1. /\ q.same \in Seq(SUBSET LineBit) /\ q.diff \in Seq(SUBSET LineBit)
      /\ q.first \in SUBSET LineBit
  BY ConstraintsAssumption
<1>2. /\ Len(q.same) = n /\ Len(q.diff) = m
      /\ \A k \in 1 .. n : q.same[k] \in SUBSET LineBit
      /\ \A k \in 1 .. m : q.diff[k] \in SUBSET LineBit
  BY <1>1
<1>3. /\ (q.same \o q.diff) \in Seq(SUBSET LineBit)
      /\ Len(q.same \o q.diff) = n + m
      /\ \A k \in 1 .. (n + m) :
            (q.same \o q.diff)[k] = IF k <= n THEN q.same[k] ELSE q.diff[k - n]
  BY <1>1, <1>2, ConcatProperties
<1>4. DOMAIN (q.same \o q.diff) = 1 .. (n + m)
  <2>1. \A v \in Seq(SUBSET LineBit) : DOMAIN v = 1 .. Len(v)
    OBVIOUS
  <2>. QED
    BY <2>1, <1>3
<1>5. ASSUME NEW k \in 1 .. n PROVE (q.same \o q.diff)[k] = q.same[k]
  <2>1. k \in 1 .. (n + m) /\ k <= n
    BY TwoParts
  <2>. QED
    BY <2>1, <1>3
<1>6. ASSUME NEW k \in 1 .. m PROVE (q.same \o q.diff)[n + k] = q.diff[k]
  <2>1. (n + k) \in 1 .. (n + m) /\ ~((n + k) <= n) /\ (n + k) - n = k
    BY TwoParts
  <2>2. (q.same \o q.diff)[n + k] = q.diff[(n + k) - n]
    BY <2>1, <1>3
  <2>. QED
    BY <2>1, <2>2
<1>. QED
  BY <1>1, <1>2, <1>3, <1>4, <1>5, <1>6

LEMMA GivenSide ==
  ASSUME NEW q \in Queries, NEW n \in Nat, NEW m \in Nat,
         DOMAIN q.same = 1 .. n, DOMAIN q.diff = 1 .. m
  PROVE  /\ RightHandSide(q) \in Seq({0, 1})
         /\ Len(RightHandSide(q)) = n + m
         /\ \A k \in 1 .. n : RightHandSide(q)[k]
                                = XORReductionWithMask(q.same[k], q.first)
         /\ \A k \in 1 .. m : RightHandSide(q)[n + k]
                                = 1 - XORReductionWithMask(q.diff[k], q.first)
<1> DEFINE Value(k) ==
             IF k <= n THEN XORReductionWithMask(q.same[k], q.first)
             ELSE 1 - XORReductionWithMask(q.diff[k - n], q.first)
<1>1. Len(q.same) = n /\ Len(q.diff) = m
  BY GivenRows
<1>2. RightHandSide(q) = [k \in 1 .. (n + m) |-> Value(k)]
  BY <1>1 DEF RightHandSide
<1>3. \A k \in 1 .. n : Value(k) = XORReductionWithMask(q.same[k], q.first)
  BY TwoParts
<1>4. ASSUME NEW k \in 1 .. m
      PROVE  Value(n + k) = 1 - XORReductionWithMask(q.diff[k], q.first)
  <2>1. ~((n + k) <= n) /\ (n + k) - n = k
    BY TwoParts
  <2>. QED
    BY <2>1
<1>5. ASSUME NEW k \in 1 .. n PROVE Value(k) \in {0, 1}
  <2>1. q.same[k] \in SUBSET LineBit /\ q.first \in SUBSET LineBit
    BY GivenRows
  <2>2. XORReductionWithMask(q.same[k], q.first) \in {0, 1}
    BY <2>1, ParityType
  <2>. QED
    BY <1>3, <2>2
<1>6. ASSUME NEW k \in 1 .. m PROVE Value(n + k) \in {0, 1}
  <2>1. q.diff[k] \in SUBSET LineBit /\ q.first \in SUBSET LineBit
    BY GivenRows
  <2>2. XORReductionWithMask(q.diff[k], q.first) \in {0, 1}
    BY <2>1, ParityType
  <2>. QED
    BY <1>4, <2>2
<1> HIDE DEF Value
<1>7. \A i \in 1 .. (n + m) : Value(i) \in {0, 1}
  <2> TAKE i \in 1 .. (n + m)
  <2>1. i \in 1 .. n \/ \E k \in 1 .. m : i = n + k
    BY TwoParts
  <2>. QED
    BY <2>1, <1>5, <1>6
<1>8. \A k \in 1 .. n : RightHandSide(q)[k] = Value(k)
  BY <1>2, TwoParts
<1>9. \A k \in 1 .. m : RightHandSide(q)[n + k] = Value(n + k)
  BY <1>2, TwoParts
<1>10. /\ RightHandSide(q) \in Seq({0, 1})
       /\ Len(RightHandSide(q)) = n + m
  <2>1. (n + m) \in Nat
    OBVIOUS
  <2>. QED
    BY <1>2, <1>7, <2>1
<1>. QED
  BY <1>3, <1>4, <1>8, <1>9, <1>10

(* The constraints as given are the system of the first matrix.            *)
LEMMA InitKeepsSystem == Init => SystemKept
<1> SUFFICES ASSUME Init, NEW a \in SUBSET LineBit PROVE Solves(a) <=> Wanted(a)
  BY DEF SystemKept
<1>1. query \in Queries
  BY DEF Init
<1>2. PICK n \in Nat, m \in Nat :
        DOMAIN query.same = 1 .. n /\ DOMAIN query.diff = 1 .. m
  <2>1. /\ query.same \in Seq(SUBSET LineBit)
        /\ query.diff \in Seq(SUBSET LineBit)
    BY <1>1, ConstraintsAssumption
  <2>. QED
    BY <2>1
<1>3. Rows = 1 .. (n + m)
  BY <1>1, <1>2, GivenRows DEF Init, Rows
<1>4. \A k \in 1 .. n :
         (XORReductionWithMask(base_functions[k], a) = expected[k])
           <=> (XORReductionWithMask(query.same[k], a)
                  = XORReductionWithMask(query.same[k], query.first))
  BY <1>1, <1>2, GivenRows, GivenSide DEF Init
<1>5. ASSUME NEW k \in 1 .. m
      PROVE  (XORReductionWithMask(base_functions[n + k], a) = expected[n + k])
               <=> (XORReductionWithMask(query.diff[k], a)
                      # XORReductionWithMask(query.diff[k], query.first))
  <2>1. base_functions[n + k] = query.diff[k]
    BY <1>1, <1>2, GivenRows DEF Init
  <2>2. expected[n + k] = 1 - XORReductionWithMask(query.diff[k], query.first)
    BY <1>1, <1>2, GivenSide DEF Init
  <2>3. query.diff[k] \in SUBSET LineBit /\ query.first \in SUBSET LineBit
    BY <1>1, <1>2, GivenRows
  <2>4. /\ XORReductionWithMask(query.diff[k], query.first) \in {0, 1}
        /\ XORReductionWithMask(query.diff[k], a) \in {0, 1}
    BY <2>3, ParityType
  <2>. QED
    BY <2>1, <2>2, <2>4
<1>6. Solves(a) <=>
        /\ \A k \in 1 .. n : XORReductionWithMask(base_functions[k], a) = expected[k]
        /\ \A k \in 1 .. m :
             XORReductionWithMask(base_functions[n + k], a) = expected[n + k]
  BY <1>3, TwoParts DEF Solves
<1>7. Wanted(a) <=>
        /\ \A k \in 1 .. n : XORReductionWithMask(query.same[k], a)
                              = XORReductionWithMask(query.same[k], query.first)
        /\ \A k \in 1 .. m : XORReductionWithMask(query.diff[k], a)
                              # XORReductionWithMask(query.diff[k], query.first)
  BY <1>2 DEF Wanted, Masks
<1>. QED
  BY <1>4, <1>5, <1>6, <1>7

(* No bit has been passed and no row has a pivot at first.                 *)
LEMMA InitIInv == Init => IInv
<1> SUFFICES ASSUME Init PROVE IInv
  OBVIOUS
<1>1. query \in Queries
  BY DEF Init
<1>2. PICK n \in Nat, m \in Nat :
        DOMAIN query.same = 1 .. n /\ DOMAIN query.diff = 1 .. m
  <2>1. /\ query.same \in Seq(SUBSET LineBit)
        /\ query.diff \in Seq(SUBSET LineBit)
    BY <1>1, ConstraintsAssumption
  <2>. QED
    BY <2>1
<1>3. TypeOK
  <2>1. /\ base_functions \in Seq(SUBSET LineBit)
        /\ Len(base_functions) = n + m
        /\ Len(query.same) = n /\ Len(query.diff) = m
    BY <1>1, <1>2, GivenRows DEF Init
  <2>2. Len(base_functions) \in Nat
    BY <2>1
  <2>5. expected \in Seq({0, 1}) /\ Len(expected) = n + m
    BY <1>1, <1>2, GivenSide DEF Init
  <2>3. /\ pivot_row \in [LineBit -> 0 .. Len(base_functions)]
        /\ row \in 0 .. Len(base_functions)
    <3>1. 0 \in 0 .. Len(base_functions)
      BY <2>2
    <3>2. row = 0 /\ pivot_row = [b \in LineBit |-> 0]
      BY DEF Init
    <3>. QED
      BY <3>1, <3>2
  <2>4. bit \in CACHELINE_OFFSET - 1 .. MaxBits
    BY LineIsFinite DEF Init
  <2>. QED
    BY <1>1, <2>1, <2>3, <2>4, <2>5 DEF Init, TypeOK
<1>4. SystemKept
  BY InitKeepsSystem
<1>5. Echelon
  <2>1. Passed = {}
    BY LineIsFinite DEF Init, Passed, LineBit
  <2>2. 1 .. row = {}
    BY DEF Init
  <2>. QED
    BY <2>1, <2>2 DEF Init, Echelon
<1>6. VerdictInv /\ SolutionInv
  BY DEF Init, VerdictInv, SolutionInv
<1>. QED
  BY <1>3, <1>4, <1>5, <1>6 DEF IInv, SearchInv

-----------------------------------------------------------------------------
(* The rows of the matrix and of the right-hand side.                      *)
LEMMA RowTypes ==
  ASSUME TypeOK
  PROVE  /\ Len(base_functions) \in Nat
         /\ Rows = 1 .. Len(base_functions)
         /\ base_functions \in [Rows -> SUBSET LineBit]
         /\ expected \in [Rows -> {0, 1}]
         /\ row \in Nat /\ row <= Len(base_functions)
         /\ \A b \in LineBit : pivot_row[b] \in 0 .. Len(base_functions)
<1>1. /\ base_functions \in Seq(SUBSET LineBit)
      /\ expected \in Seq({0, 1})
      /\ Len(expected) = Len(base_functions)
      /\ row \in 0 .. Len(base_functions)
      /\ pivot_row \in [LineBit -> 0 .. Len(base_functions)]
  BY DEF TypeOK
<1>2. /\ Len(base_functions) \in Nat
      /\ base_functions \in [1 .. Len(base_functions) -> SUBSET LineBit]
      /\ DOMAIN base_functions = 1 .. Len(base_functions)
  BY <1>1, LenProperties
<1>3. expected \in [1 .. Len(base_functions) -> {0, 1}]
  BY <1>1, LenProperties
<1>. QED
  BY <1>1, <1>2, <1>3 DEF Rows

(* Sums of bits.                                                           *)
LEMMA PlusBits ==
  /\ \A x, y \in {0, 1} : Plus(x, y) \in {0, 1}
  /\ \A x, y, z \in {0, 1} : Plus(x, z) = Plus(y, z) => x = y
  /\ \A x \in {0, 1} : Plus(x, 0) = x /\ Plus(0, x) = x
BY DEF Plus

(* One pivot: the matrix and the right-hand side after the swap and the    *)
(* additions.  v and w are the swapped ones, r is the pivot's row.         *)
Swapped(v, w, r, pivot) ==
  /\ v \in [Rows -> SUBSET LineBit]
  /\ w \in [Rows -> {0, 1}]
  /\ r \in Rows /\ pivot \in Rows /\ r = row + 1 /\ row < pivot
  /\ bit \in LineBit
  /\ bit \in v[r]
  /\ v[r] = base_functions[pivot] /\ w[r] = expected[pivot]
  /\ pivot # r => v[pivot] = base_functions[r] /\ w[pivot] = expected[r]
  /\ \A i \in Rows \ {r, pivot} : v[i] = base_functions[i] /\ w[i] = expected[i]
  /\ base_functions' = [i \in Rows |-> IF i \in {k \in Rows \ {r} : bit \in v[k]}
                                       THEN Xor(v[i], v[r]) ELSE v[i]]
  /\ expected' = [i \in Rows |-> IF i \in {k \in Rows \ {r} : bit \in v[k]}
                                 THEN Plus(w[i], w[r]) ELSE w[i]]

LEMMA PivotSwaps ==
  ASSUME TypeOK, PivotBit
  PROVE  \E v, w, r, pivot : Swapped(v, w, r, pivot)
<1>1. PICK pivot \in Candidates : Pivot(pivot)
  BY DEF PivotBit
<1>2. PICK r \in Nat : r = row + 1
  BY RowTypes
<1>3. /\ pivot \in Rows /\ pivot > row /\ bit \in base_functions[pivot]
      /\ r \in Rows
  <2>1. pivot \in Rows /\ pivot > row /\ bit \in base_functions[pivot]
    BY <1>1 DEF Candidates
  <2>2. Len(base_functions) \in Nat /\ pivot \in 1 .. Len(base_functions)
    BY <2>1, RowTypes
  <2>. QED
    BY <1>2, <2>1, <2>2, RowTypes
<1>4. bit \in LineBit
  BY <1>3, RowTypes
<1>5. PICK v : v = Swap(base_functions, r, pivot)
  OBVIOUS
<1>6. PICK w : w = Swap(expected, r, pivot)
  OBVIOUS
<1>7. /\ v \in [Rows -> SUBSET LineBit]
      /\ v[r] = base_functions[pivot]
      /\ pivot # r => v[pivot] = base_functions[r]
      /\ \A i \in Rows \ {r, pivot} : v[i] = base_functions[i]
  BY <1>3, <1>5, RowTypes DEF Swap
<1>8. /\ w \in [Rows -> {0, 1}]
      /\ w[r] = expected[pivot]
      /\ pivot # r => w[pivot] = expected[r]
      /\ \A i \in Rows \ {r, pivot} : w[i] = expected[i]
  BY <1>3, <1>6, RowTypes DEF Swap
<1>9. /\ DOMAIN v = Rows /\ DOMAIN w = Rows
      /\ OtherRows(v) = {k \in Rows \ {r} : bit \in v[k]}
  BY <1>2, <1>7, <1>8 DEF OtherRows
<1>10. base_functions' = [i \in Rows |-> IF i \in {k \in Rows \ {r} : bit \in v[k]}
                                        THEN Xor(v[i], v[r]) ELSE v[i]]
  <2>1. base_functions' = [i \in DOMAIN v |->
                              IF i \in OtherRows(v)
                              THEN Xor(v[i], v[row + 1]) ELSE v[i]]
    BY <1>1, <1>2, <1>5 DEF Pivot
  <2>. QED
    BY <2>1, <1>2, <1>9
<1>11. expected' = [i \in Rows |-> IF i \in {k \in Rows \ {r} : bit \in v[k]}
                                  THEN Plus(w[i], w[r]) ELSE w[i]]
  <2>1. expected' = [i \in DOMAIN w |->
                        IF i \in OtherRows(v) THEN Plus(w[i], w[row + 1]) ELSE w[i]]
    BY <1>1, <1>2, <1>5, <1>6 DEF Pivot, AddedUp
  <2>. QED
    BY <2>1, <1>2, <1>9
<1>12. row < pivot /\ bit \in v[r]
  BY <1>3, <1>7, RowTypes
<1>. QED
  BY <1>2, <1>3, <1>4, <1>7, <1>8, <1>10, <1>11, <1>12 DEF Swapped

(* A pivot keeps the types, the solutions and the echelon form.            *)
LEMMA PivotKeepsIInv ==
  ASSUME IInv, PivotBit
  PROVE  IInv'
<1>0. TypeOK /\ SystemKept /\ Echelon /\ VerdictInv /\ SolutionInv
  BY DEF IInv, SearchInv
<1>1. PICK v, w, r, pivot : Swapped(v, w, r, pivot)
  BY <1>0, PivotSwaps
<1>2. PICK K : K = {k \in Rows \ {r} : bit \in v[k]}
  OBVIOUS
<1>3. /\ v \in [Rows -> SUBSET LineBit] /\ w \in [Rows -> {0, 1}]
      /\ K \in SUBSET (Rows \ {r})
      /\ r \in Rows /\ pivot \in Rows /\ r = row + 1 /\ row < pivot
      /\ bit \in LineBit /\ bit \in v[r]
      /\ base_functions' = [i \in Rows |-> IF i \in K THEN Xor(v[i], v[r]) ELSE v[i]]
      /\ expected' = [i \in Rows |-> IF i \in K THEN Plus(w[i], w[r]) ELSE w[i]]
  BY <1>1, <1>2 DEF Swapped
<1>4. /\ Len(base_functions) \in Nat /\ Rows = 1 .. Len(base_functions)
      /\ row \in Nat /\ row <= Len(base_functions)
  BY <1>0, RowTypes
<1>5. /\ pc = "eliminate" /\ pc' = pc /\ bit' = bit - 1 /\ row' = row + 1
      /\ pivot_row' = [pivot_row EXCEPT ![bit] = row + 1]
      /\ query' = query /\ solution' = solution /\ retval' = retval
  BY DEF PivotBit
<1>6. /\ bit \in Int /\ CACHELINE_OFFSET \in Nat /\ MaxBits \in Nat
      /\ CACHELINE_OFFSET <= bit /\ bit < MaxBits
  BY <1>3, LineIsFinite DEF LineBit
<1>7. Rows' = Rows
  BY <1>3 DEF Rows
<1>8. TypeOK'
  <2>1. \A i \in Rows : /\ base_functions'[i] \in SUBSET LineBit
                        /\ expected'[i] \in {0, 1}
    <3> TAKE i \in Rows
    <3>1. /\ v[i] \in SUBSET LineBit /\ v[r] \in SUBSET LineBit
          /\ w[i] \in {0, 1} /\ w[r] \in {0, 1}
      BY <1>3
    <3>2. /\ Xor(v[i], v[r]) \in SUBSET LineBit
          /\ Plus(w[i], w[r]) \in {0, 1}
      BY <3>1, PlusBits DEF Xor
    <3>. QED
      BY <1>3, <3>1, <3>2
  <2>2. /\ base_functions' \in [1 .. Len(base_functions) -> SUBSET LineBit]
        /\ expected' \in [1 .. Len(base_functions) -> {0, 1}]
    BY <1>3, <1>4, <2>1
  <2>3. /\ base_functions' \in Seq(SUBSET LineBit) /\ expected' \in Seq({0, 1})
        /\ Len(base_functions') = Len(base_functions)
        /\ Len(expected') = Len(base_functions)
    BY <1>4, <2>2
  <2>4. /\ row' \in 0 .. Len(base_functions)
        /\ pivot_row' \in [LineBit -> 0 .. Len(base_functions)]
    <3>1. row + 1 \in 0 .. Len(base_functions)
      BY <1>3, <1>4
    <3>2. pivot_row \in [LineBit -> 0 .. Len(base_functions)]
      BY <1>0 DEF TypeOK
    <3>. QED
      BY <1>5, <3>1, <3>2
  <2>5. bit' \in CACHELINE_OFFSET - 1 .. MaxBits
    BY <1>5, <1>6
  <2>6. Len(base_functions) = Len(query.same) + Len(query.diff)
    BY <1>0 DEF TypeOK
  <2>. QED
    BY <1>0, <1>5, <2>3, <2>4, <2>5, <2>6 DEF TypeOK
<1>9. SystemKept'
  <2>1. ASSUME NEW a \in SUBSET LineBit PROVE (Solves(a))' <=> Solves(a)
    <3>1. PICK vv, ww : vv = base_functions' /\ ww = expected'
      OBVIOUS
    <3>2. /\ \A i \in Rows : vv[i] = IF i \in K THEN Xor(v[i], v[r]) ELSE v[i]
          /\ \A i \in Rows : ww[i] = IF i \in K THEN Plus(w[i], w[r]) ELSE w[i]
      BY <1>3, <3>1
    <3>3. (\A i \in Rows : XORReductionWithMask(vv[i], a) = ww[i])
            <=> (\A i \in Rows : XORReductionWithMask(v[i], a) = w[i])
      <4>1. \A i \in Rows : /\ XORReductionWithMask(v[i], a) \in {0, 1}
                            /\ w[i] \in {0, 1}
        BY <1>3, ParityType
      <4>2. \A i \in Rows : XORReductionWithMask(Xor(v[i], v[r]), a)
                             = Plus(XORReductionWithMask(v[i], a),
                                    XORReductionWithMask(v[r], a))
        BY <1>3, ParityLinear
      <4>3. ASSUME \A i \in Rows : XORReductionWithMask(v[i], a) = w[i],
                   NEW i \in Rows
            PROVE  XORReductionWithMask(vv[i], a) = ww[i]
        BY <1>3, <3>2, <4>2, <4>3
      <4>4. ASSUME \A i \in Rows : XORReductionWithMask(vv[i], a) = ww[i],
                   NEW i \in Rows
            PROVE  XORReductionWithMask(v[i], a) = w[i]
        <5>1. XORReductionWithMask(v[r], a) = w[r]
          BY <1>3, <3>2, <4>4
        <5>2. CASE i \in K
          <6>1. Plus(XORReductionWithMask(v[i], a), w[r]) = Plus(w[i], w[r])
            BY <3>2, <4>2, <4>4, <5>1, <5>2
          <6>. QED
            BY <1>3, <4>1, <6>1, PlusBits
        <5>3. CASE i \notin K
          BY <3>2, <4>4, <5>3
        <5>. QED
          BY <5>2, <5>3
      <4>. QED
        BY <4>3, <4>4
    <3>4. (Solves(a))' <=> \A i \in Rows : XORReductionWithMask(vv[i], a) = ww[i]
      BY <1>7, <3>1 DEF Solves
    <3>5. Solves(a) <=> \A i \in Rows : XORReductionWithMask(v[i], a) = w[i]
      BY <1>1 DEF Swapped, Solves
    <3>. QED
      BY <3>3, <3>4, <3>5
  <2>2. ASSUME NEW a \in SUBSET LineBit PROVE (Wanted(a))' <=> Wanted(a)
    BY <1>5 DEF Wanted
  <2>. QED
    BY <1>0, <2>1, <2>2 DEF SystemKept
<1>10. Echelon'
  <2>1. bit \notin Passed /\ Passed' = Passed \cup {bit}
    BY <1>3, <1>5, <1>6 DEF Passed, LineBit
  <2>2. \A b \in LineBit : pivot_row'[b] = IF b = bit THEN r ELSE pivot_row[b]
    BY <1>0, <1>3, <1>5 DEF TypeOK
  <2>3. ASSUME NEW b \in Passed, pivot_row[b] # 0
        PROVE  /\ pivot_row'[b] # 0 /\ pivot_row'[b] <= row'
               /\ \A i \in Rows : b \in base_functions'[i] <=> i = pivot_row'[b]
    <3>1. /\ b \in LineBit /\ b # bit /\ pivot_row'[b] = pivot_row[b]
          /\ pivot_row[b] \in Nat /\ pivot_row[b] <= row
          /\ \A i \in Rows : b \in base_functions[i] <=> i = pivot_row[b]
      BY <1>0, <1>4, <2>1, <2>2, <2>3, RowTypes DEF Echelon, Passed
    <3>2. \A i \in Rows : b \in v[i] <=> i = pivot_row[b]
      BY <1>1, <1>3, <1>4, <3>1 DEF Swapped
    <3>3. b \notin v[r]
      BY <1>3, <1>4, <3>1, <3>2
    <3>4. \A i \in Rows : b \in base_functions'[i] <=> b \in v[i]
      BY <1>3, <3>3 DEF Xor
    <3>. QED
      BY <1>4, <1>5, <2>3, <3>1, <3>2, <3>4
  <2>4. ASSUME NEW b \in Passed, pivot_row[b] = 0
        PROVE  /\ pivot_row'[b] = 0
               /\ \A i \in Rows : i > row' => b \notin base_functions'[i]
    <3>1. /\ b \in LineBit /\ b # bit /\ pivot_row'[b] = 0
          /\ \A i \in Rows : i > row => b \notin base_functions[i]
      BY <1>0, <2>1, <2>2, <2>4 DEF Echelon, Passed
    <3>2. \A i \in Rows : i > row => b \notin v[i]
      BY <1>1, <1>3, <1>4, <3>1 DEF Swapped
    <3>3. b \notin v[r]
      BY <1>3, <1>4, <3>2
    <3>4. \A i \in Rows : b \in base_functions'[i] <=> b \in v[i]
      BY <1>3, <3>3 DEF Xor
    <3>. QED
      BY <1>4, <1>5, <3>1, <3>2, <3>4
  <2>5. /\ pivot_row'[bit] = r /\ r # 0 /\ r <= row'
        /\ \A i \in Rows : bit \in base_functions'[i] <=> i = r
    <3>1. \A i \in Rows : bit \in base_functions'[i] <=> i = r
      BY <1>2, <1>3 DEF Xor
    <3>. QED
      BY <1>3, <1>4, <1>5, <2>2, <3>1
  <2>6. ASSUME NEW q \in 1 .. row'
        PROVE  \E b \in Passed' : \A c \in Passed' : pivot_row'[c] = q <=> c = b
    <3>0. Passed \subseteq LineBit
      BY DEF Passed
    <3>1. CASE q = r
      <4>1. \A c \in Passed : pivot_row[c] # r
        <5>1. \A c \in Passed : pivot_row[c] # 0 => pivot_row[c] <= row
          BY <1>0 DEF Echelon
        <5>. QED
          BY <1>3, <1>4, <5>1
      <4>2. \A c \in Passed' : pivot_row'[c] = q <=> c = bit
        <5> TAKE c \in Passed'
        <5>1. CASE c = bit
          BY <2>2, <1>3, <3>1, <5>1
        <5>2. CASE c # bit
          BY <2>1, <2>2, <3>0, <3>1, <4>1, <5>2
        <5>. QED
          BY <5>1, <5>2
      <4>. QED
        BY <2>1, <4>2
    <3>2. CASE q # r
      <4>1. q \in 1 .. row
        BY <1>3, <1>4, <1>5, <3>2
      <4>2. PICK b \in Passed : \A c \in Passed : pivot_row[c] = q <=> c = b
        BY <1>0, <4>1 DEF Echelon
      <4>3. b \in Passed' /\ b # bit
        BY <2>1, <4>2
      <4>4. \A c \in Passed' : pivot_row'[c] = q <=> c = b
        <5> TAKE c \in Passed'
        <5>1. CASE c = bit
          BY <2>2, <1>3, <3>2, <4>3, <5>1
        <5>2. CASE c # bit
          BY <2>1, <2>2, <3>0, <4>2, <5>2
        <5>. QED
          BY <5>1, <5>2
      <4>. QED
        BY <4>3, <4>4
    <3>. QED
      BY <3>1, <3>2
  <2>7. \A b \in LineBit \ Passed' : pivot_row'[b] = 0
    BY <1>0, <2>1, <2>2 DEF Echelon
  <2>. QED
    BY <1>7, <2>1, <2>3, <2>4, <2>5, <2>6, <2>7 DEF Echelon
<1>11. VerdictInv' /\ SolutionInv'
  BY <1>0, <1>5 DEF VerdictInv, SolutionInv
<1>. QED
  BY <1>8, <1>9, <1>10, <1>11 DEF IInv, SearchInv

-----------------------------------------------------------------------------
(* A bit that no row below the pivots has is passed without one.           *)
LEMMA SkipKeepsIInv ==
  ASSUME IInv, SkipBit
  PROVE  IInv'
<1>0. TypeOK /\ SystemKept /\ Echelon /\ VerdictInv /\ SolutionInv
  BY DEF IInv, SearchInv
<1>1. /\ pc = "eliminate" /\ pc' = pc /\ bit' = bit - 1 /\ row' = row
      /\ pivot_row' = pivot_row /\ base_functions' = base_functions
      /\ expected' = expected
      /\ query' = query /\ solution' = solution /\ retval' = retval
      /\ bit >= CACHELINE_OFFSET
      /\ \A i \in Rows : i > row => bit \notin base_functions[i]
  BY DEF SkipBit, Candidates
<1>2. /\ bit \in Int /\ bit <= MaxBits
  BY <1>0, LineIsFinite DEF TypeOK
<1>3. TypeOK'
  <2>1. bit' \in CACHELINE_OFFSET - 1 .. MaxBits
    BY <1>1, <1>2, LineIsFinite
  <2>. QED
    BY <1>0, <1>1, <2>1 DEF TypeOK
<1>4. SystemKept'
  BY <1>0, <1>1 DEF SystemKept, Solves, Wanted, Rows
<1>5. Echelon'
  <2>1. Passed \subseteq Passed' /\ Passed' \subseteq Passed \cup {bit}
    BY <1>1, <1>2, LineIsFinite DEF Passed, LineBit
  <2>2. Rows' = Rows /\ Passed' \subseteq LineBit /\ bit \notin Passed
    BY <1>1, <1>2 DEF Rows, Passed
  <2>3. ASSUME bit \in Passed' PROVE pivot_row[bit] = 0
    BY <1>0, <2>2, <2>3 DEF Echelon
  <2>. QED
    BY <1>0, <1>1, <2>1, <2>2, <2>3 DEF Echelon
<1>6. VerdictInv' /\ SolutionInv'
  BY <1>0, <1>1 DEF VerdictInv, SolutionInv
<1>. QED
  BY <1>3, <1>4, <1>5, <1>6 DEF IInv, SearchInv

(* A row below the pivots has no bit once all bits are passed.             *)
LEMMA RowsBelowAreEmpty ==
  ASSUME IInv, pc = "eliminate" => bit < CACHELINE_OFFSET
  PROVE  \A i \in Rows : i > row => base_functions[i] = {}
<1>0. TypeOK /\ Echelon
  BY DEF IInv, SearchInv
<1>1. Passed = LineBit
  <2>1. bit \in Int
    BY <1>0, LineIsFinite DEF TypeOK
  <2>2. CASE pc = "eliminate"
    BY <2>1, <2>2, LineIsFinite DEF Passed, LineBit
  <2>3. CASE pc # "eliminate"
    BY <2>3 DEF Passed
  <2>. QED
    BY <2>2, <2>3
<1>2. ASSUME NEW i \in Rows, i > row, NEW b \in base_functions[i]
      PROVE  FALSE
  <2>1. b \in LineBit
    BY <1>0, RowTypes
  <2>2. pivot_row[b] # 0
    BY <1>0, <1>1, <1>2, <2>1 DEF Echelon
  <2>3. pivot_row[b] <= row /\ i = pivot_row[b]
    BY <1>0, <1>1, <1>2, <2>1, <2>2 DEF Echelon
  <2>4. i \in Int /\ row \in Int
    BY <1>0, RowTypes
  <2>. QED
    BY <1>2, <2>3, <2>4
<1>. QED
  BY <1>2

LEMMA EliminationEndKeepsIInv ==
  ASSUME IInv, EliminationEnd
  PROVE  IInv'
<1>0. TypeOK /\ SystemKept /\ Echelon /\ VerdictInv /\ SolutionInv
  BY DEF IInv, SearchInv
<1>1. /\ pc = "eliminate" /\ pc' = "substitute" /\ row' = row
      /\ bit < CACHELINE_OFFSET /\ bit' = CACHELINE_OFFSET
      /\ pivot_row' = pivot_row /\ base_functions' = base_functions
      /\ expected' = expected
      /\ query' = query /\ solution' = solution /\ retval' = retval
      /\ \A i \in Rows : i > row /\ base_functions[i] = {} => expected[i] = 0
  BY DEF EliminationEnd, Contradiction
<1>2. TypeOK'
  <2>1. bit' \in CACHELINE_OFFSET - 1 .. MaxBits
    BY <1>1, LineIsFinite
  <2>. QED
    BY <1>0, <1>1, <2>1 DEF TypeOK
<1>3. SystemKept'
  BY <1>0, <1>1 DEF SystemKept, Solves, Wanted, Rows
<1>4. Echelon'
  <2>1. Passed = LineBit /\ Passed' = LineBit /\ Rows' = Rows
    <3>1. bit \in Int
      BY <1>0, LineIsFinite DEF TypeOK
    <3>. QED
      BY <1>1, <3>1, LineIsFinite DEF Passed, LineBit, Rows
  <2>. QED
    BY <1>0, <1>1, <2>1 DEF Echelon
<1>5. VerdictInv'
  BY <1>1, RowsBelowAreEmpty DEF VerdictInv, Rows
<1>6. SolutionInv'
  <2>1. solution' = {} /\ ~retval'
    BY <1>0, <1>1 DEF SolutionInv
  <2>2. \A b \in LineBit : ~(b < CACHELINE_OFFSET)
    BY LineIsFinite DEF LineBit
  <2>. QED
    BY <1>1, <2>1, <2>2, LineIsFinite DEF SolutionInv
<1>. QED
  BY <1>2, <1>3, <1>4, <1>5, <1>6 DEF IInv, SearchInv

(* Giving up, looking up and standing still.                               *)
LEMMA GiveUpKeepsIInv ==
  ASSUME IInv, GiveUp
  PROVE  IInv'
<1>0. TypeOK /\ SystemKept /\ Echelon /\ VerdictInv /\ SolutionInv
  BY DEF IInv, SearchInv
<1>1. /\ pc = "eliminate" /\ pc' = "unsolvable" /\ bit < CACHELINE_OFFSET
      /\ Contradiction
      /\ UNCHANGED <<query, base_functions, expected, pivot_row, row, bit,
                     solution, retval>>
  BY DEF GiveUp
<1>2. Passed' = Passed
  <2>1. bit \in Int
    BY <1>0, LineIsFinite DEF TypeOK
  <2>. QED
    BY <1>1, <2>1, LineIsFinite DEF Passed, LineBit
<1>3. TypeOK'
  BY <1>0, <1>1 DEF TypeOK
<1>4. SystemKept' /\ Echelon'
  BY <1>0, <1>1, <1>2 DEF SystemKept, Solves, Wanted, Echelon, Rows
<1>5. VerdictInv' /\ SolutionInv'
  BY <1>0, <1>1 DEF VerdictInv, Contradiction, Rows, SolutionInv
<1>. QED
  BY <1>3, <1>4, <1>5 DEF IInv, SearchInv

(* Past elimination a pivot's row has no other pivot, and every row that   *)
(* expects something has one.                                              *)
LEMMA ReducedRows ==
  ASSUME TypeOK, Echelon, VerdictInv, pc \in {"substitute", "randomise"}
  PROVE  \A i \in Rows :
           \/ base_functions[i] = {} /\ expected[i] = 0
           \/ \E b \in LineBit :
                /\ pivot_row[b] = i /\ b \in base_functions[i]
                /\ \A c \in base_functions[i] : pivot_row[c] # 0 => c = b
<1>1. Passed = LineBit
  BY DEF Passed
<1> SUFFICES ASSUME NEW i \in Rows, ~(i > row)
             PROVE  \E b \in LineBit :
                      /\ pivot_row[b] = i /\ b \in base_functions[i]
                      /\ \A c \in base_functions[i] : pivot_row[c] # 0 => c = b
  BY DEF VerdictInv
<1>2. i \in 1 .. row /\ i # 0
  BY RowTypes
<1>3. PICK b \in LineBit : \A c \in LineBit : pivot_row[c] = i <=> c = b
  BY <1>1, <1>2 DEF Echelon
<1>4. b \in base_functions[i]
  BY <1>1, <1>2, <1>3 DEF Echelon
<1>5. ASSUME NEW c \in base_functions[i], pivot_row[c] # 0 PROVE c = b
  <2>1. c \in LineBit
    BY RowTypes
  <2>2. i = pivot_row[c]
    BY <1>1, <1>5, <2>1 DEF Echelon
  <2>. QED
    BY <1>3, <2>1, <2>2
<1>. QED
  BY <1>3, <1>4, <1>5

(* The bits above a pivot are not set yet: it gets what its row expects.   *)
LEMMA SubstituteBitKeepsIInv ==
  ASSUME IInv, SubstituteBit
  PROVE  IInv'
<1>0. TypeOK /\ SystemKept /\ Echelon /\ VerdictInv /\ SolutionInv
  BY DEF IInv, SearchInv
<1>1. /\ pc = "substitute" /\ pc' = pc /\ row' = row
      /\ bit < MaxBits /\ bit' = bit + 1
      /\ pivot_row' = pivot_row /\ base_functions' = base_functions
      /\ expected' = expected /\ query' = query /\ retval' = retval
      /\ solution' = IF pivot_row[bit] # 0 /\ Rhs(pivot_row[bit]) = 1
                     THEN solution \cup {bit} ELSE solution
  BY DEF SubstituteBit
<1>2. /\ bit \in Int /\ bit \in LineBit /\ bit >= CACHELINE_OFFSET
      /\ solution = {b \in LineBit : /\ b < bit
                                     /\ pivot_row[b] # 0
                                     /\ expected[pivot_row[b]] = 1}
  <2>1. /\ bit >= CACHELINE_OFFSET
        /\ solution = {b \in LineBit : /\ b < bit
                                       /\ pivot_row[b] # 0
                                       /\ expected[pivot_row[b]] = 1}
    BY <1>0, <1>1 DEF SolutionInv
  <2>2. bit \in Int
    BY <1>0, LineIsFinite DEF TypeOK
  <2>3. bit \in LineBit
    BY <1>1, <2>1, <2>2, LineIsFinite DEF LineBit
  <2>. QED
    BY <2>1, <2>2, <2>3
<1>3. TypeOK'
  <2>1. bit' \in CACHELINE_OFFSET - 1 .. MaxBits
    BY <1>1, <1>2, LineIsFinite
  <2>2. solution' \in SUBSET LineBit
    BY <1>0, <1>1, <1>2 DEF TypeOK
  <2>. QED
    BY <1>0, <1>1, <2>1, <2>2 DEF TypeOK
<1>4. SystemKept'
  BY <1>0, <1>1 DEF SystemKept, Solves, Wanted, Rows
<1>5. Echelon'
  BY <1>0, <1>1 DEF Echelon, Passed, Rows
<1>6. VerdictInv'
  BY <1>0, <1>1 DEF VerdictInv, Rows
<1>7. SolutionInv'
  <2>1. ASSUME pivot_row[bit] # 0
        PROVE  Rhs(pivot_row[bit]) = expected[pivot_row[bit]]
    <3>1. \A b \in LineBit : ~(b > bit /\ b < bit)
      BY <1>2 DEF LineBit
    <3>2. pivot_row[bit] \in Rows
      BY <1>0, <1>2, <2>1, RowTypes
    <3>3. /\ expected[pivot_row[bit]] \in {0, 1}
          /\ base_functions[pivot_row[bit]] \in SUBSET LineBit
      BY <1>0, <3>2, RowTypes
    <3>4. {b \in base_functions[pivot_row[bit]] : b > bit} \cap solution = {}
      BY <1>2, <3>1, <3>3
    <3>5. XORReductionWithMask({b \in base_functions[pivot_row[bit]] : b > bit},
                               solution) = 0
      BY <3>4, ParityFew
    <3>. QED
      BY <3>3, <3>5, PlusBits DEF Rhs
  <2>2. solution' = {b \in LineBit : /\ b < bit + 1
                                     /\ pivot_row[b] # 0
                                     /\ expected[pivot_row[b]] = 1}
    <3>1. \A b \in LineBit : b < bit + 1 <=> b < bit \/ b = bit
      BY <1>2 DEF LineBit
    <3>2. solution' = IF pivot_row[bit] # 0 /\ expected[pivot_row[bit]] = 1
                      THEN solution \cup {bit} ELSE solution
      BY <1>1, <2>1
    <3>3. ~(bit < bit)
      BY <1>2
    <3>4. CASE pivot_row[bit] # 0 /\ expected[pivot_row[bit]] = 1
      BY <1>2, <3>1, <3>2, <3>4
    <3>5. CASE ~(pivot_row[bit] # 0 /\ expected[pivot_row[bit]] = 1)
      BY <1>2, <3>1, <3>2, <3>3, <3>5
    <3>. QED
      BY <3>4, <3>5
  <2>3. bit' >= CACHELINE_OFFSET
    BY <1>1, <1>2, LineIsFinite
  <2>. QED
    BY <1>0, <1>1, <2>2, <2>3 DEF SolutionInv
<1>. QED
  BY <1>3, <1>4, <1>5, <1>6, <1>7 DEF IInv, SearchInv

(* The bits set are the pivots of the rows that expect a one.              *)
LEMMA SubstitutionEndKeepsIInv ==
  ASSUME IInv, SubstitutionEnd
  PROVE  IInv'
<1>0. TypeOK /\ SystemKept /\ Echelon /\ VerdictInv /\ SolutionInv
  BY DEF IInv, SearchInv
<1>1. /\ pc = "substitute" /\ pc' = "randomise" /\ row' = row
      /\ bit = MaxBits /\ bit' = CACHELINE_OFFSET
      /\ pivot_row' = pivot_row /\ base_functions' = base_functions
      /\ expected' = expected /\ query' = query /\ retval' = retval
      /\ solution' = solution
  BY DEF SubstitutionEnd
<1>2. solution = {b \in LineBit : pivot_row[b] # 0 /\ expected[pivot_row[b]] = 1}
  <2>1. \A b \in LineBit : b < MaxBits
    BY LineIsFinite DEF LineBit
  <2>. QED
    BY <1>0, <1>1, <2>1 DEF SolutionInv
<1>3. Solves(solution)
  <2> SUFFICES ASSUME NEW i \in Rows
               PROVE  XORReductionWithMask(base_functions[i], solution)
                        = expected[i]
    BY DEF Solves
  <2>1. CASE base_functions[i] = {} /\ expected[i] = 0
    <3>1. base_functions[i] \cap solution = {}
      BY <2>1
    <3>. QED
      BY <2>1, <3>1, ParityFew
  <2>2. ASSUME NEW b \in LineBit, pivot_row[b] = i, b \in base_functions[i],
               \A c \in base_functions[i] : pivot_row[c] # 0 => c = b
        PROVE  XORReductionWithMask(base_functions[i], solution) = expected[i]
    <3>1. expected[i] \in {0, 1} /\ i # 0
      BY <1>0, RowTypes
    <3>2. CASE expected[i] = 1
      <4>1. base_functions[i] \cap solution = {b}
        BY <1>2, <2>2, <3>1, <3>2
      <4>. QED
        BY <3>2, <4>1, ParityFew
    <3>3. CASE expected[i] = 0
      <4>1. base_functions[i] \cap solution = {}
        BY <1>2, <2>2, <3>3
      <4>. QED
        BY <3>3, <4>1, ParityFew
    <3>. QED
      BY <3>1, <3>2, <3>3
  <2>. QED
    BY <1>0, <1>1, <2>1, <2>2, ReducedRows
<1>4. TypeOK'
  <2>1. bit' \in CACHELINE_OFFSET - 1 .. MaxBits
    BY <1>1, LineIsFinite
  <2>. QED
    BY <1>0, <1>1, <2>1 DEF TypeOK
<1>5. SystemKept'
  BY <1>0, <1>1 DEF SystemKept, Solves, Wanted, Rows
<1>6. Echelon'
  BY <1>0, <1>1 DEF Echelon, Passed, Rows
<1>7. VerdictInv'
  BY <1>0, <1>1 DEF VerdictInv, Rows
<1>8. SolutionInv'
  <2>1. (Solves(solution))'
    BY <1>1, <1>3 DEF Solves, Rows
  <2>2. bit' >= CACHELINE_OFFSET
    BY <1>1, LineIsFinite
  <2>3. ~retval'
    BY <1>0, <1>1 DEF SolutionInv
  <2>. QED
    BY <1>1, <2>1, <2>2, <2>3 DEF SolutionInv
<1>. QED
  BY <1>4, <1>5, <1>6, <1>7, <1>8 DEF IInv, SearchInv

(* A row has both the free bit and its pivot's, or neither is added.       *)
LEMMA NullVectorSolves ==
  ASSUME TypeOK, Echelon, VerdictInv, pc = "randomise",
         NEW free \in LineBit, pivot_row[free] = 0, NEW i \in Rows
  PROVE  XORReductionWithMask(base_functions[i], NullVector(free)) = 0
<1>1. base_functions[i] \in SUBSET LineBit /\ i # 0
  BY RowTypes
<1>2. CASE base_functions[i] = {}
  <2>1. base_functions[i] \cap NullVector(free) = {}
    BY <1>2
  <2>. QED
    BY <2>1, ParityFew
<1>3. ASSUME NEW b \in LineBit, pivot_row[b] = i, b \in base_functions[i],
             \A c \in base_functions[i] : pivot_row[c] # 0 => c = b
      PROVE  XORReductionWithMask(base_functions[i], NullVector(free)) = 0
  <2>1. b # free
    BY <1>1, <1>3
  <2>2. CASE free \in base_functions[i]
    <3>1. base_functions[i] \cap NullVector(free) = {free, b}
      BY <1>1, <1>3, <2>2 DEF NullVector
    <3>. QED
      BY <2>1, <3>1, ParityFew
  <2>3. CASE free \notin base_functions[i]
    <3>1. base_functions[i] \cap NullVector(free) = {}
      BY <1>1, <1>3, <2>3 DEF NullVector
    <3>. QED
      BY <3>1, ParityFew
  <2>. QED
    BY <2>2, <2>3
<1>. QED
  BY <1>2, <1>3, ReducedRows

LEMMA RandomiseBitKeepsIInv ==
  ASSUME IInv, RandomiseBit
  PROVE  IInv'
<1>0. TypeOK /\ SystemKept /\ Echelon /\ VerdictInv /\ SolutionInv
  BY DEF IInv, SearchInv
<1>1. /\ pc = "randomise" /\ pc' = pc /\ row' = row
      /\ bit < MaxBits /\ bit' = bit + 1
      /\ pivot_row' = pivot_row /\ base_functions' = base_functions
      /\ expected' = expected /\ query' = query /\ retval' = retval
      /\ \/ solution' = solution
         \/ pivot_row[bit] = 0 /\ solution' = Xor(solution, NullVector(bit))
  BY DEF RandomiseBit
<1>2. /\ bit \in Int /\ bit \in LineBit /\ bit >= CACHELINE_OFFSET
      /\ solution \in SUBSET LineBit /\ Solves(solution)
  <2>1. bit >= CACHELINE_OFFSET /\ Solves(solution)
    BY <1>0, <1>1 DEF SolutionInv
  <2>2. bit \in Int /\ solution \in SUBSET LineBit
    BY <1>0, LineIsFinite DEF TypeOK
  <2>. QED
    BY <1>1, <2>1, <2>2, LineIsFinite DEF LineBit
<1>3. NullVector(bit) \in SUBSET LineBit
  BY <1>2 DEF NullVector
<1>4. ASSUME pivot_row[bit] = 0, NEW i \in Rows
      PROVE  XORReductionWithMask(base_functions[i], Xor(solution, NullVector(bit)))
               = expected[i]
  <2>1. /\ base_functions[i] \in SUBSET LineBit /\ expected[i] \in {0, 1}
        /\ Xor(solution, NullVector(bit)) \in SUBSET LineBit
    BY <1>0, <1>2, <1>3, RowTypes DEF Xor
  <2>2. XORReductionWithMask(NullVector(bit), base_functions[i]) = 0
    <3>1. XORReductionWithMask(base_functions[i], NullVector(bit)) = 0
      BY <1>0, <1>1, <1>2, <1>4, NullVectorSolves
    <3>. QED
      BY <3>1, ParitySymmetric
  <2>3. XORReductionWithMask(solution, base_functions[i]) = expected[i]
    <3>1. XORReductionWithMask(base_functions[i], solution) = expected[i]
      BY <1>2 DEF Solves
    <3>. QED
      BY <3>1, ParitySymmetric
  <2>4. XORReductionWithMask(Xor(solution, NullVector(bit)), base_functions[i])
          = Plus(XORReductionWithMask(solution, base_functions[i]),
                 XORReductionWithMask(NullVector(bit), base_functions[i]))
    BY <1>2, <1>3, <2>1, ParityLinear
  <2>5. Plus(expected[i], 0) = expected[i]
    BY <2>1, PlusBits
  <2>6. XORReductionWithMask(Xor(solution, NullVector(bit)), base_functions[i])
          = expected[i]
    BY <2>2, <2>3, <2>4, <2>5
  <2>. QED
    BY <2>6, ParitySymmetric
<1>5. Solves(solution') /\ solution' \in SUBSET LineBit
  <2>1. CASE solution' = solution
    BY <1>2, <2>1
  <2>2. CASE pivot_row[bit] = 0 /\ solution' = Xor(solution, NullVector(bit))
    BY <1>2, <1>3, <1>4, <2>2 DEF Solves, Xor
  <2>. QED
    BY <1>1, <2>1, <2>2
<1>6. TypeOK'
  <2>1. bit' \in CACHELINE_OFFSET - 1 .. MaxBits
    BY <1>1, <1>2, LineIsFinite
  <2>. QED
    BY <1>0, <1>1, <1>5, <2>1 DEF TypeOK
<1>7. SystemKept'
  BY <1>0, <1>1 DEF SystemKept, Solves, Wanted, Rows
<1>8. Echelon'
  BY <1>0, <1>1 DEF Echelon, Passed, Rows
<1>9. VerdictInv'
  BY <1>0, <1>1 DEF VerdictInv, Rows
<1>10. SolutionInv'
  <2>1. (Solves(solution))'
    BY <1>1, <1>5 DEF Solves, Rows
  <2>2. bit' >= CACHELINE_OFFSET
    BY <1>1, <1>2, LineIsFinite
  <2>3. ~retval'
    BY <1>0, <1>1 DEF SolutionInv
  <2>. QED
    BY <1>1, <2>1, <2>2, <2>3 DEF SolutionInv
<1>. QED
  BY <1>6, <1>7, <1>8, <1>9, <1>10 DEF IInv, SearchInv

LEMMA LookupKeepsIInv ==
  ASSUME IInv, Lookup
  PROVE  IInv'
<1>0. TypeOK /\ SystemKept /\ Echelon /\ VerdictInv /\ SolutionInv
  BY DEF IInv, SearchInv
<1>1. /\ pc = "randomise" /\ pc' = "done" /\ retval' = (solution \in Pool)
      /\ UNCHANGED <<query, base_functions, expected, pivot_row, row, bit,
                     solution>>
  BY DEF Lookup
<1>2. retval' \in BOOLEAN
  BY <1>1
<1>3. TypeOK'
  BY <1>0, <1>1, <1>2 DEF TypeOK
<1>4. SystemKept'
  BY <1>0, <1>1 DEF SystemKept, Solves, Wanted, Rows
<1>5. Echelon'
  BY <1>0, <1>1 DEF Echelon, Passed, Rows
<1>6. VerdictInv'
  BY <1>0, <1>1 DEF VerdictInv, Rows
<1>7. SolutionInv'
  <2>1. (Solves(solution))'
    BY <1>0, <1>1 DEF SolutionInv, Solves, Rows
  <2>2. retval' => solution' \in Pool
    BY <1>1
  <2>. QED
    BY <1>1, <2>1, <2>2 DEF SolutionInv
<1>. QED
  BY <1>3, <1>4, <1>5, <1>6, <1>7 DEF IInv, SearchInv

LEMMA StutterKeepsIInv ==
  ASSUME IInv, UNCHANGED vars
  PROVE  IInv'
<1>1. UNCHANGED <<query, base_functions, expected, pivot_row, row, bit,
                  solution, retval, pc>>
  BY DEF vars
<1>2. TypeOK'
  BY <1>1 DEF IInv, TypeOK
<1>3. SystemKept'
  BY <1>1 DEF IInv, SearchInv, SystemKept, Solves, Wanted, Rows
<1>4. Echelon'
  BY <1>1 DEF IInv, SearchInv, Echelon, Passed, Rows
<1>5. VerdictInv'
  BY <1>1 DEF IInv, SearchInv, VerdictInv, Contradiction, Rows
<1>6. SolutionInv'
  BY <1>1 DEF IInv, SearchInv, SolutionInv, Solves, Rows
<1>. QED
  BY <1>2, <1>3, <1>4, <1>5, <1>6 DEF IInv, SearchInv

-----------------------------------------------------------------------------
LEMMA NextKeepsIInv == IInv /\ [Next]_vars => IInv'
<1> SUFFICES ASSUME IInv, [Next]_vars PROVE IInv'
  OBVIOUS
<1>1. CASE SkipBit
  BY <1>1, SkipKeepsIInv
<1>2. CASE PivotBit
  BY <1>2, PivotKeepsIInv
<1>3. CASE GiveUp
  BY <1>3, GiveUpKeepsIInv
<1>4. CASE EliminationEnd
  BY <1>4, EliminationEndKeepsIInv
<1>5. CASE SubstituteBit
  BY <1>5, SubstituteBitKeepsIInv
<1>6. CASE SubstitutionEnd
  BY <1>6, SubstitutionEndKeepsIInv
<1>7. CASE RandomiseBit
  BY <1>7, RandomiseBitKeepsIInv
<1>8. CASE Lookup
  BY <1>8, LookupKeepsIInv
<1>9. CASE Terminated \/ UNCHANGED vars
  BY <1>9, StutterKeepsIInv DEF Terminated
<1>. QED
  BY <1>1, <1>2, <1>3, <1>4, <1>5, <1>6, <1>7, <1>8, <1>9 DEF Next

(* For every matrix, elimination keeps its indices in range and the        *)
(* solutions of the constraints, and the address built is one of them.     *)
THEOREM AlwaysIInv == Spec => []IInv
<1>1. Init => IInv
  BY InitIInv
<1>2. IInv /\ [Next]_vars => IInv'
  BY NextKeepsIInv
<1>. QED
  BY <1>1, <1>2, PTL DEF Spec

(* The variables of GenerateRandomAddressTupleWithConstraints keep their   *)
(* types: no row number and no bit outside the matrix, an address of the   *)
(* memory.                                                                 *)
THEOREM TypeCorrect == Spec => []TypeOK
<1>1. IInv => TypeOK
  BY DEF IInv
<1>. QED
  BY <1>1, AlwaysIInv, PTL

(* Elimination keeps the solutions of the constraints and reaches reduced  *)
(* echelon form, and every address computed afterwards is a solution.      *)
THEOREM SearchInvariant == Spec => []SearchInv
<1>1. IInv => SearchInv
  BY DEF IInv
<1>. QED
  BY <1>1, AlwaysIInv, PTL

(* An address that the search reports has the parities asked for, whatever *)
(* free bits were drawn: agreeing on the same functions, differing on the  *)
(* others, and in the pool.                                                *)
THEOREM AnswersAreWanted == Spec => []AnswerIsWanted
<1>1. IInv => AnswerIsWanted
  <2> SUFFICES ASSUME IInv, retval PROVE Wanted(solution) /\ solution \in Pool
    BY DEF AnswerIsWanted
  <2>1. Solves(solution) /\ solution \in Pool
    BY DEF IInv, SearchInv, SolutionInv
  <2>2. solution \in SUBSET LineBit
    BY DEF IInv, TypeOK
  <2>. QED
    BY <2>1, <2>2 DEF IInv, SearchInv, SystemKept
<1>. QED
  BY <1>1, AlwaysIInv, PTL

(* When the search gives up, no address of the memory has the parities     *)
(* asked for.                                                              *)
THEOREM GivesUpOnlyIfUnsolvable == Spec => []GivesUpRightly
<1>1. IInv => GivesUpRightly
  <2> SUFFICES ASSUME IInv, pc = "unsolvable", NEW a \in SUBSET LineBit
               PROVE  ~Wanted(a)
    BY DEF GivesUpRightly
  <2>1. PICK i \in Rows : base_functions[i] = {} /\ expected[i] # 0
    BY DEF IInv, SearchInv, VerdictInv, Contradiction
  <2>2. base_functions[i] \cap a = {}
    BY <2>1
  <2>3. XORReductionWithMask(base_functions[i], a) # expected[i]
    BY <2>1, <2>2, ParityFew
  <2>. QED
    BY <2>3 DEF IInv, SearchInv, SystemKept, Solves
<1>. QED
  BY <1>1, AlwaysIInv, PTL

(* The difference of two solutions is the sum of the null vectors of the   *)
(* free bits they differ in: in a free bit only its own null vector        *)
(* counts, in a pivot those of the bits of its row, which differ evenly.   *)
LEMMA DifferenceOfSolutions ==
  ASSUME TypeOK, Echelon, VerdictInv, pc = "randomise",
         NEW d \in SUBSET LineBit,
         \A i \in Rows : XORReductionWithMask(base_functions[i], d) = 0,
         NEW b \in LineBit
  PROVE  b \in d
           <=> Cardinality({free \in d \cap FreeBits : b \in NullVector(free)}) % 2 = 1
<1>. DEFINE drawn == {free \in d \cap FreeBits : b \in NullVector(free)}
<1>1. Cardinality({}) % 2 # 1
  BY FS_EmptySet
<1>2. Cardinality({b}) % 2 = 1
  <2>1. Cardinality({b}) = 1
    BY FS_Singleton
  <2>2. 1 % 2 = 1
    OBVIOUS
  <2>. QED
    BY <2>1, <2>2
<1>3. CASE pivot_row[b] = 0
  <2>1. drawn = IF b \in d THEN {b} ELSE {}
    BY <1>3 DEF FreeBits, NullVector
  <2>. QED
    BY <1>1, <1>2, <2>1
<1>4. CASE pivot_row[b] # 0
  <2>. DEFINE r == pivot_row[b]
              even == base_functions[r] \cap d
  <2>1. Passed = LineBit /\ r \in Rows /\ r # 0
    <3>1. r \in 0 .. Len(base_functions) /\ Rows = 1 .. Len(base_functions)
          /\ Len(base_functions) \in Nat
      BY RowTypes
    <3>. QED
      BY <1>4, <3>1 DEF Passed
  <2>2. b \in base_functions[r] /\ base_functions[r] \in SUBSET LineBit
    BY <1>4, <2>1, RowTypes DEF Echelon
  <2>3. \A c \in base_functions[r] : pivot_row[c] # 0 => c = b
    BY <2>1, <2>2, ReducedRows
  <2>4. drawn = even \ {b}
    BY <1>4, <2>2, <2>3 DEF FreeBits, NullVector
  <2>5. IsFiniteSet(even) /\ Cardinality(even) \in Nat /\ Cardinality(even) % 2 = 0
    <3>1. even \in SUBSET LineBit
      OBVIOUS
    <3>2. Cardinality(even) % 2 = 0
      BY <2>1 DEF XORReductionWithMask
    <3>. QED
      BY <3>1, <3>2, LineIsFinite, FS_CardinalityType
  <2>6. CASE b \in d
    <3>1. Cardinality(even \ {b}) = Cardinality(even) - 1
      BY <2>2, <2>5, <2>6, FS_RemoveElement
    <3>2. (Cardinality(even) - 1) % 2 = 1
      BY <2>5
    <3>. QED
      BY <2>4, <2>6, <3>1, <3>2
  <2>7. CASE b \notin d
    <3>1. drawn = even
      BY <2>4, <2>7
    <3>2. ~(0 = 1)
      OBVIOUS
    <3>. QED
      BY <2>5, <2>7, <3>1, <3>2
  <2>. QED
    BY <2>6, <2>7
<1>. QED
  BY <1>3, <1>4

(* Once the particular solution is built, every address with the parities  *)
(* asked for differs from it by null vectors that may be drawn: the        *)
(* randomised search can return each of them, and retrying is fair to all. *)
THEOREM EveryAnswerIsWithinReach == Spec => []EveryAnswerCanBeDrawn
<1>1. IInv => EveryAnswerCanBeDrawn
  <2>. SUFFICES ASSUME IInv, pc = "randomise", NEW a \in SUBSET LineBit, Wanted(a)
                PROVE  \E K \in SUBSET FreeBits :
                         \A b \in LineBit :
                           b \in Xor(solution, a)
                             <=> Cardinality({free \in K : b \in NullVector(free)}) % 2 = 1
    BY DEF EveryAnswerCanBeDrawn
  <2>. DEFINE d == Xor(solution, a)
  <2>1. /\ TypeOK /\ Echelon /\ VerdictInv /\ solution \in SUBSET LineBit
        /\ Solves(solution) /\ Solves(a)
    BY DEF IInv, SearchInv, SolutionInv, SystemKept, TypeOK
  <2>2. d \in SUBSET LineBit
    BY <2>1 DEF Xor
  <2>3. ASSUME NEW i \in Rows
        PROVE  XORReductionWithMask(base_functions[i], d) = 0
    <3>. DEFINE f == base_functions[i]
    <3>1. f \in SUBSET LineBit
      BY <2>1, RowTypes
    <3>2. /\ XORReductionWithMask(f, solution) = expected[i]
          /\ XORReductionWithMask(f, a) = expected[i]
      BY <2>1 DEF Solves
    <3>3. expected[i] \in {0, 1}
      BY <3>1, <3>2, ParityType
    <3>4. XORReductionWithMask(Xor(solution, a), f)
            = Plus(XORReductionWithMask(solution, f), XORReductionWithMask(a, f))
      BY <2>1, <3>1, ParityLinear
    <3>5. XORReductionWithMask(Xor(solution, a), f) = Plus(expected[i], expected[i])
      BY <3>2, <3>4, ParitySymmetric
    <3>6. Plus(expected[i], expected[i]) = 0
      BY <3>3 DEF Plus
    <3>. QED
      BY <3>5, <3>6, ParitySymmetric
  <2>4. d \cap FreeBits \in SUBSET FreeBits
    OBVIOUS
  <2>5. \A b \in LineBit :
          b \in d <=> Cardinality({free \in d \cap FreeBits : b \in NullVector(free)}) % 2 = 1
    <3>. HIDE DEF d
    <3>. QED
      BY <2>1, <2>2, <2>3, DifferenceOfSolutions
  <2>. QED
    BY <2>4, <2>5
<1>. QED
  BY <1>1, AlwaysIInv, PTL
=============================================================================
