------------------------ MODULE ValidateMappingProofs ------------------------
(***************************************************************************)
(* Theorems about the validation, for every DRAM configuration and every   *)
(* mapping: what it accepts, what a check that passes proves, and what the *)
(* extra step, which completes labels, finds and leaves alone.             *)
(***************************************************************************)
EXTENDS ValidateMapping, AddressBitsProofs

(* The validation keeps every variable in its range; in particular no bit  *)
(* below the cache line ever becomes a row or a column bit.                *)
THEOREM TypeCorrect == Spec => []TypeOK
<1>1. Init => TypeOK
  <2> SUFFICES ASSUME Init PROVE TypeOK
    OBVIOUS
  <2>1. addressing_functions \in Seq(SUBSET AddressBit)
    BY ValidateAssumption DEF Init
  <2>2. row_bits \in SUBSET LineBit /\ column_bits \in SUBSET LineBit
    BY DEF Init
  <2>3. given \in [row : SUBSET LineBit, column : SUBSET LineBit]
    BY <2>2 DEF Init
  <2>4. pass \in BOOLEAN /\ 
        pc \in {"merge", "check", "column", "row", "recheck", "done"}
    BY Zenon DEF Init
  <2>5. /\ disjoint_sets \in SUBSET SUBSET AddressBit
        /\ incomplete_sets \in SUBSET SUBSET AddressBit
    BY Zenon DEF Init
  <2> QED
    BY <2>1, <2>2, <2>3, <2>4, <2>5, Zenon DEF TypeOK
<1>2. TypeOK /\ [Next]_vars => TypeOK'
  <2> SUFFICES ASSUME TypeOK, [Next]_vars PROVE TypeOK'
    OBVIOUS
  <2> USE DEF TypeOK
  <2>1. CASE MergeStep
    <3>1. Masks(addressing_functions) \in SUBSET SUBSET AddressBit
      BY DEF Masks
    <3>2. disjoint_sets' \in SUBSET SUBSET AddressBit
      BY <2>1, <3>1, DisjointSetsOfBits DEF MergeStep
    <3> QED
      BY <2>1, <3>2 DEF MergeStep
  <2>2. CASE FirstCheck
    BY <2>2 DEF FirstCheck, CheckInjectivity
  <2>3. CASE AddColumnBit
    BY <2>3 DEF AddColumnBit, ColumnCandidates
  <2>4. CASE ColumnsEnd
    BY <2>4 DEF ColumnsEnd
  <2>5. CASE AddRowBit
    BY <2>5 DEF AddRowBit, RowCandidates
  <2>6. CASE RowsEnd
    BY <2>6 DEF RowsEnd
  <2>7. CASE SecondCheck
    BY <2>7 DEF SecondCheck, CheckInjectivity
  <2>8. CASE UNCHANGED vars
    BY <2>8 DEF vars
  <2> QED
    BY <2>1, <2>2, <2>3, <2>4, <2>5, <2>6, <2>7, <2>8 DEF Next, Terminated
<1> QED
  BY <1>1, <1>2, PTL DEF Spec

-----------------------------------------------------------------------------
(* Once merged, the sets stay those of the functions, and the incomplete   *)
(* ones are always some of them.                                           *)
SetsInv ==
  /\ pc = "merge" => incomplete_sets = {}
  /\ pc # "merge" => disjoint_sets = DisjointSets(Masks(addressing_functions))
  /\ incomplete_sets \subseteq disjoint_sets

(* The disjoint sets stay those of the functions.                          *)
LEMMA SetsInvariant == Spec => []SetsInv
<1>1. Init => SetsInv
  BY DEF Init, SetsInv
<1>2. SetsInv /\ [Next]_vars => SetsInv'
  <2> SUFFICES ASSUME SetsInv, [Next]_vars PROVE SetsInv'
    OBVIOUS
  <2> USE DEF SetsInv
  <2>1. CASE MergeStep
    BY <2>1 DEF MergeStep
  <2>2. CASE FirstCheck
    BY <2>2 DEF FirstCheck, CheckInjectivity
  <2>3. CASE AddColumnBit
    BY <2>3 DEF AddColumnBit
  <2>4. CASE ColumnsEnd
    BY <2>4 DEF ColumnsEnd
  <2>5. CASE AddRowBit
    BY <2>5 DEF AddRowBit
  <2>6. CASE RowsEnd
    BY <2>6 DEF RowsEnd
  <2>7. CASE SecondCheck
    BY <2>7 DEF SecondCheck, CheckInjectivity
  <2>8. CASE UNCHANGED vars
    BY <2>8 DEF vars
  <2> QED
    BY <2>1, <2>2, <2>3, <2>4, <2>5, <2>6, <2>7, <2>8 DEF Next, Terminated
<1> QED
  BY <1>1, <1>2, PTL DEF Spec

(* A bit of one disjoint set is in no other.                               *)
LEMMA CandidateElsewhere ==
  ASSUME SetsInv, pc # "merge",
         NEW set \in disjoint_sets \ incomplete_sets,
         NEW b \in UNION incomplete_sets
  PROVE  b \notin set
<1>1. PICK t \in incomplete_sets : b \in t
  OBVIOUS
<1>2. t \in disjoint_sets /\ t # set
  BY DEF SetsInv
<1>3. set \cap t = {}
  BY <1>2, DisjointSetsAreDisjoint DEF SetsInv
<1> QED
  BY <1>1, <1>3

(* Choosing labels for the incomplete sets changes the count of none of    *)
(* the complete ones, whatever the configuration asks for.                 *)
THEOREM ResolvingSparesCompleteSets == Spec => CompleteStaysComplete
<1>1. ASSUME SetsInv, [Next]_vars,
             NEW set \in disjoint_sets \ incomplete_sets,
             Complete(set, row_bits, column_bits)
      PROVE  Complete(set, row_bits', column_bits')
  <2>1. CASE AddColumnBit
    <3>1. row_bits' \cap set = row_bits \cap set
      BY <2>1 DEF AddColumnBit
    <3>2. column_bits' \cap set = column_bits \cap set
      BY <1>1, <2>1, CandidateElsewhere DEF AddColumnBit, ColumnCandidates
    <3> QED
      BY <1>1, <3>1, <3>2 DEF Complete
  <2>2. CASE AddRowBit
    <3>1. row_bits' \cap set = row_bits \cap set
      BY <1>1, <2>2, CandidateElsewhere DEF AddRowBit, RowCandidates
    <3>2. column_bits' \cap set = column_bits \cap set
      BY <2>2 DEF AddRowBit
    <3> QED
      BY <1>1, <3>1, <3>2 DEF Complete
  <2>3. CASE ~AddColumnBit /\ ~AddRowBit
    <3>1. UNCHANGED <<row_bits, column_bits>>
      BY <1>1, <2>3 DEF Next, vars, MergeStep, FirstCheck, ColumnsEnd, RowsEnd,
                        SecondCheck, Terminated
    <3> QED
      BY <1>1, <3>1
  <2> QED
    BY <2>1, <2>2, <2>3
<1>2. SetsInv /\ [Next]_vars =>
        [\A set \in disjoint_sets \ incomplete_sets :
           Complete(set, row_bits, column_bits)
             => Complete(set, row_bits', column_bits')]_vars
  BY <1>1
<1> QED
  BY <1>2, SetsInvariant, PTL DEF Spec, CompleteStaysComplete

-----------------------------------------------------------------------------
(* The outputs of the mapping that depend on a set C of bits: the          *)
(* functions that overlap it, at their index, and the label bits in it, at *)
(* their negated position.                                                 *)
Outputs(v, L, C) ==
  {k \in DOMAIN v : Overlap(v[k], C)} \cup {-b : b \in L \cap C}

OutputVector(v, L, C) ==
  [t \in Outputs(v, L, C) |-> IF t > 0 THEN v[t] ELSE {-t}]

(* Addresses have finitely many bits.                                      *)
LEMMA AddressBitsAreFinite ==
  /\ IsFiniteSet(AddressBit) /\ IsFiniteSet(LineBit)
  /\ LineBit \subseteq AddressBit /\ AddressBit \subseteq Nat
<1>1. /\ MaxBits \in Nat /\ CACHELINE_OFFSET \in Nat
      /\ CACHELINE_OFFSET < MaxBits
  BY ValidateAssumption
<1>2. LineBit \subseteq AddressBit /\ AddressBit \subseteq Nat
  BY <1>1 DEF AddressBit, LineBit
<1>3. IsFiniteSet(AddressBit)
  BY <1>1, FS_Interval DEF AddressBit
<1>. QED
  BY <1>2, <1>3, FS_Subset

(* There are as many outputs as Complete counts, one less for every bit    *)
(* that is both a row and a column bit.                                    *)
CountedOnce(v, R, C, s) ==
  LET F == Cardinality({k \in DOMAIN v : Overlap(v[k], s)})
      T == Outputs(v, R \cup C, s)
  IN  /\ F \in Nat
      /\ Cardinality(R \cap s) \in Nat /\ Cardinality(C \cap s) \in Nat
      /\ IsFiniteSet(T) /\ Cardinality(T) \in Nat
      /\ Cardinality((R \cap s) \cap (C \cap s)) \in Nat
      /\ Cardinality(T) = F + Cardinality(R \cap s) + Cardinality(C \cap s)
                          - Cardinality((R \cap s) \cap (C \cap s))

LEMMA OutputCount ==
  ASSUME NEW v \in Seq(SUBSET AddressBit),
         NEW R \in SUBSET LineBit, NEW C \in SUBSET LineBit, NEW s
  PROVE  CountedOnce(v, R, C, s)
<1>. DEFINE FK == {k \in DOMAIN v : Overlap(v[k], s)}
            L == (R \cap s) \cup (C \cap s)
            N == {-b : b \in L}
<1>1. /\ IsFiniteSet(FK) /\ IsFiniteSet(R \cap s) /\ IsFiniteSet(C \cap s)
      /\ FK \subseteq Nat \ {0} /\ L \subseteq Nat
  <2>1. DOMAIN v = 1 .. Len(v) /\ Len(v) \in Nat /\ IsFiniteSet(DOMAIN v)
    BY DomainIsFinite
  <2>2. FK \in SUBSET DOMAIN v
    OBVIOUS
  <2>3. IsFiniteSet(FK)
    BY <2>1, <2>2, FS_Subset
  <2>4. /\ R \cap s \in SUBSET LineBit /\ C \cap s \in SUBSET LineBit
    OBVIOUS
  <2>5. IsFiniteSet(R \cap s) /\ IsFiniteSet(C \cap s)
    BY <2>4, AddressBitsAreFinite, FS_Subset
  <2>6. L \subseteq Nat
    BY <2>4, AddressBitsAreFinite
  <2>7. FK \subseteq Nat \ {0}
    BY <2>1
  <2>. QED
    BY <2>3, <2>5, <2>6, <2>7
<1>2. Outputs(v, R \cup C, s) = FK \cup N
  BY DEF Outputs
<1>3. /\ IsFiniteSet(L)
      /\ Cardinality(L) = Cardinality(R \cap s) + Cardinality(C \cap s)
                           - Cardinality((R \cap s) \cap (C \cap s))
  BY <1>1, FS_Union
<1>4. IsFiniteSet(N) /\ Cardinality(N) = Cardinality(L)
  <2>. DEFINE neg == [b \in L |-> -b]
  <2>1. neg \in Bijection(L, N)
    <3>1. neg \in [L -> N]
      OBVIOUS
    <3>2. \A a, b \in L : neg[a] = neg[b] => a = b
      BY <1>1
    <3>3. \A t \in N : \E b \in L : neg[b] = t
      OBVIOUS
    <3>. QED
      BY <3>1, <3>2, <3>3 DEF Bijection, Injection, Surjection, IsInjective
  <2>2. ExistsBijection(L, N)
    BY <2>1 DEF ExistsBijection
  <2>3. ASSUME NEW A, NEW B, IsFiniteSet(A), ExistsBijection(A, B)
        PROVE  IsFiniteSet(B) /\ Cardinality(B) = Cardinality(A)
    BY <2>3, FS_Bijection DEF ExistsBijection
  <2>. QED
    BY <1>3, <2>2, <2>3
<1>5. FK \cap N = {}
  BY <1>1
<1>6. /\ IsFiniteSet(FK \cup N)
      /\ Cardinality(FK \cup N) = Cardinality(FK) + Cardinality(N)
                                   - Cardinality(FK \cap N)
  BY <1>1, <1>4, FS_Union
<1>7. Cardinality({}) = 0
  BY FS_EmptySet
<1>8. /\ IsFiniteSet((R \cap s) \cap (C \cap s))
      /\ Cardinality((R \cap s) \cap (C \cap s)) \in Nat
  BY <1>1, FS_Intersection, FS_CardinalityType
<1>9. /\ Cardinality(FK) \in Nat /\ Cardinality(FK \cup N) \in Nat
      /\ Cardinality(R \cap s) \in Nat /\ Cardinality(C \cap s) \in Nat
  BY <1>1, <1>6, FS_CardinalityType
<1>. HIDE DEF FK, N, L
<1>10. Cardinality(FK \cup N)
         = Cardinality(FK) + Cardinality(R \cap s) + Cardinality(C \cap s)
           - Cardinality((R \cap s) \cap (C \cap s))
  <2>1. Cardinality(FK \cup N) = Cardinality(FK) + Cardinality(L) - 0
    BY <1>4, <1>5, <1>6, <1>7
  <2>. QED
    BY <1>3, <1>8, <1>9, <2>1
<1>. QED
  BY <1>2, <1>6, <1>8, <1>9, <1>10 DEF FK, CountedOnce

(* A one-to-one mapping has at least as many outputs on a set of bits as   *)
(* the set has bits: addresses within the set differ in one of them.       *)
LEMMA InjectionNeedsOutputs ==
  ASSUME NEW v \in Seq(SUBSET AddressBit), NEW L \in SUBSET LineBit,
         NEW s \in SUBSET AddressBit, IsFiniteSet(Outputs(v, L, s)),
         \A d \in SUBSET s :
            /\ d \cap L = {}
            /\ \A f \in Masks(v) : XORReductionWithMask(f, d) = 0
            => d = {}
  PROVE  Cardinality(s) <= Cardinality(Outputs(v, L, s))
<1>. DEFINE T == Outputs(v, L, s)
            w == OutputVector(v, L, s)
            g == [d \in SUBSET s |-> {t \in T : XORReductionWithMask(w[t], d) = 1}]
<1>1. IsFiniteSet(s) /\ \A d \in SUBSET s : IsFiniteSet(d)
  <2>1. IsFiniteSet(s)
    BY AddressBitsAreFinite, FS_Subset
  <2>. QED
    BY <2>1, FS_Subset
<1>2. g \in [SUBSET s -> SUBSET T]
  OBVIOUS
<1>3. ASSUME NEW d \in SUBSET s, NEW e \in SUBSET s, g[d] = g[e]
      PROVE  d = e
  <2>1. IsFiniteSet(d) /\ IsFiniteSet(e)
    BY <1>1
  <2>2. \A t \in T : XORReductionWithMask(w[t], d) = 1 <=> XORReductionWithMask(w[t], e) = 1
    BY <1>3
  <2>3. \A t \in T : XORReductionWithMask(w[t], Xor(d, e)) = 0
    <3>1. ASSUME NEW t \in T
          PROVE  XORReductionWithMask(w[t], d) = XORReductionWithMask(w[t], e)
      <4>. DEFINE f == w[t]
      <4>1. XORReductionWithMask(f, d) = 1 <=> XORReductionWithMask(f, e) = 1
        BY <2>2
      <4>. HIDE DEF f
      <4>2. XORReductionWithMask(f, d) \in {0, 1} /\ XORReductionWithMask(f, e) \in {0, 1}
        BY <2>1, ParityType
      <4>3. XORReductionWithMask(f, d) = XORReductionWithMask(f, e)
        BY <4>1, <4>2
      <4>. QED
        BY <4>3 DEF f
    <3>. HIDE DEF w, T
    <3>. QED
      BY <2>1, <3>1, ParityOfXor
  <2>. DEFINE x == Xor(d, e)
  <2>4. x \in SUBSET s
    BY DEF Xor
  <2>. HIDE DEF x
  <2>5. \A t \in T : XORReductionWithMask(w[t], x) = 0
    BY <2>3 DEF x
  <2>6. x \cap L = {}
    <3>1. ASSUME NEW b \in x, b \in L
          PROVE  FALSE
      <4>1. -b \in T /\ b \in Nat
        BY <2>4, <3>1, AddressBitsAreFinite DEF Outputs
      <4>2. w[-b] = {b}
        BY <4>1 DEF OutputVector
      <4>3. XORReductionWithMask({b}, x) = 0
        BY <2>5, <4>1, <4>2
      <4>. QED
        BY <3>1, <4>3, ParityOfBit
    <3>. QED
      BY <3>1
  <2>7. ASSUME NEW k \in DOMAIN v
        PROVE  XORReductionWithMask(v[k], x) = 0
    <3>1. CASE Overlap(v[k], s)
      <4>1. k \in T /\ k > 0
        <5>1. DOMAIN v = 1 .. Len(v) /\ Len(v) \in Nat
          BY DomainIsFinite
        <5>. QED
          BY <3>1, <5>1 DEF Outputs
      <4>2. w[k] = v[k]
        BY <4>1 DEF OutputVector
      <4>. QED
        BY <2>5, <4>1, <4>2
    <3>2. CASE ~Overlap(v[k], s)
      <4>1. v[k] \cap x = {}
        BY <2>4, <3>2 DEF Overlap
      <4>. QED
        BY <4>1, ParityOfOthers
    <3>. QED
      BY <3>1, <3>2
  <2>8. x = {}
    <3>1. \A f \in Masks(v) : XORReductionWithMask(f, x) = 0
      BY <2>7 DEF Masks
    <3>. QED
      BY <2>4, <2>6, <3>1
  <2>. QED
    BY <2>8, XorIsEmpty DEF x
<1>4. g \in Injection(SUBSET s, SUBSET T)
  <2>1. \A d, e \in DOMAIN g : g[d] = g[e] => d = e
    BY <1>3
  <2>. HIDE DEF g, T
  <2>. QED
    BY <1>2, <2>1 DEF Injection, IsInjective
<1>. HIDE DEF g, T
<1>5. IsFiniteSet(T)
  BY DEF T
<1>6. Cardinality(s) <= Cardinality(T)
  BY <1>1, <1>4, <1>5, PowerSetSize
<1>. QED
  BY <1>6 DEF T

-----------------------------------------------------------------------------
(* The number that Complete compares with the size of the set.             *)
Count(set, rows, columns) ==
  Cardinality({k \in DOMAIN addressing_functions :
                 Overlap(addressing_functions[k], set)})
    + Cardinality(rows \cap set) + Cardinality(columns \cap set)

(* The outputs that look at bits of a set tell its addresses apart, so     *)
(* there are no fewer of them than bits.                                   *)
LEMMA CountBoundsBits ==
  ASSUME addressing_functions \in Seq(SUBSET AddressBit),
         NEW R \in SUBSET LineBit, NEW C \in SUBSET LineBit,
         OneToOne(LineBit, R, C), NEW s \in SUBSET LineBit
  PROVE  /\ Count(s, R, C) \in Nat /\ Cardinality(s) \in Nat
         /\ Cardinality(s) <= Count(s, R, C)
<1>. DEFINE T == Outputs(addressing_functions, R \cup C, s)
            F == Cardinality({k \in DOMAIN addressing_functions :
                                Overlap(addressing_functions[k], s)})
<1>1. /\ F \in Nat /\ Cardinality(R \cap s) \in Nat /\ Cardinality(C \cap s) \in Nat
      /\ IsFiniteSet(T) /\ Cardinality(T) \in Nat
      /\ Cardinality((R \cap s) \cap (C \cap s)) \in Nat
      /\ Cardinality(T) = F + Cardinality(R \cap s) + Cardinality(C \cap s)
                          - Cardinality((R \cap s) \cap (C \cap s))
  <2>1. CountedOnce(addressing_functions, R, C, s)
    BY OutputCount
  <2>. QED
    BY <2>1 DEF CountedOnce
<1>2. \A d \in SUBSET s :
        /\ d \cap (R \cup C) = {}
        /\ \A f \in Masks(addressing_functions) : XORReductionWithMask(f, d) = 0
        => d = {}
  BY DEF OneToOne, Collides
<1>3. s \in SUBSET AddressBit /\ R \cup C \in SUBSET LineBit
  BY AddressBitsAreFinite
<1>4. Cardinality(s) <= Cardinality(T)
  BY <1>1, <1>2, <1>3, InjectionNeedsOutputs
<1>5. Cardinality(s) \in Nat
  BY <1>3, AddressBitsAreFinite, FS_Subset, FS_CardinalityType
<1>6. Count(s, R, C) = F + Cardinality(R \cap s) + Cardinality(C \cap s)
  BY DEF Count
<1>. HIDE DEF T, F
<1>. QED
  BY <1>1, <1>4, <1>5, <1>6

(* A set cuts a finite one in two.                                         *)
LEMMA PartSizes ==
  ASSUME NEW A, IsFiniteSet(A), NEW s
  PROVE  /\ Cardinality(A) \in Nat /\ Cardinality(A \cap s) \in Nat
         /\ Cardinality(A \ s) \in Nat
         /\ Cardinality(A) = Cardinality(A \cap s) + Cardinality(A \ s)
<1>. DEFINE P == A \cap s
            Q == A \ s
<1>1. P \in SUBSET A /\ Q \in SUBSET A /\ P \cup Q = A /\ P \cap Q = {}
  OBVIOUS
<1>. HIDE DEF P, Q
<1>2. IsFiniteSet(P) /\ IsFiniteSet(Q)
  BY <1>1, FS_Subset
<1>3. Cardinality(P \cup Q) = Cardinality(P) + Cardinality(Q) - Cardinality(P \cap Q)
  BY <1>2, FS_Union
<1>4. Cardinality({}) = 0
  BY FS_EmptySet
<1>5. /\ Cardinality(P) \in Nat /\ Cardinality(Q) \in Nat
      /\ Cardinality(A) = Cardinality(P) + Cardinality(Q)
  <2>1. Cardinality(P) \in Nat /\ Cardinality(Q) \in Nat
    BY <1>2, FS_CardinalityType
  <2>2. Cardinality(A) = Cardinality(P) + Cardinality(Q) - 0
    BY <1>1, <1>3, <1>4
  <2>. QED
    BY <2>1, <2>2
<1>. QED
  BY <1>5, FS_CardinalityType DEF P, Q

(* Under a bijection the numbers agree on every set of bits that functions *)
(* do not straddle: on the set and on the rest of the bits the outputs are *)
(* no fewer than the bits, and in all they are as many.                    *)
LEMMA BijectionIsComplete ==
  ASSUME addressing_functions \in Seq(SUBSET AddressBit),
         NEW R \in SUBSET LineBit, NEW C \in SUBSET LineBit, Bijective(R, C),
         NEW s \in SUBSET LineBit, Closed(s, Masks(addressing_functions))
  PROVE  Complete(s, R, C)
<1>. DEFINE r == LineBit \ s
            FS == {k \in DOMAIN addressing_functions : Overlap(addressing_functions[k], s)}
            FR == {k \in DOMAIN addressing_functions : Overlap(addressing_functions[k], r)}
<1>1. r \in SUBSET LineBit /\ OneToOne(LineBit, R, C)
  BY DEF Bijective
<1>2. /\ Count(s, R, C) \in Nat /\ Cardinality(s) \in Nat
      /\ Cardinality(s) <= Count(s, R, C)
      /\ Count(r, R, C) \in Nat /\ Cardinality(r) \in Nat
      /\ Cardinality(r) <= Count(r, R, C)
  BY <1>1, CountBoundsBits
<1>3. /\ IsFiniteSet(DOMAIN addressing_functions)
      /\ Len(addressing_functions) \in Nat
      /\ Cardinality(DOMAIN addressing_functions) = Len(addressing_functions)
  <2>1. /\ DOMAIN addressing_functions = 1 .. Len(addressing_functions)
        /\ Len(addressing_functions) \in Nat
        /\ IsFiniteSet(DOMAIN addressing_functions)
    BY DomainIsFinite
  <2>2. ASSUME NEW n \in Nat
        PROVE  Cardinality(1 .. n) = n
    <3>1. Cardinality(1 .. n) = IF 1 <= n THEN n - 1 + 1 ELSE 0
      BY FS_Interval
    <3>. QED
      BY <3>1
  <2>. QED
    BY <2>1, <2>2
<1>4. IsFiniteSet(LineBit) /\ IsFiniteSet(R) /\ IsFiniteSet(C)
  BY AddressBitsAreFinite, FS_Subset
<1>5. FS \cap FR = {} /\ FS \in SUBSET DOMAIN addressing_functions
                     /\ FR \in SUBSET (DOMAIN addressing_functions \ FS)
  BY DEF Overlap, Closed, Masks
<1>6. /\ Cardinality(FS) \in Nat /\ Cardinality(FR) \in Nat
      /\ Cardinality(FS) + Cardinality(FR) <= Len(addressing_functions)
  <2>. DEFINE D == DOMAIN addressing_functions
  <2>. HIDE DEF FS, FR, D
  <2>1. IsFiniteSet(D) /\ FS \in SUBSET D /\ FR \in SUBSET (D \ FS)
    BY <1>3, <1>5 DEF D
  <2>2. D \cap FS = FS
    BY <2>1
  <2>3. /\ Cardinality(D) \in Nat /\ Cardinality(FS) \in Nat
        /\ Cardinality(D \ FS) \in Nat
        /\ Cardinality(D) = Cardinality(FS) + Cardinality(D \ FS)
    BY <2>1, <2>2, PartSizes
  <2>4. IsFiniteSet(D \ FS)
    BY <2>1, FS_Difference
  <2>5. /\ Cardinality(FR) \in Nat /\ Cardinality(FR) <= Cardinality(D \ FS)
    BY <2>1, <2>4, FS_Subset, FS_CardinalityType
  <2>6. Cardinality(D) = Len(addressing_functions)
    BY <1>3 DEF D
  <2>. QED
    BY <2>3, <2>5, <2>6
<1>7. \A A \in {LineBit, R, C} :
        /\ Cardinality(A) \in Nat /\ Cardinality(A \cap s) \in Nat
        /\ Cardinality(A \ s) \in Nat
        /\ Cardinality(A) = Cardinality(A \cap s) + Cardinality(A \ s)
  BY <1>4, PartSizes
<1>8. LineBit \cap s = s /\ R \ s = R \cap r /\ C \ s = C \cap r
  OBVIOUS
<1>9. Len(addressing_functions) + Cardinality(R) + Cardinality(C) = Cardinality(LineBit)
  BY DEF Bijective
<1>10. /\ Count(s, R, C) = Cardinality(FS) + Cardinality(R \cap s) + Cardinality(C \cap s)
       /\ Count(r, R, C) = Cardinality(FR) + Cardinality(R \cap r) + Cardinality(C \cap r)
  BY DEF Count
<1>11. Count(s, R, C) = Cardinality(s)
  <2>. DEFINE fs == Cardinality(FS)
              fr == Cardinality(FR)
              rs == Cardinality(R \cap s)
              rr == Cardinality(R \cap r)
              cs == Cardinality(C \cap s)
              cr == Cardinality(C \cap r)
              bs == Cardinality(s)
              br == Cardinality(r)
              n == Len(addressing_functions)
              ns == Count(s, R, C)
  <2>1. /\ fs \in Nat /\ fr \in Nat /\ rs \in Nat /\ rr \in Nat
        /\ cs \in Nat /\ cr \in Nat /\ bs \in Nat /\ br \in Nat /\ n \in Nat
    BY <1>2, <1>3, <1>6, <1>7, <1>8
  <2>2. /\ ns = fs + rs + cs /\ bs <= ns /\ br <= fr + rr + cr
        /\ fs + fr <= n /\ n + (rs + rr) + (cs + cr) = bs + br
    <3>1. /\ Cardinality(LineBit) = bs + br /\ Cardinality(R) = rs + rr
          /\ Cardinality(C) = cs + cr
      BY <1>7, <1>8
    <3>. QED
      BY <1>2, <1>6, <1>9, <1>10, <3>1
  <2>3. ns = bs
    <3>. HIDE DEF fs, fr, rs, rr, cs, cr, bs, br, n, ns
    <3>. QED
      BY <2>1, <2>2
  <2>. QED
    BY <2>3
<1>. QED
  BY <1>11 DEF Count, Complete

(* A bijection is never touched: the first check finds every set complete. *)
BijectionInv ==
  Bijective(given.row, given.column) =>
    /\ row_bits = given.row /\ column_bits = given.column
    /\ pc \in {"merge", "check", "done"}
    /\ pc = "done" => pass

(* Every mapping of the cache lines that is one-to-one with as many        *)
(* outputs as address bits is accepted as it is given.                     *)
THEOREM BijectionsAreAccepted == Spec => []AcceptsEveryBijection
<1>1. Init => BijectionInv
  BY DEF Init, BijectionInv
<1>2. TypeOK /\ SetsInv /\ BijectionInv /\ [Next]_vars => BijectionInv'
  <2> SUFFICES ASSUME TypeOK, SetsInv, BijectionInv, [Next]_vars,
                      Bijective(given.row, given.column)'
               PROVE  (/\ row_bits = given.row /\ column_bits = given.column
                       /\ pc \in {"merge", "check", "done"}
                       /\ pc = "done" => pass)'
    BY DEF BijectionInv
  <2>1. UNCHANGED <<addressing_functions, given>>
    BY DEF Next, vars, MergeStep, FirstCheck, AddColumnBit, ColumnsEnd,
           AddRowBit, RowsEnd, SecondCheck, Terminated
  <2>2. Bijective(given.row, given.column)
    BY <2>1 DEF Bijective, OneToOne, Collides, Covered
  <2>3. /\ row_bits = given.row /\ column_bits = given.column
        /\ pc \in {"merge", "check", "done"}
        /\ pc = "done" => pass
    BY <2>2 DEF BijectionInv
  <2>4. CASE FirstCheck
    <3>1. /\ row_bits \in SUBSET LineBit /\ column_bits \in SUBSET LineBit
          /\ addressing_functions \in Seq(SUBSET AddressBit)
      BY DEF TypeOK
    <3>2. Bijective(row_bits, column_bits)
      BY <2>2, <2>3
    <3>3. disjoint_sets = DisjointSets(Masks(addressing_functions))
      BY <2>4 DEF FirstCheck, SetsInv
    <3>4. ASSUME NEW set \in disjoint_sets
          PROVE  Complete(set, row_bits, column_bits)
      <4>1. Closed(set, Masks(addressing_functions)) /\ set \subseteq Covered
        BY <3>3, DisjointSetsAreClosed DEF Covered
      <4>2. set \in SUBSET LineBit
        BY <2>2, <4>1 DEF Bijective
      <4>. QED
        BY <3>1, <3>2, <4>1, <4>2, BijectionIsComplete
    <3>5. incomplete_sets' = {}
      BY <2>4, <3>4 DEF FirstCheck, CheckInjectivity
    <3>. QED
      BY <2>3, <2>4, <3>5 DEF FirstCheck, CheckInjectivity
  <2>5. CASE MergeStep
    BY <2>3, <2>5 DEF MergeStep
  <2>6. CASE AddColumnBit \/ ColumnsEnd \/ AddRowBit \/ RowsEnd \/ SecondCheck
    BY <2>3, <2>6 DEF AddColumnBit, ColumnsEnd, AddRowBit, RowsEnd, SecondCheck
  <2>7. CASE UNCHANGED vars
    BY <2>3, <2>7 DEF vars
  <2> QED
    BY <2>4, <2>5, <2>6, <2>7 DEF Next, Terminated
<1>3. BijectionInv => AcceptsEveryBijection
  BY DEF BijectionInv, AcceptsEveryBijection
<1> QED
  BY <1>1, <1>2, <1>3, TypeCorrect, SetsInvariant, PTL DEF Spec

-----------------------------------------------------------------------------
(* Linearly independent outputs are independent on every part of the bits. *)
LEMMA OutputsAreIndependent ==
  ASSUME addressing_functions \in Seq(SUBSET AddressBit),
         row_bits \in SUBSET LineBit, column_bits \in SUBSET LineBit,
         Independent, NEW s
  PROVE  IndependentMasks(OutputVector(addressing_functions, row_bits \cup column_bits, s))
<1>. DEFINE v == addressing_functions
            L == row_bits \cup column_bits
            T == Outputs(v, L, s)
            w == OutputVector(v, L, s)
<1>1. DOMAIN v = 1 .. Len(v) /\ Len(v) \in Nat
  BY DomainIsFinite
<1>2. L \subseteq Nat
  BY AddressBitsAreFinite
<1>3. \A t \in T : \/ t \in DOMAIN v /\ t > 0 /\ w[t] = v[t]
                   \/ \E b \in L : t = -b /\ ~(t > 0) /\ w[t] = {b}
  <2>1. ASSUME NEW t \in T, t \in DOMAIN v
        PROVE  t > 0 /\ w[t] = v[t]
    BY <1>1, <2>1 DEF OutputVector
  <2>2. ASSUME NEW t \in T, NEW b \in L, t = -b
        PROVE  ~(t > 0) /\ w[t] = {b}
    <3>1. b \in Nat
      BY <1>2
    <3>2. ~(t > 0) /\ -t = b
      BY <2>2, <3>1
    <3>. QED
      BY <3>2 DEF OutputVector
  <2>. QED
    BY <2>1, <2>2 DEF Outputs
<1>. SUFFICES ASSUME NEW K \in SUBSET T, XorOf(w, K) = {}
              PROVE  K = {}
  BY DEF IndependentMasks, OutputVector
<1>. DEFINE K1 == K \cap DOMAIN v
<1>4. ASSUME NEW b, Cardinality({k \in K : b \in w[k]}) % 2 = 1
      PROVE  FALSE
  <2>1. PICK k \in K : b \in w[k]
    <3>1. Cardinality({}) % 2 # 1
      BY FS_EmptySet
    <3>. QED
      BY <1>4, <3>1
  <2>2. DOMAIN w = T
    BY DEF OutputVector
  <2>. HIDE DEF w, T
  <2>3. b \in UNION Masks(w)
    BY <2>1, <2>2 DEF Masks
  <2>. QED
    BY <1>4, <2>3 DEF XorOf
<1>5. K1 = {}
  <2>1. ASSUME NEW b \in AddressBit, Cardinality({k \in K1 : b \in v[k]}) % 2 = 1,
               b \notin L
        PROVE  FALSE
    <3>1. {k \in K : b \in w[k]} = {k \in K1 : b \in v[k]}
      <4>1. ASSUME NEW k \in K
            PROVE  b \in w[k] <=> k \in K1 /\ b \in v[k]
        <5>1. CASE k \in DOMAIN v /\ k > 0 /\ w[k] = v[k]
          BY <5>1
        <5>2. CASE \E c \in L : k = -c /\ ~(k > 0) /\ w[k] = {c}
          <6>1. k \notin DOMAIN v
            BY <1>1, <5>2
          <6>. QED
            BY <2>1, <5>2, <6>1
        <5>. QED
          BY <1>3, <5>1, <5>2
      <4>. HIDE DEF w
      <4>. QED
        BY <4>1
    <3>. QED
      BY <1>4, <2>1, <3>1
  <2>2. {b \in AddressBit : Cardinality({k \in K1 : b \in v[k]}) % 2 = 1} \subseteq L
    BY <2>1
  <2>3. K1 \in SUBSET DOMAIN v
    OBVIOUS
  <2>. HIDE DEF K1
  <2>. QED
    BY <2>2, <2>3 DEF Independent
<1>6. ASSUME NEW t \in K
      PROVE  FALSE
  <2>1. PICK b \in L : t = -b /\ w[t] = {b}
    BY <1>3, <1>5
  <2>2. {k \in K : b \in w[k]} = {t}
    <3>1. ASSUME NEW k \in K, b \in w[k]
          PROVE  k = t
      <4>1. PICK c \in L : k = -c /\ w[k] = {c}
        BY <1>3, <1>5
      <4>. QED
        BY <2>1, <3>1, <4>1
    <3>. QED
      BY <2>1, <3>1
  <2>3. Cardinality({t}) % 2 = 1
    <3>1. Cardinality({t}) = 1
      BY FS_Singleton
    <3>2. 1 % 2 = 1
      OBVIOUS
    <3>. QED
      BY <3>1, <3>2
  <2>. QED
    BY <1>4, <2>2, <2>3
<1>. QED
  BY <1>6

(* A complete set has as many outputs as bits, none of them counted twice. *)
LEMMA CompleteCount ==
  ASSUME addressing_functions \in Seq(SUBSET AddressBit),
         NEW R \in SUBSET LineBit, NEW C \in SUBSET LineBit, R \cap C = {},
         NEW s, Complete(s, R, C)
  PROVE  /\ IsFiniteSet(Outputs(addressing_functions, R \cup C, s))
         /\ Cardinality(Outputs(addressing_functions, R \cup C, s)) = Cardinality(s)
<1>. DEFINE T == Outputs(addressing_functions, R \cup C, s)
            F == Cardinality({k \in DOMAIN addressing_functions :
                                Overlap(addressing_functions[k], s)})
<1>1. /\ F \in Nat /\ Cardinality(R \cap s) \in Nat /\ Cardinality(C \cap s) \in Nat
      /\ IsFiniteSet(T) /\ Cardinality(T) \in Nat
      /\ Cardinality((R \cap s) \cap (C \cap s)) \in Nat
      /\ Cardinality(T) = F + Cardinality(R \cap s) + Cardinality(C \cap s)
                          - Cardinality((R \cap s) \cap (C \cap s))
  <2>1. CountedOnce(addressing_functions, R, C, s)
    BY OutputCount
  <2>. QED
    BY <2>1 DEF CountedOnce
<1>2. F + Cardinality(R \cap s) + Cardinality(C \cap s) = Cardinality(s)
  BY DEF Complete
<1>3. (R \cap s) \cap (C \cap s) = {} /\ Cardinality({}) = 0
  BY FS_EmptySet
<1>. HIDE DEF T, F
<1>4. Cardinality(T) = Cardinality(s)
  <2>1. Cardinality(T) = F + Cardinality(R \cap s) + Cardinality(C \cap s) - 0
    BY <1>1, <1>3
  <2>. QED
    BY <1>1, <1>2, <2>1
<1>. QED
  BY <1>1, <1>4 DEF T

(* On a set that functions do not straddle, independent outputs in the     *)
(* number of the bits have every bit of the set among their sums, so no    *)
(* difference escapes them.                                                *)
LEMMA CompleteIsOneToOne ==
  ASSUME addressing_functions \in Seq(SUBSET AddressBit),
         row_bits \in SUBSET LineBit, column_bits \in SUBSET LineBit,
         Independent, NEW s \in SUBSET AddressBit,
         Closed(s, Masks(addressing_functions)),
         Complete(s, row_bits, column_bits)
  PROVE  OneToOne(s, row_bits, column_bits)
<1>. DEFINE v == addressing_functions
            L == row_bits \cup column_bits
            T == Outputs(v, L, s)
            w == OutputVector(v, L, s)
<1>1. DOMAIN w = T
  BY DEF OutputVector
<1>2. IndependentMasks(w)
  BY OutputsAreIndependent
<1>3. DOMAIN v = 1 .. Len(v) /\ Len(v) \in Nat
  BY DomainIsFinite
<1>4. L \subseteq Nat
  BY AddressBitsAreFinite
<1>5. IsFiniteSet(T) /\ Cardinality(T) = Cardinality(s)
  <2>1. row_bits \cap column_bits = {}
    BY DEF Independent
  <2>. QED
    BY <2>1, CompleteCount
<1>6. ASSUME NEW t \in T
      PROVE  \/ t \in DOMAIN v /\ Overlap(v[t], s) /\ w[t] = v[t]
             \/ \E b \in L \cap s : w[t] = {b}
  <2>1. ASSUME t \in DOMAIN v
        PROVE  t > 0 /\ w[t] = v[t]
    BY <1>3, <2>1 DEF OutputVector
  <2>2. ASSUME NEW b \in L, t = -b
        PROVE  w[t] = {b}
    <3>1. b \in Nat
      BY <1>4
    <3>2. ~(t > 0) /\ -t = b
      BY <2>2, <3>1
    <3>. QED
      BY <3>2 DEF OutputVector
  <2>. QED
    BY <2>1, <2>2 DEF Outputs
<1>7. \A t \in T : w[t] \subseteq s
  <2>1. \A t \in DOMAIN v : Overlap(v[t], s) => v[t] \subseteq s
    BY DEF Closed, Masks, Overlap
  <2>. HIDE DEF w, T
  <2>. QED
    BY <1>6, <2>1
<1>8. IsFiniteSet(s)
  BY AddressBitsAreFinite, FS_Subset
<1>. HIDE DEF w, T
<1>9. Span(w) = SUBSET s
  <2>1. Span(w) \in SUBSET SUBSET s
    <3>1. \A K : XorOf(w, K) \subseteq s
      BY <1>1, <1>7 DEF XorOf, Masks
    <3>. QED
      BY <3>1 DEF Span
  <2>2. IsFiniteSet(Span(w)) /\ Cardinality(Span(w)) = Cardinality(SUBSET T)
    BY <1>1, <1>2, <1>5, SpanSize
  <2>3. /\ Cardinality(SUBSET T) = 2^Cardinality(T)
        /\ Cardinality(SUBSET s) = 2^Cardinality(s)
        /\ IsFiniteSet(SUBSET s)
    BY <1>5, <1>8, FS_SUBSET
  <2>4. Cardinality(Span(w)) = Cardinality(SUBSET s)
    BY <1>5, <2>2, <2>3
  <2>. QED
    BY <2>1, <2>3, <2>4, FS_Subset
<1>. SUFFICES ASSUME NEW d \in SUBSET s, Collides(d, row_bits, column_bits)
              PROVE  d = {}
  BY DEF OneToOne
<1>10. \A t \in T : IsFiniteSet(w[t]) /\ XORReductionWithMask(w[t], d) = 0
  <2>1. \A t \in T : IsFiniteSet(w[t])
    BY <1>7, <1>8, FS_Subset
  <2>2. \A t \in DOMAIN v : XORReductionWithMask(v[t], d) = 0
    BY DEF Collides, Masks
  <2>3. ASSUME NEW b \in L
        PROVE  XORReductionWithMask({b}, d) = 0
    <3>1. {b} \cap d = {}
      BY DEF Collides
    <3>. QED
      BY <3>1, ParityOfOthers
  <2>. QED
    BY <1>6, <2>1, <2>2, <2>3
<1>11. \A f \in SUBSET s : XORReductionWithMask(f, d) = 0
  BY <1>1, <1>5, <1>9, <1>10, ParityOfSums
<1>12. ASSUME NEW b \in d
       PROVE  FALSE
  <2>1. {b} \in SUBSET s
    OBVIOUS
  <2>. QED
    BY <1>11, <2>1, ParityOfBit
<1>. QED
  BY <1>12

(* The mapping passes only when every set is complete with the labels it   *)
(* has at the end.                                                         *)
PassInv ==
  pc = "done" /\ pass =>
    \A set \in disjoint_sets : Complete(set, row_bits, column_bits)

(* A validation that has passed has found all sets complete.               *)
LEMMA PassInvariant == Spec => []PassInv
<1>1. Init => PassInv
  BY DEF Init, PassInv
<1>2. PassInv /\ [Next]_vars => PassInv'
  <2> SUFFICES ASSUME PassInv, [Next]_vars, pc' = "done", pass'
               PROVE  (\A set \in disjoint_sets : Complete(set, row_bits, column_bits))'
    BY DEF PassInv
  <2>1. CASE FirstCheck \/ SecondCheck
    BY <2>1 DEF FirstCheck, SecondCheck, CheckInjectivity, Complete
  <2>2. CASE UNCHANGED vars
    BY <2>2 DEF vars, PassInv, Complete
  <2> QED
    BY <2>1, <2>2 DEF Next, MergeStep, AddColumnBit, ColumnsEnd, AddRowBit, RowsEnd,
                      Terminated
<1> QED
  BY <1>1, <1>2, PTL DEF Spec

(* Counting proves something: whatever passes, with outputs that are       *)
(* linearly independent, is one-to-one on the bits the functions cover.    *)
THEOREM IndependentPassIsProof == Spec => []IndependentPassIsOneToOne
<1>1. TypeOK /\ SetsInv /\ PassInv => IndependentPassIsOneToOne
  <2>. SUFFICES ASSUME TypeOK, SetsInv, PassInv, pc = "done", pass, Independent,
                       NEW d \in SUBSET Covered, Collides(d, row_bits, column_bits)
                PROVE  d = {}
    BY DEF IndependentPassIsOneToOne, OneToOne
  <2>1. /\ row_bits \in SUBSET LineBit /\ column_bits \in SUBSET LineBit
        /\ addressing_functions \in Seq(SUBSET AddressBit)
    BY DEF TypeOK
  <2>2. disjoint_sets = DisjointSets(Masks(addressing_functions))
    BY DEF SetsInv
  <2>3. ASSUME NEW s \in disjoint_sets
        PROVE  d \cap s = {}
    <3>1. Closed(s, Masks(addressing_functions)) /\ s \in SUBSET AddressBit
      BY <2>2, DisjointSetsAreClosed DEF TypeOK
    <3>2. Complete(s, row_bits, column_bits)
      BY DEF PassInv
    <3>3. OneToOne(s, row_bits, column_bits)
      BY <2>1, <3>1, <3>2, CompleteIsOneToOne
    <3>4. ASSUME NEW f \in Masks(addressing_functions)
          PROVE  XORReductionWithMask(f, d \cap s) = 0
      <4>1. CASE f \cap s = {}
        <5>1. f \cap (d \cap s) = {}
          BY <4>1
        <5>. QED
          BY <5>1, ParityOfOthers
      <4>2. CASE f \subseteq s
        <5>1. f \cap (d \cap s) = f \cap d
          BY <4>2
        <5>2. XORReductionWithMask(f, d) = 0
          BY DEF Collides
        <5>. QED
          BY <5>1, <5>2 DEF XORReductionWithMask
      <4>. QED
        BY <3>1, <4>1, <4>2 DEF Closed
    <3>5. Collides(d \cap s, row_bits, column_bits)
      BY <3>4 DEF Collides
    <3>6. d \cap s \in SUBSET s
      OBVIOUS
    <3>. QED
      BY <3>3, <3>5, <3>6 DEF OneToOne
  <2>4. Covered \subseteq UNION disjoint_sets
    BY <2>2, DisjointSetsCover DEF Covered
  <2>. QED
    BY <2>3, <2>4
<1> QED
  BY <1>1, TypeCorrect, SetsInvariant, PassInvariant, PTL

-----------------------------------------------------------------------------
(* A bijection with R and C as its row and column bits extends the given   *)
(* labels.                                                                 *)
Completion(R, C) ==
  /\ R \in SUBSET LineBit /\ C \in SUBSET LineBit
  /\ given.row \subseteq R /\ Cardinality(R) = NumRowBits
  /\ given.column \subseteq C /\ Cardinality(C) = NumColumnBits
  /\ \A r \in R, c \in C : c < r
  /\ Bijective(R, C)

(* S is the only set whose labels are missing.                             *)
OnlyIncomplete(S) ==
  /\ LineBit \ Covered \subseteq given.row \cup given.column
  /\ {set \in DisjointSets(Masks(addressing_functions)) :
         ~Complete(set, given.row, given.column)} = {S}

(* A part of a finite set that is as large is all of it.                   *)
LEMMA PartEquals ==
  ASSUME NEW A, NEW B, IsFiniteSet(B), A \subseteq B,
         Cardinality(A) = Cardinality(B)
  PROVE  A = B
BY FS_Subset

(* Then every label that the completion adds lies in S.                    *)
LEMMA MissingLabelsAreInside ==
  ASSUME TypeOK, NEW S, OnlyIncomplete(S), NEW R, NEW C, Completion(R, C)
  PROVE  R \ given.row \subseteq S /\ C \ given.column \subseteq S
<1>. DEFINE F == Masks(addressing_functions)
            gr == given.row
            gc == given.column
<1>1. /\ addressing_functions \in Seq(SUBSET AddressBit)
      /\ gr \subseteq R /\ gc \subseteq C /\ R \in SUBSET LineBit /\ C \in SUBSET LineBit
      /\ Bijective(R, C)
  BY DEF TypeOK, Completion
<1>2. R \cap C = {}
  <2>1. \A r \in R, c \in C : c < r
    BY DEF Completion
  <2>2. R \subseteq Nat
    BY <1>1, AddressBitsAreFinite
  <2>3. \A r \in Nat : ~(r < r)
    OBVIOUS
  <2>. QED
    BY <2>1, <2>2, <2>3
<1>3. ASSUME NEW t \in DisjointSets(F), t # S
      PROVE  R \cap t = gr \cap t /\ C \cap t = gc \cap t
  <2>. DEFINE fs == Cardinality({k \in DOMAIN addressing_functions :
                                  Overlap(addressing_functions[k], t)})
  <2>1. Closed(t, F) /\ t \in SUBSET LineBit
    BY <1>1, DisjointSetsAreClosed DEF Bijective, Covered
  <2>2. Complete(t, R, C)
    BY <1>1, <2>1, BijectionIsComplete
  <2>3. Complete(t, gr, gc)
    BY <1>3 DEF OnlyIncomplete
  <2>4. IsFiniteSet(R) /\ IsFiniteSet(C)
    BY <1>1, AddressBitsAreFinite, FS_Subset
  <2>5. IsFiniteSet(R \cap t) /\ IsFiniteSet(C \cap t)
    BY <2>4, FS_Subset
  <2>6. gr \cap t \in SUBSET (R \cap t) /\ gc \cap t \in SUBSET (C \cap t)
    BY <1>1
  <2>7. /\ IsFiniteSet(gr \cap t) /\ IsFiniteSet(gc \cap t)
        /\ Cardinality(gr \cap t) <= Cardinality(R \cap t)
        /\ Cardinality(gc \cap t) <= Cardinality(C \cap t)
    BY <2>5, <2>6, FS_Subset
  <2>8. /\ Cardinality(gr \cap t) \in Nat /\ Cardinality(gc \cap t) \in Nat
        /\ Cardinality(R \cap t) \in Nat /\ Cardinality(C \cap t) \in Nat
    BY <2>5, <2>7, FS_CardinalityType
  <2>9. fs \in Nat
    <3>1. CountedOnce(addressing_functions, R, C, t)
      BY <1>1, OutputCount
    <3>. QED
      BY <3>1 DEF CountedOnce
  <2>10. fs + Cardinality(R \cap t) + Cardinality(C \cap t)
          = fs + Cardinality(gr \cap t) + Cardinality(gc \cap t)
    BY <2>2, <2>3 DEF Complete
  <2>. HIDE DEF fs
  <2>11. /\ Cardinality(gr \cap t) = Cardinality(R \cap t)
         /\ Cardinality(gc \cap t) = Cardinality(C \cap t)
    BY <2>7, <2>8, <2>9, <2>10
  <2>. QED
    BY <2>5, <2>6, <2>11, PartEquals
<1>4. ASSUME NEW b \in LineBit \ Covered
      PROVE  (b \in R => b \in gr) /\ (b \in C => b \in gc)
  BY <1>1, <1>2 DEF OnlyIncomplete
<1>5. Covered \subseteq UNION DisjointSets(F)
  BY DisjointSetsCover DEF Covered
<1>. HIDE DEF F
<1>. QED
  BY <1>1, <1>3, <1>4, <1>5

(* What the extra step has done when it is at pc.                          *)
Progress(S) ==
  /\ given.row \subseteq row_bits /\ row_bits \ given.row \subseteq S
  /\ given.column \subseteq column_bits /\ column_bits \ given.column \subseteq S
  /\ Cardinality(row_bits) <= NumRowBits
  /\ Cardinality(column_bits) <= NumColumnBits
  /\ pc \in {"merge", "check"} => row_bits = given.row /\ column_bits = given.column
  /\ pc \in {"column", "row"} => incomplete_sets = {S}
  /\ pc \in {"row", "recheck"} => Cardinality(column_bits) = NumColumnBits
  /\ pc = "recheck" => Cardinality(row_bits) = NumRowBits
  /\ pc = "done" => pass

ResolveInv ==
  \A S, R, C : OnlyIncomplete(S) /\ Completion(R, C) => Progress(S)

(* Labels below the number of the DIMM leave one in S to choose.           *)
LEMMA CandidatesRemain ==
  ASSUME NEW G, NEW B, NEW A \in SUBSET LineBit, NEW S, G \subseteq B,
         A \ G \subseteq S, IsFiniteSet(B), Cardinality(B) <= Cardinality(A),
         Cardinality(B) # Cardinality(A)
  PROVE  \E b \in LineBit \cap S : b \notin B
<1>1. IsFiniteSet(A)
  BY AddressBitsAreFinite, FS_Subset
<1>2. Cardinality(A) \in Nat /\ Cardinality(B) \in Nat
  BY <1>1, FS_CardinalityType
<1>3. ~(A \subseteq B)
  BY <1>1, <1>2, FS_Subset
<1>. QED
  BY <1>3

ExtendsInside(G, A, S) == IsFiniteSet(A) /\ G \subseteq A /\ A \ G \subseteq S

(* Two extensions of G by bits of S that are as many have as many in S.    *)
LEMMA SameNumberInside ==
  ASSUME NEW G, NEW A, NEW B, NEW S, ExtendsInside(G, A, S), ExtendsInside(G, B, S),
         Cardinality(A) = Cardinality(B)
  PROVE  Cardinality(A \cap S) = Cardinality(B \cap S)
<1>1. /\ A \ S = G \ S /\ B \ S = G \ S
      /\ IsFiniteSet(A) /\ IsFiniteSet(B)
  BY DEF ExtendsInside
<1>2. /\ Cardinality(A \cap S) \in Nat /\ Cardinality(B \cap S) \in Nat
      /\ Cardinality(G \ S) \in Nat
      /\ Cardinality(A) = Cardinality(A \cap S) + Cardinality(G \ S)
      /\ Cardinality(B) = Cardinality(B \cap S) + Cardinality(G \ S)
  BY <1>1, PartSizes
<1>3. ASSUME NEW x \in Nat, NEW y \in Nat, NEW z \in Nat, x + z = y + z
      PROVE  x = y
  BY <1>3
<1>. QED
  BY <1>2, <1>3

(* One label more, of a bit of S, keeps what Progress says of the labels.  *)
LEMMA OneLabelMore ==
  ASSUME NEW G, NEW B, NEW S, NEW n \in Nat, NEW b \in S, IsFiniteSet(B),
         G \subseteq B, B \ G \subseteq S, Cardinality(B) <= n, Cardinality(B) # n,
         b \notin B
  PROVE  /\ G \subseteq B \cup {b} /\ (B \cup {b}) \ G \subseteq S
         /\ Cardinality(B \cup {b}) <= n
<1>1. Cardinality(B \cup {b}) = Cardinality(B) + 1
  BY FS_AddElement
<1>2. Cardinality(B) \in Nat
  BY FS_CardinalityType
<1>. QED
  BY <1>1, <1>2

(* With the numbers of the DIMM reached by bits of S, every set has the    *)
(* number of labels it has in the completion.                              *)
LEMMA ReachedIsComplete ==
  ASSUME TypeOK, NEW S, OnlyIncomplete(S), NEW R, NEW C, Completion(R, C),
         Progress(S), Cardinality(row_bits) = NumRowBits,
         Cardinality(column_bits) = NumColumnBits,
         NEW t \in DisjointSets(Masks(addressing_functions))
  PROVE  Complete(t, row_bits, column_bits)
<1>1. CASE t # S
  <2>1. Complete(t, given.row, given.column)
    BY <1>1 DEF OnlyIncomplete
  <2>2. S \in DisjointSets(Masks(addressing_functions))
    BY DEF OnlyIncomplete
  <2>3. S \cap t = {}
    BY <1>1, <2>2, DisjointSetsAreDisjoint
  <2>4. row_bits \cap t = given.row \cap t /\ column_bits \cap t = given.column \cap t
    BY <2>3 DEF Progress
  <2>. QED
    BY <2>1, <2>4 DEF Complete
<1>2. CASE t = S
  <2>1. /\ addressing_functions \in Seq(SUBSET AddressBit)
        /\ R \in SUBSET LineBit /\ C \in SUBSET LineBit /\ Bijective(R, C)
        /\ row_bits \in SUBSET LineBit /\ column_bits \in SUBSET LineBit
    BY DEF TypeOK, Completion
  <2>2. Closed(S, Masks(addressing_functions)) /\ S \in SUBSET LineBit
    BY <1>2, <2>1, DisjointSetsAreClosed DEF Bijective, Covered
  <2>3. Complete(S, R, C)
    BY <2>1, <2>2, BijectionIsComplete
  <2>4. /\ IsFiniteSet(R) /\ IsFiniteSet(C)
        /\ IsFiniteSet(row_bits) /\ IsFiniteSet(column_bits)
    BY <2>1, AddressBitsAreFinite, FS_Subset
  <2>5. R \ given.row \subseteq S /\ C \ given.column \subseteq S
    BY MissingLabelsAreInside
  <2>6. Cardinality(R) = NumRowBits /\ Cardinality(C) = NumColumnBits
        /\ given.row \subseteq R /\ given.column \subseteq C
    BY DEF Completion
  <2>7. /\ given.row \subseteq row_bits /\ row_bits \ given.row \subseteq S
        /\ given.column \subseteq column_bits /\ column_bits \ given.column \subseteq S
    BY DEF Progress
  <2>8. /\ ExtendsInside(given.row, R, S) /\ ExtendsInside(given.row, row_bits, S)
        /\ ExtendsInside(given.column, C, S) /\ ExtendsInside(given.column, column_bits, S)
    BY <2>4, <2>5, <2>6, <2>7 DEF ExtendsInside
  <2>9. Cardinality(R \cap S) = Cardinality(row_bits \cap S)
    BY <2>6, <2>8, SameNumberInside
  <2>10. Cardinality(C \cap S) = Cardinality(column_bits \cap S)
    BY <2>6, <2>8, SameNumberInside
  <2>. QED
    BY <1>2, <2>3, <2>9, <2>10 DEF Complete
<1>. QED
  BY <1>1, <1>2

(* While the missing labels are added, the incomplete set makes progress.  *)
LEMMA ResolveInvariant == Spec => []ResolveInv
<1>1. TypeOK /\ Init => ResolveInv
  <2>. SUFFICES ASSUME TypeOK, Init, NEW S, NEW R, NEW C, OnlyIncomplete(S), Completion(R, C)
                PROVE  Progress(S)
    BY DEF ResolveInv
  <2>1. row_bits = given.row /\ column_bits = given.column /\ pc = "merge"
    BY DEF Init
  <2>2. given.row \in SUBSET R /\ given.column \in SUBSET C
        /\ Cardinality(R) = NumRowBits /\ Cardinality(C) = NumColumnBits
        /\ R \in SUBSET LineBit /\ C \in SUBSET LineBit
    BY DEF Completion
  <2>3. IsFiniteSet(R) /\ IsFiniteSet(C)
    BY <2>2, AddressBitsAreFinite, FS_Subset
  <2>4. /\ Cardinality(given.row) <= NumRowBits
        /\ Cardinality(given.column) <= NumColumnBits
    BY <2>2, <2>3, FS_Subset
  <2>. QED
    BY <2>1, <2>4 DEF Progress
<1>2. TypeOK /\ SetsInv /\ ResolveInv /\ [Next]_vars => ResolveInv'
  <2>. SUFFICES ASSUME TypeOK, SetsInv, ResolveInv, [Next]_vars, NEW S, NEW R, NEW C,
                       OnlyIncomplete(S)', Completion(R, C)'
                PROVE  Progress(S)'
    BY DEF ResolveInv
  <2>1. UNCHANGED <<addressing_functions, given>>
    BY DEF Next, vars, MergeStep, FirstCheck, AddColumnBit, ColumnsEnd,
           AddRowBit, RowsEnd, SecondCheck, Terminated
  <2>2. Completion(R, C)
    BY <2>1 DEF Completion, Bijective, OneToOne, Collides, Covered
  <2>3. OnlyIncomplete(S)
    BY <2>1 DEF OnlyIncomplete, Complete, Covered
  <2>4. Progress(S)
    BY <2>2, <2>3 DEF ResolveInv
  <2>5. R \ given.row \subseteq S /\ C \ given.column \subseteq S
    BY <2>2, <2>3, MissingLabelsAreInside
  <2>6. /\ row_bits \in SUBSET LineBit /\ column_bits \in SUBSET LineBit
        /\ IsFiniteSet(row_bits) /\ IsFiniteSet(column_bits)
        /\ NumRowBits \in Nat /\ NumColumnBits \in Nat
    BY AddressBitsAreFinite, FS_Subset, ValidateAssumption DEF TypeOK
  <2>7. /\ R \in SUBSET LineBit /\ C \in SUBSET LineBit
        /\ Cardinality(R) = NumRowBits /\ Cardinality(C) = NumColumnBits
    BY <2>2 DEF Completion
  <2>8. CASE MergeStep
    BY <2>4, <2>8 DEF MergeStep, Progress
  <2>9. CASE FirstCheck
    <3>1. /\ disjoint_sets = DisjointSets(Masks(addressing_functions))
          /\ row_bits = given.row /\ column_bits = given.column
      BY <2>4, <2>9 DEF FirstCheck, SetsInv, Progress
    <3>2. incomplete_sets' = {S} /\ ~pass'
      BY <2>3, <2>9, <3>1 DEF FirstCheck, CheckInjectivity, OnlyIncomplete
    <3>. QED
      BY <2>4, <2>9, <3>1, <3>2 DEF FirstCheck, Progress
  <2>10. CASE AddColumnBit
    <3>1. PICK b \in ColumnCandidates : column_bits' = column_bits \cup {b}
      BY <2>10 DEF AddColumnBit
    <3>2. b \in S /\ b \notin column_bits
      BY <2>4, <2>10, <3>1 DEF AddColumnBit, ColumnCandidates, Progress
    <3>3. /\ given.column \subseteq column_bits /\ column_bits \ given.column \subseteq S
          /\ Cardinality(column_bits) <= NumColumnBits
          /\ Cardinality(column_bits) # NumColumnBits
      BY <2>4, <2>10 DEF AddColumnBit, MoreColumns, Progress
    <3>4. /\ given.column \subseteq column_bits'
          /\ column_bits' \ given.column \subseteq S
          /\ Cardinality(column_bits') <= NumColumnBits
      BY <2>6, <3>1, <3>2, <3>3, OneLabelMore
    <3>. QED
      BY <2>4, <2>10, <3>4 DEF AddColumnBit, Progress
  <2>11. CASE ColumnsEnd
    <3>1. incomplete_sets = {S}
      BY <2>4, <2>11 DEF ColumnsEnd, Progress
    <3>2. ColumnCandidates = {b \in LineBit \cap S : b \notin column_bits}
      BY <3>1 DEF ColumnCandidates
    <3>3. Cardinality(column_bits) = NumColumnBits
      BY <2>4, <2>5, <2>6, <2>7, <2>11, <3>2, CandidatesRemain
         DEF ColumnsEnd, MoreColumns, Progress
    <3>. QED
      BY <2>4, <2>11, <3>1, <3>3 DEF ColumnsEnd, Progress
  <2>12. CASE AddRowBit
    <3>1. PICK b \in RowCandidates : row_bits' = row_bits \cup {b}
      BY <2>12 DEF AddRowBit
    <3>2. b \in S /\ b \notin row_bits
      BY <2>4, <2>12, <3>1 DEF AddRowBit, RowCandidates, Progress
    <3>3. /\ given.row \subseteq row_bits /\ row_bits \ given.row \subseteq S
          /\ Cardinality(row_bits) <= NumRowBits
          /\ Cardinality(row_bits) # NumRowBits
      BY <2>4, <2>12 DEF AddRowBit, MoreRows, Progress
    <3>4. /\ given.row \subseteq row_bits'
          /\ row_bits' \ given.row \subseteq S
          /\ Cardinality(row_bits') <= NumRowBits
      BY <2>6, <3>1, <3>2, <3>3, OneLabelMore
    <3>. QED
      BY <2>4, <2>12, <3>4 DEF AddRowBit, Progress
  <2>13. CASE RowsEnd
    <3>1. incomplete_sets = {S}
      BY <2>4, <2>13 DEF RowsEnd, Progress
    <3>2. RowCandidates = {b \in LineBit \cap S : b \notin row_bits}
      BY <3>1 DEF RowCandidates
    <3>3. Cardinality(row_bits) = NumRowBits
      BY <2>4, <2>5, <2>6, <2>7, <2>13, <3>2, CandidatesRemain
         DEF RowsEnd, MoreRows, Progress
    <3>. QED
      BY <2>4, <2>13, <3>1, <3>3 DEF RowsEnd, Progress
  <2>14. CASE SecondCheck
    <3>1. /\ disjoint_sets = DisjointSets(Masks(addressing_functions))
          /\ Cardinality(row_bits) = NumRowBits
          /\ Cardinality(column_bits) = NumColumnBits
      BY <2>4, <2>14 DEF SecondCheck, SetsInv, Progress
    <3>2. \A t \in disjoint_sets : Complete(t, row_bits, column_bits)
      BY <2>2, <2>3, <2>4, <3>1, ReachedIsComplete
    <3>3. pass' = TRUE
      BY <2>14, <3>2 DEF SecondCheck, CheckInjectivity
    <3>. QED
      BY <2>4, <2>14, <3>3 DEF SecondCheck, Progress
  <2>15. CASE UNCHANGED vars
    BY <2>4, <2>15 DEF vars, Progress
  <2>. QED
    BY <2>8, <2>9, <2>10, <2>11, <2>12, <2>13, <2>14, <2>15 DEF Next, Terminated
<1> QED
  BY <1>1, <1>2, TypeCorrect, SetsInvariant, PTL DEF Spec

(* Labels that IdentifyBits left out of one set only are found: the        *)
(* numbers of the configuration tell how many, and any bits of that set do *)
(* for the count.                                                          *)
THEOREM MissingLabelsAreFound == Spec => []OneSetIsResolved
<1>1. TypeOK /\ SetsInv /\ ResolveInv => OneSetIsResolved
  <2>. SUFFICES ASSUME TypeOK, SetsInv, ResolveInv, pc = "done", OneSetLacksLabels,
                       Completable
                PROVE  pass
    BY DEF OneSetIsResolved
  <2>1. PICK R, C \in SUBSET LineBit : Completion(R, C)
    BY DEF Completable, Completion
  <2>. DEFINE I == {set \in disjoint_sets : ~Complete(set, given.row, given.column)}
  <2>2. disjoint_sets = DisjointSets(Masks(addressing_functions))
    BY DEF SetsInv
  <2>3. IsFiniteSet(I)
    <3>1. I \in SUBSET SUBSET AddressBit
      BY DEF TypeOK
    <3>2. IsFiniteSet(SUBSET AddressBit)
      BY AddressBitsAreFinite, FS_SUBSET
    <3>. QED
      BY <3>1, <3>2, FS_Subset
  <2>4. Cardinality(I) = 1
    BY DEF OneSetLacksLabels
  <2>5. PICK S : I = {S}
    BY <2>3, <2>4, FS_Singleton
  <2>6. OnlyIncomplete(S)
    BY <2>2, <2>5 DEF OneSetLacksLabels, OnlyIncomplete
  <2>7. Progress(S)
    BY <2>1, <2>6 DEF ResolveInv
  <2>. QED
    BY <2>7 DEF Progress
<1> QED
  BY <1>1, TypeCorrect, SetsInvariant, ResolveInvariant, PTL
=============================================================================
