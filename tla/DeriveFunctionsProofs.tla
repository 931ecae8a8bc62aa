------------------------ MODULE DeriveFunctionsProofs ------------------------
(***************************************************************************)
(* Theorems about the derivation of functions, for every memory, every     *)
(* choice of the addresses collected and every limit on the number of      *)
(* bits.                                                                   *)
(***************************************************************************)
EXTENDS DeriveFunctions, AddressBitsProofs

-----------------------------------------------------------------------------
(* The enumeration of the masks of a size.                                 *)
LEMMA Bounds ==
  /\ MaxBits \in Nat /\ CACHELINE_OFFSET \in Nat
  /\ FUNCTION_MIN_NUM_BITS \in Nat /\ FUNCTION_MAX_NUM_BITS \in Nat
  /\ CACHELINE_OFFSET < MaxBits /\ FUNCTION_MIN_NUM_BITS > 0
  /\ FUNCTION_MAX_NUM_BITS <= MaxBits - CACHELINE_OFFSET
  /\ MaxBits - 1 \in Nat /\ AddressBit = 0 .. MaxBits - 1
  /\ LineBit \subseteq AddressBit
BY DeriveAssumption DEF AddressBit, LineBit

LEMMA MasksAreFinite ==
  \A m \in SUBSET AddressBit : IsFiniteSet(m) /\ Cardinality(m) \in Nat
<1>1. IsFiniteSet(AddressBit)
  BY Bounds, FS_Interval
<1>. QED
  BY <1>1, FS_Subset, FS_CardinalityType

(* Of two different masks with equally many bits each has a bit the other  *)
(* has not.                                                                *)
LEMMA BothDiffer ==
  ASSUME NEW m \in SUBSET AddressBit, NEW n \in SUBSET AddressBit,
         Cardinality(m) = Cardinality(n), m # n
  PROVE  m \ n # {} /\ n \ m # {}
<1>1. ASSUME NEW x \in SUBSET AddressBit, NEW y \in SUBSET AddressBit,
             Cardinality(x) = Cardinality(y), x \subseteq y
      PROVE  x = y
  BY <1>1, MasksAreFinite, FS_Subset
<1>2. m \subseteq n => m = n
  BY <1>1
<1>3. n \subseteq m => n = m
  BY <1>1
<1>. QED
  BY <1>2, <1>3

LEMMA BorderMasks ==
  ASSUME NEW size \in 1 .. FUNCTION_MAX_NUM_BITS
  PROVE  /\ FirstMask(size) \in kSubset(size, AddressBit)
         /\ LastMask(size) \in kSubset(size, AddressBit)
<1>1. /\ CACHELINE_OFFSET + size - 1 \in Int /\ CACHELINE_OFFSET \in Int
      /\ MaxBits - size \in Int /\ MaxBits - 1 \in Int
      /\ CACHELINE_OFFSET <= CACHELINE_OFFSET + size - 1
      /\ MaxBits - size <= MaxBits - 1
      /\ (CACHELINE_OFFSET + size - 1) - CACHELINE_OFFSET + 1 = size
      /\ (MaxBits - 1) - (MaxBits - size) + 1 = size
      /\ CACHELINE_OFFSET + size - 1 <= MaxBits - 1 /\ 0 <= MaxBits - size
  BY Bounds
<1>2. \A i, j \in Int : i <= j => Cardinality(i .. j) = j - i + 1
  BY FS_Interval
<1>3. Cardinality(FirstMask(size)) = size /\ Cardinality(LastMask(size)) = size
  BY <1>1, <1>2 DEF FirstMask, LastMask
<1>4. FirstMask(size) \subseteq AddressBit /\ LastMask(size) \subseteq AddressBit
  BY <1>1, Bounds DEF FirstMask, LastMask
<1>. QED
  BY <1>3, <1>4 DEF kSubset

(* No mask outside the line is smaller than the first of its size, and no  *)
(* mask is larger than the last.                                           *)
LEMMA FirstMaskIsFirst ==
  ASSUME NEW size \in 1 .. FUNCTION_MAX_NUM_BITS,
         NEW m \in SUBSET LineBit, Cardinality(m) = size
  PROVE  ~Less(m, FirstMask(size))
<1>. SUFFICES ASSUME Less(m, FirstMask(size))
              PROVE  FALSE
  OBVIOUS
<1>. DEFINE first == FirstMask(size)
<1>1. first \in SUBSET AddressBit /\ Cardinality(first) = size
  BY BorderMasks DEF kSubset
<1>2. m \in SUBSET AddressBit
  BY Bounds
<1>3. PICK bit \in first \ m : \A c \in Xor(m, first) : c <= bit
  BY DEF Less
<1>4. m # first
  BY <1>3
<1>5. PICK c \in m : c \notin first
  BY <1>1, <1>2, <1>4, BothDiffer
<1>6. c <= bit
  BY <1>3, <1>5 DEF Xor
<1>. QED
  BY <1>3, <1>5, <1>6, Bounds DEF FirstMask, LineBit

LEMMA LastMaskIsLast ==
  ASSUME NEW size \in 1 .. FUNCTION_MAX_NUM_BITS,
         NEW m \in kSubset(size, AddressBit), m # LastMask(size)
  PROVE  Less(m, LastMask(size))
<1>. DEFINE last == LastMask(size)
<1>1. /\ last \in SUBSET AddressBit /\ Cardinality(last) = size
      /\ m \in SUBSET AddressBit /\ Cardinality(m) = size
  BY BorderMasks DEF kSubset
<1>2. last \ m # {} /\ last \ m \in SUBSET (0 .. MaxBits - 1)
  BY <1>1, BothDiffer, Bounds
<1>3. PICK bit \in last \ m : \A c \in last \ m : c <= bit
  BY <1>2, Bounds, HighestBit
<1>4. \A c \in m \ last : c <= bit
  BY <1>1, <1>3, Bounds DEF LastMask
<1>. QED
  BY <1>3, <1>4 DEF Less, Xor

LEMMA NextMask ==
  ASSUME NEW size \in 1 .. FUNCTION_MAX_NUM_BITS,
         NEW m \in kSubset(size, AddressBit), m # LastMask(size)
  PROVE  /\ NextBitPermutation(m) \in kSubset(size, AddressBit)
         /\ Less(m, NextBitPermutation(m))
         /\ \A n \in kSubset(size, AddressBit) :
              Less(n, NextBitPermutation(m)) => n = m \/ Less(n, m)
<1>. DEFINE larger == {n \in kSubset(size, AddressBit) : Less(m, n)}
<1>1. Cardinality(m) = size /\ m \in SUBSET AddressBit
  BY DEF kSubset
<1>2. NextBitPermutation(m)
        = CHOOSE n \in larger : \A k \in larger : n = k \/ Less(n, k)
  BY <1>1 DEF NextBitPermutation
<1>3. LastMask(size) \in larger
  BY BorderMasks, LastMaskIsLast
<1>4. larger \in SUBSET SUBSET (0 .. MaxBits - 1) /\ larger # {}
  BY <1>3, Bounds DEF kSubset
<1>5. \E n \in larger : \A k \in larger : n = k \/ Less(n, k)
  <2>. HIDE DEF larger
  <2>. QED
    BY <1>4, Bounds, LeastWord
<1>. DEFINE next == NextBitPermutation(m)
<1>6. next \in larger /\ \A k \in larger : next = k \/ Less(next, k)
  <2>. HIDE DEF larger
  <2>. QED
    BY <1>2, <1>5
<1>7. ASSUME NEW n \in kSubset(size, AddressBit), Less(n, next), n # m, ~Less(n, m)
      PROVE  FALSE
  <2>1. n \in SUBSET (0 .. MaxBits - 1) /\ m \in SUBSET (0 .. MaxBits - 1)
        /\ next \in SUBSET (0 .. MaxBits - 1)
    BY <1>1, <1>4, <1>6, Bounds DEF kSubset
  <2>2. Less(m, n)
    BY <1>7, <2>1, Bounds, LessTotal
  <2>3. n \in larger
    BY <2>2
  <2>4. next = n \/ Less(next, n)
    BY <1>6, <2>3
  <2>5. n \in SUBSET Int /\ next \in SUBSET Int
    BY <2>1, Bounds
  <2>6. Less(n, n)
    BY <1>7, <2>4, <2>5, LessTransitive
  <2>. QED
    BY <2>6, LessIrreflexive
<1>. QED
  BY <1>6, <1>7

-----------------------------------------------------------------------------
(* The inductive invariant: the enumeration's, and what the reduction      *)
(* makes of it at the end.                                                 *)
ReachedAreSums ==
  \A m \in SUBSET LineBit : Reached(m) /\ AllSetsAgree(m) => m \in Span(functions)

ResultInv ==
  /\ found => pc = "done" /\ Len(functions) = Len(memory.functions)
  /\ pc = "done" => IndependentMasks(functions) /\ ReachedAreSums
  /\ ShortestBasis

IInv == memory \in Memories /\ TypeOK /\ EnumerationInv /\ ResultInv

(* Before the first size nothing is passed.                                *)
LEMMA InitIInv == Init => IInv
<1>. SUFFICES ASSUME Init
              PROVE  IInv
  OBVIOUS
<1>. USE DEF Init
<1>1. TypeOK
  <2>1. <<>> \in Seq(SUBSET LineBit) /\ FUNCTION_MIN_NUM_BITS >= FUNCTION_MIN_NUM_BITS
    BY Bounds
  <2>. QED
    BY <2>1, Bounds DEF TypeOK
<1>2. EnumerationInv
  <2>1. ASSUME NEW f \in SUBSET LineBit, Reached(f), Passed(f)
        PROVE  FALSE
    BY <2>1, Bounds DEF Reached, Passed
  <2>2. DOMAIN functions = {}
    OBVIOUS
  <2>. QED
    BY <2>1, <2>2 DEF EnumerationInv
<1>3. ResultInv
  BY DEF ResultInv, ShortestBasis
<1>. QED
  BY <1>1, <1>2, <1>3 DEF IInv

(* The first mask of a size: none of this size is passed yet, and masks    *)
(* below it have bits inside the cache line.                               *)
LEMMA StartSizeKeepsIInv ==
  ASSUME IInv, StartSize
  PROVE  IInv'
<1>. USE DEF StartSize
<1>1. b \in 1 .. FUNCTION_MAX_NUM_BITS
  BY Bounds DEF IInv, TypeOK
<1>2. FirstMask(b) \in SUBSET AddressBit /\ Cardinality(FirstMask(b)) = b
  BY <1>1, BorderMasks DEF kSubset
<1>3. TypeOK'
  BY <1>1, <1>2 DEF IInv, TypeOK
<1>4. ASSUME NEW f \in SUBSET LineBit, Passed(f)'
      PROVE  Passed(f)
  BY <1>1, <1>4, FirstMaskIsFirst DEF Passed
<1>5. EnumerationInv'
  BY <1>4 DEF IInv, EnumerationInv, AllSetsAgree
<1>6. ResultInv'
  BY DEF IInv, ResultInv, ShortestBasis
<1>. QED
  BY <1>3, <1>5, <1>6 DEF IInv

(* A permutation passes the mask tried and no other.                       *)
LEMMA PermutePasses ==
  ASSUME IInv, Permute
  PROVE  /\ b \in 1 .. FUNCTION_MAX_NUM_BITS
         /\ function_mask' \in SUBSET AddressBit
         /\ Cardinality(function_mask') = b
         /\ \A f \in SUBSET LineBit : Passed(f)' => Passed(f) \/ f = function_mask
<1>. USE DEF Permute
<1>1. /\ b \in 1 .. FUNCTION_MAX_NUM_BITS
      /\ function_mask \in kSubset(b, AddressBit)
  BY Bounds DEF IInv, TypeOK, kSubset
<1>2. /\ function_mask' \in kSubset(b, AddressBit)
      /\ \A n \in kSubset(b, AddressBit) :
           Less(n, function_mask') => n = function_mask \/ Less(n, function_mask)
  BY <1>1, NextMask
<1>3. function_mask' \in SUBSET AddressBit /\ Cardinality(function_mask') = b
  BY <1>2 DEF kSubset
<1>4. ASSUME NEW f \in SUBSET LineBit, Passed(f)'
      PROVE  Passed(f) \/ f = function_mask
  <2>1. Cardinality(f) = b => f \in kSubset(b, AddressBit)
    BY Bounds DEF kSubset
  <2>. QED
    BY <1>2, <1>4, <2>1 DEF Passed
<1>. QED
  BY <1>1, <1>3, <1>4

(* A mask passed without being kept has a bit inside the line, or a set    *)
(* tells it apart.                                                         *)
LEMMA PassedByKeepsIInv ==
  ASSUME IInv, SkipLowMask \/ RejectMask
  PROVE  IInv'
<1>1. Permute /\ UNCHANGED <<memory, b, functions, found, pc>> /\ pc = "mask"
  BY DEF SkipLowMask, RejectMask, Permute
<1>2. /\ function_mask' \in SUBSET AddressBit
      /\ Cardinality(function_mask') = b
      /\ \A f \in SUBSET LineBit : Passed(f)' => Passed(f) \/ f = function_mask
  BY <1>1, PermutePasses
<1>3. TypeOK'
  BY <1>1, <1>2 DEF IInv, TypeOK
<1>4. ASSUME NEW f \in SUBSET LineBit, f = function_mask, AllSetsAgree(f)
      PROVE  FALSE
  <2>1. SkipLowMask
    BY <1>4 DEF RejectMask
  <2>. QED
    BY <1>4, <2>1, Bounds DEF SkipLowMask, Overlap, LowBits, LineBit
<1>5. EnumerationInv'
  <2>1. \A f : AllSetsAgree(f)' = AllSetsAgree(f)
    BY <1>1 DEF AllSetsAgree
  <2>. QED
    BY <1>1, <1>2, <1>4, <2>1 DEF IInv, EnumerationInv
<1>6. ResultInv'
  BY <1>1 DEF IInv, ResultInv, ShortestBasis
<1>. QED
  BY <1>1, <1>3, <1>5, <1>6 DEF IInv

(* A mask kept has the most bits so far.                                   *)
LEMMA AcceptMaskKeepsIInv ==
  ASSUME IInv, AcceptMask
  PROVE  IInv'
<1>1. /\ Permute /\ UNCHANGED <<memory, b, found, pc>> /\ pc = "mask"
      /\ functions' = Append(functions, function_mask)
      /\ function_mask \in SUBSET AddressBit /\ Cardinality(function_mask) = b
      /\ b \in Nat /\ functions \in Seq(SUBSET LineBit)
  BY DEF AcceptMask, Permute, IInv, TypeOK
<1>2. /\ function_mask' \in SUBSET AddressBit
      /\ Cardinality(function_mask') = b
      /\ \A f \in SUBSET LineBit : Passed(f)' => Passed(f) \/ f = function_mask
  BY <1>1, PermutePasses
<1>3. function_mask \in SUBSET LineBit
  BY <1>1, Bounds DEF AcceptMask, Overlap, LowBits, LineBit
<1>4. TypeOK'
  BY <1>1, <1>2, <1>3 DEF IInv, TypeOK
<1>5. /\ DOMAIN functions' = 1 .. Len(functions) + 1
      /\ functions'[Len(functions) + 1] = function_mask
      /\ \A k \in 1 .. Len(functions) : functions'[k] = functions[k]
      /\ DOMAIN functions = 1 .. Len(functions) /\ Len(functions) \in Nat
  BY <1>1, <1>3
<1>6. EnumerationInv'
  <2>1. \A f : AllSetsAgree(f)' = AllSetsAgree(f)
    BY <1>1 DEF AllSetsAgree
  <2>2. Masks(functions) \cup {function_mask} \subseteq Masks(functions')
    BY <1>5 DEF Masks
  <2>3. \A f \in SUBSET LineBit :
           Reached(f) /\ Passed(f)' /\ AllSetsAgree(f)' => f \in Masks(functions')
    BY <1>1, <1>2, <2>1, <2>2 DEF IInv, EnumerationInv
  <2>4. ASSUME NEW j \in DOMAIN functions'
        PROVE  /\ Cardinality(functions'[j]) <= b
               /\ \A i \in 1 .. j : Cardinality(functions'[i]) <= Cardinality(functions'[j])
    <3>1. \A k \in 1 .. Len(functions) : Cardinality(functions[k]) <= b
      BY <1>1, <1>5 DEF IInv, EnumerationInv
    <3>2. CASE j = Len(functions) + 1
      <4>1. Cardinality(functions'[j]) = b /\ b <= b
        BY <1>1, <1>5, <3>2
      <4>2. \A i \in 1 .. j : i \in 1 .. Len(functions) \/ i = j
        BY <1>5, <3>2
      <4>. QED
        BY <1>5, <3>1, <4>1, <4>2
    <3>3. CASE j \in 1 .. Len(functions)
      <4>1. /\ Cardinality(functions[j]) <= b
            /\ \A i \in 1 .. j : Cardinality(functions[i]) <= Cardinality(functions[j])
        BY <1>1, <1>5, <3>3 DEF IInv, EnumerationInv
      <4>2. \A i \in 1 .. j : i \in 1 .. Len(functions)
        BY <1>5, <3>3
      <4>. QED
        BY <1>5, <3>3, <4>1, <4>2
    <3>. QED
      BY <1>5, <3>2, <3>3
  <2>. QED
    BY <1>1, <2>3, <2>4 DEF EnumerationInv
<1>7. ResultInv'
  BY <1>1 DEF IInv, ResultInv, ShortestBasis
<1>. QED
  BY <1>1, <1>4, <1>6, <1>7 DEF IInv

(* After the last mask of a size all that can be reached are passed.       *)
LEMMA EndSizeKeepsIInv ==
  ASSUME IInv, EndSize
  PROVE  IInv'
<1>. USE DEF EndSize
<1>1. b \in 1 .. FUNCTION_MAX_NUM_BITS /\ functions \in Seq(SUBSET LineBit)
  BY Bounds DEF IInv, TypeOK
<1>2. TypeOK'
  BY <1>1, Bounds DEF IInv, TypeOK
<1>3. ASSUME NEW f \in SUBSET LineBit, Reached(f), Passed(f)'
      PROVE  Passed(f)
  <2>1. f \in SUBSET AddressBit /\ Cardinality(f) \in Nat
    BY Bounds, MasksAreFinite
  <2>2. Cardinality(f) < b \/ Cardinality(f) = b
    BY <1>1, <1>3, <2>1 DEF Passed
  <2>3. CASE Cardinality(f) = b
    <3>1. f \in kSubset(b, AddressBit) /\ f # LastMask(b)
      BY <1>3, <2>1, <2>3 DEF Reached, kSubset
    <3>2. Less(f, function_mask)
      BY <1>1, <3>1, LastMaskIsLast
    <3>. QED
      BY <2>3, <3>2 DEF Passed
  <2>. QED
    BY <2>2, <2>3 DEF Passed
<1>4. EnumerationInv'
  <2>1. \A f \in SUBSET LineBit :
          Reached(f) /\ Passed(f)' /\ AllSetsAgree(f)' => f \in Masks(functions')
    BY <1>3 DEF IInv, EnumerationInv, AllSetsAgree
  <2>2. ASSUME NEW j \in DOMAIN functions
        PROVE  Cardinality(functions[j]) <= b + 1
    <3>1. Cardinality(functions[j]) <= b
      BY DEF IInv, EnumerationInv
    <3>2. Cardinality(functions[j]) \in Nat
      BY <1>1, Bounds, MasksAreFinite
    <3>. QED
      BY <1>1, <3>1, <3>2
  <2>. QED
    BY <2>1, <2>2 DEF IInv, EnumerationInv
<1>5. ResultInv'
  BY DEF IInv, ResultInv, ShortestBasis
<1>. QED
  BY <1>2, <1>4, <1>5 DEF IInv

(* The reduction keeps what all functions span; the shorter ones are       *)
(* reduced first.                                                          *)
LEMMA ReduceKeepsIInv ==
  ASSUME IInv, Reduce
  PROVE  IInv'
<1>. DEFINE all == functions
            E == SUBSET LineBit
<1>1. /\ all \in Seq(E) /\ b \in Nat /\ b > FUNCTION_MAX_NUM_BITS
      /\ pc = "size" /\ pc' = "done"
      /\ functions' = ReducedFunctions(all)
      /\ found' = (Len(functions') = Len(memory.functions))
      /\ UNCHANGED <<memory, b, function_mask>>
  BY DEF Reduce, IInv, TypeOK
<1>2. ReducedFunctions(all) = Greedy(all)
  <2>1. all \in Seq(SUBSET (0 .. MaxBits - 1))
    <3>1. SUBSET LineBit \subseteq SUBSET (0 .. MaxBits - 1)
      BY Bounds
    <3>2. ASSUME NEW A, NEW B, A \subseteq B, NEW v \in Seq(A)
          PROVE  v \in Seq(B)
      BY <3>2
    <3>. QED
      BY <1>1, <3>1, <3>2
  <2>. QED
    BY <2>1, Bounds, ReductionIsGreedy DEF KeepsGreedyBasisOf
<1>3. \A f : AllSetsAgree(f)' = AllSetsAgree(f)
  BY <1>1 DEF AllSetsAgree
<1>4. \A f \in E : Reached(f) /\ AllSetsAgree(f) => f \in Masks(all)
  <2>. SUFFICES ASSUME NEW f \in E, Reached(f), AllSetsAgree(f)
                PROVE  f \in Masks(all)
    OBVIOUS
  <2>1. Cardinality(f) < b
    BY <1>1, Bounds DEF Reached
  <2>. QED
    BY <1>1, <2>1 DEF IInv, EnumerationInv, Passed
<1>5. \A j \in DOMAIN all : \A i \in 1 .. j : Cardinality(all[i]) <= Cardinality(all[j])
  BY <1>1 DEF IInv, EnumerationInv
<1>. HIDE DEF all, E
<1>6. /\ functions' \in Seq(E)
      /\ Span(functions') = Span(all)
      /\ IndependentMasks(functions')
      /\ \A k \in DOMAIN functions' :
           \E m \in 1 .. Len(all) :
              /\ functions'[k] = all[m]
              /\ Span(SubSeq(functions', 1, k - 1)) = Span(SubSeq(all, 1, m - 1))
  BY <1>1, <1>2, GreedyBasis
<1>7. DOMAIN all = 1 .. Len(all) /\ Len(all) \in Nat /\ IsFiniteSet(DOMAIN all)
  BY <1>1, DomainIsFinite
<1>8. TypeOK'
  BY <1>1, <1>6 DEF IInv, TypeOK, E
<1>9. EnumerationInv'
  BY <1>1 DEF EnumerationInv
<1>10. ReachedAreSums'
  <2>1. \A f \in Masks(all) : f \in Span(all)
    BY <1>7, SpanClosed DEF Masks
  <2>. QED
    BY <1>3, <1>4, <1>6, <2>1 DEF ReachedAreSums, E
<1>11. ShortestBasis'
  <2>1. ASSUME NEW k \in DOMAIN functions', NEW f \in E, Reached(f), AllSetsAgree(f),
               Cardinality(f) < Cardinality(functions'[k])
        PROVE  f \in Span(SubSeq(functions', 1, k - 1))
    <3>1. PICK m \in 1 .. Len(all) :
             /\ functions'[k] = all[m]
             /\ Span(SubSeq(functions', 1, k - 1)) = Span(SubSeq(all, 1, m - 1))
      BY <1>6
    <3>2. PICK i \in 1 .. Len(all) : f = all[i]
      BY <1>4, <1>7, <2>1 DEF Masks
    <3>3. i < m
      <4>. SUFFICES ASSUME m \in 1 .. i
                    PROVE  FALSE
        OBVIOUS
      <4>1. Cardinality(all[m]) <= Cardinality(all[i])
        BY <1>5, <1>7, <3>2
      <4>2. Cardinality(all[m]) \in Nat /\ Cardinality(all[i]) \in Nat
        <5>1. all[m] \in E /\ all[i] \in E
          BY <1>1
        <5>. QED
          BY <5>1, Bounds, MasksAreFinite DEF E
      <4>. QED
        BY <2>1, <3>1, <3>2, <4>1, <4>2
    <3>. DEFINE w == SubSeq(all, 1, m - 1)
    <3>4. w \in Seq(E) /\ i \in DOMAIN w /\ w[i] = f
      BY <1>1, <3>2, <3>3
    <3>. HIDE DEF w
    <3>5. w[i] \in Span(w)
      BY <3>4, DomainIsFinite, SpanClosed
    <3>. QED
      BY <3>1, <3>4, <3>5 DEF w
  <2>. QED
    BY <1>3, <2>1 DEF ShortestBasis, E
<1>12. ResultInv'
  BY <1>1, <1>6, <1>10, <1>11 DEF ResultInv
<1>. QED
  BY <1>1, <1>8, <1>9, <1>12 DEF IInv

(* The invariant is inductive.                                             *)
LEMMA NextIInv == IInv /\ [Next]_vars => IInv'
<1>. SUFFICES ASSUME IInv, [Next]_vars
              PROVE  IInv'
  OBVIOUS
<1>1. CASE StartSize
  BY <1>1, StartSizeKeepsIInv
<1>2. CASE SkipLowMask \/ RejectMask
  BY <1>2, PassedByKeepsIInv
<1>3. CASE AcceptMask
  BY <1>3, AcceptMaskKeepsIInv
<1>4. CASE EndSize
  BY <1>4, EndSizeKeepsIInv
<1>5. CASE Reduce
  BY <1>5, ReduceKeepsIInv
<1>6. CASE UNCHANGED vars
  BY <1>6 DEF IInv, vars, TypeOK, EnumerationInv, ResultInv, ReachedAreSums,
              ShortestBasis, Passed, AllSetsAgree
<1>. QED
  BY <1>1, <1>2, <1>3, <1>4, <1>5, <1>6 DEF Next, Enumerate, Terminated

(* The inductive invariant: the enumeration has kept every mask passed     *)
(* that holds on all sets, shortest first, and after the reduction what    *)
(* they span is spanned by a shortest basis.                               *)
THEOREM Invariance == Spec => []IInv
<1>1. Init => IInv
  BY InitIInv
<1>2. IInv /\ [Next]_vars => IInv'
  BY NextIInv
<1>. QED
  BY <1>1, <1>2, PTL DEF Spec

-----------------------------------------------------------------------------
(* The functions are words of line bits, and the mask has as many bits as  *)
(* the size being tried.                                                   *)
THEOREM TypeCorrect == Spec => []TypeOK
<1>1. IInv => TypeOK
  BY DEF IInv
<1>. QED
  BY <1>1, Invariance, PTL

(* The next word with as many bits, taken again and again from the first   *)
(* mask, passes by no mask of the size that holds on all sets.             *)
THEOREM EnumerationIsComplete == Spec => []EnumerationInv
<1>1. IInv => EnumerationInv
  BY DEF IInv
<1>. QED
  BY <1>1, Invariance, PTL

(* The inputs of the run are some of the vectors of ReductionIsGreedy.     *)
THEOREM ReductionKeepsBasis == Spec => []KeepsGreedyBasis
<1>1. \A v \in Inputs : KeepsGreedyBasisOf(v)
  <2>1. \A v \in Inputs : v \in Seq(SUBSET (0 .. MaxBits - 1))
    BY DeriveAssumption, Bounds
  <2>. QED
    BY <2>1, Bounds, ReductionIsGreedy
<1>2. KeepsGreedyBasis
  BY <1>1 DEF KeepsGreedyBasis, GreedyBasesKept
<1>. QED
  BY <1>2, PTL

(* A bank function within reach holds on all sets, so it was kept, and the *)
(* reduction keeps what the functions kept span.                           *)
LEMMA BanksAreSums ==
  ASSUME IInv, pc = "done", BanksReached
  PROVE  Masks(memory.functions) \subseteq Span(functions)
<1>1. /\ Masks(memory.functions) \subseteq SUBSET LineBit
      /\ \A f \in Masks(memory.functions) : AllSetsAgree(f)
  <2>1. memory \in Memories
    BY DEF IInv
  <2>2. /\ memory.functions \in Seq(SUBSET LineBit)
        /\ \A f \in Masks(memory.functions), set \in memory.sets : SameParity(f, set)
    BY <2>1, DeriveAssumption
  <2>. QED
    BY <2>2 DEF Masks, AllSetsAgree
<1>. QED
  BY <1>1 DEF IInv, ResultInv, ReachedAreSums, BanksReached

(* Whatever addresses were collected, every bank function within reach of  *)
(* the enumeration is a sum of the functions returned.                     *)
THEOREM BankFunctionsAreKept == Spec => []NoBankFunctionLost
<1>1. IInv => NoBankFunctionLost
  BY BanksAreSums DEF NoBankFunctionLost
<1>. QED
  BY <1>1, Invariance, PTL

(* As many independent functions as there are bank functions, which are    *)
(* sums of them, span exactly what the bank functions span.                *)
THEOREM VerdictIsRight == Spec => []FoundIsRight
<1>1. IInv => FoundIsRight
  <2>. SUFFICES ASSUME IInv, found, BanksReached
                PROVE  Span(functions) = Span(memory.functions)
    BY DEF FoundIsRight
  <2>. DEFINE v == functions
              w == memory.functions
  <2>1. /\ v \in Seq(SUBSET LineBit) /\ w \in Seq(SUBSET LineBit)
        /\ Len(v) = Len(w)
        /\ IndependentMasks(v) /\ IndependentMasks(w)
        /\ pc = "done"
    BY DeriveAssumption DEF IInv, TypeOK, ResultInv
  <2>2. \A k \in DOMAIN w : w[k] \in Span(v)
    BY <2>1, BanksAreSums DEF Masks
  <2>. HIDE DEF v, w
  <2>3. DOMAIN v = DOMAIN w /\ IsFiniteSet(DOMAIN v)
    BY <2>1, DomainIsFinite
  <2>4. Span(w) = Span(v)
    BY <2>1, <2>2, <2>3, SameSpan
  <2>. QED
    BY <2>4 DEF v, w
<1>. QED
  BY <1>1, Invariance, PTL

(* Every shorter mask that holds on all sets is a sum of the functions     *)
(* before the one it could have replaced.                                  *)
THEOREM BasisIsShortest == Spec => []ShortestBasis
<1>1. IInv => ShortestBasis
  BY DEF IInv, ResultInv
<1>. QED
  BY <1>1, Invariance, PTL

=============================================================================
