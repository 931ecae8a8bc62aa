------------------------- MODULE SameBankPairsProofs -------------------------
(***************************************************************************)
(* For every pool of addresses, every number of banks and every noise: the *)
(* filter empties no set and every address it keeps has few sure hits; no  *)
(* address is in two sets, and there are as many sets as there should be.  *)
(* With exact timings of the pairs collected the sets are the banks; with  *)
(* exact timings in the filter a large set is of one bank.                 *)
(***************************************************************************)
EXTENDS BankTimings, FiniteSetTheorems, SequenceTheorems, TLAPS

Words == 0 .. Word - 1

(* Removing the element at n moves the later ones forward by one place.    *)
LEMMA RemoveAtProperties ==
  ASSUME NEW S, NEW v \in Seq(S), NEW n \in DOMAIN v
  PROVE  /\ RemoveAt(v, n) \in Seq(S)
         /\ Len(RemoveAt(v, n)) = Len(v) - 1
         /\ \A m \in 1 .. Len(v) - 1 :
              RemoveAt(v, n)[m] = IF m < n THEN v[m] ELSE v[m + 1]
<1> DEFINE a == SubSeq(v, 1, n - 1)
           b == SubSeq(v, n + 1, Len(v))
<1>1. a \in Seq(S) /\ Len(a) = n - 1 /\ \A m \in 1 .. n - 1 : a[m] = v[m]
  BY SubSeqProperties
<1>2. b \in Seq(S) /\ Len(b) = Len(v) - n
  BY SubSeqProperties
<1>3. \A m \in 1 .. Len(v) - n : b[m] = v[n + m]
  BY SubSeqProperties
<1> HIDE DEF a, b
<1>4. RemoveAt(v, n) = a \o b
  BY DEF RemoveAt, a, b
<1>5. a \o b \in Seq(S) /\ Len(a \o b) = Len(v) - 1
  BY <1>1, <1>2
<1>6. ASSUME NEW m \in 1 .. Len(v) - 1
      PROVE  (a \o b)[m] = IF m < n THEN v[m] ELSE v[m + 1]
  <2>1. CASE m < n
    BY <1>1, <1>2, <2>1
  <2>2. CASE m >= n
    <3>1. (a \o b)[m] = b[m - (n - 1)]
      BY <1>1, <1>2, <2>2
    <3> QED
      BY <1>3, <2>2, <3>1
  <2>3. m < n \/ m >= n
    OBVIOUS
  <2> QED
    BY <2>1, <2>2, <2>3
<1> QED
  BY <1>4, <1>5, <1>6

LEMMA SlidIsWord == \A a \in Words : Slid(a) \in Words
BY SameBankAssumption DEF Words, Slid

LEMMA SlideKeepsType ==
  ASSUME NEW v \in Seq(Words)
  PROVE  [n \in DOMAIN v |-> Slid(v[n])] \in Seq(Words)
<1>1. DOMAIN v = 1 .. Len(v) /\ Len(v) \in Nat
  OBVIOUS
<1>2. \A n \in 1 .. Len(v) : Slid(v[n]) \in Words
  BY SlidIsWord
<1>3. [n \in 1 .. Len(v) |-> Slid(v[n])] \in [1 .. Len(v) -> Words]
  BY <1>2
<1> QED
  BY <1>1, <1>3

LEMMA VectorOfWordVectors ==
  ASSUME NEW v \in Seq(Seq(Words)), NEW f,
         f = [k \in DOMAIN v |-> f[k]],
         \A k \in DOMAIN v : f[k] \in Seq(Words)
  PROVE  f \in Seq(Seq(Words))
<1>1. DOMAIN v = 1 .. Len(v) /\ Len(v) \in Nat
  OBVIOUS
<1>2. f \in [1 .. Len(v) -> Seq(Words)]
  BY <1>1
<1> QED
  BY <1>1, <1>2

LEMMA JoinKeepsType ==
  ASSUME NEW S, NEW pairs \in Seq(Seq(S)), NEW k \in DOMAIN pairs, NEW v \in Seq(S)
  PROVE  [pairs EXCEPT ![k] = v] \in Seq(Seq(S))
OBVIOUS

(* The loops keep every variable in its range; physical addresses stay     *)
(* words also when the PCI hole is taken off.                              *)
THEOREM TypeCorrect == Spec => []TypeOK
<1>1. Init => TypeOK
  BY DEF Init, TypeOK
<1>2. TypeOK /\ [Next]_vars => TypeOK'
  <2> SUFFICES ASSUME TypeOK, [Next]_vars PROVE TypeOK'
    OBVIOUS
  <2> USE DEF TypeOK
  <2>1. ASSUME NEW a \in Addr, CollectAddress(a) PROVE TypeOK'
    <3>1. a \in 0 .. Word - 1
      BY SameBankAssumption
    <3>2. CASE JoinSet(a)
      <4>1. PICK k \in DOMAIN sbdr_pairs :
              sbdr_pairs' = [sbdr_pairs EXCEPT ![k] = Append(@, a)]
        BY <3>2 DEF JoinSet
      <4>2. Append(sbdr_pairs[k], a) \in Seq(0 .. Word - 1)
        BY <3>1
      <4>3. sbdr_pairs' \in Seq(Seq(0 .. Word - 1))
        BY <4>1, <4>2, JoinKeepsType
      <4> QED
        BY <2>1, <4>3 DEF CollectAddress
    <3>3. CASE FoundSet(a)
      <4>1. <<a>> \in Seq(0 .. Word - 1)
        BY <3>1
      <4>2. sbdr_pairs' \in Seq(Seq(0 .. Word - 1))
        BY <3>3, <4>1 DEF FoundSet
      <4> QED
        BY <2>1, <4>2 DEF CollectAddress
    <3> QED
      BY <2>1, <3>2, <3>3 DEF CollectAddress
  <2>2. CASE CollectEnd
    BY <2>2 DEF CollectEnd
  <2>3. CASE PruneSet
    <3>1. set \in DOMAIN sbdr_pairs
      BY <2>3 DEF PruneSet
    <3>2. sbdr_pairs' \in Seq(Seq(0 .. Word - 1))
      BY <2>3, <3>1, RemoveAtProperties DEF PruneSet
    <3> QED
      BY <2>3, <3>2 DEF PruneSet
  <2>4. CASE KeepSet
    BY <2>4 DEF KeepSet
  <2>5. CASE PruneEnd
    BY <2>5 DEF PruneEnd
  <2>6. CASE DeleteAddress
    <3>1. set \in DOMAIN sbdr_pairs /\ it \in DOMAIN sbdr_pairs[set]
      BY <2>6 DEF DeleteAddress
    <3>2. RemoveAt(sbdr_pairs[set], it) \in Seq(0 .. Word - 1)
      BY <3>1, RemoveAtProperties
    <3>3. sbdr_pairs' \in Seq(Seq(0 .. Word - 1))
      BY <2>6, <3>1, <3>2, JoinKeepsType DEF DeleteAddress
    <3> QED
      BY <2>6, <3>3 DEF DeleteAddress
  <2>7. CASE KeepAddress
    BY <2>7 DEF KeepAddress
  <2>8. CASE NextSet
    BY <2>8 DEF NextSet
  <2>9. CASE FilterEnd
    BY <2>9 DEF FilterEnd
  <2>10. CASE SlideOffsets
    <3>1. \A k \in DOMAIN sbdr_pairs :
            [n \in DOMAIN sbdr_pairs[k] |-> Slid(sbdr_pairs[k][n])] \in Seq(Words)
      BY SlideKeepsType DEF Words
    <3>2. /\ sbdr_pairs' = [k \in DOMAIN sbdr_pairs |-> sbdr_pairs'[k]]
          /\ \A k \in DOMAIN sbdr_pairs : sbdr_pairs'[k] \in Seq(Words)
      BY <2>10, <3>1 DEF SlideOffsets
    <3>3. sbdr_pairs' \in Seq(Seq(0 .. Word - 1))
      BY <3>2, VectorOfWordVectors DEF Words
    <3> QED
      BY <2>10, <3>3 DEF SlideOffsets
  <2>11. CASE UNCHANGED vars
    BY <2>11 DEF vars
  <2> QED
    BY <2>1, <2>2, <2>3, <2>4, <2>5, <2>6, <2>7, <2>8, <2>9, <2>10, <2>11
       DEF Next, LoopStep, RedrawUsed, Terminated
<1> QED
  BY <1>1, <1>2, PTL DEF Spec

-----------------------------------------------------------------------------
(* The addresses that score against one are other addresses of its set.    *)
LEMMA ScoreBelowLength ==
  ASSUME NEW v \in Seq(Words), NEW n \in DOMAIN v
  PROVE  /\ IsFiniteSet(PossibleHits(v, n))
         /\ Cardinality(PossibleHits(v, n)) <= Len(v) - 1
         /\ Cardinality(PossibleHits(v, n)) \in Nat
<1> DEFINE others == (1 .. Len(v)) \ {n}
<1>1. IsFiniteSet(1 .. Len(v)) /\ Cardinality(1 .. Len(v)) = Len(v)
  BY FS_Interval
<1>2. IsFiniteSet(others) /\ Cardinality(others) = Len(v) - 1
  <2>1. n \in 1 .. Len(v)
    OBVIOUS
  <2> QED
    BY <1>1, <2>1, FS_RemoveElement
<1>3. PossibleHits(v, n) \in SUBSET others
  BY DEF PossibleHits
<1> HIDE DEF others
<1> QED
  BY <1>2, <1>3, FS_Subset, FS_CardinalityType

(* The sets the prune has kept, and then the sets of the filter.           *)
FilterInv ==
  /\ pc = "prune" =>
       \A k \in DOMAIN sbdr_pairs :
         k < set => Len(sbdr_pairs[k]) >= DRAMA_MINIMUM_SET_SIZE
  /\ NoSetEmptied

(* Pruning leaves only full sets, and a deletion takes one address of a    *)
(* set in which at least SUDOKU_FILTER_SCORE + 1 others remain: whatever   *)
(* the timings show, the filter empties no set.                            *)
THEOREM FilterEmptiesNoSet == Spec => []NoSetEmptied
<1>1. Init => FilterInv
  BY DEF Init, FilterInv, NoSetEmptied
<1>2. TypeOK /\ FilterInv /\ [Next]_vars => FilterInv'
  <2> SUFFICES ASSUME TypeOK, FilterInv, [Next]_vars PROVE FilterInv'
    OBVIOUS
  <2> USE DEF FilterInv, NoSetEmptied
  <2>1. ASSUME NEW a \in Addr, CollectAddress(a) PROVE FilterInv'
    BY <2>1 DEF CollectAddress
  <2>2. CASE CollectEnd
    BY <2>2 DEF CollectEnd, TypeOK
  <2>3. CASE PruneSet
    <3>1. set \in DOMAIN sbdr_pairs
      BY <2>3 DEF PruneSet, TypeOK
    <3>2. /\ Len(sbdr_pairs') = Len(sbdr_pairs) - 1
          /\ sbdr_pairs' \in Seq(Seq(Words))
          /\ \A k \in 1 .. Len(sbdr_pairs) - 1 :
               k < set => sbdr_pairs'[k] = sbdr_pairs[k]
      BY <2>3, <3>1, RemoveAtProperties DEF PruneSet, TypeOK, Words
    <3>3. \A k \in DOMAIN sbdr_pairs' :
            k < set => Len(sbdr_pairs'[k]) >= DRAMA_MINIMUM_SET_SIZE
      <4>1. DOMAIN sbdr_pairs' = 1 .. Len(sbdr_pairs) - 1
        BY <3>2
      <4>2. \A k \in DOMAIN sbdr_pairs :
              k < set => Len(sbdr_pairs[k]) >= DRAMA_MINIMUM_SET_SIZE
        BY <2>3 DEF PruneSet
      <4>3. 1 .. Len(sbdr_pairs) - 1 \subseteq DOMAIN sbdr_pairs
        BY DEF TypeOK
      <4> QED
        BY <3>2, <4>1, <4>2, <4>3
    <3> QED
      BY <2>3, <3>3 DEF PruneSet
  <2>4. CASE KeepSet
    BY <2>4 DEF KeepSet, TypeOK
  <2>5. CASE PruneEnd
    <3>1. \A k \in DOMAIN sbdr_pairs : Len(sbdr_pairs[k]) >= DRAMA_MINIMUM_SET_SIZE
      BY <2>5 DEF PruneEnd, TypeOK
    <3>2. \A k \in DOMAIN sbdr_pairs : Len(sbdr_pairs[k]) > SUDOKU_FILTER_SCORE
      BY <3>1, SameBankAssumption DEF TypeOK
    <3> QED
      BY <2>5, <3>2 DEF PruneEnd
  <2>6. CASE DeleteAddress
    <3>1. set \in DOMAIN sbdr_pairs /\ it \in DOMAIN sbdr_pairs[set]
      BY <2>6 DEF DeleteAddress, TypeOK
    <3>2. Len(RemoveAt(sbdr_pairs[set], it)) = Len(sbdr_pairs[set]) - 1
      BY <3>1, RemoveAtProperties DEF TypeOK
    <3>3. Cardinality(PossibleHits(sbdr_pairs[set], it)) > SUDOKU_FILTER_SCORE
      BY <2>6 DEF DeleteAddress
    <3>4. sbdr_pairs[set] \in Seq(Words)
      BY <3>1 DEF TypeOK, Words
    <3>5. Len(sbdr_pairs[set]) - 1 > SUDOKU_FILTER_SCORE
      BY <3>1, <3>3, <3>4, ScoreBelowLength, SameBankAssumption
    <3>6. \A k \in DOMAIN sbdr_pairs' : Len(sbdr_pairs'[k]) > SUDOKU_FILTER_SCORE
      BY <2>6, <3>1, <3>2, <3>5 DEF DeleteAddress
    <3> QED
      BY <2>6, <3>6 DEF DeleteAddress
  <2>7. CASE KeepAddress
    BY <2>7 DEF KeepAddress
  <2>8. CASE NextSet
    BY <2>8 DEF NextSet
  <2>9. CASE FilterEnd
    BY <2>9 DEF FilterEnd
  <2>10. CASE SlideOffsets
    <3>1. \A k \in DOMAIN sbdr_pairs : Len(sbdr_pairs'[k]) = Len(sbdr_pairs[k])
      BY <2>10 DEF SlideOffsets, TypeOK
    <3>2. DOMAIN sbdr_pairs' = DOMAIN sbdr_pairs
      BY <2>10 DEF SlideOffsets
    <3> QED
      BY <2>10, <3>1, <3>2 DEF SlideOffsets
  <2>11. CASE UNCHANGED vars
    BY <2>11 DEF vars
  <2> QED
    BY <2>1, <2>2, <2>3, <2>4, <2>5, <2>6, <2>7, <2>8, <2>9, <2>10, <2>11
       DEF Next, LoopStep, RedrawUsed, Terminated
<1> QED
  BY <1>1, <1>2, TypeCorrect, PTL DEF Spec, FilterInv

-----------------------------------------------------------------------------
(* Deleting a later address takes hits away from an address, and adds none.*)
LEMMA DeletionLowersScore ==
  ASSUME NEW v \in Seq(Words), NEW d \in DOMAIN v, NEW n \in 1 .. d - 1
  PROVE  Cardinality(SureHits(RemoveAt(v, d), n)) <= Cardinality(SureHits(v, n))
<1> DEFINE w == RemoveAt(v, d)
           S == SureHits(w, n)
           T == SureHits(v, n)
           f == [x \in S |-> IF x < d THEN x ELSE x + 1]
<1>1. /\ w \in Seq(Words)
      /\ Len(w) = Len(v) - 1
      /\ \A m \in 1 .. Len(v) - 1 : w[m] = IF m < d THEN v[m] ELSE v[m + 1]
  BY RemoveAtProperties
<1> HIDE DEF w
<1>2. w[n] = v[n]
  BY <1>1
<1>3. ASSUME NEW x \in S PROVE f[x] \in T
  <2>1. /\ x \in 1 .. Len(v) - 1
        /\ w[x] # w[n]
        /\ FilterLatency[<<w[n], w[x]>>] = {"hit"}
    <3>1. x \in DOMAIN w /\ w[x] # w[n] /\ FilterLatency[<<w[n], w[x]>>] = {"hit"}
      BY Zenon DEF SureHits
    <3>2. DOMAIN w = 1 .. Len(v) - 1
      BY <1>1
    <3> QED
      BY <3>1, <3>2
  <2>2. f[x] = IF x < d THEN x ELSE x + 1
    OBVIOUS
  <2>3. f[x] \in DOMAIN v /\ v[f[x]] = w[x]
    BY <1>1, <2>1, <2>2
  <2> QED
    BY <1>2, <2>1, <2>3 DEF SureHits
<1>4. S \subseteq Int
  BY <1>1 DEF SureHits
<1>5. f \in Injection(S, T)
  BY <1>3, <1>4 DEF Injection, IsInjective
<1>6. IsFiniteSet(T)
  <2>1. IsFiniteSet(1 .. Len(v))
    BY FS_Interval
  <2>2. T \in SUBSET (1 .. Len(v))
    BY DEF SureHits
  <2> HIDE DEF T
  <2> QED
    BY <2>1, <2>2, FS_Subset
<1> HIDE DEF S, T, f
<1>7. Cardinality(S) <= Cardinality(T)
  BY <1>5, <1>6, FS_Injection
<1> QED
  BY <1>7 DEF S, T, w

LEMMA SureHitsCount ==
  ASSUME NEW v \in Seq(Words), NEW n
  PROVE  Cardinality(SureHits(v, n)) \in Nat
<1>1. IsFiniteSet(1 .. Len(v))
  BY FS_Interval
<1>2. SureHits(v, n) \in SUBSET (1 .. Len(v))
  BY DEF SureHits
<1> QED
  BY <1>1, <1>2, FS_Subset, FS_CardinalityType

(* An address the filter keeps disagrees with at most SUDOKU_FILTER_SCORE  *)
(* addresses of what is left of its set: deletions after its turn do not   *)
(* take back what its turn has established.                                *)
THEOREM FilterBoundsScores == Spec => []KeptScores
<1>1. Init => KeptScores
  BY DEF Init, KeptScores, Passed
<1>2. TypeOK /\ KeptScores /\ [Next]_vars => KeptScores'
  <2> SUFFICES ASSUME TypeOK, KeptScores, [Next]_vars PROVE KeptScores'
    OBVIOUS
  <2> USE DEF KeptScores, Passed
  <2>1. ASSUME NEW a \in Addr, CollectAddress(a) PROVE KeptScores'
    BY <2>1 DEF CollectAddress
  <2>2. CASE CollectEnd
    BY <2>2 DEF CollectEnd
  <2>3. CASE PruneSet
    BY <2>3 DEF PruneSet
  <2>4. CASE KeepSet
    BY <2>4 DEF KeepSet
  <2>5. CASE PruneEnd
    BY <2>5 DEF PruneEnd, TypeOK
  <2>6. CASE DeleteAddress
    <3>1. set \in DOMAIN sbdr_pairs /\ it \in DOMAIN sbdr_pairs[set]
      BY <2>6 DEF DeleteAddress, TypeOK
    <3>2. sbdr_pairs[set] \in Seq(Words)
      BY <3>1 DEF TypeOK, Words
    <3> SUFFICES ASSUME NEW k \in DOMAIN sbdr_pairs', NEW n \in DOMAIN sbdr_pairs'[k],
                        k < set \/ (k = set /\ n < it)
                 PROVE  Cardinality(SureHits(sbdr_pairs'[k], n)) <= SUDOKU_FILTER_SCORE
      BY <2>6 DEF DeleteAddress
    <3>3. CASE k < set
      <4>1. sbdr_pairs'[k] = sbdr_pairs[k] /\ k \in DOMAIN sbdr_pairs
        BY <2>6, <3>3 DEF DeleteAddress, TypeOK
      <4> QED
        BY <2>6, <3>3, <4>1 DEF DeleteAddress
    <3>4. CASE k = set /\ n < it
      <4>1. sbdr_pairs'[k] = RemoveAt(sbdr_pairs[set], it)
        BY <2>6, <3>1, <3>4 DEF DeleteAddress, TypeOK
      <4>2. RemoveAt(sbdr_pairs[set], it) \in Seq(Words)
        BY <3>1, <3>2, RemoveAtProperties
      <4>3. n \in 1 .. it - 1 /\ n \in DOMAIN sbdr_pairs[set]
        BY <3>1, <3>2, <3>4, <4>1, <4>2
      <4>4. Cardinality(SureHits(sbdr_pairs[set], n)) <= SUDOKU_FILTER_SCORE
        BY <2>6, <3>1, <3>4, <4>3 DEF DeleteAddress
      <4>5. Cardinality(SureHits(sbdr_pairs'[k], n))
              <= Cardinality(SureHits(sbdr_pairs[set], n))
        BY <3>1, <3>2, <4>1, <4>3, DeletionLowersScore
      <4>6. /\ Cardinality(SureHits(sbdr_pairs'[k], n)) \in Nat
            /\ Cardinality(SureHits(sbdr_pairs[set], n)) \in Nat
        BY <3>2, <4>1, <4>2, SureHitsCount
      <4> QED
        BY <4>4, <4>5, <4>6, SameBankAssumption
    <3> QED
      BY <3>3, <3>4
  <2>7. CASE KeepAddress
    BY <2>7 DEF KeepAddress, TypeOK
  <2>8. CASE NextSet
    BY <2>8 DEF NextSet, TypeOK
  <2>9. CASE FilterEnd
    BY <2>9 DEF FilterEnd, TypeOK
  <2>10. CASE SlideOffsets
    BY <2>10 DEF SlideOffsets
  <2>11. CASE UNCHANGED vars
    BY <2>11 DEF vars
  <2> QED
    BY <2>1, <2>2, <2>3, <2>4, <2>5, <2>6, <2>7, <2>8, <2>9, <2>10, <2>11
       DEF Next, LoopStep, RedrawUsed, Terminated
<1> QED
  BY <1>1, <1>2, TypeCorrect, PTL DEF Spec

-----------------------------------------------------------------------------
Once(pairs) ==
  \A k, l \in DOMAIN pairs :
    \A n \in DOMAIN pairs[k], m \in DOMAIN pairs[l] :
      pairs[k][n] = pairs[l][m] => k = l /\ n = m

Occurs(a, pairs) == \E k \in DOMAIN pairs : \E n \in DOMAIN pairs[k] : pairs[k][n] = a

(* A new address joins a set, or founds one.                               *)
LEMMA JoinOnce ==
  ASSUME NEW pairs \in Seq(Seq(Words)), Once(pairs),
         NEW a \in Words, ~Occurs(a, pairs), NEW s \in DOMAIN pairs
  PROVE  Once([pairs EXCEPT ![s] = Append(@, a)])
<1> DEFINE new == [pairs EXCEPT ![s] = Append(@, a)]
<1>1. DOMAIN new = DOMAIN pairs
  OBVIOUS
<1>2. ASSUME NEW k \in DOMAIN pairs, NEW n \in DOMAIN new[k]
      PROVE  \/ n \in DOMAIN pairs[k] /\ new[k][n] = pairs[k][n]
             \/ k = s /\ n = Len(pairs[s]) + 1 /\ new[k][n] = a
  <2>1. CASE k # s
    BY <2>1
  <2>2. CASE k = s
    <3>1. new[k] = Append(pairs[s], a) /\ pairs[s] \in Seq(Words)
      BY <2>2
    <3> HIDE DEF new
    <3> QED
      BY <2>2, <3>1
  <2> QED
    BY <2>1, <2>2
<1> HIDE DEF new
<1>3. SUFFICES ASSUME NEW k \in DOMAIN pairs, NEW l \in DOMAIN pairs,
                      NEW n \in DOMAIN new[k], NEW m \in DOMAIN new[l],
                      new[k][n] = new[l][m]
               PROVE  k = l /\ n = m
  BY <1>1 DEF Once, new
<1> QED
  BY <1>2, <1>3 DEF Once, Occurs

LEMMA FoundOnce ==
  ASSUME NEW pairs \in Seq(Seq(Words)), Once(pairs),
         NEW a \in Words, ~Occurs(a, pairs)
  PROVE  Once(Append(pairs, <<a>>))
<1> DEFINE new == Append(pairs, <<a>>)
<1>1. ASSUME NEW k \in DOMAIN new, NEW n \in DOMAIN new[k]
      PROVE  \/ /\ k \in DOMAIN pairs /\ n \in DOMAIN pairs[k]
                /\ new[k][n] = pairs[k][n]
             \/ k = Len(pairs) + 1 /\ n = 1 /\ new[k][n] = a
  <2>1. CASE k \in DOMAIN pairs
    BY <2>1
  <2>2. CASE k = Len(pairs) + 1
    <3>1. new[k] = <<a>>
      BY <2>2
    <3> HIDE DEF new
    <3> QED
      BY <2>2, <3>1
  <2> QED
    BY <2>1, <2>2
<1> HIDE DEF new
<1>2. SUFFICES ASSUME NEW k \in DOMAIN new, NEW l \in DOMAIN new,
                      NEW n \in DOMAIN new[k], NEW m \in DOMAIN new[l],
                      new[k][n] = new[l][m]
               PROVE  k = l /\ n = m
  BY DEF Once, new
<1> QED
  BY <1>1, <1>2 DEF Once, Occurs

(* A set, or an address of a set, is removed.                              *)
LEMMA PruneOnce ==
  ASSUME NEW pairs \in Seq(Seq(Words)), Once(pairs), NEW s \in DOMAIN pairs
  PROVE  Once(RemoveAt(pairs, s))
<1> DEFINE new == RemoveAt(pairs, s)
           from(k) == IF k < s THEN k ELSE k + 1
<1>1. /\ DOMAIN new = 1 .. Len(pairs) - 1
      /\ \A k \in 1 .. Len(pairs) - 1 : new[k] = pairs[from(k)]
  <2>1. /\ new \in Seq(Seq(Words)) /\ Len(new) = Len(pairs) - 1
        /\ \A k \in 1 .. Len(pairs) - 1 :
             new[k] = IF k < s THEN pairs[k] ELSE pairs[k + 1]
    BY RemoveAtProperties
  <2> HIDE DEF new
  <2>2. DOMAIN new = 1 .. Len(new)
    BY <2>1
  <2>3. ASSUME NEW k \in 1 .. Len(pairs) - 1 PROVE new[k] = pairs[from(k)]
    BY <2>1
  <2> QED
    BY <2>1, <2>2, <2>3
<1> HIDE DEF new
<1>2. ASSUME NEW k \in DOMAIN new
      PROVE  from(k) \in DOMAIN pairs /\ new[k] = pairs[from(k)] /\ k \in Int
  <2>1. k \in 1 .. Len(pairs) - 1
    BY <1>1
  <2>2. from(k) \in DOMAIN pairs
    BY <2>1
  <2>3. k \in Int
    BY <2>1
  <2> HIDE DEF from
  <2> QED
    BY <1>1, <2>1, <2>2, <2>3
<1>3. \A k, l \in DOMAIN new : from(k) = from(l) => k = l
  BY <1>2
<1>4. SUFFICES ASSUME NEW k \in DOMAIN new, NEW l \in DOMAIN new,
                      NEW n \in DOMAIN new[k], NEW m \in DOMAIN new[l],
                      new[k][n] = new[l][m]
               PROVE  k = l /\ n = m
  BY DEF Once, new
<1> HIDE DEF from
<1>5. from(k) = from(l) /\ n = m
  BY <1>2, <1>4 DEF Once
<1> QED
  BY <1>3, <1>5

LEMMA DeleteOnce ==
  ASSUME NEW pairs \in Seq(Seq(Words)), Once(pairs),
         NEW s \in DOMAIN pairs, NEW d \in DOMAIN pairs[s]
  PROVE  Once([pairs EXCEPT ![s] = RemoveAt(@, d)])
<1> DEFINE new == [pairs EXCEPT ![s] = RemoveAt(@, d)]
           from(k, n) == IF k = s /\ n >= d THEN n + 1 ELSE n
<1>1. DOMAIN new = DOMAIN pairs
  OBVIOUS
<1>2. ASSUME NEW k \in DOMAIN pairs, NEW n \in DOMAIN new[k]
      PROVE  /\ from(k, n) \in DOMAIN pairs[k]
             /\ new[k][n] = pairs[k][from(k, n)]
             /\ n \in Int /\ d \in Int
  <2>1. CASE k # s
    BY <2>1
  <2>2. CASE k = s
    <3>1. new[k] = RemoveAt(pairs[s], d) /\ pairs[s] \in Seq(Words)
      BY <2>2
    <3>2. /\ new[k] \in Seq(Words) /\ Len(new[k]) = Len(pairs[s]) - 1
          /\ \A m \in 1 .. Len(pairs[s]) - 1 :
               new[k][m] = IF m < d THEN pairs[s][m] ELSE pairs[s][m + 1]
      BY <3>1, RemoveAtProperties
    <3> HIDE DEF new
    <3>3. n \in 1 .. Len(pairs[s]) - 1 /\ d \in 1 .. Len(pairs[s])
      BY <3>1, <3>2
    <3>4. from(k, n) \in DOMAIN pairs[s]
      BY <2>2, <3>1, <3>3
    <3>5. from(k, n) = IF n < d THEN n ELSE n + 1
      BY <2>2, <3>3
    <3>6. n \in Int /\ d \in Int
      BY <3>3
    <3> HIDE DEF from
    <3>7. new[k][n] = pairs[s][from(k, n)]
      BY <3>2, <3>3, <3>5
    <3> QED
      BY <2>2, <3>4, <3>6, <3>7
  <2> QED
    BY <2>1, <2>2
<1> HIDE DEF new
<1>3. ASSUME NEW k \in DOMAIN pairs, NEW n \in DOMAIN new[k], NEW m \in DOMAIN new[k],
             from(k, n) = from(k, m)
      PROVE  n = m
  BY <1>2, <1>3
<1>4. SUFFICES ASSUME NEW k \in DOMAIN pairs, NEW l \in DOMAIN pairs,
                      NEW n \in DOMAIN new[k], NEW m \in DOMAIN new[l],
                      new[k][n] = new[l][m]
               PROVE  k = l /\ n = m
  BY <1>1 DEF Once, new
<1> HIDE DEF from
<1>5. k = l /\ from(k, n) = from(l, m)
  BY <1>2, <1>4 DEF Once
<1> QED
  BY <1>3, <1>5

(* Words that differ differ without the offset: it wraps, but once.        *)
LEMMA SlidInjective ==
  ASSUME NEW a \in Words, NEW b \in Words, Slid(a) = Slid(b)
  PROVE  a = b
<1>1. Word \in Nat \ {0} /\ PCI_OFFSET \in Nat
  BY SameBankAssumption
<1>2. ASSUME NEW x \in Words
      PROVE  \E q \in Int : x - PCI_OFFSET = q * Word + Slid(x)
  <2>1. ASSUME NEW y \in Int
        PROVE  y \div Word \in Int /\ y = (y \div Word) * Word + (y % Word)
    BY <1>1
  <2>2. x - PCI_OFFSET \in Int
    BY <1>1 DEF Words
  <2> QED
    BY <2>1, <2>2 DEF Slid
<1>3. PICK p \in Int, q \in Int :
        /\ a - PCI_OFFSET = p * Word + Slid(a)
        /\ b - PCI_OFFSET = q * Word + Slid(b)
  BY <1>2
<1>4. a - b = (p - q) * Word
  <2>1. p * Word \in Int /\ q * Word \in Int /\ (p - q) * Word = p * Word - q * Word
    BY <1>1
  <2> QED
    BY <1>1, <1>3, <2>1, SlidIsWord DEF Words
<1>5. a - b \in 1 - Word .. Word - 1
  BY <1>1 DEF Words
<1>6. p - q = 0
  BY <1>1, <1>4, <1>5
<1> QED
  BY <1>1, <1>4, <1>6 DEF Words

(* While addresses are collected the used ones are remembered.             *)
OnceInv ==
  /\ pc = "collect" =>
       \A k \in DOMAIN sbdr_pairs : \A n \in DOMAIN sbdr_pairs[k] :
         sbdr_pairs[k][n] \in used_addresses
  /\ Once(sbdr_pairs)

(* No address gets into two sets or twice into one, whatever the timings   *)
(* show: the redrawing of used addresses, the early end of the search for  *)
(* a set, the loops that erase and the offset all keep them apart.         *)
THEOREM AddressesStayApart == Spec => []EachAddressOnce
<1>1. Init => OnceInv
  BY DEF Init, OnceInv, Once
<1>2. TypeOK /\ OnceInv /\ [Next]_vars => OnceInv'
  <2> SUFFICES ASSUME TypeOK, OnceInv, [Next]_vars PROVE OnceInv'
    OBVIOUS
  <2>0. sbdr_pairs \in Seq(Seq(Words)) /\ Once(sbdr_pairs)
    BY DEF TypeOK, OnceInv, Words
  <2>1. ASSUME NEW a \in Addr, CollectAddress(a) PROVE OnceInv'
    <3>1. a \in Words
      BY SameBankAssumption DEF Words
    <3>2. /\ pc = "collect" /\ a \notin used_addresses
          /\ used_addresses' = used_addresses \cup {a}
          /\ JoinSet(a) \/ FoundSet(a)
      BY <2>1 DEF CollectAddress
    <3>3. \A k \in DOMAIN sbdr_pairs : \A n \in DOMAIN sbdr_pairs[k] :
            sbdr_pairs[k][n] \in used_addresses
      BY <3>2 DEF OnceInv
    <3>4. ~Occurs(a, sbdr_pairs)
      BY <3>2, <3>3 DEF Occurs
    <3>5. CASE JoinSet(a)
      <4>1. PICK s \in DOMAIN sbdr_pairs :
              sbdr_pairs' = [sbdr_pairs EXCEPT ![s] = Append(@, a)]
        BY <3>5 DEF JoinSet
      <4>2. Once(sbdr_pairs')
        BY <2>0, <3>1, <3>4, <4>1, JoinOnce
      <4>3. ASSUME NEW k \in DOMAIN sbdr_pairs', NEW n \in DOMAIN sbdr_pairs'[k]
            PROVE  sbdr_pairs'[k][n] \in used_addresses'
        <5>1. k \in DOMAIN sbdr_pairs
          BY <4>1
        <5>2. CASE k # s
          BY <3>2, <3>3, <4>1, <5>1, <5>2
        <5>3. CASE k = s
          <6>1. sbdr_pairs'[k] = Append(sbdr_pairs[k], a) /\ sbdr_pairs[k] \in Seq(Words)
            BY <2>0, <4>1, <5>1, <5>3
          <6>2. \/ n \in DOMAIN sbdr_pairs[k] /\ sbdr_pairs'[k][n] = sbdr_pairs[k][n]
                \/ sbdr_pairs'[k][n] = a
            BY <3>1, <6>1
          <6> QED
            BY <3>2, <3>3, <5>1, <6>2
        <5> QED
          BY <5>2, <5>3
      <4> QED
        BY <4>2, <4>3 DEF OnceInv, Once
    <3>6. CASE FoundSet(a)
      <4>1. sbdr_pairs' = Append(sbdr_pairs, <<a>>)
        BY <3>6 DEF FoundSet
      <4>2. Once(sbdr_pairs')
        BY <2>0, <3>1, <3>4, <4>1, FoundOnce
      <4>3. ASSUME NEW k \in DOMAIN sbdr_pairs', NEW n \in DOMAIN sbdr_pairs'[k]
            PROVE  sbdr_pairs'[k][n] \in used_addresses'
        <5>1. CASE k \in DOMAIN sbdr_pairs
          BY <2>0, <3>2, <3>3, <4>1, <5>1
        <5>2. CASE k \notin DOMAIN sbdr_pairs
          <6>1. sbdr_pairs'[k] = <<a>>
            BY <2>0, <4>1, <5>2
          <6> QED
            BY <3>2, <6>1
        <5> QED
          BY <5>1, <5>2
      <4> QED
        BY <4>2, <4>3 DEF OnceInv, Once
    <3> QED
      BY <3>2, <3>5, <3>6
  <2>2. CASE PruneSet
    <3>1. set \in DOMAIN sbdr_pairs
      BY <2>2 DEF PruneSet, TypeOK
    <3>2. Once(sbdr_pairs')
      BY <2>0, <2>2, <3>1, PruneOnce DEF PruneSet
    <3> QED
      BY <2>2, <3>2 DEF PruneSet, OnceInv, Once
  <2>3. CASE DeleteAddress
    <3>1. set \in DOMAIN sbdr_pairs /\ it \in DOMAIN sbdr_pairs[set]
      BY <2>3 DEF DeleteAddress, TypeOK
    <3>2. Once(sbdr_pairs')
      BY <2>0, <2>3, <3>1, DeleteOnce DEF DeleteAddress
    <3> QED
      BY <2>3, <3>2 DEF DeleteAddress, OnceInv, Once
  <2>4. CASE SlideOffsets
    <3>1. ASSUME NEW k \in DOMAIN sbdr_pairs, NEW l \in DOMAIN sbdr_pairs,
                 NEW n \in DOMAIN sbdr_pairs[k], NEW m \in DOMAIN sbdr_pairs[l],
                 Slid(sbdr_pairs[k][n]) = Slid(sbdr_pairs[l][m])
          PROVE  k = l /\ n = m
      <4>1. sbdr_pairs[k][n] \in Words /\ sbdr_pairs[l][m] \in Words
        BY <2>0
      <4> QED
        BY <2>0, <3>1, <4>1, SlidInjective DEF Once
    <3>2. Once(sbdr_pairs')
      BY <2>4, <3>1 DEF Once, SlideOffsets
    <3> QED
      BY <2>4, <3>2 DEF SlideOffsets, OnceInv, Once
  <2>5. CASE CollectEnd \/ KeepSet \/ PruneEnd \/ KeepAddress \/ NextSet \/ FilterEnd
    BY <2>0, <2>5
       DEF CollectEnd, KeepSet, PruneEnd, KeepAddress, NextSet, FilterEnd, OnceInv, Once
  <2>6. CASE UNCHANGED vars
    BY <2>6 DEF vars, OnceInv, Once
  <2> QED
    BY <2>1, <2>2, <2>3, <2>4, <2>5, <2>6 DEF Next, LoopStep, RedrawUsed, Terminated
<1>3. OnceInv => EachAddressOnce
  BY DEF OnceInv, Once, EachAddressOnce
<1> QED
  BY <1>1, <1>2, <1>3, TypeCorrect, PTL DEF Spec

-----------------------------------------------------------------------------
LEMMA FullSetsCount ==
  ASSUME NEW pairs \in Seq(Seq(Words))
  PROVE  /\ FullSets(pairs) \subseteq 1 .. Len(pairs)
         /\ IsFiniteSet(FullSets(pairs))
         /\ Cardinality(FullSets(pairs)) \in Nat
<1>1. FullSets(pairs) \in SUBSET (1 .. Len(pairs))
  BY DEF FullSets
<1>2. IsFiniteSet(1 .. Len(pairs))
  BY FS_Interval
<1> QED
  BY <1>1, <1>2, FS_Subset, FS_CardinalityType

(* A set at most becomes full when an address is collected.                *)
LEMMA OneMoreFull ==
  ASSUME NEW pairs \in Seq(Seq(Words)), NEW new \in Seq(Seq(Words)), NEW s,
         FullSets(new) \subseteq FullSets(pairs) \cup {s}
  PROVE  Cardinality(FullSets(new)) <= Cardinality(FullSets(pairs)) + 1
<1>1. /\ IsFiniteSet(FullSets(pairs)) /\ Cardinality(FullSets(pairs)) \in Nat
      /\ Cardinality(FullSets(new)) \in Nat
  BY FullSetsCount
<1>2. /\ IsFiniteSet(FullSets(pairs) \cup {s})
      /\ Cardinality(FullSets(pairs) \cup {s}) <= Cardinality(FullSets(pairs)) + 1
  <2> DEFINE full == FullSets(pairs)
  <2>1. /\ IsFiniteSet(full \cup {s})
        /\ Cardinality(full \cup {s})
             = IF s \in full THEN Cardinality(full) ELSE Cardinality(full) + 1
    BY <1>1, FS_AddElement
  <2>2. Cardinality(full) \in Nat
    BY <1>1
  <2> HIDE DEF full
  <2>3. Cardinality(full \cup {s}) <= Cardinality(full) + 1
    BY <2>1, <2>2
  <2> QED
    BY <2>1, <2>3 DEF full
<1>3. FullSets(new) \in SUBSET (FullSets(pairs) \cup {s})
  OBVIOUS
<1>4. /\ Cardinality(FullSets(new)) <= Cardinality(FullSets(pairs) \cup {s})
      /\ Cardinality(FullSets(pairs) \cup {s}) \in Nat
  BY <1>2, <1>3, FS_Subset, FS_CardinalityType
<1> QED
  BY <1>1, <1>2, <1>4

(* Sets that are not full can be removed.                                  *)
LEMMA PruneSparesFull ==
  ASSUME NEW pairs \in Seq(Seq(Words)), NEW s \in DOMAIN pairs,
         s \notin FullSets(pairs)
  PROVE  Cardinality(FullSets(RemoveAt(pairs, s))) = Cardinality(FullSets(pairs))
<1> DEFINE new == RemoveAt(pairs, s)
           S == FullSets(new)
           T == FullSets(pairs)
           f == [k \in S |-> IF k < s THEN k ELSE k + 1]
<1>1. /\ new \in Seq(Seq(Words)) /\ Len(new) = Len(pairs) - 1
      /\ \A k \in 1 .. Len(pairs) - 1 :
           new[k] = IF k < s THEN pairs[k] ELSE pairs[k + 1]
  BY RemoveAtProperties
<1> HIDE DEF new
<1>2. /\ S = {k \in 1 .. Len(pairs) - 1 : Len(new[k]) >= DRAMA_MINIMUM_SET_SIZE}
      /\ T = {k \in 1 .. Len(pairs) : Len(pairs[k]) >= DRAMA_MINIMUM_SET_SIZE}
      /\ s \in 1 .. Len(pairs) /\ s \notin T
  BY <1>1 DEF FullSets
<1>3. IsFiniteSet(T)
  BY FullSetsCount
<1> HIDE DEF S, T
<1>4. ASSUME NEW k \in S PROVE f[k] \in T /\ f[k] = IF k < s THEN k ELSE k + 1
  <2>1. f[k] = IF k < s THEN k ELSE k + 1
    OBVIOUS
  <2> HIDE DEF f
  <2>2. CASE k < s
    BY <1>1, <1>2, <2>1, <2>2
  <2>3. CASE ~(k < s)
    <3>1. k + 1 \in 1 .. Len(pairs) /\ new[k] = pairs[k + 1]
      BY <1>1, <1>2, <2>3
    <3> QED
      BY <1>2, <2>1, <2>3, <3>1
  <2> QED
    BY <2>2, <2>3
<1>5. f \in Injection(S, T)
  <2>1. f \in [S -> T]
    BY <1>4
  <2>2. ASSUME NEW k \in S, NEW l \in S, f[k] = f[l] PROVE k = l
    <3>1. k \in Int /\ l \in Int /\ s \in Int
      BY <1>2
    <3> HIDE DEF f
    <3> QED
      BY <1>4, <2>2, <3>1
  <2> HIDE DEF f
  <2> QED
    BY <2>1, <2>2 DEF Injection, IsInjective
<1>6. f \in Surjection(S, T)
  <2>1. ASSUME NEW k \in T PROVE \E l \in S : f[l] = k
    <3>1. CASE k < s
      <4>1. k \in S
        BY <1>1, <1>2, <3>1
      <4> QED
        BY <3>1, <4>1
    <3>2. CASE ~(k < s)
      <4>1. k \in 2 .. Len(pairs) /\ k > s
        BY <1>2, <3>2
      <4>2. k - 1 \in S /\ ~(k - 1 < s) /\ (k - 1) + 1 = k
        <5>1. k - 1 \in 1 .. Len(pairs) - 1 /\ ~(k - 1 < s) /\ (k - 1) + 1 = k
          BY <1>2, <4>1
        <5>2. new[k - 1] = pairs[k]
          BY <1>1, <5>1
        <5> QED
          BY <1>2, <5>1, <5>2
      <4> QED
        BY <4>2
    <3> QED
      BY <3>1, <3>2
  <2>2. f \in [S -> T]
    BY <1>4
  <2> HIDE DEF f
  <2> QED
    BY <2>1, <2>2 DEF Surjection
<1>7. Cardinality(S) = Cardinality(T)
  BY <1>3, <1>5, <1>6, FS_Injection
<1> QED
  BY <1>7 DEF S, T, new

(* The prune has passed full sets only, and removes none of them; the      *)
(* filter and the offset keep the sets and may make them shorter.          *)
SizesInv ==
  /\ SetsMatchBanks
  /\ pc = "prune" =>
       /\ Cardinality(FullSets(sbdr_pairs)) = NumBanks \div 2
       /\ \A k \in DOMAIN sbdr_pairs : k < set => k \in FullSets(sbdr_pairs)

(* The test with == is never passed by, as an address makes one set full   *)
(* at most; what the prune leaves are the full sets, so that the filter    *)
(* and the derivation work on half as many sets as there are banks.        *)
THEOREM SetsAreCounted == Spec => []SetsMatchBanks
<1> DEFINE half == NumBanks \div 2
<1>0. half \in Nat
  BY SameBankAssumption
<1>1. Init => SizesInv
  <2> SUFFICES ASSUME Init PROVE SizesInv
    OBVIOUS
  <2>1. FullSets(sbdr_pairs) = {}
    BY DEF Init, FullSets
  <2>2. Cardinality(FullSets(sbdr_pairs)) = 0
    BY <2>1, FS_EmptySet
  <2> QED
    BY <1>0, <2>2 DEF Init, SizesInv, SetsMatchBanks
<1> HIDE DEF half
<1>2. TypeOK /\ TypeOK' /\ SizesInv /\ [Next]_vars => SizesInv'
  <2> SUFFICES ASSUME TypeOK, TypeOK', SizesInv, [Next]_vars PROVE SizesInv'
    OBVIOUS
  <2>0. /\ sbdr_pairs \in Seq(Seq(Words)) /\ sbdr_pairs' \in Seq(Seq(Words))
        /\ Cardinality(FullSets(sbdr_pairs)) \in Nat
        /\ Cardinality(FullSets(sbdr_pairs')) \in Nat
        /\ Cardinality(FullSets(sbdr_pairs)) <= half
        /\ DRAMA_MINIMUM_SET_SIZE \in Nat
    BY FullSetsCount, SameBankAssumption DEF TypeOK, Words, SizesInv, SetsMatchBanks, half
  <2>1. ASSUME NEW a \in Addr, CollectAddress(a) PROVE SizesInv'
    <3>1. /\ pc' = "collect"
          /\ Cardinality(FullSets(sbdr_pairs)) # half
          /\ JoinSet(a) \/ FoundSet(a)
      BY <2>1 DEF CollectAddress, EnoughSameBankPairs, half
    <3>2. PICK s : FullSets(sbdr_pairs') \subseteq FullSets(sbdr_pairs) \cup {s}
      <4>1. CASE JoinSet(a)
        <5>1. PICK s \in DOMAIN sbdr_pairs :
                sbdr_pairs' = [sbdr_pairs EXCEPT ![s] = Append(@, a)]
          BY <4>1 DEF JoinSet
        <5>2. ASSUME NEW k \in FullSets(sbdr_pairs'), k # s
              PROVE  k \in FullSets(sbdr_pairs)
          BY <5>1, <5>2 DEF FullSets
        <5> QED
          BY <5>2
      <4>2. CASE FoundSet(a)
        <5>1. sbdr_pairs' = Append(sbdr_pairs, <<a>>)
          BY <4>2 DEF FoundSet
        <5>2. ASSUME NEW k \in FullSets(sbdr_pairs'), k # Len(sbdr_pairs) + 1
              PROVE  k \in FullSets(sbdr_pairs)
          <6>1. k \in DOMAIN sbdr_pairs
            BY <2>0, <5>1, <5>2 DEF FullSets
          <6>2. sbdr_pairs'[k] = sbdr_pairs[k]
            BY <2>0, <5>1, <6>1
          <6> QED
            BY <6>1, <6>2 DEF FullSets
        <5> QED
          BY <5>2
      <4> QED
        BY <3>1, <4>1, <4>2
    <3>3. Cardinality(FullSets(sbdr_pairs')) <= Cardinality(FullSets(sbdr_pairs)) + 1
      BY <2>0, <3>2, OneMoreFull
    <3> QED
      BY <1>0, <2>0, <3>1, <3>3 DEF SizesInv, SetsMatchBanks, half
  <2>2. CASE CollectEnd
    BY <2>0, <2>2
       DEF CollectEnd, EnoughSameBankPairs, SizesInv, SetsMatchBanks, TypeOK
  <2>3. CASE PruneSet
    <3>1. /\ pc = "prune" /\ pc' = "prune" /\ set' = set
          /\ set \in DOMAIN sbdr_pairs /\ set \notin FullSets(sbdr_pairs)
          /\ sbdr_pairs' = RemoveAt(sbdr_pairs, set)
      BY <2>0, <2>3 DEF PruneSet, TypeOK, FullSets
    <3>2. Cardinality(FullSets(sbdr_pairs')) = Cardinality(FullSets(sbdr_pairs))
      BY <2>0, <3>1, PruneSparesFull
    <3>3. ASSUME NEW k \in DOMAIN sbdr_pairs', k < set'
          PROVE  k \in FullSets(sbdr_pairs')
      <4>1. /\ Len(sbdr_pairs') = Len(sbdr_pairs) - 1
            /\ \A l \in 1 .. Len(sbdr_pairs) - 1 :
                 sbdr_pairs'[l] = IF l < set THEN sbdr_pairs[l] ELSE sbdr_pairs[l + 1]
        BY <2>0, <3>1, RemoveAtProperties
      <4>2. k \in 1 .. Len(sbdr_pairs) - 1 /\ k \in DOMAIN sbdr_pairs /\ k < set
        BY <2>0, <3>1, <3>3, <4>1
      <4>3. sbdr_pairs'[k] = sbdr_pairs[k]
        BY <4>1, <4>2
      <4>4. k \in FullSets(sbdr_pairs)
        BY <3>1, <4>2 DEF SizesInv
      <4> QED
        BY <3>3, <4>3, <4>4 DEF FullSets
    <3> QED
      BY <3>1, <3>2, <3>3 DEF SizesInv, SetsMatchBanks
  <2>4. CASE KeepSet
    <3>1. /\ pc = "prune" /\ pc' = "prune" /\ sbdr_pairs' = sbdr_pairs
          /\ set \in Nat /\ set' = set + 1 /\ set \in FullSets(sbdr_pairs)
      BY <2>0, <2>4 DEF KeepSet, FullSets, TypeOK
    <3>2. ASSUME NEW k \in DOMAIN sbdr_pairs, k < set + 1
          PROVE  k \in FullSets(sbdr_pairs)
      <4>1. k < set \/ k = set
        BY <2>0, <3>1, <3>2
      <4> QED
        BY <3>1, <4>1 DEF SizesInv
    <3> QED
      BY <3>1, <3>2 DEF SizesInv, SetsMatchBanks
  <2>5. CASE PruneEnd
    <3>1. /\ pc = "prune" /\ pc' = "filter" /\ sbdr_pairs' = sbdr_pairs
          /\ set > Len(sbdr_pairs) /\ set \in Nat
      BY <2>5 DEF PruneEnd, TypeOK
    <3>2. FullSets(sbdr_pairs) = 1 .. Len(sbdr_pairs)
      <4>1. ASSUME NEW k \in 1 .. Len(sbdr_pairs) PROVE k \in FullSets(sbdr_pairs)
        <5>1. k \in DOMAIN sbdr_pairs /\ k < set
          BY <2>0, <3>1
        <5> QED
          BY <3>1, <5>1 DEF SizesInv
      <4> QED
        BY <2>0, <4>1, FullSetsCount
    <3>3. Cardinality(1 .. Len(sbdr_pairs)) = Len(sbdr_pairs)
      <4>1. ASSUME NEW n \in Nat PROVE Cardinality(1 .. n) = n
        BY FS_Interval
      <4>2. Len(sbdr_pairs) \in Nat
        BY <2>0
      <4> QED
        BY <4>1, <4>2
    <3> QED
      BY <3>1, <3>2, <3>3 DEF SizesInv, SetsMatchBanks
  <2>6. CASE DeleteAddress \/ SlideOffsets
    <3>1. /\ pc \in {"filter", "slide"} /\ pc' \in {"filter", "slide", "done"}
          /\ DOMAIN sbdr_pairs' = DOMAIN sbdr_pairs
          /\ \A k \in DOMAIN sbdr_pairs : Len(sbdr_pairs'[k]) <= Len(sbdr_pairs[k])
      <4>1. CASE DeleteAddress
        <5>1. set \in DOMAIN sbdr_pairs /\ it \in DOMAIN sbdr_pairs[set]
          BY <4>1 DEF DeleteAddress, TypeOK
        <5>2. Len(RemoveAt(sbdr_pairs[set], it)) = Len(sbdr_pairs[set]) - 1
          BY <2>0, <5>1, RemoveAtProperties
        <5> QED
          BY <2>0, <4>1, <5>1, <5>2 DEF DeleteAddress
      <4>2. CASE SlideOffsets
        BY <2>0, <4>2 DEF SlideOffsets
      <4> QED
        BY <2>6, <4>1, <4>2
    <3>2. FullSets(sbdr_pairs') \in SUBSET FullSets(sbdr_pairs)
      <4>1. ASSUME NEW k \in FullSets(sbdr_pairs') PROVE k \in FullSets(sbdr_pairs)
        <5>1. /\ k \in DOMAIN sbdr_pairs
              /\ sbdr_pairs[k] \in Seq(Words) /\ sbdr_pairs'[k] \in Seq(Words)
              /\ Len(sbdr_pairs'[k]) >= DRAMA_MINIMUM_SET_SIZE
          BY <2>0, <3>1, <4>1 DEF FullSets
        <5> QED
          BY <2>0, <3>1, <5>1 DEF FullSets
      <4> QED
        BY <4>1
    <3>3. Cardinality(FullSets(sbdr_pairs')) <= Cardinality(FullSets(sbdr_pairs))
      BY <2>0, <3>2, FullSetsCount, FS_Subset
    <3>4. Len(sbdr_pairs') = Len(sbdr_pairs)
      BY <2>0, <3>1
    <3>5. Len(sbdr_pairs) = half
      BY <3>1 DEF SizesInv, SetsMatchBanks, half
    <3> QED
      BY <1>0, <2>0, <3>1, <3>3, <3>4, <3>5 DEF SizesInv, SetsMatchBanks, half
  <2>7. CASE KeepAddress \/ NextSet \/ FilterEnd
    BY <2>7 DEF KeepAddress, NextSet, FilterEnd, SizesInv, SetsMatchBanks
  <2>8. CASE UNCHANGED vars
    BY <2>8 DEF vars, SizesInv, SetsMatchBanks
  <2> QED
    BY <2>1, <2>2, <2>3, <2>4, <2>5, <2>6, <2>7, <2>8
       DEF Next, LoopStep, RedrawUsed, Terminated
<1>3. SizesInv => SetsMatchBanks
  BY DEF SizesInv
<1> QED
  BY <1>1, <1>2, <1>3, TypeCorrect, PTL DEF Spec

-----------------------------------------------------------------------------
(* Before the offsets are taken off, the sets hold addresses of the pool.  *)
PoolInv == pc # "done" => sbdr_pairs \in Seq(Seq(Addr))

LEMMA SetsAreOfThePool == Spec => []PoolInv
<1>1. Init => PoolInv
  BY DEF Init, PoolInv
<1>2. TypeOK /\ PoolInv /\ [Next]_vars => PoolInv'
  <2>. SUFFICES ASSUME TypeOK, PoolInv, [Next]_vars PROVE PoolInv'
    OBVIOUS
  <2>. USE DEF PoolInv
  <2>1. ASSUME NEW a \in Addr, CollectAddress(a) PROVE PoolInv'
    <3>1. sbdr_pairs \in Seq(Seq(Addr)) /\ (JoinSet(a) \/ FoundSet(a))
      BY <2>1 DEF CollectAddress
    <3>2. CASE JoinSet(a)
      <4>1. PICK k \in DOMAIN sbdr_pairs :
              sbdr_pairs' = [sbdr_pairs EXCEPT ![k] = Append(@, a)]
        BY <3>2 DEF JoinSet
      <4>2. Append(sbdr_pairs[k], a) \in Seq(Addr)
        BY <3>1
      <4>3. [sbdr_pairs EXCEPT ![k] = Append(sbdr_pairs[k], a)] \in Seq(Seq(Addr))
        BY <3>1, <4>2, JoinKeepsType
      <4>. QED
        BY <4>1, <4>3
    <3>3. CASE FoundSet(a)
      BY <3>1, <3>3 DEF FoundSet
    <3>. QED
      BY <3>1, <3>2, <3>3
  <2>2. CASE PruneSet
    <3>1. set \in DOMAIN sbdr_pairs /\ sbdr_pairs \in Seq(Seq(Addr))
      BY <2>2 DEF PruneSet, TypeOK
    <3>2. RemoveAt(sbdr_pairs, set) \in Seq(Seq(Addr))
      BY <3>1, RemoveAtProperties
    <3>. QED
      BY <2>2, <3>2 DEF PruneSet
  <2>3. CASE DeleteAddress
    <3>1. /\ set \in DOMAIN sbdr_pairs /\ it \in DOMAIN sbdr_pairs[set]
          /\ sbdr_pairs \in Seq(Seq(Addr)) /\ sbdr_pairs[set] \in Seq(Addr)
      BY <2>3 DEF DeleteAddress, TypeOK
    <3>2. RemoveAt(sbdr_pairs[set], it) \in Seq(Addr)
      BY <3>1, RemoveAtProperties
    <3>3. [sbdr_pairs EXCEPT ![set] = RemoveAt(sbdr_pairs[set], it)] \in Seq(Seq(Addr))
      BY <3>1, <3>2, JoinKeepsType
    <3>. QED
      BY <2>3, <3>3 DEF DeleteAddress
  <2>4. CASE CollectEnd \/ KeepSet \/ PruneEnd \/ KeepAddress \/ NextSet \/ FilterEnd
    BY <2>4 DEF CollectEnd, KeepSet, PruneEnd, KeepAddress, NextSet, FilterEnd
  <2>5. CASE SlideOffsets
    BY <2>5 DEF SlideOffsets
  <2>6. CASE UNCHANGED vars
    BY <2>6 DEF vars
  <2>. QED
    BY <2>1, <2>2, <2>3, <2>4, <2>5, <2>6 DEF Next, LoopStep, RedrawUsed, Terminated
<1>. QED
  BY <1>1, <1>2, TypeCorrect, PTL DEF Spec

(* What the collection keeps: a set is of the bank of its base; the bases  *)
(* of two sets do not conflict, so of all sets of a bank only the first    *)
(* grows.                                                                  *)
Sorted(pairs) ==
  /\ \A k \in DOMAIN pairs :
       /\ Len(pairs[k]) >= 1
       /\ \A n \in DOMAIN pairs[k] : BankOf[pairs[k][n]] = BankOf[pairs[k][1]]
  /\ \A k, l \in DOMAIN pairs :
       k < l => /\ ~Conflicts(pairs[k][1], pairs[l][1])
                /\ Len(pairs[l]) > 1 => BankOf[pairs[k][1]] # BankOf[pairs[l][1]]

Banked(pairs) ==
  \A k, l \in DOMAIN pairs :
    \A n \in DOMAIN pairs[k], m \in DOMAIN pairs[l] :
      Len(pairs[k]) > 1 /\ Len(pairs[l]) > 1 =>
        (BankOf[pairs[k][n]] = BankOf[pairs[l][m]] <=> k = l)

(* Sets sorted like that are banks.                                        *)
LEMMA SortedAreBanked ==
  ASSUME NEW pairs \in Seq(Seq(Addr)), Sorted(pairs)
  PROVE  Banked(pairs)
<1>. SUFFICES ASSUME NEW k \in DOMAIN pairs, NEW l \in DOMAIN pairs,
                     NEW n \in DOMAIN pairs[k], NEW m \in DOMAIN pairs[l],
                     Len(pairs[k]) > 1, Len(pairs[l]) > 1
              PROVE  BankOf[pairs[k][n]] = BankOf[pairs[l][m]] <=> k = l
  BY DEF Banked
<1>1. /\ BankOf[pairs[k][n]] = BankOf[pairs[k][1]]
      /\ BankOf[pairs[l][m]] = BankOf[pairs[l][1]]
  BY DEF Sorted
<1>2. k < l \/ l < k => BankOf[pairs[k][1]] # BankOf[pairs[l][1]]
  BY DEF Sorted
<1>. QED
  BY <1>1, <1>2

(* An address that joins the first set whose base it conflicts with.       *)
LEMMA JoinSorted ==
  ASSUME NEW pairs \in Seq(Seq(Addr)), Sorted(pairs), NEW a \in Addr,
         NEW s \in DOMAIN pairs, Conflicts(pairs[s][1], a),
         \A l \in 1 .. s - 1 : ~Conflicts(pairs[l][1], a)
  PROVE  Sorted([pairs EXCEPT ![s] = Append(@, a)])
<1>. DEFINE new == [pairs EXCEPT ![s] = Append(@, a)]
<1>1. DOMAIN new = DOMAIN pairs
  OBVIOUS
<1>2. ASSUME NEW k \in DOMAIN pairs
      PROVE  /\ new[k][1] = pairs[k][1] /\ Len(new[k]) >= 1
             /\ k # s => new[k] = pairs[k]
             /\ \A n \in DOMAIN new[k] : BankOf[new[k][n]] = BankOf[pairs[k][1]]
  <2>1. Len(pairs[k]) >= 1 /\ pairs[k] \in Seq(Addr)
    BY DEF Sorted
  <2>2. CASE k = s
    <3>1. new[k] = Append(pairs[k], a)
      BY <2>2
    <3>2. /\ new[k][1] = pairs[k][1] /\ Len(new[k]) >= 1
          /\ \A n \in DOMAIN new[k] :
               \/ n \in DOMAIN pairs[k] /\ new[k][n] = pairs[k][n]
               \/ new[k][n] = a
      BY <2>1, <3>1
    <3>3. BankOf[a] = BankOf[pairs[k][1]]
      BY <2>2 DEF Conflicts
    <3>4. \A n \in DOMAIN pairs[k] : BankOf[pairs[k][n]] = BankOf[pairs[k][1]]
      BY DEF Sorted
    <3>. QED
      BY <2>2, <3>2, <3>3, <3>4
  <2>3. CASE k # s
    BY <2>1, <2>3 DEF Sorted
  <2>. QED
    BY <2>2, <2>3
<1>3. ASSUME NEW k \in DOMAIN pairs, k < s
      PROVE  BankOf[pairs[k][1]] # BankOf[pairs[s][1]]
  (* Two bases of a bank are in one row, so a would conflict with both.    *)
  <2>1. ~Conflicts(pairs[k][1], pairs[s][1])
    BY <1>3 DEF Sorted
  <2>2. ~Conflicts(pairs[k][1], a)
    <3>1. k \in 1 .. s - 1
      BY <1>3
    <3>. QED
      BY <3>1
  <2>. QED
    BY <2>1, <2>2 DEF Conflicts
<1>4. ASSUME NEW k \in DOMAIN pairs, NEW l \in DOMAIN pairs, k < l
      PROVE  /\ ~Conflicts(new[k][1], new[l][1])
             /\ Len(new[l]) > 1 => BankOf[new[k][1]] # BankOf[new[l][1]]
  <2>1. ~Conflicts(pairs[k][1], pairs[l][1])
    BY <1>4 DEF Sorted
  <2>2. Len(new[l]) > 1 => BankOf[pairs[k][1]] # BankOf[pairs[l][1]]
    BY <1>2, <1>3, <1>4 DEF Sorted
  <2>. QED
    BY <1>2, <2>1, <2>2
<1>. HIDE DEF new
<1>5. Sorted(new)
  BY <1>1, <1>2, <1>4 DEF Sorted
<1>. QED
  BY <1>5 DEF new

(* An address that conflicts with no base.                                 *)
LEMMA FoundSorted ==
  ASSUME NEW pairs \in Seq(Seq(Addr)), Sorted(pairs), NEW a \in Addr,
         \A k \in DOMAIN pairs : ~Conflicts(pairs[k][1], a)
  PROVE  Sorted(Append(pairs, <<a>>))
<1>. DEFINE new == Append(pairs, <<a>>)
<1>1. /\ DOMAIN new = 1 .. Len(pairs) + 1 /\ DOMAIN pairs = 1 .. Len(pairs)
      /\ \A k \in DOMAIN pairs : new[k] = pairs[k]
      /\ new[Len(pairs) + 1] = <<a>> /\ Len(pairs) \in Nat
  OBVIOUS
<1>2. Len(<<a>>) = 1 /\ DOMAIN <<a>> = {1} /\ <<a>>[1] = a
  OBVIOUS
<1>. HIDE DEF new
<1>3. ASSUME NEW k \in DOMAIN new
      PROVE  /\ Len(new[k]) >= 1
             /\ \A n \in DOMAIN new[k] : BankOf[new[k][n]] = BankOf[new[k][1]]
  <2>1. CASE k \in DOMAIN pairs
    <3>1. new[k] = pairs[k]
      BY <1>1, <2>1
    <3>. QED
      BY <2>1, <3>1 DEF Sorted
  <2>2. CASE k = Len(pairs) + 1
    <3>1. new[k] = <<a>>
      BY <1>1, <2>2
    <3>. QED
      BY <1>2, <3>1
  <2>. QED
    BY <1>1, <2>1, <2>2
<1>4. ASSUME NEW k \in DOMAIN new, NEW l \in DOMAIN new, k < l
      PROVE  /\ ~Conflicts(new[k][1], new[l][1])
             /\ Len(new[l]) > 1 => BankOf[new[k][1]] # BankOf[new[l][1]]
  <2>1. k \in DOMAIN pairs
    BY <1>1, <1>4
  <2>2. CASE l \in DOMAIN pairs
    <3>1. new[k] = pairs[k] /\ new[l] = pairs[l]
      BY <1>1, <2>1, <2>2
    <3>. QED
      BY <1>4, <2>1, <2>2, <3>1 DEF Sorted
  <2>3. CASE l = Len(pairs) + 1
    <3>1. new[k] = pairs[k] /\ new[l] = <<a>>
      BY <1>1, <2>1, <2>3
    <3>. QED
      BY <1>2, <2>1, <3>1
  <2>. QED
    BY <1>1, <2>2, <2>3
<1>5. Sorted(new)
  BY <1>3, <1>4 DEF Sorted
<1>. QED
  BY <1>5 DEF new

(* Erasing a set or an address leaves no set with a bank it had not.       *)
LEMMA PruneBanked ==
  ASSUME NEW pairs \in Seq(Seq(Addr)), Banked(pairs), NEW s \in DOMAIN pairs
  PROVE  Banked(RemoveAt(pairs, s))
<1>. DEFINE new == RemoveAt(pairs, s)
            from(k) == IF k < s THEN k ELSE k + 1
<1>1. /\ DOMAIN new = 1 .. Len(pairs) - 1
      /\ \A k \in 1 .. Len(pairs) - 1 : new[k] = pairs[from(k)]
  <2>1. /\ new \in Seq(Seq(Addr)) /\ Len(new) = Len(pairs) - 1
        /\ \A k \in 1 .. Len(pairs) - 1 :
             new[k] = IF k < s THEN pairs[k] ELSE pairs[k + 1]
    BY RemoveAtProperties
  <2>. QED
    BY <2>1
<1>2. \A k, l \in 1 .. Len(pairs) - 1 :
        from(k) \in DOMAIN pairs /\ (from(k) = from(l) <=> k = l)
  OBVIOUS
<1>. HIDE DEF new, from
<1>3. ASSUME NEW k \in DOMAIN new, NEW l \in DOMAIN new,
             NEW n \in DOMAIN new[k], NEW m \in DOMAIN new[l],
             Len(new[k]) > 1, Len(new[l]) > 1
      PROVE  BankOf[new[k][n]] = BankOf[new[l][m]] <=> k = l
  <2>1. /\ from(k) \in DOMAIN pairs /\ from(l) \in DOMAIN pairs
        /\ from(k) = from(l) <=> k = l
        /\ new[k] = pairs[from(k)] /\ new[l] = pairs[from(l)]
    BY <1>1, <1>2
  <2>. QED
    BY <1>3, <2>1 DEF Banked
<1>. QED
  BY <1>3 DEF new, Banked

(* Erasing an address from a set spoils nothing: what stays was there.     *)
LEMMA DeleteBanked ==
  ASSUME NEW pairs \in Seq(Seq(Addr)), Banked(pairs),
         NEW s \in DOMAIN pairs, NEW d \in DOMAIN pairs[s]
  PROVE  Banked([pairs EXCEPT ![s] = RemoveAt(@, d)])
<1>. DEFINE new == [pairs EXCEPT ![s] = RemoveAt(@, d)]
<1>1. DOMAIN new = DOMAIN pairs
  OBVIOUS
<1>2. ASSUME NEW k \in DOMAIN pairs
      PROVE  /\ Len(new[k]) > 1 => Len(pairs[k]) > 1
             /\ \A n \in DOMAIN new[k] :
                  \E m \in DOMAIN pairs[k] : new[k][n] = pairs[k][m]
  <2>1. CASE k = s
    <3>1. pairs[k] \in Seq(Addr) /\ new[k] = RemoveAt(pairs[k], d)
      BY <2>1
    <3>2. /\ new[k] \in Seq(Addr) /\ Len(new[k]) = Len(pairs[k]) - 1
          /\ \A m \in 1 .. Len(pairs[k]) - 1 :
               new[k][m] = IF m < d THEN pairs[k][m] ELSE pairs[k][m + 1]
      BY <2>1, <3>1, RemoveAtProperties
    <3>. HIDE DEF new
    <3>3. DOMAIN new[k] = 1 .. Len(pairs[k]) - 1 /\ DOMAIN pairs[k] = 1 .. Len(pairs[k])
          /\ Len(pairs[k]) \in Nat
      BY <3>1, <3>2
    <3>4. d \in DOMAIN pairs[k]
      BY <2>1
    <3>5. ASSUME NEW n \in DOMAIN new[k]
          PROVE  \E m \in DOMAIN pairs[k] : new[k][n] = pairs[k][m]
      <4>1. n \in DOMAIN pairs[k] /\ n + 1 \in DOMAIN pairs[k]
        BY <3>3
      <4>2. new[k][n] = pairs[k][n] \/ new[k][n] = pairs[k][n + 1]
        BY <3>2, <3>3
      <4>. QED
        BY <4>1, <4>2
    <3>6. Len(new[k]) > 1 => Len(pairs[k]) > 1
      <4>1. \A x \in Nat : x - 1 > 1 => x > 1
        OBVIOUS
      <4>2. Len(new[k]) = Len(pairs[k]) - 1 /\ Len(pairs[k]) \in Nat
        BY <3>2, <3>3
      <4>. QED
        BY <4>1, <4>2
    <3>. QED
      BY <3>5, <3>6
  <2>2. CASE k # s
    BY <2>2
  <2>. QED
    BY <2>1, <2>2
<1>. HIDE DEF new
<1>3. Banked(new)
  BY <1>1, <1>2 DEF Banked
<1>. QED
  BY <1>3 DEF new

(* While addresses are collected the sets are sorted by bank; afterwards   *)
(* those of two or more still are, until the offset is taken off.          *)
BankInv ==
  /\ pc = "collect" => Sorted(sbdr_pairs)
  /\ pc # "done" => Banked(sbdr_pairs)

(* With exact timings, whatever the order in which addresses are drawn,    *)
(* the sets of two or more are those of different banks, and stay so while *)
(* sets and addresses are erased.                                          *)
THEOREM ExactSetsAreBanks ==
  ASSUME CollectLatency = ExactLatency
  PROVE  Spec => []SetsAreBanks
<1>1. Init => BankInv
  BY DEF Init, BankInv, Sorted, Banked
<1>2. TypeOK /\ PoolInv /\ PoolInv' /\ BankInv /\ [Next]_vars => BankInv'
  <2>. SUFFICES ASSUME TypeOK, PoolInv, PoolInv', BankInv, [Next]_vars PROVE BankInv'
    OBVIOUS
  <2>1. ASSUME NEW a \in Addr, CollectAddress(a) PROVE BankInv'
    <3>1. /\ sbdr_pairs \in Seq(Seq(Addr)) /\ Sorted(sbdr_pairs) /\ pc = "collect"
          /\ sbdr_pairs' \in Seq(Seq(Addr)) /\ pc' = "collect"
          /\ JoinSet(a) \/ FoundSet(a)
      BY <2>1 DEF CollectAddress, BankInv, PoolInv
    <3>2. ASSUME NEW k \in DOMAIN sbdr_pairs
          PROVE  /\ MayConflict(k, a) => Conflicts(sbdr_pairs[k][1], a)
                 /\ MayMiss(k, a) => ~Conflicts(sbdr_pairs[k][1], a)
      <4>1. sbdr_pairs[k][1] \in Addr
        BY <3>1 DEF Sorted
      <4>2. CollectLatency[<<sbdr_pairs[k][1], a>>]
              = IF Conflicts(sbdr_pairs[k][1], a) THEN {"conflict"} ELSE {"hit"}
        BY <4>1 DEF ExactLatency
      <4>. QED
        BY <4>2 DEF MayConflict, MayMiss
    <3>3. ASSUME JoinSet(a) PROVE Sorted(sbdr_pairs')
      <4>1. PICK k \in DOMAIN sbdr_pairs :
              /\ MayConflict(k, a)
              /\ \A l \in 1 .. k - 1 : MayMiss(l, a)
              /\ sbdr_pairs' = [sbdr_pairs EXCEPT ![k] = Append(@, a)]
        BY <3>3 DEF JoinSet
      <4>2. \A l \in 1 .. k - 1 : l \in DOMAIN sbdr_pairs
        BY <3>1
      <4>3. /\ Conflicts(sbdr_pairs[k][1], a)
            /\ \A l \in 1 .. k - 1 : ~Conflicts(sbdr_pairs[l][1], a)
        BY <3>2, <4>1, <4>2
      <4>4. Sorted([sbdr_pairs EXCEPT ![k] = Append(@, a)])
        BY <3>1, <4>3, JoinSorted
      <4>. QED
        BY <4>1, <4>4
    <3>4. ASSUME FoundSet(a) PROVE Sorted(sbdr_pairs')
      <4>1. \A k \in DOMAIN sbdr_pairs : ~Conflicts(sbdr_pairs[k][1], a)
        BY <3>2, <3>4 DEF FoundSet
      <4>2. Sorted(Append(sbdr_pairs, <<a>>))
        BY <3>1, <4>1, FoundSorted
      <4>. QED
        BY <3>4, <4>2 DEF FoundSet
    <3>5. Sorted(sbdr_pairs')
      BY <3>1, <3>3, <3>4
    <3>. QED
      BY <3>1, <3>5, SortedAreBanked DEF BankInv
  <2>2. CASE PruneSet
    <3>1. /\ set \in DOMAIN sbdr_pairs /\ sbdr_pairs \in Seq(Seq(Addr))
          /\ Banked(sbdr_pairs) /\ pc' = "prune" /\ sbdr_pairs' = RemoveAt(sbdr_pairs, set)
      BY <2>2 DEF PruneSet, TypeOK, PoolInv, BankInv
    <3>. QED
      BY <3>1, PruneBanked DEF BankInv
  <2>3. CASE DeleteAddress
    <3>1. /\ set \in DOMAIN sbdr_pairs /\ it \in DOMAIN sbdr_pairs[set]
          /\ sbdr_pairs \in Seq(Seq(Addr)) /\ Banked(sbdr_pairs) /\ pc' = "filter"
          /\ sbdr_pairs' = [sbdr_pairs EXCEPT ![set] = RemoveAt(@, it)]
      BY <2>3 DEF DeleteAddress, TypeOK, PoolInv, BankInv
    <3>. QED
      BY <3>1, DeleteBanked DEF BankInv
  <2>4. CASE CollectEnd \/ KeepSet \/ PruneEnd \/ KeepAddress \/ NextSet \/ FilterEnd
    <3>1. /\ sbdr_pairs' = sbdr_pairs /\ pc # "done"
          /\ pc' \in {"prune", "filter", "slide"}
      BY <2>4 DEF CollectEnd, KeepSet, PruneEnd, KeepAddress, NextSet, FilterEnd
    <3>. QED
      BY <3>1 DEF BankInv
  <2>5. CASE SlideOffsets
    BY <2>5 DEF SlideOffsets, BankInv
  <2>6. CASE UNCHANGED vars
    BY <2>6 DEF vars, BankInv
  <2>. QED
    BY <2>1, <2>2, <2>3, <2>4, <2>5, <2>6 DEF Next, LoopStep, RedrawUsed, Terminated
<1>3. BankInv => SetsAreBanks
  BY DEF BankInv, Banked, SetsAreBanks
<1>. QED
  BY <1>1, <1>2, <1>3, TypeCorrect, SetsAreOfThePool, PTL DEF Spec

-----------------------------------------------------------------------------
(* Every place of a vector is in one of two sets of places.                *)
LEMMA TwoSetsOfPlaces ==
  ASSUME NEW v \in Seq(Addr), NEW S, NEW T,
         S \subseteq DOMAIN v, T \subseteq DOMAIN v, DOMAIN v \subseteq S \cup T
  PROVE  Len(v) <= Cardinality(S) + Cardinality(T)
<1>1. /\ DOMAIN v = 1 .. Len(v) /\ Len(v) \in Nat
      /\ S \cup T = DOMAIN v
  <2>1. S \cup T = DOMAIN v
    OBVIOUS
  <2>. QED
    BY <2>1
<1>2. IsFiniteSet(DOMAIN v) /\ Cardinality(DOMAIN v) = Len(v)
  BY <1>1, FS_Interval
<1>3. IsFiniteSet(S) /\ IsFiniteSet(T)
  BY <1>2, FS_Subset
<1>4. Cardinality(S \cup T) = Cardinality(S) + Cardinality(T) - Cardinality(S \cap T)
  BY <1>3, FS_Union
<1>5. /\ Cardinality(S) \in Nat /\ Cardinality(T) \in Nat
      /\ Cardinality(S \cap T) \in Nat
  BY <1>3, FS_Intersection, FS_CardinalityType
<1>6. Cardinality(S \cup T) = Len(v)
  BY <1>1, <1>2
<1>. QED
  BY <1>1, <1>4, <1>5, <1>6

(* Filtered with exact timings, a set of more than twice the score is of   *)
(* one bank, however noisy the collection was: two addresses of different  *)
(* banks would score together as often as the set has addresses.           *)
THEOREM FilterLeavesOneBank ==
  ASSUME FilterLatency = ExactLatency
  PROVE  Spec => []OneBankAfterFilter
<1>1. PoolInv /\ KeptScores => OneBankAfterFilter
  <2>. SUFFICES ASSUME PoolInv, KeptScores, pc = "slide", NEW k \in DOMAIN sbdr_pairs,
                       NEW n \in DOMAIN sbdr_pairs[k], NEW m \in DOMAIN sbdr_pairs[k],
                       BankOf[sbdr_pairs[k][n]] # BankOf[sbdr_pairs[k][m]]
                PROVE  Len(sbdr_pairs[k]) <= 2 * SUDOKU_FILTER_SCORE
    <3>1. /\ \A j \in DOMAIN sbdr_pairs : Len(sbdr_pairs[j]) \in Nat
          /\ SUDOKU_FILTER_SCORE \in Nat
      BY SameBankAssumption DEF PoolInv
    <3>. QED
      BY <3>1 DEF OneBankAfterFilter
  <2>. DEFINE v == sbdr_pairs[k]
  <2>1. v \in Seq(Addr)
    BY DEF PoolInv
  <2>2. ASSUME NEW x \in DOMAIN v, NEW y \in DOMAIN v, BankOf[v[x]] # BankOf[v[y]]
        PROVE  y \in SureHits(v, x)
    <3>1. v[x] \in Addr /\ v[y] \in Addr /\ v[x] # v[y]
      BY <2>1, <2>2
    <3>2. FilterLatency[<<v[x], v[y]>>] = {"hit"}
      BY <2>2, <3>1 DEF ExactLatency, Conflicts
    <3>. QED
      BY <2>2, <3>1, <3>2 DEF SureHits
  <2>3. /\ SureHits(v, n) \subseteq DOMAIN v /\ SureHits(v, m) \subseteq DOMAIN v
        /\ DOMAIN v \subseteq SureHits(v, n) \cup SureHits(v, m)
    <3>1. \A p \in DOMAIN v : BankOf[v[n]] # BankOf[v[p]] \/ BankOf[v[m]] # BankOf[v[p]]
      OBVIOUS
    <3>. QED
      BY <2>2, <3>1 DEF SureHits
  <2>4. Len(v) <= Cardinality(SureHits(v, n)) + Cardinality(SureHits(v, m))
    <3>. HIDE DEF v
    <3>. QED
      BY <2>1, <2>3, TwoSetsOfPlaces
  <2>5. /\ Cardinality(SureHits(v, n)) <= SUDOKU_FILTER_SCORE
        /\ Cardinality(SureHits(v, m)) <= SUDOKU_FILTER_SCORE
    BY DEF KeptScores, Passed
  <2>6. /\ Cardinality(SureHits(v, n)) \in Nat /\ Cardinality(SureHits(v, m)) \in Nat
        /\ SUDOKU_FILTER_SCORE \in Nat /\ Len(v) \in Nat
    <3>1. SureHits(v, n) \subseteq DOMAIN v /\ SureHits(v, m) \subseteq DOMAIN v
      BY <2>3
    <3>2. IsFiniteSet(DOMAIN v)
      <4>1. DOMAIN v = 1 .. Len(v) /\ Len(v) \in Nat
        BY <2>1
      <4>. QED
        BY <4>1, FS_Interval
    <3>. QED
      BY <2>1, <3>1, <3>2, FS_Subset, FS_CardinalityType, SameBankAssumption
  <2>. HIDE DEF v
  <2>7. Len(v) <= 2 * SUDOKU_FILTER_SCORE
    BY <2>4, <2>5, <2>6
  <2>. QED
    BY <2>7 DEF v
<1>. QED
  BY <1>1, FilterBoundsScores, SetsAreOfThePool, PTL
=============================================================================
