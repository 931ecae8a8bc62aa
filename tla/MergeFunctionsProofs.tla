------------------------- MODULE MergeFunctionsProofs -------------------------
(***************************************************************************)
(* For every vector of functions over every set of address bits, merging   *)
(* ends with exactly the finest grouping of the bits, and every step of    *)
(* the loops is one that OverlapMerge allows.                              *)
(***************************************************************************)
EXTENDS MergeRefinement, FiniteSetTheorems, TLAPS

(* A vector of cleared flags.                                              *)
LEMMA ClearKeepsType ==
  ASSUME NEW s \in Seq(SUBSET AddressBit)
  PROVE  [k \in 1 .. Len(s) |-> FALSE] \in Seq(BOOLEAN)
OBVIOUS

(* Appending a set adds it to the masks of a vector.                       *)
LEMMA MasksOfAppend ==
  ASSUME NEW s \in Seq(SUBSET AddressBit), NEW v \in SUBSET AddressBit
  PROVE  Masks(Append(s, v)) = Masks(s) \cup {v}
<1>1. v \in Masks(Append(s, v))
  BY DEF Masks
<1>2. ASSUME NEW k \in DOMAIN s PROVE s[k] \in Masks(Append(s, v))
  BY <1>2 DEF Masks
<1>3. ASSUME NEW k \in DOMAIN Append(s, v)
      PROVE  Append(s, v)[k] \in Masks(s) \cup {v}
  BY <1>3 DEF Masks
<1> QED
  BY <1>1, <1>2, <1>3 DEF Masks

(* Marking an entry leaves a vector of flags.                              *)
LEMMA MarkingKeepsType ==
  ASSUME NEW s \in Seq(BOOLEAN), NEW k \in Nat
  PROVE  [s EXCEPT ![k] = TRUE] \in Seq(BOOLEAN)
<1>1. CASE k \in DOMAIN s
  BY <1>1
<1>2. CASE k \notin DOMAIN s
  <2>1. [s EXCEPT ![k] = TRUE] = s
    BY <1>2
  <2> QED
    BY <2>1
<1> QED
  BY <1>1, <1>2

(* They start in it.                                                       *)
LEMMA InitHasType == Init => TypeOK
<1> SUFFICES ASSUME Init PROVE TypeOK
  OBVIOUS
<1>1. functions \in Seq(SUBSET AddressBit)
  BY InputsAssumption DEF Init
<1>2. merged \in Seq(BOOLEAN)
  <2>1. merged = <<>> /\ <<>> \in Seq(BOOLEAN)
    BY DEF Init
  <2> QED
    BY <2>1, Zenon
<1>3. curr_merged_functions \in Seq(SUBSET AddressBit)
  BY DEF Init
<1>4. /\ merged_value \in SUBSET AddressBit
      /\ i \in Nat \ {0}
      /\ j \in Nat \ {0}
  BY DEF Init
<1>6. changed \in BOOLEAN /\ pc \in {"do", "outer", "inner", "done"}
  BY Zenon DEF Init
<1>5. merged_functions \in Seq(SUBSET AddressBit)
  BY <1>1 DEF Init
<1> QED
  BY <1>1, <1>2, <1>3, <1>4, <1>5, <1>6, Zenon DEF TypeOK

(* The loops keep every variable in its range.                             *)
THEOREM TypeCorrect == Spec => []TypeOK
<1>1. Init => TypeOK
  BY InitHasType
<1>2. TypeOK /\ [Next]_vars => TypeOK'
  <2> SUFFICES ASSUME TypeOK, [Next]_vars PROVE TypeOK'
    OBVIOUS
  <2> USE DEF TypeOK
  <2>1. CASE StartPass
    <3>1. merged' \in Seq(BOOLEAN)
      BY <2>1, ClearKeepsType DEF StartPass
    <3>2. curr_merged_functions' \in Seq(SUBSET AddressBit)
      BY <2>1 DEF StartPass
    <3>3. i' \in Nat \ {0}
      BY <2>1 DEF StartPass
    <3>4. changed' \in BOOLEAN /\ pc' \in {"do", "outer", "inner", "done"}
      BY <2>1, Zenon DEF StartPass
    <3> QED
      BY <2>1, <3>1, <3>2, <3>3, <3>4, Zenon DEF StartPass
  <2>2. CASE SkipMerged
    BY <2>2 DEF SkipMerged
  <2>3. CASE StartSet
    <3>1. merged' \in Seq(BOOLEAN)
      BY <2>3, MarkingKeepsType DEF StartSet
    <3>2. merged_functions[i] \in SUBSET AddressBit
      BY <2>3 DEF StartSet
    <3> QED
      BY <2>3, <3>1, <3>2 DEF StartSet
  <2>4. CASE Absorb
    <3>1. merged' \in Seq(BOOLEAN)
      BY <2>4, MarkingKeepsType DEF Absorb
    <3>2. merged_functions[j] \in SUBSET AddressBit
      BY <2>4 DEF Absorb
    <3> QED
      BY <2>4, <3>1, <3>2 DEF Absorb
  <2>5. CASE PassOver
    BY <2>5 DEF PassOver
  <2>6. CASE EmitSet
    BY <2>6 DEF EmitSet
  <2>7. CASE EndPass
    BY <2>7 DEF EndPass
  <2>8. CASE UNCHANGED vars
    BY <2>8 DEF vars
  <2> QED
    BY <2>1, <2>2, <2>3, <2>4, <2>5, <2>6, <2>7, <2>8 DEF Next, Terminated
<1> QED
  BY <1>1, <1>2, PTL DEF Spec

-----------------------------------------------------------------------------
(* Marking entry k takes exactly k out of the entries not absorbed.        *)
LEMMA MarkingRemoves ==
  ASSUME NEW s \in Seq(BOOLEAN), NEW k \in DOMAIN s
  PROVE  {a \in DOMAIN s : ~[s EXCEPT ![k] = TRUE][a]} =
         {a \in DOMAIN s : ~s[a]} \ {k}
<1>1. [s EXCEPT ![k] = TRUE][k]
  OBVIOUS
<1>2. ASSUME NEW a \in DOMAIN s, a # k
      PROVE  [s EXCEPT ![k] = TRUE][a] = s[a]
  BY <1>2
<1> QED
  BY <1>1, <1>2, Zenon

(* The walks stay inside the vectors: no index reads past their end.       *)
LEMMA IndexInRange ==
  ASSUME TypeOK
  PROVE  /\ StartSet => i \in DOMAIN merged_functions
         /\ Absorb => j \in DOMAIN merged_functions
<1>1. ASSUME StartSet PROVE i \in DOMAIN merged_functions
  BY <1>1 DEF TypeOK, StartSet
<1>2. ASSUME Absorb PROVE j \in DOMAIN merged_functions
  BY <1>2 DEF TypeOK, Absorb
<1> QED
  BY <1>1, <1>2

(* How a step changes the live sets: two overlapping ones become their     *)
(* union, or nothing happens.  The bookkeeping drops and invents none.     *)
LiveMerge ==
  \E s, t \in Live :
    /\ Overlap(s, t)
    /\ s \cup t \in Live'
    /\ Live \ {s, t} \subseteq Live'
    /\ Live' \subseteq Live \cup {s \cup t}

LEMMA LiveStep ==
  ASSUME TypeOK, LoopBounds, [Next]_vars
  PROVE  Live' = Live \/ LiveMerge
<1> USE DEF TypeOK, LoopBounds, Masks
<1>1. CASE StartPass
  <2>1. Unabsorbed' = DOMAIN merged_functions
    <3>1. \A k \in DOMAIN merged_functions : ~merged'[k]
      BY <1>1 DEF StartPass
    <3>2. UNCHANGED merged_functions
      BY <1>1 DEF StartPass
    <3> QED
      BY <3>1, <3>2, Zenon DEF Unabsorbed
  <2>2. Masks(curr_merged_functions)' = {}
    BY <1>1 DEF StartPass
  <2> QED
    BY <1>1, <2>1, <2>2 DEF StartPass, Live
<1>2. CASE SkipMerged
  BY <1>2 DEF SkipMerged, Live, Unabsorbed
<1>3. CASE StartSet
  <2>1. Unabsorbed' = Unabsorbed \ {i} /\ i \in Unabsorbed
    <3>1. DOMAIN merged = DOMAIN merged_functions /\ i \in DOMAIN merged
      BY <1>3, IndexInRange, Zenon DEF StartSet
    <3>2. /\ merged' = [merged EXCEPT ![i] = TRUE]
          /\ UNCHANGED merged_functions
          /\ ~merged[i]
      BY <1>3 DEF StartSet
    <3> QED
      BY <3>1, <3>2, MarkingRemoves, Zenon DEF Unabsorbed
  <2> QED
    BY <1>3, <2>1 DEF StartSet, Live
<1>4. CASE Absorb
  <2>1. Unabsorbed' = Unabsorbed \ {j} /\ j \in Unabsorbed
    <3>1. DOMAIN merged = DOMAIN merged_functions /\ j \in DOMAIN merged
      BY <1>4, IndexInRange, Zenon DEF Absorb
    <3>2. /\ merged' = [merged EXCEPT ![j] = TRUE]
          /\ UNCHANGED merged_functions
          /\ ~merged[j]
      BY <1>4 DEF Absorb
    <3> QED
      BY <3>1, <3>2, MarkingRemoves, Zenon DEF Unabsorbed
  <2>2. merged_value \in Live /\ merged_functions[j] \in Live
    BY <1>4, <2>1 DEF Absorb, Live
  <2>3. merged_value \cup merged_functions[j] \in Live'
    BY <1>4 DEF Absorb, Live
  <2>4. Live \ {merged_value, merged_functions[j]} \subseteq Live'
    BY <1>4, <2>1 DEF Absorb, Live
  <2>5. Live' \subseteq Live \cup {merged_value \cup merged_functions[j]}
    BY <1>4, <2>1 DEF Absorb, Live
  <2>6. Overlap(merged_value, merged_functions[j])
    BY <1>4 DEF Absorb
  <2> QED
    BY <2>2, <2>3, <2>4, <2>5, <2>6 DEF LiveMerge
<1>5. CASE PassOver
  BY <1>5 DEF PassOver, Live, Unabsorbed
<1>6. CASE EmitSet
  <2>1. Unabsorbed' = Unabsorbed
    BY <1>6 DEF EmitSet, Unabsorbed
  <2>2. Masks(curr_merged_functions)' =
          Masks(curr_merged_functions) \cup {merged_value}
    <3>1. curr_merged_functions' = Append(curr_merged_functions, merged_value)
      BY <1>6 DEF EmitSet
    <3> HIDE DEF Masks
    <3>2. Masks(Append(curr_merged_functions, merged_value)) =
            Masks(curr_merged_functions) \cup {merged_value}
      BY MasksOfAppend
    <3> QED
      BY <3>1, <3>2
  <2> QED
    BY <1>6, <2>1, <2>2 DEF EmitSet, Live
<1>7. CASE EndPass
  <2>1. Unabsorbed = {}
    BY <1>7 DEF EndPass, Unabsorbed
  <2> QED
    BY <1>7, <2>1 DEF EndPass, Live
<1>8. CASE UNCHANGED vars
  BY <1>8 DEF vars, Live, Unabsorbed
<1> QED
  BY <1>1, <1>2, <1>3, <1>4, <1>5, <1>6, <1>7, <1>8 DEF Next, Terminated

LEMMA FunctionsUnchanged ==
  [Next]_vars => UNCHANGED functions
BY DEF Next, vars, StartPass, SkipMerged, StartSet, Absorb, PassOver, EmitSet,
       EndPass, Terminated

LEMMA InitEstablishesMergeInv == Init => MergeInv
<1> SUFFICES ASSUME Init PROVE MergeInv
  OBVIOUS
<1>1. Live = Masks(functions)
  BY DEF Init, Live
<1>2. NoFunctionLost
  BY <1>1 DEF NoFunctionLost
<1>3. NothingOvermerged
  BY <1>1 DEF NothingOvermerged, Closed
<1> QED
  BY <1>2, <1>3 DEF MergeInv, Init, LoopBounds, QuietPass, DisjointAtEnd

LEMMA KeepsLoopBounds ==
  ASSUME TypeOK, LoopBounds, [Next]_vars
  PROVE  LoopBounds'
<1> USE DEF TypeOK, LoopBounds
<1>1. CASE StartPass
  BY <1>1 DEF StartPass
<1>2. CASE SkipMerged
  BY <1>2 DEF SkipMerged
<1>3. CASE StartSet
  <2>1. i \in DOMAIN merged /\ DOMAIN merged = DOMAIN merged_functions
    BY <1>3, IndexInRange, Zenon DEF StartSet
  <2>2. merged' = [merged EXCEPT ![i] = TRUE]
    BY <1>3 DEF StartSet
  <2>3. DOMAIN merged' = DOMAIN merged_functions /\ merged'[i]
    BY <2>1, <2>2
  <2>4. \A k \in DOMAIN merged_functions : merged[k] => merged'[k]
    BY <2>1, <2>2
  <2> QED
    BY <1>3, <2>3, <2>4 DEF StartSet
<1>4. CASE Absorb
  BY <1>4 DEF Absorb
<1>5. CASE PassOver
  BY <1>5 DEF PassOver
<1>6. CASE EmitSet
  BY <1>6 DEF EmitSet
<1>7. CASE EndPass
  BY <1>7 DEF EndPass
<1>8. CASE UNCHANGED vars
  BY <1>8 DEF vars
<1> QED
  BY <1>1, <1>2, <1>3, <1>4, <1>5, <1>6, <1>7, <1>8 DEF Next, Terminated

LEMMA KeepsNoFunctionLost ==
  ASSUME TypeOK, LoopBounds, NoFunctionLost, [Next]_vars
  PROVE  NoFunctionLost'
<1>1. UNCHANGED functions
  BY FunctionsUnchanged
<1>2. CASE Live' = Live
  BY <1>1, <1>2 DEF NoFunctionLost
<1>3. CASE LiveMerge
  <2>1. PICK s, t \in Live : /\ Overlap(s, t)
                             /\ s \cup t \in Live'
                             /\ Live \ {s, t} \subseteq Live'
    BY <1>3 DEF LiveMerge
  <2>2. ASSUME NEW f \in Masks(functions)
        PROVE  \E v \in Live' : f \subseteq v
    <3>1. PICK v \in Live : f \subseteq v
      BY DEF NoFunctionLost
    <3> QED
      BY <2>1, <3>1
  <2>3. {} \in Masks(functions) => {} \in Live'
    BY <2>1 DEF NoFunctionLost, Overlap
  <2> QED
    BY <1>1, <2>2, <2>3 DEF NoFunctionLost
<1> QED
  BY <1>2, <1>3, LiveStep

LEMMA KeepsNothingOvermerged ==
  ASSUME TypeOK, LoopBounds, NothingOvermerged, [Next]_vars
  PROVE  NothingOvermerged'
<1>1. UNCHANGED functions
  BY FunctionsUnchanged
<1>2. CASE Live' = Live
  BY <1>1, <1>2 DEF NothingOvermerged
<1>3. CASE LiveMerge
  <2>1. PICK s, t \in Live : /\ Overlap(s, t)
                             /\ Live' \subseteq Live \cup {s \cup t}
    BY <1>3 DEF LiveMerge
  <2>2. s \cup t \subseteq UNION Masks(functions) /\ s \cup t # {}
    BY <2>1 DEF NothingOvermerged, Overlap
  <2>3. ASSUME NEW C \in SUBSET UNION Masks(functions),
               Closed(C, Masks(functions))
        PROVE  (s \cup t) \cap C = {} \/ s \cup t \subseteq C
    <3>1. s \cap C = {} \/ s \subseteq C
      BY <2>3 DEF NothingOvermerged
    <3>2. t \cap C = {} \/ t \subseteq C
      BY <2>3 DEF NothingOvermerged
    <3> QED
      BY <2>1, <3>1, <3>2 DEF Overlap
  <2> QED
    BY <1>1, <2>1, <2>2, <2>3 DEF NothingOvermerged
<1> QED
  BY <1>2, <1>3, LiveStep

LEMMA KeepsQuietPass ==
  ASSUME TypeOK, LoopBounds, QuietPass, [Next]_vars
  PROVE  QuietPass'
<1> USE DEF TypeOK, LoopBounds, QuietPass, PairwiseDisjoint
<1>1. CASE StartPass
  BY <1>1 DEF StartPass
<1>2. CASE SkipMerged
  BY <1>2 DEF SkipMerged, Unabsorbed
<1>3. CASE StartSet
  <2>1. i \in Unabsorbed
    BY <1>3, IndexInRange, Zenon DEF StartSet, Unabsorbed
  <2>2. Unabsorbed' \subseteq Unabsorbed
    <3>1. \A k \in DOMAIN merged_functions : merged[k] => merged'[k]
      BY <1>3 DEF StartSet
    <3>2. UNCHANGED merged_functions
      BY <1>3 DEF StartSet
    <3> QED
      BY <3>1, <3>2, Zenon DEF Unabsorbed
  <2> QED
    BY <1>3, <2>1, <2>2 DEF StartSet, Unabsorbed
<1>4. CASE Absorb
  BY <1>4 DEF Absorb
<1>5. CASE PassOver
  <2>1. Unabsorbed' = Unabsorbed
    BY <1>5 DEF PassOver, Unabsorbed
  <2>2. \A k \in Unabsorbed : k < j + 1 => k < j \/ k = j
    BY DEF Unabsorbed
  <2> QED
    BY <1>5, <2>1, <2>2 DEF PassOver, Unabsorbed
<1>6. CASE EmitSet
  <2> SUFFICES ASSUME ~changed PROVE QuietPass'
    BY <1>6 DEF EmitSet
  <2>1. Unabsorbed' = Unabsorbed
    BY <1>6 DEF EmitSet, Unabsorbed
  <2>2. \A k \in Unabsorbed : ~Overlap(merged_value, merged_functions[k])
    BY <1>6 DEF EmitSet, Unabsorbed
  <2>3. \A a \in DOMAIN curr_merged_functions :
          ~Overlap(curr_merged_functions[a], merged_value)
    BY <1>6 DEF EmitSet
  <2>4. PairwiseDisjoint(curr_merged_functions)
    BY <1>6 DEF EmitSet
  <2>5. PairwiseDisjoint(curr_merged_functions)'
    BY <1>6, <2>3, <2>4 DEF EmitSet, Overlap
  <2>6. \A a \in DOMAIN curr_merged_functions' : \A k \in Unabsorbed :
          ~Overlap(curr_merged_functions'[a], merged_functions[k])
    BY <1>6, <2>2 DEF EmitSet
  <2> QED
    BY <1>6, <2>1, <2>5, <2>6 DEF EmitSet
<1>7. CASE EndPass
  BY <1>7 DEF EndPass
<1>8. CASE UNCHANGED vars
  BY <1>8 DEF vars, Unabsorbed
<1> QED
  BY <1>1, <1>2, <1>3, <1>4, <1>5, <1>6, <1>7, <1>8 DEF Next, Terminated

LEMMA KeepsDisjointAtEnd ==
  ASSUME TypeOK, QuietPass, DisjointAtEnd, [Next]_vars
  PROVE  DisjointAtEnd'
<1>1. CASE EndPass
  BY <1>1 DEF EndPass, QuietPass, DisjointAtEnd
<1>2. CASE ~EndPass
  BY <1>2 DEF Next, Terminated, vars, StartPass, SkipMerged, StartSet, Absorb,
              PassOver, EmitSet, DisjointAtEnd
<1> QED
  BY <1>1, <1>2

(* The bookkeeping of the passes: no function is ever lost, nothing is     *)
(* merged without a chain of overlaps, and a pass that reports no change   *)
(* has seen none.                                                          *)
THEOREM MergeInvariant == Spec => []MergeInv
<1>1. Init => MergeInv
  BY InitEstablishesMergeInv
<1>2. TypeOK /\ MergeInv /\ [Next]_vars => MergeInv'
  BY KeepsLoopBounds, KeepsNoFunctionLost, KeepsNothingOvermerged,
     KeepsQuietPass, KeepsDisjointAtEnd DEF MergeInv
<1> QED
  BY <1>1, <1>2, TypeCorrect, PTL DEF Spec

-----------------------------------------------------------------------------
(* Both hold together, for every vector of functions.                      *)
THEOREM Invariance == Spec => []IInv
BY TypeCorrect, MergeInvariant, PTL DEF IInv

(* A family of pairwise disjoint sets that covers every function and joins *)
(* nothing a closed set keeps apart is the finest grouping.                *)
LEMMA GroupingIsUnique ==
  ASSUME NEW F, NEW G,
         \A f \in F : \E v \in G : f \subseteq v,
         {} \in F => {} \in G,
         \A v \in G : /\ v \subseteq UNION F
                      /\ v = {} => {} \in F
                      /\ \A C \in SUBSET UNION F :
                           Closed(C, F) => v \cap C = {} \/ v \subseteq C,
         \A v, w \in G : v # w => v \cap w = {}
  PROVE  G = DisjointSets(F)
<1>1. ASSUME NEW v \in G PROVE Closed(v, F)
  BY <1>1 DEF Closed
<1>2. ASSUME NEW v \in G, NEW b \in v PROVE v = ConnectedBits(b, F)
  <2>1. v \subseteq ConnectedBits(b, F)
    BY <1>2 DEF ConnectedBits
  <2>2. ConnectedBits(b, F) \subseteq v
    BY <1>1, <1>2 DEF ConnectedBits
  <2> QED
    BY <2>1, <2>2
<1>3. ASSUME NEW v \in G PROVE v \in DisjointSets(F)
  <2>1. CASE v = {}
    BY <2>1 DEF DisjointSets
  <2>2. CASE v # {}
    <3>1. PICK b \in v : TRUE
      BY <2>2
    <3>2. b \in UNION F /\ v = ConnectedBits(b, F)
      BY <1>2
    <3> QED
      BY <3>2 DEF DisjointSets
  <2> QED
    BY <2>1, <2>2
<1>4. ASSUME NEW b \in UNION F PROVE ConnectedBits(b, F) \in G
  <2>1. PICK v \in G : b \in v
    OBVIOUS
  <2> QED
    BY <1>2, <2>1
<1>5. ASSUME NEW f \in F, f = {} PROVE f \in G
  BY <1>5
<1> QED
  BY <1>3, <1>4, <1>5 DEF DisjointSets

(* Whatever functions it is given, MergeFunctionsToDisjointSets returns    *)
(* the finest grouping of their bits.                                      *)
THEOREM MergingFindsComponents == Spec => []MergedAreComponents
<1>1. MergeInv => MergedAreComponents
  <2> SUFFICES ASSUME MergeInv, pc = "done"
               PROVE  Masks(merged_functions) = DisjointSets(Masks(functions))
    BY DEF MergedAreComponents
  <2> DEFINE F == Masks(functions)
             G == Masks(merged_functions)
  <2>1. Live = G
    BY DEF Live
  <2>2. \A f \in F : \E v \in G : f \subseteq v
    BY <2>1 DEF MergeInv, NoFunctionLost
  <2>3. {} \in F => {} \in G
    BY <2>1 DEF MergeInv, NoFunctionLost
  <2>4. \A v \in G : /\ v \subseteq UNION F
                     /\ v = {} => {} \in F
                     /\ \A C \in SUBSET UNION F :
                          Closed(C, F) => v \cap C = {} \/ v \subseteq C
    BY <2>1 DEF MergeInv, NothingOvermerged
  <2>5. \A v, w \in G : v # w => v \cap w = {}
    BY DEF MergeInv, DisjointAtEnd, PairwiseDisjoint, Overlap, Masks
  <2> HIDE DEF F, G
  <2>6. G = DisjointSets(F)
    BY <2>2, <2>3, <2>4, <2>5, GroupingIsUnique
  <2> QED
    BY <2>6 DEF F, G
<1> QED
  BY <1>1, MergeInvariant, PTL

-----------------------------------------------------------------------------
(* The bag of the members of a finite family, each with the number of      *)
(* indices that have it.                                                   *)
Copies(f, v) == {x \in DOMAIN f : f[x] = v}

Members(f) == {f[x] : x \in DOMAIN f}

BagOf(f) == [v \in Members(f) |-> Cardinality(Copies(f, v))]

(* Every member has at least one copy, and nothing else has any.           *)
LEMMA CopiesAreCounted ==
  ASSUME NEW f, IsFiniteSet(DOMAIN f), NEW v
  PROVE  /\ IsFiniteSet(Copies(f, v))
         /\ Cardinality(Copies(f, v)) \in Nat
         /\ v \in Members(f) <=> Cardinality(Copies(f, v)) # 0
<1>1. IsFiniteSet(Copies(f, v))
  BY FS_Subset DEF Copies
<1>2. Cardinality(Copies(f, v)) = 0 <=> Copies(f, v) = {}
  BY <1>1, FS_EmptySet
<1>3. v \in Members(f) <=> Copies(f, v) # {}
  BY DEF Copies, Members
<1>. QED
  BY <1>1, <1>2, <1>3, FS_CardinalityType

(* So the counts make a bag.                                               *)
LEMMA BagOfIsBag ==
  ASSUME NEW f, IsFiniteSet(DOMAIN f)
  PROVE  Abstract!IsABag(BagOf(f))
<1>1. DOMAIN BagOf(f) = Members(f)
  BY DEF BagOf
<1>2. ASSUME NEW v \in Members(f) PROVE BagOf(f)[v] \in {n \in Nat : n > 0}
  <2>1. BagOf(f)[v] = Cardinality(Copies(f, v))
    BY DEF BagOf
  <2>. QED
    BY <2>1, CopiesAreCounted
<1>3. BagOf(f) = [v \in Members(f) |-> BagOf(f)[v]]
  BY <1>1 DEF BagOf
<1>. QED
  BY <1>1, <1>2, <1>3 DEF Abstract!IsABag

(* Families with equally many copies of everything have the same bag.      *)
LEMMA SameCopiesSameBag ==
  ASSUME NEW f, IsFiniteSet(DOMAIN f), NEW g, IsFiniteSet(DOMAIN g),
         \A v : Cardinality(Copies(f, v)) = Cardinality(Copies(g, v))
  PROVE  BagOf(f) = BagOf(g)
<1>1. Members(f) = Members(g)
  BY CopiesAreCounted
<1>. QED
  BY <1>1 DEF BagOf

(* Taking one index away takes one copy away.                              *)
LEMMA BagWithout ==
  ASSUME NEW f, IsFiniteSet(DOMAIN f), NEW a \in DOMAIN f,
         NEW g, g = [x \in DOMAIN f \ {a} |-> f[x]]
  PROVE  BagOf(g) = Abstract!Without(BagOf(f), f[a])
<1>. DEFINE count(v) == Cardinality(Copies(f, v))
            rest(v) == Cardinality(Copies(g, v))
            s == f[a]
<1>1. DOMAIN g = DOMAIN f \ {a} /\ IsFiniteSet(DOMAIN g)
  BY FS_RemoveElement
<1>2. ASSUME NEW v
      PROVE  /\ rest(v) = IF v = s THEN count(v) - 1 ELSE count(v)
             /\ rest(v) \in Nat /\ count(v) \in Nat
             /\ v \in Members(f) <=> count(v) # 0
             /\ v \in Members(g) <=> rest(v) # 0
  <2>1. Copies(g, v) = IF v = s THEN Copies(f, v) \ {a} ELSE Copies(f, v)
    BY DEF Copies
  <2>2. v = s => a \in Copies(f, v)
    BY DEF Copies
  <2>. QED
    BY <1>1, <2>1, <2>2, CopiesAreCounted, FS_RemoveElement
<1>. HIDE DEF count, rest, s
<1>3. BagOf(f) = [v \in Members(f) |-> count(v)] /\ BagOf(g) = [v \in Members(g) |-> rest(v)]
  BY DEF BagOf, count, rest
<1>. DEFINE B == [v \in Members(f) |->
                    IF v \in {s} THEN count(v) - 1 ELSE count(v)]
<1>4. Abstract!Without(BagOf(f), s) = [v \in {w \in Members(f) : B[w] > 0} |-> B[v]]
  BY <1>3 DEF Abstract!Without, Abstract!(-), Abstract!SetToBag
<1>5. ASSUME NEW v \in Members(f) PROVE B[v] = rest(v)
  BY <1>2
<1>. HIDE DEF B
<1>6. {w \in Members(f) : B[w] > 0} = Members(g)
  <2>1. ASSUME NEW w \in Members(f) PROVE B[w] > 0 <=> w \in Members(g)
    BY <1>2, <1>5
  <2>2. Members(g) \subseteq Members(f)
    BY <1>1 DEF Members
  <2>. QED
    BY <2>1, <2>2
<1>7. Members(g) \subseteq Members(f)
  BY <1>1 DEF Members
<1>8. BagOf(g) = Abstract!Without(BagOf(f), s)
  BY <1>3, <1>4, <1>5, <1>6, <1>7
<1>. QED
  BY <1>8 DEF s

(* A new index adds one copy.                                              *)
LEMMA BagWith ==
  ASSUME NEW f, IsFiniteSet(DOMAIN f), NEW a, a \notin DOMAIN f,
         NEW g, DOMAIN g = DOMAIN f \cup {a}, \A x \in DOMAIN f : g[x] = f[x]
  PROVE  BagOf(g) = Abstract!With(BagOf(f), g[a])
<1>. DEFINE count(v) == Cardinality(Copies(f, v))
            more(v) == Cardinality(Copies(g, v))
            s == g[a]
<1>1. IsFiniteSet(DOMAIN g)
  BY FS_AddElement
<1>2. ASSUME NEW v
      PROVE  /\ more(v) = IF v = s THEN count(v) + 1 ELSE count(v)
             /\ more(v) \in Nat /\ count(v) \in Nat
             /\ v \in Members(f) <=> count(v) # 0
             /\ v \in Members(g) <=> more(v) # 0
  <2>1. Copies(g, v) = IF v = s THEN Copies(f, v) \cup {a} ELSE Copies(f, v)
    BY DEF Copies
  <2>2. a \notin Copies(f, v)
    BY DEF Copies
  <2>. QED
    BY <1>1, <2>1, <2>2, CopiesAreCounted, FS_AddElement
<1>. HIDE DEF count, more, s
<1>3. BagOf(f) = [v \in Members(f) |-> count(v)] /\ BagOf(g) = [v \in Members(g) |-> more(v)]
  BY DEF BagOf, count, more
<1>4. Abstract!With(BagOf(f), s) =
        [v \in Members(f) \cup {s} |-> (IF v \in Members(f) THEN count(v) ELSE 0)
                                         + (IF v \in {s} THEN 1 ELSE 0)]
  BY <1>3 DEF Abstract!With, Abstract!(+), Abstract!SetToBag
<1>5. Members(g) = Members(f) \cup {s}
  BY DEF Members, s
<1>6. ASSUME NEW v \in Members(g)
      PROVE  more(v) = (IF v \in Members(f) THEN count(v) ELSE 0)
                         + (IF v \in {s} THEN 1 ELSE 0)
  BY <1>2
<1>7. BagOf(g) = Abstract!With(BagOf(f), s)
  BY <1>3, <1>4, <1>5, <1>6
<1>. QED
  BY <1>7 DEF s

(* What a bijection is.                                                    *)
LEMMA OneToOneIsBijection ==
  ASSUME NEW S, NEW T, NEW h \in [S -> T],
         \A x, y \in S : h[x] = h[y] => x = y,
         \A z \in T : \E x \in S : h[x] = z
  PROVE  h \in Bijection(S, T)
<1>1. h \in Injection(S, T)
  BY DEF Injection, IsInjective
<1>2. h \in Surjection(S, T)
  BY DEF Surjection
<1>. QED
  BY <1>1, <1>2 DEF Bijection

(* Other names for the indices leave the bag as it is.                     *)
LEMMA BagRenamed ==
  ASSUME NEW f, IsFiniteSet(DOMAIN f), NEW g, NEW h \in [DOMAIN f -> DOMAIN g],
         \A x, y \in DOMAIN f : h[x] = h[y] => x = y,
         \A z \in DOMAIN g : \E x \in DOMAIN f : h[x] = z,
         \A x \in DOMAIN f : g[h[x]] = f[x]
  PROVE  BagOf(g) = BagOf(f)
<1>1. h \in Bijection(DOMAIN f, DOMAIN g)
  BY OneToOneIsBijection
<1>2. IsFiniteSet(DOMAIN g)
  BY <1>1, FS_Bijection DEF ExistsBijection
<1>3. ASSUME NEW v PROVE Cardinality(Copies(g, v)) = Cardinality(Copies(f, v))
  <2>. DEFINE r == [x \in Copies(f, v) |-> h[x]]
  <2>1. r \in [Copies(f, v) -> Copies(g, v)]
    BY DEF Copies
  <2>2. \A x, y \in Copies(f, v) : r[x] = r[y] => x = y
    BY DEF Copies
  <2>3. \A z \in Copies(g, v) : \E x \in Copies(f, v) : r[x] = z
    BY DEF Copies
  <2>. HIDE DEF r
  <2>4. r \in Bijection(Copies(f, v), Copies(g, v))
    BY <2>1, <2>2, <2>3, OneToOneIsBijection
  <2>. QED
    BY <2>4, FS_Bijection, CopiesAreCounted DEF ExistsBijection
<1>. QED
  BY <1>2, <1>3, SameCopiesSameBag

(* In particular when one index gets another name.                         *)
LEMMA MovedIndex ==
  ASSUME NEW f, IsFiniteSet(DOMAIN f), NEW g, NEW a \in DOMAIN f, NEW b, b \notin DOMAIN f,
         DOMAIN g = (DOMAIN f \ {a}) \cup {b}, g[b] = f[a],
         \A x \in DOMAIN f \ {a} : g[x] = f[x]
  PROVE  BagOf(g) = BagOf(f)
<1>. DEFINE h == [x \in DOMAIN f |-> IF x = a THEN b ELSE x]
<1>1. h \in [DOMAIN f -> DOMAIN g]
  OBVIOUS
<1>2. /\ \A x, y \in DOMAIN f : h[x] = h[y] => x = y
      /\ \A z \in DOMAIN g : \E x \in DOMAIN f : h[x] = z
      /\ \A x \in DOMAIN f : g[h[x]] = f[x]
  OBVIOUS
<1>. HIDE DEF h
<1>. QED
  BY <1>1, <1>2, BagRenamed

(* What is there twice has two indices.                                    *)
LEMMA TwoCopies ==
  ASSUME NEW f, IsFiniteSet(DOMAIN f), NEW v \in Members(f)
  PROVE  BagOf(f)[v] >= 2 <=> \E a, b \in Copies(f, v) : a # b
<1>1. /\ BagOf(f)[v] = Cardinality(Copies(f, v)) /\ IsFiniteSet(Copies(f, v))
      /\ Cardinality(Copies(f, v)) \in Nat /\ Cardinality(Copies(f, v)) # 0
  BY CopiesAreCounted DEF BagOf
<1>2. Cardinality(Copies(f, v)) = 1 <=> \E x : Copies(f, v) = {x}
  BY <1>1, FS_Singleton
<1>3. Copies(f, v) # {}
  BY <1>1, FS_EmptySet
<1>4. (\E x : Copies(f, v) = {x}) <=> ~\E a, b \in Copies(f, v) : a # b
  BY <1>3
<1>5. \A n \in Nat : n # 0 => (n >= 2 <=> n # 1)
  OBVIOUS
<1>. QED
  BY <1>1, <1>2, <1>4, <1>5

(* Two indices that become one with the union of their sets are one merge  *)
(* in the bag, also if both had the same set.                              *)
LEMMA BagMerged ==
  ASSUME NEW f, IsFiniteSet(DOMAIN f), NEW g, NEW a \in DOMAIN f, NEW b \in DOMAIN f, a # b,
         DOMAIN g = DOMAIN f \ {b}, g[a] = f[a] \cup f[b],
         \A x \in DOMAIN g \ {a} : g[x] = f[x]
  PROVE  BagOf(g) = Abstract!With(Abstract!Without(Abstract!Without(BagOf(f), f[a]), f[b]),
                                  f[a] \cup f[b])
<1>. DEFINE f1 == [x \in DOMAIN f \ {a} |-> f[x]]
            f2 == [x \in DOMAIN f1 \ {b} |-> f1[x]]
<1>1. IsFiniteSet(DOMAIN f1) /\ IsFiniteSet(DOMAIN f2)
  BY FS_RemoveElement
<1>2. BagOf(f1) = Abstract!Without(BagOf(f), f[a])
  BY BagWithout
<1>3. /\ b \in DOMAIN f1 /\ f1[b] = f[b]
      /\ DOMAIN f2 = DOMAIN f \ {a, b} /\ \A x \in DOMAIN f2 : f2[x] = f[x]
  OBVIOUS
<1>4. f2 = [x \in DOMAIN f1 \ {b} |-> f1[x]]
  OBVIOUS
<1>. HIDE DEF f1, f2
<1>5. BagOf(f2) = Abstract!Without(BagOf(f1), f[b])
  BY <1>1, <1>3, <1>4, BagWithout
<1>6. /\ a \notin DOMAIN f2 /\ DOMAIN g = DOMAIN f2 \cup {a}
      /\ \A x \in DOMAIN f2 : g[x] = f2[x]
  BY <1>3
<1>7. BagOf(g) = Abstract!With(BagOf(f2), g[a])
  BY <1>1, <1>6, BagWith
<1>. QED
  BY <1>2, <1>5, <1>7

(* The family that LiveBag counts, and that it is the bag of it.           *)
Family == [x \in LiveIndex |-> SetAt(x)]

(* There are finitely many indices.                                        *)
LEMMA TaggedIsFinite ==
  ASSUME NEW D, IsFiniteSet(D), NEW tag
  PROVE  IsFiniteSet({<<tag, k>> : k \in D})
<1>1. IsFiniteSet({tag} \X D)
  BY FS_Singleton, FS_Product
<1>2. {<<tag, k>> : k \in D} \subseteq {tag} \X D
  OBVIOUS
<1>. QED
  BY <1>1, <1>2, FS_Subset

(* In every part of the loops.                                             *)
LEMMA FamilyIsFinite ==
  ASSUME TypeOK
  PROVE  IsFiniteSet(LiveIndex)
<1>. DEFINE vector(D) == {<<"vector", k>> : k \in D}
            emitted == {<<"emitted", k>> : k \in DOMAIN curr_merged_functions}
<1>1. IsFiniteSet(DOMAIN merged_functions) /\ IsFiniteSet(DOMAIN curr_merged_functions)
  <2>1. ASSUME NEW v \in Seq(SUBSET AddressBit) PROVE IsFiniteSet(DOMAIN v)
    <3>1. DOMAIN v = 1 .. Len(v) /\ Len(v) \in Int
      OBVIOUS
    <3>. QED
      BY <3>1, FS_Interval
  <2>. QED
    BY <2>1 DEF TypeOK
<1>2. IsFiniteSet(Unabsorbed)
  BY <1>1, FS_Subset DEF Unabsorbed
<1>3. /\ IsFiniteSet(vector(DOMAIN merged_functions))
      /\ IsFiniteSet(vector(Unabsorbed)) /\ IsFiniteSet(emitted)
  BY <1>1, <1>2, TaggedIsFinite
<1>4. IsFiniteSet({<<"growing", 0>>})
  BY FS_Singleton
<1>. HIDE DEF vector, emitted
<1>5. /\ IsFiniteSet(vector(Unabsorbed) \cup emitted)
      /\ IsFiniteSet(vector(Unabsorbed) \cup emitted \cup {<<"growing", 0>>})
  BY <1>3, <1>4, FS_Union
<1>6. pc \in {"do", "done"} \/ pc = "outer" \/ pc = "inner"
  BY DEF TypeOK
<1>. QED
  BY <1>3, <1>5, <1>6 DEF LiveIndex, vector, emitted

(* The set that an index has.                                             *)
LEMMA SetsAt ==
  /\ \A k : SetAt(<<"vector", k>>) = merged_functions[k]
  /\ \A k : SetAt(<<"emitted", k>>) = curr_merged_functions[k]
  /\ SetAt(<<"growing", 0>>) = merged_value
<1>1. \A k : SetAt(<<"vector", k>>) = merged_functions[k]
  BY DEF SetAt
<1>2. \A k : SetAt(<<"emitted", k>>) = curr_merged_functions[k]
  BY DEF SetAt
<1>3. SetAt(<<"growing", 0>>) = merged_value
  BY DEF SetAt
<1>. QED
  BY <1>1, <1>2, <1>3

LiveBagIsOfFamily == LiveBag = BagOf(Family) /\ IsFiniteSet(LiveIndex)

(* LiveBag counts the family.                                              *)
LEMMA LiveBagOfFamily == TypeOK => LiveBagIsOfFamily
<1>. SUFFICES ASSUME TypeOK PROVE LiveBagIsOfFamily
  OBVIOUS
<1>1. DOMAIN Family = LiveIndex
  BY DEF Family
<1>2. Members(Family) = {SetAt(x) : x \in LiveIndex}
  BY DEF Members, Family
<1>. DEFINE vector(D) == {<<"vector", k>> : k \in D}
            emitted == {<<"emitted", k>> : k \in DOMAIN curr_merged_functions}
            image(A) == {SetAt(x) : x \in A}
<1>3. /\ \A D : image(vector(D)) = {merged_functions[k] : k \in D}
      /\ image(emitted) = Masks(curr_merged_functions)
      /\ image({<<"growing", 0>>}) = {merged_value}
      /\ \A A, B : image(A \cup B) = image(A) \cup image(B)
  BY SetsAt DEF Masks
<1>4. /\ pc \in {"do", "done"} => LiveIndex = vector(DOMAIN merged_functions)
      /\ pc = "outer" => LiveIndex = vector(Unabsorbed) \cup emitted
      /\ pc = "inner" => LiveIndex = vector(Unabsorbed) \cup emitted \cup {<<"growing", 0>>}
  BY DEF LiveIndex
<1>. HIDE DEF vector, emitted, image
<1>5. image(LiveIndex) = Live
  <2>1. CASE pc \in {"do", "done"}
    BY <1>3, <1>4, <2>1 DEF Live, Masks
  <2>. DEFINE left == {merged_functions[k] : k \in Unabsorbed}
              done == Masks(curr_merged_functions)
  <2>2. image(vector(Unabsorbed) \cup emitted) = left \cup done
    <3>1. image(vector(Unabsorbed) \cup emitted) = image(vector(Unabsorbed)) \cup image(emitted)
      BY <1>3, Zenon
    <3>. QED
      BY <1>3, <3>1, Zenon
  <2>3. image(vector(Unabsorbed) \cup emitted \cup {<<"growing", 0>>})
          = left \cup done \cup {merged_value}
    <3>1. image(vector(Unabsorbed) \cup emitted \cup {<<"growing", 0>>})
            = image(vector(Unabsorbed) \cup emitted) \cup image({<<"growing", 0>>})
      BY <1>3, Zenon
    <3>. QED
      BY <1>3, <2>2, <3>1, Zenon
  <2>4. Live = IF pc \in {"do", "done"} THEN Masks(merged_functions)
               ELSE done \cup left \cup (IF pc = "inner" THEN {merged_value} ELSE {})
    BY DEF Live
  <2>. HIDE DEF left, done
  <2>5. CASE pc = "outer"
    <3>1. image(LiveIndex) = left \cup done /\ Live = done \cup left \cup {}
      BY <1>4, <2>2, <2>4, <2>5
    <3>. QED
      BY <3>1
  <2>6. CASE pc = "inner"
    <3>1. /\ image(LiveIndex) = left \cup done \cup {merged_value}
          /\ Live = done \cup left \cup {merged_value}
      BY <1>4, <2>3, <2>4, <2>6
    <3>. QED
      BY <3>1
  <2>. QED
    BY <2>1, <2>5, <2>6 DEF TypeOK
<1>6. ASSUME NEW v
      PROVE  {x \in LiveIndex : SetAt(x) = v} = Copies(Family, v)
  BY DEF Copies, Family
<1>. QED
  BY <1>1, <1>2, <1>5, <1>6, FamilyIsFinite DEF LiveBagIsOfFamily, LiveBag, BagOf, image

(* Where the sets are in each part of the loops.                           *)
InVector(K) == {<<"vector", k>> : k \in K}

Emitted == {<<"emitted", k>> : k \in DOMAIN curr_merged_functions}

(* The indices are these.                                                  *)
LEMMA IndicesAt ==
  /\ pc \in {"do", "done"} => LiveIndex = InVector(DOMAIN merged_functions)
  /\ pc = "outer" => LiveIndex = InVector(Unabsorbed) \cup Emitted
  /\ pc = "inner" => LiveIndex = InVector(Unabsorbed) \cup Emitted \cup {<<"growing", 0>>}
BY DEF LiveIndex, InVector, Emitted

(* The same after a step.                                                  *)
LEMMA IndicesAtNext ==
  /\ pc' \in {"do", "done"} => LiveIndex' = InVector(DOMAIN merged_functions')
  /\ pc' = "outer" => LiveIndex' = InVector(Unabsorbed') \cup Emitted'
  /\ pc' = "inner" => LiveIndex' = InVector(Unabsorbed') \cup Emitted' \cup {<<"growing", 0>>}
BY DEF LiveIndex, InVector, Emitted

(* The same of the sets after a step.                                      *)
LEMMA SetsAtNext ==
  /\ \A k : SetAt(<<"vector", k>>)' = merged_functions'[k]
  /\ \A k : SetAt(<<"emitted", k>>)' = curr_merged_functions'[k]
  /\ SetAt(<<"growing", 0>>)' = merged_value'
<1>1. \A k : SetAt(<<"vector", k>>)' = merged_functions'[k]
  BY DEF SetAt
<1>2. \A k : SetAt(<<"emitted", k>>)' = curr_merged_functions'[k]
  BY DEF SetAt
<1>3. SetAt(<<"growing", 0>>)' = merged_value'
  BY DEF SetAt
<1>. QED
  BY <1>1, <1>2, <1>3

(* The family before and after a step.                                     *)
LEMMA FamilyAt ==
  /\ DOMAIN Family = LiveIndex /\ DOMAIN Family' = LiveIndex'
  /\ \A x \in LiveIndex : Family[x] = SetAt(x)
  /\ \A x \in LiveIndex' : Family'[x] = SetAt(x)'
BY DEF Family

(* A step that moves no set leaves the family as it is.                    *)
LEMMA QuietSteps ==
  ASSUME TypeOK, LoopBounds, StartPass \/ SkipMerged \/ PassOver
  PROVE  Family' = Family
<1>. SUFFICES /\ LiveIndex' = LiveIndex
              /\ \A x \in LiveIndex : SetAt(x)' = SetAt(x)
  BY DEF Family
<1>1. CASE StartPass
  <2>1. /\ pc = "do" /\ pc' = "outer" /\ merged_functions' = merged_functions
        /\ merged' = [k \in 1 .. Len(merged_functions) |-> FALSE]
        /\ curr_merged_functions' = <<>>
    BY <1>1 DEF StartPass
  <2>2. DOMAIN merged_functions = 1 .. Len(merged_functions)
    BY DEF TypeOK
  <2>3. Unabsorbed' = DOMAIN merged_functions /\ Emitted' = {}
    BY <2>1, <2>2 DEF Unabsorbed, Emitted
  <2>4. LiveIndex = InVector(DOMAIN merged_functions) /\ LiveIndex' = LiveIndex
    BY <2>1, <2>3, IndicesAt, IndicesAtNext
  <2>5. ASSUME NEW x \in LiveIndex PROVE SetAt(x)' = SetAt(x)
    <3>1. PICK k \in DOMAIN merged_functions : x = <<"vector", k>>
      BY <2>4 DEF InVector
    <3>. QED
      BY <2>1, <3>1, SetsAt, SetsAtNext
  <2>. QED
    BY <2>4, <2>5
<1>2. CASE SkipMerged
  BY <1>2 DEF SkipMerged, LiveIndex, SetAt, Unabsorbed
<1>3. CASE PassOver
  BY <1>3 DEF PassOver, LiveIndex, SetAt, Unabsorbed
<1>. QED
  BY <1>1, <1>2, <1>3

(* The entry at i becomes the set to grow.                                 *)
LEMMA StartSetRenames ==
  ASSUME TypeOK, LoopBounds, StartSet
  PROVE  BagOf(Family') = BagOf(Family)
<1>. DEFINE from == <<"vector", i>>
            to == <<"growing", 0>>
<1>1. /\ pc = "outer" /\ pc' = "inner" /\ merged_functions' = merged_functions
      /\ curr_merged_functions' = curr_merged_functions
      /\ merged_value' = merged_functions[i]
  BY DEF StartSet
<1>2. Unabsorbed' = Unabsorbed \ {i} /\ i \in Unabsorbed
  <2>1. DOMAIN merged = DOMAIN merged_functions /\ i \in DOMAIN merged
    BY <1>1, IndexInRange, Zenon DEF LoopBounds
  <2>2. merged' = [merged EXCEPT ![i] = TRUE] /\ ~merged[i] /\ merged \in Seq(BOOLEAN)
    BY DEF StartSet, TypeOK
  <2>. QED
    BY <1>1, <2>1, <2>2, MarkingRemoves, Zenon DEF Unabsorbed
<1>3. LiveIndex = InVector(Unabsorbed) \cup Emitted /\ Emitted' = Emitted
  BY <1>1, IndicesAt DEF Emitted
<1>4. LiveIndex' = InVector(Unabsorbed \ {i}) \cup Emitted \cup {to}
  BY <1>1, <1>2, <1>3, IndicesAtNext
<1>5. to \notin LiveIndex /\ from \in LiveIndex
  BY <1>2, <1>3 DEF InVector, Emitted
<1>6. LiveIndex' = (LiveIndex \ {from}) \cup {to}
  BY <1>3, <1>4, <1>5 DEF InVector, Emitted
<1>7. SetAt(to)' = SetAt(from)
  BY <1>1, SetsAt, SetsAtNext
<1>8. ASSUME NEW x \in LiveIndex, x # from PROVE SetAt(x)' = SetAt(x)
  BY <1>1, <1>3, SetsAt, SetsAtNext DEF InVector, Emitted
<1>. HIDE DEF from, to
<1>9. /\ Family'[to] = Family[from]
      /\ \A x \in DOMAIN Family \ {from} : Family'[x] = Family[x]
      /\ DOMAIN Family' = (DOMAIN Family \ {from}) \cup {to}
  BY <1>5, <1>6, <1>7, <1>8, FamilyAt
<1>. QED
  BY <1>5, <1>9, FamilyAt, FamilyIsFinite, MovedIndex

(* The set grown goes to the end of what the pass has produced.            *)
LEMMA EmitSetRenames ==
  ASSUME TypeOK, LoopBounds, EmitSet
  PROVE  BagOf(Family') = BagOf(Family)
<1>0. PICK n : n = Len(curr_merged_functions) + 1
  OBVIOUS
<1>. DEFINE from == <<"growing", 0>>
            to == <<"emitted", n>>
<1>1. /\ pc = "inner" /\ pc' = "outer" /\ merged_functions' = merged_functions
      /\ curr_merged_functions' = Append(curr_merged_functions, merged_value)
      /\ Unabsorbed' = Unabsorbed
  BY DEF EmitSet, Unabsorbed
<1>2. /\ DOMAIN curr_merged_functions' = DOMAIN curr_merged_functions \cup {n}
      /\ n \notin DOMAIN curr_merged_functions
      /\ curr_merged_functions'[n] = merged_value
      /\ \A k \in DOMAIN curr_merged_functions :
           curr_merged_functions'[k] = curr_merged_functions[k]
  BY <1>0, <1>1 DEF TypeOK
<1>3. Emitted' = Emitted \cup {to}
  BY <1>2 DEF Emitted
<1>4. LiveIndex = InVector(Unabsorbed) \cup Emitted \cup {from}
  BY <1>1, IndicesAt
<1>5. LiveIndex' = InVector(Unabsorbed) \cup Emitted \cup {to}
  BY <1>1, <1>3, IndicesAtNext
<1>6. to \notin LiveIndex /\ from \notin InVector(Unabsorbed) \cup Emitted
  BY <1>2, <1>4 DEF InVector, Emitted
<1>7. SetAt(to)' = SetAt(from)
  BY <1>2, SetsAt, SetsAtNext
<1>8. ASSUME NEW x \in LiveIndex, x # from PROVE SetAt(x)' = SetAt(x)
  BY <1>1, <1>2, <1>4, <1>8, SetsAt, SetsAtNext DEF InVector, Emitted
<1>. HIDE DEF from, to
<1>9. LiveIndex' = (LiveIndex \ {from}) \cup {to} /\ from \in LiveIndex
  BY <1>4, <1>5, <1>6
<1>10. /\ Family'[to] = Family[from]
       /\ \A x \in DOMAIN Family \ {from} : Family'[x] = Family[x]
       /\ DOMAIN Family' = (DOMAIN Family \ {from}) \cup {to}
  BY <1>7, <1>8, <1>9, FamilyAt
<1>. QED
  BY <1>6, <1>9, <1>10, FamilyAt, FamilyIsFinite, MovedIndex

(* What a pass has produced is the vector of the next.                     *)
LEMMA EndPassRenames ==
  ASSUME TypeOK, LoopBounds, EndPass
  PROVE  BagOf(Family') = BagOf(Family)
<1>1. /\ pc = "outer" /\ pc' \in {"do", "done"}
      /\ merged_functions' = curr_merged_functions
      /\ Unabsorbed = {}
  BY DEF EndPass, Unabsorbed, LoopBounds, TypeOK
<1>2. /\ LiveIndex = Emitted
      /\ LiveIndex' = InVector(DOMAIN curr_merged_functions)
  BY <1>1, IndicesAt, IndicesAtNext DEF InVector
<1>3. PICK h \in [LiveIndex -> LiveIndex'] :
        \A k \in DOMAIN curr_merged_functions : h[<<"emitted", k>>] = <<"vector", k>>
  <2>. DEFINE h == [x \in LiveIndex |-> <<"vector", x[2]>>]
  <2>1. h \in [LiveIndex -> LiveIndex']
    BY <1>2 DEF InVector, Emitted
  <2>2. \A k \in DOMAIN curr_merged_functions : h[<<"emitted", k>>] = <<"vector", k>>
    BY <1>2 DEF Emitted
  <2>. QED
    BY <2>1, <2>2
<1>4. \A x, y \in LiveIndex : h[x] = h[y] => x = y
  BY <1>2, <1>3 DEF Emitted
<1>5. \A z \in LiveIndex' : \E x \in LiveIndex : h[x] = z
  BY <1>2, <1>3 DEF InVector, Emitted
<1>6. ASSUME NEW x \in LiveIndex PROVE SetAt(h[x])' = SetAt(x)
  BY <1>1, <1>2, <1>3, SetsAt, SetsAtNext DEF Emitted
<1>7. /\ h \in [DOMAIN Family -> DOMAIN Family']
      /\ \A x, y \in DOMAIN Family : h[x] = h[y] => x = y
      /\ \A z \in DOMAIN Family' : \E x \in DOMAIN Family : h[x] = z
      /\ \A x \in DOMAIN Family : Family'[h[x]] = Family[x]
  BY <1>3, <1>4, <1>5, <1>6, FamilyAt
<1>. QED
  BY <1>7, FamilyAt, FamilyIsFinite, BagRenamed

(* An absorption is the merge of the set grown with the entry at j.        *)
LEMMA AbsorbMerges ==
  ASSUME TypeOK, TypeOK', LoopBounds, Absorb
  PROVE  Abstract!Merge
<1>0. PICK m : m = j
  OBVIOUS
<1>. DEFINE a == <<"growing", 0>>
            b == <<"vector", m>>
            f == Family
<1>1. /\ pc = "inner" /\ pc' = "inner" /\ merged_functions' = merged_functions
      /\ curr_merged_functions' = curr_merged_functions
      /\ merged_value' = merged_value \cup merged_functions[m]
      /\ Overlap(merged_value, merged_functions[m])
  BY <1>0 DEF Absorb
<1>2. Unabsorbed' = Unabsorbed \ {m} /\ m \in Unabsorbed
  <2>1. DOMAIN merged = DOMAIN merged_functions /\ m \in DOMAIN merged
    BY <1>0, <1>1, IndexInRange, Zenon DEF LoopBounds
  <2>2. merged' = [merged EXCEPT ![m] = TRUE] /\ ~merged[m] /\ merged \in Seq(BOOLEAN)
    BY <1>0 DEF Absorb, TypeOK
  <2>. QED
    BY <1>1, <2>1, <2>2, MarkingRemoves, Zenon DEF Unabsorbed
<1>3. /\ LiveIndex = InVector(Unabsorbed) \cup Emitted \cup {a}
      /\ LiveIndex' = InVector(Unabsorbed \ {m}) \cup Emitted \cup {a}
  <2>1. Emitted' = Emitted
    BY <1>1 DEF Emitted
  <2>. QED
    BY <1>1, <1>2, <2>1, IndicesAt, IndicesAtNext
<1>4. LiveIndex' = LiveIndex \ {b} /\ b \in LiveIndex /\ a \in LiveIndex /\ a # b
  BY <1>2, <1>3 DEF InVector, Emitted
<1>5. SetAt(a) = merged_value /\ SetAt(b) = merged_functions[m] /\ SetAt(a)' = SetAt(a) \cup SetAt(b)
  BY <1>1, SetsAt, SetsAtNext
<1>6. ASSUME NEW x \in LiveIndex', x # a PROVE SetAt(x)' = SetAt(x)
  BY <1>1, <1>3, <1>6, SetsAt, SetsAtNext DEF InVector, Emitted
<1>7. PICK s, t : s = SetAt(a) /\ t = SetAt(b)
  OBVIOUS
<1>8. /\ LiveBag = BagOf(Family) /\ LiveBag' = BagOf(Family')
      /\ IsFiniteSet(DOMAIN Family)
  <2>1. LiveBagIsOfFamily /\ LiveBagIsOfFamily'
    BY LiveBagOfFamily, PTL
  <2>. QED
    BY <2>1, FamilyAt DEF LiveBagIsOfFamily
<1>. HIDE DEF a, b
<1>9. /\ a \in DOMAIN Family /\ b \in DOMAIN Family
      /\ Family[a] = s /\ Family[b] = t /\ Family'[a] = s \cup t
      /\ DOMAIN Family' = DOMAIN Family \ {b}
      /\ \A x \in DOMAIN Family' \ {a} : Family'[x] = Family[x]
  BY <1>4, <1>5, <1>6, <1>7, FamilyAt
<1>10. LiveBag' = Abstract!With(Abstract!Without(Abstract!Without(LiveBag, s), t), s \cup t)
  BY <1>4, <1>8, <1>9, BagMerged
<1>11. s \in Abstract!BagToSet(LiveBag) /\ t \in Abstract!BagToSet(LiveBag)
  BY <1>8, <1>9 DEF BagOf, Members, Abstract!BagToSet
<1>12. Abstract!OverlappingPair(s, t)
  <2>1. s \cap t # {}
    BY <1>1, <1>5, <1>7 DEF Overlap
  <2>2. ASSUME s = t PROVE LiveBag[s] >= 2
    <3>1. a \in Copies(Family, s) /\ b \in Copies(Family, s) /\ s \in Members(Family)
      BY <1>9, <2>2 DEF Copies, Members
    <3>. QED
      BY <1>4, <1>8, <3>1, TwoCopies
  <2>. QED
    BY <2>1, <2>2 DEF Abstract!OverlappingPair
<1>. QED
  BY <1>1, <1>10, <1>11, <1>12 DEF Abstract!Merge

(* A quiet pass ends with nothing left to merge.                           *)
LEMMA QuietEndFinishes ==
  ASSUME TypeOK, LoopBounds, QuietPass, EndPass, ~changed
  PROVE  \A s, t \in Abstract!BagToSet(LiveBag) : ~Abstract!OverlappingPair(s, t)
<1>1. /\ pc = "outer" /\ Unabsorbed = {}
      /\ PairwiseDisjoint(curr_merged_functions)
  BY DEF EndPass, Unabsorbed, LoopBounds, TypeOK, QuietPass
<1>2. LiveIndex = Emitted
  BY <1>1, IndicesAt DEF InVector
<1>3. LiveBag = BagOf(Family) /\ IsFiniteSet(DOMAIN Family)
  BY LiveBagOfFamily, FamilyAt DEF LiveBagIsOfFamily
<1>. SUFFICES ASSUME NEW s \in Members(Family), NEW t \in Members(Family),
                     Abstract!OverlappingPair(s, t)
              PROVE  FALSE
  BY <1>3 DEF BagOf, Abstract!BagToSet
<1>4. PICK a \in LiveIndex, b \in LiveIndex : SetAt(a) = s /\ SetAt(b) = t /\ a # b
  <2>1. CASE s = t
    <3>1. BagOf(Family)[s] >= 2
      BY <1>3, <2>1 DEF Abstract!OverlappingPair
    <3>2. PICK a, b \in Copies(Family, s) : a # b
      BY <1>3, <3>1, TwoCopies
    <3>. QED
      BY <2>1, <3>2, FamilyAt DEF Copies
  <2>2. CASE s # t
    BY <2>2, FamilyAt DEF Members
  <2>. QED
    BY <2>1, <2>2
<1>5. PICK k \in DOMAIN curr_merged_functions, l \in DOMAIN curr_merged_functions :
        a = <<"emitted", k>> /\ b = <<"emitted", l>>
  BY <1>2 DEF Emitted
<1>6. k # l /\ s = curr_merged_functions[k] /\ t = curr_merged_functions[l]
  BY <1>4, <1>5, SetsAt
<1>7. s \cap t # {}
  BY DEF Abstract!OverlappingPair
<1>. QED
  BY <1>1, <1>6, <1>7 DEF PairwiseDisjoint, Overlap

(* Every step of the passes is the merge of one pair of overlapping sets,  *)
(* the end with none left, or no step of the bag at all: entries skipped,  *)
(* flags and the vectors swapped at the end of a pass never lose, double   *)
(* or split a set.  TLC checks that the loops also get there.              *)
THEOREM PassesRefineMerging ==
  Spec => Abstract!Init /\ [][Abstract!Next]_(Abstract!vars)
<1>1. Init => Abstract!Init
  <2>. SUFFICES ASSUME Init PROVE Abstract!Init
    OBVIOUS
  <2>1. TypeOK
    BY InitHasType
  <2>2. LiveBag = BagOf(Family) /\ IsFiniteSet(DOMAIN Family)
    BY <2>1, LiveBagOfFamily, FamilyAt DEF LiveBagIsOfFamily
  <2>3. Abstract!IsABag(LiveBag)
    BY <2>2, BagOfIsBag
  <2>4. (pc = "done") = FALSE
    BY DEF Init
  <2>. QED
    BY <2>3, <2>4 DEF Abstract!Init
<1>2. IInv /\ IInv' /\ [Next]_vars => [Abstract!Next]_(Abstract!vars)
  <2>. SUFFICES ASSUME IInv, IInv', [Next]_vars PROVE [Abstract!Next]_(Abstract!vars)
    OBVIOUS
  <2>1. TypeOK /\ TypeOK' /\ LoopBounds /\ QuietPass
    BY DEF IInv, MergeInv
  <2>2. LiveBag = BagOf(Family) /\ LiveBag' = BagOf(Family')
    <3>1. LiveBagIsOfFamily /\ LiveBagIsOfFamily'
      BY <2>1, LiveBagOfFamily, PTL
    <3>. QED
      BY <3>1 DEF LiveBagIsOfFamily
  <2>3. ASSUME BagOf(Family') = BagOf(Family), (pc' = "done") = (pc = "done")
        PROVE  [Abstract!Next]_(Abstract!vars)
    BY <2>2, <2>3 DEF Abstract!vars
  <2>4. CASE StartPass \/ SkipMerged \/ PassOver
    <3>1. Family' = Family
      BY <2>1, <2>4, QuietSteps
    <3>2. (pc' = "done") = (pc = "done")
      BY <2>4 DEF StartPass, SkipMerged, PassOver
    <3>. QED
      BY <2>3, <3>1, <3>2
  <2>5. CASE StartSet
    <3>1. (pc' = "done") = (pc = "done")
      BY <2>5 DEF StartSet
    <3>. QED
      BY <2>1, <2>3, <2>5, <3>1, StartSetRenames
  <2>6. CASE Absorb
    BY <2>1, <2>6, AbsorbMerges DEF Abstract!Next
  <2>7. CASE EmitSet
    <3>1. (pc' = "done") = (pc = "done")
      BY <2>7 DEF EmitSet
    <3>. QED
      BY <2>1, <2>3, <2>7, <3>1, EmitSetRenames
  <2>8. CASE EndPass
    <3>1. LiveBag' = LiveBag
      BY <2>1, <2>2, <2>8, EndPassRenames
    <3>2. CASE changed
      <4>1. (pc' = "done") = (pc = "done")
        BY <2>8, <3>2 DEF EndPass
      <4>. QED
        BY <3>1, <4>1 DEF Abstract!vars
    <3>3. CASE ~changed
      <4>1. \A s, t \in Abstract!BagToSet(LiveBag) : ~Abstract!OverlappingPair(s, t)
        BY <2>1, <2>8, <3>3, QuietEndFinishes
      <4>2. ~(pc = "done") /\ (pc' = "done") = TRUE
        BY <2>8, <3>3 DEF EndPass
      <4>3. Abstract!Finish
        BY <3>1, <4>1, <4>2 DEF Abstract!Finish
      <4>. QED
        BY <4>3 DEF Abstract!Next
    <3>. QED
      BY <3>2, <3>3
  <2>9. CASE UNCHANGED vars
    <3>1. LiveBag' = LiveBag /\ pc' = pc
      BY <2>9 DEF vars, LiveBag, Live, LiveIndex, SetAt, Unabsorbed
    <3>. QED
      BY <3>1 DEF Abstract!vars
  <2>. QED
    BY <2>4, <2>5, <2>6, <2>7, <2>8, <2>9 DEF Next, Terminated
<1>. QED
  BY <1>1, <1>2, Invariance, PTL DEF Spec
=============================================================================
