-------------------------- MODULE AddressBitsProofs --------------------------
(***************************************************************************)
(* Lemmas about words as sets of bits: induction, the parity of a sum, the *)
(* span of a vector of functions, its greedy basis and its reduction, the  *)
(* disjoint sets of functions, and the order of words as numbers.  The     *)
(* theorems about the components rest on them.                             *)
(***************************************************************************)
EXTENDS ReduceFunctions, FiniteSetTheorems, WellFoundedInduction, TLAPS

-----------------------------------------------------------------------------
(* Induction, stated on a set rather than on a predicate.                  *)
LEMMA LeastNumber ==
  ASSUME NEW T \in SUBSET Nat, T # {}
  PROVE  \E x \in T : \A y \in T : x <= y
<1>. DEFINE R == {ss \in Nat \X Nat : ss[1] < ss[2]}
<1>1. IsWellFoundedOn(R, Nat)
  BY NatLessThanWellFounded DEF OpToRel
<1>2. \A x \in Nat, y \in Nat : y < x => <<y, x>> \in R
  OBVIOUS
<1>. HIDE DEF R
<1>3. \E x \in T : \A y \in T : ~(<<y, x>> \in R)
  BY <1>1, WFMin
<1>4. PICK x \in T : \A y \in T : ~(<<y, x>> \in R)
  BY <1>3
<1>5. \A y \in T : ~(y < x)
  BY <1>2, <1>4
<1>. QED
  BY <1>5

LEMMA Induction ==
  ASSUME NEW S \in SUBSET Nat, 0 \in S, \A n \in S : n + 1 \in S
  PROVE  S = Nat
<1>. SUFFICES ASSUME Nat \ S # {}
              PROVE  FALSE
  OBVIOUS
<1>1. PICK x \in Nat \ S : \A y \in Nat \ S : x <= y
  BY LeastNumber
<1>2. x - 1 \in Nat /\ x - 1 \notin Nat \ S
  BY <1>1
<1>. QED
  BY <1>1, <1>2

(* Induction up to a number.                                               *)
LEMMA InductionTo ==
  ASSUME NEW N \in Nat, NEW S, 0 \in S,
         \A n \in 0 .. N - 1 : n \in S => n + 1 \in S
  PROVE  0 .. N \subseteq S
<1>. DEFINE T == {n \in Nat : n <= N => n \in S}
<1>1. T \in SUBSET Nat /\ 0 \in T
  OBVIOUS
<1>2. \A n \in T : n + 1 \in T
  OBVIOUS
<1>. HIDE DEF T
<1>3. T = Nat
  BY <1>1, <1>2, Induction
<1>. QED
  BY <1>3 DEF T

(* A set of finite sets has one with the fewest elements.                  *)
LEMMA FewestElements ==
  ASSUME NEW F, F # {}, \A S \in F : IsFiniteSet(S)
  PROVE  \E S \in F : \A T \in F : Cardinality(S) <= Cardinality(T)
<1>. DEFINE sizes == {Cardinality(S) : S \in F}
<1>1. sizes \in SUBSET Nat /\ sizes # {}
  BY FS_CardinalityType
<1>2. PICK n \in sizes : \A m \in sizes : n <= m
  BY <1>1, LeastNumber
<1>. QED
  BY <1>2

(* Induction on finite sets: what holds of the empty set and of a set with *)
(* one element more holds of every subset of a finite set.                 *)
LEMMA SetInduction ==
  ASSUME NEW D, IsFiniteSet(D), NEW F, {} \in F,
         \A S \in SUBSET D, x \in D : S \in F /\ x \notin S => S \cup {x} \in F
  PROVE  SUBSET D \subseteq F
<1>. SUFFICES ASSUME (SUBSET D) \ F # {}
              PROVE  FALSE
  OBVIOUS
<1>1. \A S \in (SUBSET D) \ F : IsFiniteSet(S)
  BY FS_Subset
<1>2. PICK S \in (SUBSET D) \ F :
        \A T \in (SUBSET D) \ F : Cardinality(S) <= Cardinality(T)
  BY <1>1, FewestElements
<1>3. PICK x \in S : TRUE
  OBVIOUS
<1>4. /\ S \ {x} \in SUBSET D /\ x \in D
      /\ x \notin S \ {x} /\ (S \ {x}) \cup {x} = S
  BY <1>3
<1>5. S \ {x} \notin F
  BY <1>2, <1>4
<1>6. Cardinality(S) <= Cardinality(S \ {x})
  BY <1>2, <1>4, <1>5
<1>7. Cardinality(S \ {x}) = Cardinality(S) - 1 /\ Cardinality(S) \in Nat
  BY <1>1, <1>3, FS_RemoveElement, FS_CardinalityType
<1>. QED
  BY <1>6, <1>7

(* A function defined by recursion from a value and a step exists.         *)
Follows(f, N, x, step) ==
  f[0] = x /\ \A n \in 1 .. N : f[n] = step[<<f[n - 1], n>>]

LEMMA RecursionExists ==
  ASSUME NEW N \in Nat, NEW X, NEW x \in X, NEW step,
         \A y \in X, n \in 1 .. N : step[<<y, n>>] \in X
  PROVE  \E f \in [0 .. N -> X] : Follows(f, N, x, step)
<1>. DEFINE Upto(m, f) == /\ f \in [0 .. m -> X]
                          /\ f[0] = x
                          /\ \A n \in 1 .. m : f[n] = step[<<f[n - 1], n>>]
            S == {m \in 0 .. N : \E f : Upto(m, f)}
<1>1. 0 \in S
  <2>1. Upto(0, [n \in 0 .. 0 |-> x])
    OBVIOUS
  <2>2. 0 \in 0 .. N
    OBVIOUS
  <2>. HIDE DEF Upto
  <2>. QED
    BY <2>1, <2>2
<1>2. ASSUME NEW m \in 0 .. N - 1, m \in S
      PROVE  m + 1 \in S
  <2>1. PICK f : Upto(m, f)
    BY <1>2
  <2>. DEFINE g == [n \in 0 .. m + 1 |->
                      IF n = m + 1 THEN step[<<f[m], m + 1>>] ELSE f[n]]
  <2>2. m + 1 \in 0 .. N /\ m + 1 \in 1 .. N /\ m \in 0 .. m
    OBVIOUS
  <2>3. f[m] \in X
    BY <2>1, <2>2
  <2>4. step[<<f[m], m + 1>>] \in X
    BY <2>2, <2>3
  <2>5. g \in [0 .. m + 1 -> X]
    BY <2>1, <2>4
  <2>6. g[0] = x
    BY <2>1
  <2>7. \A n \in 1 .. m + 1 : g[n] = step[<<g[n - 1], n>>]
    <3>. TAKE n \in 1 .. m + 1
    <3>1. CASE n = m + 1
      <4>1. n - 1 = m /\ m \in 0 .. m + 1 /\ m # m + 1
        BY <3>1
      <4>2. g[m] = f[m] /\ g[m + 1] = step[<<f[m], m + 1>>]
        BY <4>1
      <4>. QED
        BY <3>1, <4>1, <4>2
    <3>2. CASE n # m + 1
      <4>1. n \in 1 .. m /\ n \in 0 .. m + 1 /\ n - 1 \in 0 .. m + 1
            /\ n - 1 # m + 1
        BY <3>2
      <4>2. g[n] = f[n] /\ g[n - 1] = f[n - 1]
        BY <3>2, <4>1
      <4>. QED
        BY <2>1, <4>1, <4>2
    <3>. QED
      BY <3>1, <3>2
  <2>. QED
    BY <2>2, <2>5, <2>6, <2>7
<1>. HIDE DEF S
<1>3. N \in S
  BY <1>1, <1>2, InductionTo
<1>. QED
  BY <1>3 DEF S, Follows

-----------------------------------------------------------------------------
(* A sequence of a part is one of the whole.                               *)
LEMMA SequenceWithin ==
  ASSUME NEW S, NEW T, S \subseteq T, NEW v \in Seq(S)
  PROVE  v \in Seq(T)
<1>1. /\ Len(v) \in Nat /\ v = [k \in 1 .. Len(v) |-> v[k]]
      /\ \A k \in 1 .. Len(v) : v[k] \in S
  OBVIOUS
<1>2. v \in [1 .. Len(v) -> T]
  BY <1>1
<1>. QED
  BY <1>1, <1>2

-----------------------------------------------------------------------------
(* The parity of a symmetric difference.                                   *)
LEMMA XorCardinality ==
  ASSUME NEW A, NEW B, IsFiniteSet(A), IsFiniteSet(B)
  PROVE  /\ Cardinality(A) \in Nat /\ Cardinality(B) \in Nat
         /\ Cardinality(Xor(A, B)) \in Nat
         /\ Cardinality(Xor(A, B)) % 2
              = ((Cardinality(A) % 2) + (Cardinality(B) % 2)) % 2
<1>1. /\ IsFiniteSet(A \ B) /\ IsFiniteSet(B \ A) /\ IsFiniteSet(A \cap B)
      /\ Cardinality(A \ B) = Cardinality(A) - Cardinality(A \cap B)
      /\ Cardinality(B \ A) = Cardinality(B) - Cardinality(B \cap A)
  BY FS_Difference, FS_Intersection
<1>2. /\ (A \ B) \cap (B \ A) = {}
      /\ B \cap A = A \cap B
  OBVIOUS
<1>3. /\ IsFiniteSet(Xor(A, B))
      /\ Cardinality(Xor(A, B))
           = Cardinality(A \ B) + Cardinality(B \ A) - Cardinality({})
  BY <1>1, <1>2, FS_Union DEF Xor
<1>4. Cardinality({}) = 0
  BY FS_EmptySet
<1>5. /\ Cardinality(A) \in Nat /\ Cardinality(B) \in Nat
      /\ Cardinality(A \cap B) \in Nat /\ Cardinality(Xor(A, B)) \in Nat
      /\ Cardinality(A \ B) \in Nat /\ Cardinality(B \ A) \in Nat
  BY <1>1, <1>3, FS_CardinalityType
<1>6. Cardinality(Xor(A, B))
        = Cardinality(A) + Cardinality(B) - 2 * Cardinality(A \cap B)
  <2>1. Cardinality(B \ A) = Cardinality(B) - Cardinality(A \cap B)
    BY <1>1, <1>2
  <2>2. Cardinality(Xor(A, B)) = Cardinality(A \ B) + Cardinality(B \ A)
    BY <1>3, <1>4, <1>5
  <2>. QED
    BY <1>1, <1>5, <2>1, <2>2
<1>7. ASSUME NEW x \in Nat, NEW y \in Nat, NEW z \in Nat, NEW s \in Nat,
             s = x + y - 2 * z
      PROVE  s % 2 = ((x % 2) + (y % 2)) % 2
  BY <1>7
<1>. QED
  BY <1>5, <1>6, <1>7

-----------------------------------------------------------------------------
(* Sums are linear in the set of indices.                                  *)
LEMMA SumOfNothing ==
  ASSUME NEW v
  PROVE  XorOf(v, {}) = {}
<1>1. \A bit : {k \in {} : bit \in v[k]} = {}
  OBVIOUS
<1>2. Cardinality({}) % 2 # 1
  BY FS_EmptySet
<1>. QED
  BY <1>1, <1>2 DEF XorOf

LEMMA SumOfOne ==
  ASSUME NEW v, NEW k \in DOMAIN v
  PROVE  XorOf(v, {k}) = v[k]
<1>1. ASSUME NEW bit, bit \in v[k]
      PROVE  bit \in XorOf(v, {k})
  <2>1. {j \in {k} : bit \in v[j]} = {k}
    BY <1>1
  <2>2. Cardinality({k}) % 2 = 1
    <3>1. Cardinality({k}) = 1
      BY FS_Singleton
    <3>. QED
      BY <3>1
  <2>3. bit \in UNION Masks(v)
    BY <1>1 DEF Masks
  <2>. QED
    BY <2>1, <2>2, <2>3 DEF XorOf
<1>2. ASSUME NEW bit, bit \in XorOf(v, {k}), bit \notin v[k]
      PROVE  FALSE
  <2>1. {j \in {k} : bit \in v[j]} = {}
    BY <1>2
  <2>2. Cardinality({}) % 2 # 1
    BY FS_EmptySet
  <2>. QED
    BY <1>2, <2>1, <2>2 DEF XorOf
<1>. QED
  BY <1>1, <1>2

LEMMA SumOfXor ==
  ASSUME NEW v, NEW K \in SUBSET DOMAIN v, NEW L \in SUBSET DOMAIN v,
         IsFiniteSet(K), IsFiniteSet(L)
  PROVE  /\ Xor(K, L) \in SUBSET DOMAIN v
         /\ XorOf(v, Xor(K, L)) = Xor(XorOf(v, K), XorOf(v, L))
<1>. DEFINE At(bit, M) == {k \in M : bit \in v[k]}
<1>1. ASSUME NEW bit
      PROVE  Cardinality(At(bit, Xor(K, L))) % 2 = 1
               <=> ~(Cardinality(At(bit, K)) % 2 = 1
                       <=> Cardinality(At(bit, L)) % 2 = 1)
  <2>1. At(bit, Xor(K, L)) = Xor(At(bit, K), At(bit, L))
    BY DEF Xor
  <2>2. IsFiniteSet(At(bit, K)) /\ IsFiniteSet(At(bit, L))
    BY FS_Subset
  <2>. HIDE DEF At
  <2>3. /\ Cardinality(At(bit, K)) \in Nat /\ Cardinality(At(bit, L)) \in Nat
        /\ Cardinality(At(bit, Xor(K, L))) % 2
             = ((Cardinality(At(bit, K)) % 2) + (Cardinality(At(bit, L)) % 2)) % 2
    BY <2>1, <2>2, XorCardinality
  <2>4. ASSUME NEW s, NEW x \in Nat, NEW y \in Nat, s = ((x % 2) + (y % 2)) % 2
        PROVE  s = 1 <=> ~(x % 2 = 1 <=> y % 2 = 1)
    BY <2>4
  <2>. QED
    BY <2>3, <2>4
<1>2. \A M : XorOf(v, M)
               = {bit \in UNION Masks(v) : Cardinality(At(bit, M)) % 2 = 1}
  BY DEF XorOf
<1>. HIDE DEF At
<1>3. XorOf(v, Xor(K, L)) = Xor(XorOf(v, K), XorOf(v, L))
  BY <1>1, <1>2 DEF Xor
<1>. QED
  BY <1>3 DEF Xor

(* One function more.                                                      *)
LEMMA SumOfMore ==
  ASSUME NEW v, NEW K \in SUBSET DOMAIN v, IsFiniteSet(K),
         NEW k \in DOMAIN v, k \notin K
  PROVE  XorOf(v, K \cup {k}) = Xor(XorOf(v, K), v[k])
<1>1. Xor(K, {k}) = K \cup {k}
  BY DEF Xor
<1>2. IsFiniteSet({k}) /\ {k} \in SUBSET DOMAIN v
  BY FS_Singleton
<1>3. XorOf(v, Xor(K, {k})) = Xor(XorOf(v, K), XorOf(v, {k}))
  BY <1>2, SumOfXor
<1>. QED
  BY <1>1, <1>3, SumOfOne

-----------------------------------------------------------------------------
(* The span is the least set that has the empty sum and is closed under    *)
(* the addition of a function of the vector.                               *)
LEMMA SpanClosed ==
  ASSUME NEW v, IsFiniteSet(DOMAIN v)
  PROVE  /\ {} \in Span(v)
         /\ \A k \in DOMAIN v : v[k] \in Span(v)
         /\ \A x, y \in Span(v) : Xor(x, y) \in Span(v)
<1>1. {} \in Span(v)
  BY SumOfNothing DEF Span
<1>2. \A k \in DOMAIN v : v[k] \in Span(v)
  BY SumOfOne DEF Span
<1>3. ASSUME NEW x \in Span(v), NEW y \in Span(v)
      PROVE  Xor(x, y) \in Span(v)
  <2>1. PICK K \in SUBSET DOMAIN v : x = XorOf(v, K)
    BY <1>3 DEF Span
  <2>2. PICK L \in SUBSET DOMAIN v : y = XorOf(v, L)
    BY <1>3 DEF Span
  <2>3. IsFiniteSet(K) /\ IsFiniteSet(L)
    BY FS_Subset
  <2>. QED
    BY <2>1, <2>2, <2>3, SumOfXor DEF Span
<1>. QED
  BY <1>1, <1>2, <1>3

LEMMA SpanLeast ==
  ASSUME NEW v, IsFiniteSet(DOMAIN v), NEW D, {} \in D,
         \A x \in D, k \in DOMAIN v : Xor(x, v[k]) \in D
  PROVE  Span(v) \subseteq D
<1>. DEFINE F == {K \in SUBSET DOMAIN v : XorOf(v, K) \in D}
<1>1. {} \in F
  BY SumOfNothing
<1>2. ASSUME NEW K \in SUBSET DOMAIN v, NEW k \in DOMAIN v, K \in F, k \notin K
      PROVE  K \cup {k} \in F
  <2>1. IsFiniteSet(K)
    BY FS_Subset
  <2>2. XorOf(v, K \cup {k}) = Xor(XorOf(v, K), v[k])
    BY <1>2, <2>1, SumOfMore
  <2>. QED
    BY <1>2, <2>2
<1>. HIDE DEF F
<1>3. SUBSET DOMAIN v \subseteq F
  <2>1. \A K \in SUBSET DOMAIN v, k \in DOMAIN v :
          K \in F /\ k \notin K => K \cup {k} \in F
    BY <1>2
  <2>2. \A dom : /\ IsFiniteSet(dom)
                 /\ \A K \in SUBSET dom, k \in dom :
                      K \in F /\ k \notin K => K \cup {k} \in F
                 => SUBSET dom \subseteq F
    BY <1>1, SetInduction
  <2>. QED
    BY <2>1, <2>2
<1>. QED
  BY <1>3 DEF Span, F

(* Words under addition are a group in which every word is its inverse.    *)
LEMMA XorGroup ==
  ASSUME NEW x, NEW y, NEW z
  PROVE  /\ Xor(x, y) = Xor(y, x)
         /\ Xor(x, Xor(y, z)) = Xor(Xor(x, y), z)
         /\ Xor(Xor(x, y), y) = x
         /\ Xor(x, {}) = x /\ Xor({}, x) = x
         /\ Xor(x, x) = {}
BY DEF Xor

LEMMA XorIsEmpty ==
  ASSUME NEW x, NEW y, Xor(x, y) = {}
  PROVE  x = y
BY DEF Xor


(* What is spanned by members of a span lies in it.                        *)
LEMMA SpanWithin ==
  ASSUME NEW v, NEW w, IsFiniteSet(DOMAIN v), IsFiniteSet(DOMAIN w),
         \A k \in DOMAIN w : w[k] \in Span(v)
  PROVE  Span(w) \subseteq Span(v)
<1>1. {} \in Span(v) /\ \A x \in Span(v), k \in DOMAIN w : Xor(x, w[k]) \in Span(v)
  BY SpanClosed
<1>. QED
  BY <1>1, SpanLeast

LEMMA DomainIsFinite ==
  ASSUME NEW E, NEW v \in Seq(E)
  PROVE  /\ DOMAIN v = 1 .. Len(v) /\ Len(v) \in Nat
         /\ IsFiniteSet(DOMAIN v)
<1>1. DOMAIN v = 1 .. Len(v) /\ Len(v) \in Nat
  OBVIOUS
<1>. QED
  BY <1>1, FS_Interval

(* Functions that agree on the indices have the same sum.                  *)
LEMMA SumOfPart ==
  ASSUME NEW v, NEW w, NEW K, K \subseteq DOMAIN v, K \subseteq DOMAIN w,
         \A k \in K : v[k] = w[k]
  PROVE  XorOf(v, K) = XorOf(w, K)
<1>1. ASSUME NEW a, NEW c, K \subseteq DOMAIN a, K \subseteq DOMAIN c,
             \A k \in K : a[k] = c[k], NEW bit \in XorOf(a, K)
      PROVE  bit \in XorOf(c, K)
  <2>1. {k \in K : bit \in a[k]} = {k \in K : bit \in c[k]}
    BY <1>1
  <2>2. Cardinality({k \in K : bit \in a[k]}) % 2 = 1
    BY <1>1 DEF XorOf
  <2>3. {k \in K : bit \in a[k]} # {}
    <3>1. Cardinality({}) % 2 # 1
      BY FS_EmptySet
    <3>. QED
      BY <2>2, <3>1
  <2>4. PICK k \in K : bit \in c[k]
    BY <2>1, <2>3
  <2>5. bit \in UNION Masks(c)
    BY <1>1, <2>4 DEF Masks
  <2>. QED
    BY <2>1, <2>2, <2>5 DEF XorOf
<1>2. XorOf(v, K) \subseteq XorOf(w, K)
  BY <1>1
<1>3. XorOf(w, K) \subseteq XorOf(v, K)
  BY <1>1
<1>. QED
  BY <1>2, <1>3

LEMMA SpanOfNone ==
  Span(<<>>) = {{}}
<1>1. DOMAIN <<>> = {} /\ SUBSET {} = {{}}
  OBVIOUS
<1>. QED
  BY <1>1, SumOfNothing DEF Span

(* The span with one function more.                                        *)
LEMMA SpanOfAppend ==
  ASSUME NEW E, NEW w \in Seq(E), NEW f \in E
  PROVE  /\ Append(w, f) \in Seq(E)
         /\ Span(w) \subseteq Span(Append(w, f))
         /\ \A x : x \in Span(Append(w, f))
                     <=> x \in Span(w) \/ Xor(x, f) \in Span(w)
<1>. DEFINE v == Append(w, f)
            D == {x \in Span(v) : x \in Span(w) \/ Xor(x, f) \in Span(w)}
<1>1. /\ v \in Seq(E)
      /\ DOMAIN v = DOMAIN w \cup {Len(w) + 1}
      /\ \A k \in DOMAIN w : v[k] = w[k] /\ k \in DOMAIN v
      /\ Len(w) + 1 \in DOMAIN v /\ v[Len(w) + 1] = f
  OBVIOUS
<1>2. IsFiniteSet(DOMAIN v) /\ IsFiniteSet(DOMAIN w)
  BY <1>1, DomainIsFinite
<1>. HIDE DEF v
<1>3. /\ {} \in Span(v) /\ {} \in Span(w)
      /\ \A k \in DOMAIN v : v[k] \in Span(v)
      /\ \A x, y \in Span(v) : Xor(x, y) \in Span(v)
      /\ \A k \in DOMAIN w : w[k] \in Span(w)
      /\ \A x, y \in Span(w) : Xor(x, y) \in Span(w)
  BY <1>2, SpanClosed
<1>4. Span(w) \subseteq Span(v)
  BY <1>1, <1>2, <1>3, SpanWithin
<1>5. {} \in D
  BY <1>3
<1>6. ASSUME NEW x \in D, NEW k \in DOMAIN v
      PROVE  Xor(x, v[k]) \in D
  <2>1. Xor(x, v[k]) \in Span(v)
    BY <1>3, <1>6
  <2>2. CASE k \in DOMAIN w
    <3>1. Xor(Xor(x, w[k]), f) = Xor(Xor(x, f), w[k])
      BY DEF Xor
    <3>2. v[k] = w[k] /\ w[k] \in Span(w)
      BY <1>1, <1>3, <2>2
    <3>. QED
      BY <1>3, <1>6, <2>1, <3>1, <3>2
  <2>3. CASE k = Len(w) + 1
    <3>1. Xor(Xor(x, f), f) = x /\ v[k] = f
      BY <1>1, <2>3, XorGroup
    <3>. QED
      BY <1>6, <2>1, <3>1
  <2>. QED
    BY <1>1, <2>2, <2>3
<1>7. Span(v) \subseteq D
  <2>. HIDE DEF D
  <2>. QED
    BY <1>2, <1>5, <1>6, SpanLeast
<1>8. ASSUME NEW x, Xor(x, f) \in Span(w)
      PROVE  x \in Span(v)
  <2>1. Xor(Xor(x, f), f) = x
    BY XorGroup
  <2>2. f \in Span(v) /\ Xor(x, f) \in Span(v)
    BY <1>1, <1>3, <1>4, <1>8
  <2>. QED
    BY <1>3, <2>1, <2>2
<1>9. \A x : x \in Span(v) <=> x \in Span(w) \/ Xor(x, f) \in Span(w)
  BY <1>4, <1>7, <1>8
<1>. QED
  BY <1>1, <1>4, <1>9 DEF v

(* The functions before one.                                               *)
LEMMA PrefixAppend ==
  ASSUME NEW E, NEW v \in Seq(E), NEW n \in 1 .. Len(v)
  PROVE  /\ SubSeq(v, 1, n - 1) \in Seq(E) /\ v[n] \in E
         /\ Len(SubSeq(v, 1, n - 1)) = n - 1
         /\ SubSeq(v, 1, n) = Append(SubSeq(v, 1, n - 1), v[n])
<1>1. /\ SubSeq(v, 1, n - 1) \in Seq(E) /\ Len(SubSeq(v, 1, n - 1)) = n - 1
      /\ \A k \in 1 .. n - 1 : SubSeq(v, 1, n - 1)[k] = v[k]
      /\ v[n] \in E
  OBVIOUS
<1>2. /\ SubSeq(v, 1, n) \in Seq(E) /\ Len(SubSeq(v, 1, n)) = n
      /\ \A k \in 1 .. n : SubSeq(v, 1, n)[k] = v[k]
  OBVIOUS
<1>. DEFINE w == SubSeq(v, 1, n - 1)
            u == SubSeq(v, 1, n)
<1>. HIDE DEF w, u
<1>3. \A a, c \in Seq(E) : \A e \in E :
        /\ Len(c) = Len(a) + 1 /\ c[Len(c)] = e
        /\ \A k \in 1 .. Len(a) : c[k] = a[k]
        => c = Append(a, e)
  <2>. TAKE a, c \in Seq(E)
  <2>. TAKE e \in E
  <2>. HAVE /\ Len(c) = Len(a) + 1 /\ c[Len(c)] = e
            /\ \A k \in 1 .. Len(a) : c[k] = a[k]
  <2>1. /\ Append(a, e) \in Seq(E) /\ Len(Append(a, e)) = Len(c)
        /\ \A k \in 1 .. Len(c) : c[k] = Append(a, e)[k]
    OBVIOUS
  <2>. QED
    BY <2>1
<1>4. /\ w \in Seq(E) /\ u \in Seq(E) /\ v[n] \in E
      /\ Len(u) = Len(w) + 1 /\ u[Len(u)] = v[n]
      /\ \A k \in 1 .. Len(w) : u[k] = w[k]
  BY <1>1, <1>2 DEF w, u
<1>5. u = Append(w, v[n])
  BY <1>3, <1>4
<1>. QED
  BY <1>1, <1>5 DEF w, u

LEMMA PrefixSpan ==
  ASSUME NEW E, NEW v \in Seq(E), NEW n \in 1 .. Len(v)
  PROVE  /\ Span(SubSeq(v, 1, n - 1)) \subseteq Span(SubSeq(v, 1, n))
         /\ \A x : x \in Span(SubSeq(v, 1, n))
                     <=> \/ x \in Span(SubSeq(v, 1, n - 1))
                         \/ Xor(x, v[n]) \in Span(SubSeq(v, 1, n - 1))
<1>. DEFINE w == SubSeq(v, 1, n - 1)
<1>. HIDE DEF w
<1>1. w \in Seq(E) /\ v[n] \in E /\ SubSeq(v, 1, n) = Append(w, v[n])
  BY PrefixAppend DEF w
<1>2. /\ Span(w) \subseteq Span(Append(w, v[n]))
      /\ \A x : x \in Span(Append(w, v[n]))
                  <=> x \in Span(w) \/ Xor(x, v[n]) \in Span(w)
  BY <1>1, SpanOfAppend
<1>. QED
  BY <1>1, <1>2 DEF w

-----------------------------------------------------------------------------
(* Independence: one more function that is no sum, and the number of sums. *)
LEMMA IndependentAppend ==
  ASSUME NEW E, NEW w \in Seq(E), NEW f \in E,
         IndependentMasks(w), f \notin Span(w)
  PROVE  IndependentMasks(Append(w, f))
<1>. DEFINE v == Append(w, f)
            last == Len(w) + 1
<1>1. /\ v \in Seq(E)
      /\ DOMAIN v = DOMAIN w \cup {last} /\ last \notin DOMAIN w
      /\ \A k \in DOMAIN w : v[k] = w[k] /\ k \in DOMAIN v
      /\ last \in DOMAIN v /\ v[last] = f
  OBVIOUS
<1>2. IsFiniteSet(DOMAIN v) /\ IsFiniteSet(DOMAIN w)
  BY <1>1, DomainIsFinite
<1>. HIDE DEF v, last
<1>3. ASSUME NEW K \in SUBSET DOMAIN w
      PROVE  XorOf(v, K) = XorOf(w, K)
  BY <1>1, SumOfPart
<1>4. ASSUME NEW K \in SUBSET DOMAIN v, XorOf(v, K) = {}
      PROVE  K = {}
  <2>1. CASE last \notin K
    <3>1. K \in SUBSET DOMAIN w
      BY <1>1, <2>1
    <3>. QED
      BY <1>3, <1>4, <3>1 DEF IndependentMasks
  <2>2. CASE last \in K
    <3>. DEFINE L == K \ {last}
    <3>1. L \in SUBSET DOMAIN w /\ L \in SUBSET DOMAIN v
          /\ L \cup {last} = K /\ last \notin L
      BY <1>1, <2>2
    <3>2. IsFiniteSet(L)
      BY <1>2, <3>1, FS_Subset
    <3>. HIDE DEF L
    <3>3. XorOf(v, L \cup {last}) = Xor(XorOf(v, L), v[last])
      BY <1>1, <3>1, <3>2, SumOfMore
    <3>4. XorOf(v, L) = XorOf(w, L)
      BY <1>3, <3>1
    <3>5. Xor(XorOf(w, L), f) = {}
      BY <1>1, <1>4, <3>1, <3>3, <3>4
    <3>6. XorOf(w, L) = f
      BY <3>5, XorIsEmpty
    <3>. QED
      BY <3>1, <3>6 DEF Span
  <2>. QED
    BY <2>1, <2>2
<1>. QED
  BY <1>4 DEF IndependentMasks, v

LEMMA SpanSize ==
  ASSUME NEW v, IsFiniteSet(DOMAIN v), IndependentMasks(v)
  PROVE  /\ IsFiniteSet(Span(v))
         /\ Cardinality(Span(v)) = Cardinality(SUBSET DOMAIN v)
<1>. DEFINE sum == [K \in SUBSET DOMAIN v |-> XorOf(v, K)]
<1>1. IsFiniteSet(SUBSET DOMAIN v)
  BY FS_SUBSET
<1>2. \A s \in Span(v) : \E K \in SUBSET DOMAIN v : sum[K] = s
  BY DEF Span
<1>3. sum \in [SUBSET DOMAIN v -> Span(v)]
  BY DEF Span
<1>4. ASSUME NEW K \in SUBSET DOMAIN v, NEW L \in SUBSET DOMAIN v, sum[K] = sum[L]
      PROVE  K = L
  <2>1. XorOf(v, K) = XorOf(v, L)
    BY <1>4
  <2>2. IsFiniteSet(K) /\ IsFiniteSet(L)
    BY FS_Subset
  <2>3. /\ Xor(K, L) \in SUBSET DOMAIN v
        /\ XorOf(v, Xor(K, L)) = Xor(XorOf(v, K), XorOf(v, L))
    BY <2>2, SumOfXor
  <2>4. Xor(K, L) = {}
    BY <2>1, <2>3, XorGroup DEF IndependentMasks
  <2>. QED
    BY <2>4, XorIsEmpty
<1>. HIDE DEF sum
<1>5. sum \in Surjection(SUBSET DOMAIN v, Span(v))
  BY <1>2, <1>3 DEF Surjection
<1>6. sum \in Injection(SUBSET DOMAIN v, Span(v))
  BY <1>3, <1>4 DEF Injection, IsInjective
<1>. QED
  BY <1>1, <1>5, <1>6, FS_Surjection

(* As many independent functions in the span span all of it.               *)
LEMMA SameSpan ==
  ASSUME NEW v, NEW w, DOMAIN v = DOMAIN w, IsFiniteSet(DOMAIN v),
         IndependentMasks(v), IndependentMasks(w),
         \A k \in DOMAIN w : w[k] \in Span(v)
  PROVE  Span(w) = Span(v)
<1>1. Span(w) \subseteq Span(v)
  BY SpanWithin
<1>2. /\ IsFiniteSet(Span(v)) /\ IsFiniteSet(Span(w))
      /\ Cardinality(Span(v)) = Cardinality(Span(w))
  BY SpanSize
<1>. QED
  BY <1>1, <1>2, FS_Subset

-----------------------------------------------------------------------------
(* The greedy basis, function by function: kept[n] is what is kept of the  *)
(* first n functions.                                                      *)
GreedySteps(v, kept) ==
  /\ kept[0] = <<>>
  /\ \A n \in 1 .. Len(v) :
       kept[n] = IF v[n] \in Span(SubSeq(v, 1, n - 1))
                 THEN kept[n - 1]
                 ELSE Append(kept[n - 1], v[n])

LEMMA GreedyUnfolds ==
  ASSUME NEW E, NEW v \in Seq(E)
  PROVE  \E kept \in [0 .. Len(v) -> Seq(E)] :
           GreedySteps(v, kept) /\ Greedy(v) = kept[Len(v)]
<1>. DEFINE N == Len(v)
            Next(y, n) == IF v[n] \in Span(SubSeq(v, 1, n - 1))
                          THEN y ELSE Append(y, v[n])
            step == [yn \in Seq(E) \X (1 .. N) |-> Next(yn[1], yn[2])]
            Is(k) == k = [n \in 0 .. Len(v) |->
                            IF n = 0 THEN <<>>
                            ELSE IF v[n] \in Span(SubSeq(v, 1, n - 1))
                                 THEN k[n - 1]
                                 ELSE Append(k[n - 1], v[n])]
            kept == CHOOSE k : Is(k)
<1>1. N \in Nat /\ <<>> \in Seq(E) /\ \A n \in 1 .. N : v[n] \in E
  OBVIOUS
<1>2. \A y \in Seq(E), n \in 1 .. N :
        Next(y, n) \in Seq(E) /\ step[<<y, n>>] = Next(y, n)
  BY <1>1
<1>3. \E f \in [0 .. N -> Seq(E)] : Follows(f, N, <<>>, step)
  <2>1. \A y \in Seq(E), n \in 1 .. N : step[<<y, n>>] \in Seq(E)
    BY <1>2
  <2>2. N \in Nat /\ <<>> \in Seq(E)
    BY <1>1
  <2>. HIDE DEF step, N
  <2>. QED
    BY <2>1, <2>2, RecursionExists
<1>4. PICK f \in [0 .. N -> Seq(E)] :
        f[0] = <<>> /\ \A n \in 1 .. N : f[n] = step[<<f[n - 1], n>>]
  BY <1>3 DEF Follows
<1>5. \A n \in 1 .. N : f[n] = Next(f[n - 1], n)
  <2>1. \A n \in 1 .. N : n - 1 \in 0 .. N
    OBVIOUS
  <2>. HIDE DEF step, Next, N
  <2>. QED
    BY <1>2, <1>4, <2>1
<1>6. Is(f)
  <2>1. \A n \in 0 .. N : n # 0 => n \in 1 .. N
    OBVIOUS
  <2>2. f = [n \in 0 .. N |-> IF n = 0 THEN <<>> ELSE Next(f[n - 1], n)]
    <3>. HIDE DEF Next, N
    <3>. QED
      BY <1>4, <1>5, <2>1
  <2>. QED
    BY <2>2
<1>7. Is(kept)
  <2>. HIDE DEF Is
  <2>. QED
    BY <1>6
<1>8. Greedy(v) = kept[Len(v)]
  BY Zenon DEF Greedy
<1>. HIDE DEF kept
<1>9. kept[0] = <<>>
      /\ \A n \in 1 .. N : kept[n] = Next(kept[n - 1], n)
  <2>1. 0 \in 0 .. Len(v) /\ \A n \in 1 .. N : n \in 0 .. Len(v) /\ n # 0
    OBVIOUS
  <2>2. kept[0] = <<>>
    BY <1>7, <2>1
  <2>3. ASSUME NEW n \in 1 .. N
        PROVE  kept[n] = Next(kept[n - 1], n)
    BY <1>7, <2>1
  <2>. QED
    BY <2>2, <2>3
<1>10. DOMAIN kept = 0 .. N /\ kept = [n \in 0 .. N |-> kept[n]]
  BY <1>7
<1>11. 0 .. N \subseteq {n \in 0 .. N : kept[n] \in Seq(E)}
  <2>. DEFINE S == {n \in 0 .. N : kept[n] \in Seq(E)}
  <2>1. 0 \in S
    <3>1. 0 \in 0 .. N
      BY <1>1
    <3>. HIDE DEF N, Next, Is
    <3>. QED
      BY <1>1, <1>9, <3>1
  <2>2. \A n \in 0 .. N - 1 : n \in S => n + 1 \in S
    <3>. TAKE n \in 0 .. N - 1
    <3>. HAVE n \in S
    <3>1. n + 1 \in 1 .. N /\ (n + 1) - 1 = n
      BY <1>1
    <3>2. kept[n + 1] = Next(kept[n], n + 1)
      BY <1>9, <3>1
    <3>. HIDE DEF Next
    <3>3. kept[n + 1] \in Seq(E)
      BY <1>2, <3>1, <3>2
    <3>4. n + 1 \in 0 .. N
      BY <1>1
    <3>. QED
      BY <3>3, <3>4
  <2>. HIDE DEF S
  <2>3. 0 .. N \subseteq S
    BY <1>1, <2>1, <2>2, InductionTo
  <2>. QED
    BY <2>3 DEF S
<1>12. kept \in [0 .. N -> Seq(E)]
  BY <1>10, <1>11
<1>13. GreedySteps(v, kept)
  BY <1>9 DEF GreedySteps
<1>. QED
  BY <1>8, <1>12, <1>13

(* What is kept of the first functions spans them, is independent, and     *)
(* each function kept is no sum of the functions before it.                *)
LEMMA GreedyPrefixes ==
  ASSUME NEW E, NEW v \in Seq(E), NEW kept \in [0 .. Len(v) -> Seq(E)],
         GreedySteps(v, kept), NEW n \in 0 .. Len(v)
  PROVE  /\ Span(kept[n]) = Span(SubSeq(v, 1, n))
         /\ IndependentMasks(kept[n])
         /\ \A k \in DOMAIN kept[n] :
              \E m \in 1 .. n :
                 /\ kept[n][k] = v[m]
                 /\ SubSeq(kept[n], 1, k - 1) = kept[m - 1]
<1>. DEFINE From(i) == \A k \in DOMAIN kept[i] :
                         \E m \in 1 .. i :
                            /\ kept[i][k] = v[m]
                            /\ SubSeq(kept[i], 1, k - 1) = kept[m - 1]
            S == {i \in 0 .. Len(v) :
                    /\ Span(kept[i]) = Span(SubSeq(v, 1, i))
                    /\ IndependentMasks(kept[i])
                    /\ From(i)}
<1>1. 0 \in S
  <2>1. kept[0] = <<>> /\ SubSeq(v, 1, 0) = <<>> /\ 0 \in 0 .. Len(v)
    BY DEF GreedySteps
  <2>2. DOMAIN <<>> = {}
    OBVIOUS
  <2>3. IndependentMasks(<<>>)
    BY <2>2 DEF IndependentMasks
  <2>4. From(0)
    BY <2>1, <2>2
  <2>. HIDE DEF From
  <2>. QED
    BY <2>1, <2>3, <2>4
<1>2. ASSUME NEW i \in 0 .. Len(v) - 1, i \in S
      PROVE  i + 1 \in S
  <2>. DEFINE f == v[i + 1]
              w == SubSeq(v, 1, i)
  <2>1. i + 1 \in 1 .. Len(v) /\ (i + 1) - 1 = i /\ i + 1 \in 0 .. Len(v)
        /\ kept[i] \in Seq(E) /\ f \in E
    OBVIOUS
  <2>2. kept[i + 1] = IF f \in Span(w) THEN kept[i] ELSE Append(kept[i], f)
    BY <2>1 DEF GreedySteps
  <2>3. /\ w \in Seq(E) /\ SubSeq(v, 1, i + 1) = Append(w, f)
    BY <2>1, PrefixAppend
  <2>4. IsFiniteSet(DOMAIN w) /\ IsFiniteSet(DOMAIN kept[i])
    BY <2>1, <2>3, DomainIsFinite
  <2>5. Span(kept[i]) = Span(w) /\ IndependentMasks(kept[i])
    BY <1>2
  <2>6. From(i)
    BY <1>2
  <2>. HIDE DEF f, w
  <2>7. \A x : x \in Span(Append(w, f)) <=> x \in Span(w) \/ Xor(x, f) \in Span(w)
    BY <2>1, <2>3, SpanOfAppend
  <2>8. CASE f \in Span(w)
    <3>1. kept[i + 1] = kept[i]
      BY <2>2, <2>8
    <3>2. \A x : Xor(x, f) \in Span(w) => x \in Span(w)
      <4>. SUFFICES ASSUME NEW x, Xor(x, f) \in Span(w)
                    PROVE  x \in Span(w)
        OBVIOUS
      <4>1. Xor(Xor(x, f), f) = x
        BY XorGroup
      <4>2. Xor(Xor(x, f), f) \in Span(w)
        BY <2>4, <2>8, SpanClosed
      <4>. QED
        BY <4>1, <4>2
    <3>3. Span(SubSeq(v, 1, i + 1)) = Span(w)
      <4>1. \A x : x \in Span(Append(w, f)) <=> x \in Span(w)
        BY <2>7, <3>2
      <4>. HIDE DEF S, From
      <4>2. Span(Append(w, f)) = Span(w)
        BY <4>1
      <4>. QED
        BY <2>3, <4>2
    <3>4. From(i + 1)
      BY <2>1, <2>6, <3>1
    <3>. QED
      BY <2>1, <2>5, <3>1, <3>3, <3>4
  <2>9. CASE f \notin Span(w)
    <3>1. kept[i + 1] = Append(kept[i], f)
      BY <2>2, <2>9
    <3>2. \A x : x \in Span(Append(kept[i], f))
                   <=> x \in Span(kept[i]) \/ Xor(x, f) \in Span(kept[i])
      BY <2>1, SpanOfAppend
    <3>3. Span(kept[i + 1]) = Span(SubSeq(v, 1, i + 1))
      <4>1. \A x : x \in Span(Append(kept[i], f)) <=> x \in Span(Append(w, f))
        BY <2>5, <2>7, <3>2
      <4>2. Span(Append(kept[i], f)) = Span(Append(w, f))
        <5>. HIDE DEF S, From
        <5>. DEFINE A == Span(Append(kept[i], f))
                    B == Span(Append(w, f))
        <5>. HIDE DEF A, B
        <5>1. \A x : x \in A <=> x \in B
          BY <4>1 DEF A, B
        <5>2. A = B
          BY <5>1
        <5>. QED
          BY <5>2 DEF A, B
      <4>. QED
        BY <2>3, <3>1, <4>2
    <3>4. IndependentMasks(kept[i + 1])
      BY <2>1, <2>5, <2>9, <3>1, IndependentAppend
    <3>5. From(i + 1)
      <4>. SUFFICES ASSUME NEW k \in DOMAIN kept[i + 1]
                    PROVE  \E m \in 1 .. i + 1 :
                             /\ kept[i + 1][k] = v[m]
                             /\ SubSeq(kept[i + 1], 1, k - 1) = kept[m - 1]
        OBVIOUS
      <4>. DEFINE u == kept[i]
      <4>1. u \in Seq(E) /\ k \in 1 .. Len(u) + 1
        BY <2>1, <3>1
      <4>. HIDE DEF u
      <4>2. SubSeq(Append(u, f), 1, k - 1) = SubSeq(u, 1, k - 1)
        BY <2>1, <4>1
      <4>3. CASE k \in DOMAIN u
        <5>1. Append(u, f)[k] = u[k]
          BY <2>1, <4>1, <4>3
        <5>2. PICK m \in 1 .. i : u[k] = v[m] /\ SubSeq(u, 1, k - 1) = kept[m - 1]
          BY <2>6, <4>3 DEF u
        <5>3. m \in 1 .. i + 1
          OBVIOUS
        <5>. QED
          BY <3>1, <4>2, <5>1, <5>2, <5>3 DEF u
      <4>4. CASE k = Len(u) + 1
        <5>1. Append(u, f)[k] = f /\ SubSeq(u, 1, k - 1) = u
          BY <2>1, <4>1, <4>4
        <5>2. i + 1 \in 1 .. i + 1
          OBVIOUS
        <5>. QED
          BY <2>1, <3>1, <4>2, <5>1, <5>2 DEF u, f
      <4>. QED
        BY <4>1, <4>3, <4>4
    <3>. QED
      BY <2>1, <3>3, <3>4, <3>5
  <2>. QED
    BY <2>8, <2>9
<1>3. 0 .. Len(v) \subseteq S
  <2>1. Len(v) \in Nat
    OBVIOUS
  <2>. HIDE DEF S
  <2>. QED
    BY <1>1, <1>2, <2>1, InductionTo
<1>. QED
  BY <1>3

(* The greedy basis is a basis, and its first functions are a basis of the *)
(* functions before the next one.                                          *)
LEMMA GreedyBasis ==
  ASSUME NEW E, NEW v \in Seq(E)
  PROVE  /\ Greedy(v) \in Seq(E)
         /\ Span(Greedy(v)) = Span(v)
         /\ IndependentMasks(Greedy(v))
         /\ \A k \in DOMAIN Greedy(v) :
              \E m \in 1 .. Len(v) :
                 /\ Greedy(v)[k] = v[m]
                 /\ Span(SubSeq(Greedy(v), 1, k - 1)) = Span(SubSeq(v, 1, m - 1))
<1>1. PICK kept \in [0 .. Len(v) -> Seq(E)] :
        GreedySteps(v, kept) /\ Greedy(v) = kept[Len(v)]
  BY GreedyUnfolds
<1>2. \A n \in 0 .. Len(v) :
         /\ Span(kept[n]) = Span(SubSeq(v, 1, n))
         /\ IndependentMasks(kept[n])
         /\ \A k \in DOMAIN kept[n] :
              \E m \in 1 .. n :
                 /\ kept[n][k] = v[m]
                 /\ SubSeq(kept[n], 1, k - 1) = kept[m - 1]
  BY <1>1, GreedyPrefixes
<1>3. Len(v) \in 0 .. Len(v) /\ SubSeq(v, 1, Len(v)) = v
      /\ \A m \in 1 .. Len(v) : m - 1 \in 0 .. Len(v)
  OBVIOUS
<1>4. ASSUME NEW k \in DOMAIN Greedy(v)
      PROVE  \E m \in 1 .. Len(v) :
                /\ Greedy(v)[k] = v[m]
                /\ Span(SubSeq(Greedy(v), 1, k - 1)) = Span(SubSeq(v, 1, m - 1))
  <2>1. PICK m \in 1 .. Len(v) : /\ Greedy(v)[k] = v[m]
                                 /\ SubSeq(Greedy(v), 1, k - 1) = kept[m - 1]
    <3>1. k \in DOMAIN kept[Len(v)]
      BY <1>1
    <3>2. \E m \in 1 .. Len(v) :
             /\ kept[Len(v)][k] = v[m]
             /\ SubSeq(kept[Len(v)], 1, k - 1) = kept[m - 1]
      BY Zenon, <1>2, <1>3, <3>1
    <3>. QED
      BY <1>1, <3>2
  <2>2. Span(kept[m - 1]) = Span(SubSeq(v, 1, m - 1))
    BY <1>2, <1>3
  <2>. QED
    BY <2>1, <2>2
<1>. QED
  BY <1>1, <1>2, <1>3, <1>4

(* The greedy basis is part of the vector, and a function that is no sum   *)
(* of earlier ones is in it.                                               *)
LEMMA GreedyKeeps ==
  ASSUME NEW E, NEW v \in Seq(E)
  PROVE  /\ Masks(Greedy(v)) \subseteq Masks(v)
         /\ \A n \in 1 .. Len(v) : v[n] \notin Span(SubSeq(v, 1, n - 1))
                                     => v[n] \in Masks(Greedy(v))
<1>1. Masks(Greedy(v)) \subseteq Masks(v)
  <2>1. \A k \in DOMAIN Greedy(v) : \E m \in 1 .. Len(v) : Greedy(v)[k] = v[m]
    BY GreedyBasis
  <2>2. DOMAIN v = 1 .. Len(v)
    BY DomainIsFinite
  <2>. QED
    BY <2>1, <2>2 DEF Masks
<1>2. ASSUME NEW n \in 1 .. Len(v), v[n] \notin Span(SubSeq(v, 1, n - 1))
      PROVE  v[n] \in Masks(Greedy(v))
  <2>1. PICK kept \in [0 .. Len(v) -> Seq(E)] :
          GreedySteps(v, kept) /\ Greedy(v) = kept[Len(v)]
    BY GreedyUnfolds
  <2>. DEFINE S == {d \in Nat : n + d <= Len(v) => v[n] \in Masks(kept[n + d])}
  <2>2. Len(v) \in Nat /\ n \in Nat /\ n >= 1 /\ n <= Len(v) /\ v[n] \in E
    OBVIOUS
  <2>3. 0 \in S
    <3>1. kept[n] = Append(kept[n - 1], v[n])
      BY Zenon, <1>2, <2>1 DEF GreedySteps
    <3>2. n - 1 \in 0 .. Len(v)
      BY <2>2
    <3>3. kept[n - 1] \in Seq(E)
      BY <3>2
    <3>4. v[n] \in Masks(kept[n])
      BY <2>2, <3>1, <3>3 DEF Masks
    <3>5. n + 0 = n
      BY <2>2
    <3>6. v[n] \in Masks(kept[n + 0])
      BY <3>4, <3>5
    <3>. QED
      BY Zenon, <3>6
  <2>4. ASSUME NEW d \in S, n + (d + 1) <= Len(v)
        PROVE  v[n] \in Masks(kept[n + (d + 1)])
    <3>1. d \in Nat /\ n + d <= Len(v)
      BY <2>2, <2>4
    <3>2. PICK i \in 1 .. Len(v) : i = n + (d + 1)
      BY <2>2, <2>4, <3>1
    <3>3. i - 1 = n + d /\ i - 1 \in 0 .. Len(v)
      BY <2>2, <3>1, <3>2
    <3>4. v[n] \in Masks(kept[i - 1])
      BY <3>1, <3>3
    <3>5. kept[i] \in {kept[i - 1], Append(kept[i - 1], v[i])}
      BY <2>1 DEF GreedySteps
    <3>6. kept[i - 1] \in Seq(E)
      BY <3>3
    <3>7. Masks(kept[i - 1]) \subseteq Masks(kept[i])
      <4>1. CASE kept[i] = kept[i - 1]
        BY <4>1
      <4>2. CASE kept[i] = Append(kept[i - 1], v[i])
        <5>. DEFINE w == kept[i - 1]
        <5>1. w \in Seq(E)
          BY <3>6
        <5>. HIDE DEF w
        <5>2. \A k \in DOMAIN w : k \in DOMAIN Append(w, v[i])
                                  /\ Append(w, v[i])[k] = w[k]
          BY <5>1
        <5>3. Masks(w) \subseteq Masks(Append(w, v[i]))
          BY <5>2 DEF Masks
        <5>. QED
          BY <4>2, <5>3 DEF w
      <4>. QED
        BY <3>5, <4>1, <4>2
    <3>. QED
      BY <3>2, <3>4, <3>7
  <2>5. S \in SUBSET Nat /\ \A d \in S : d + 1 \in S
    <3>1. \A d \in S : d \in Nat /\ d + 1 \in Nat
      OBVIOUS
    <3>. QED
      BY <2>4, <3>1
  <2>6. S = Nat
    <3>. HIDE DEF S
    <3>. QED
      BY <2>3, <2>5, Induction
  <2>7. Len(v) - n \in Nat /\ n + (Len(v) - n) = Len(v)
    BY <2>2
  <2>8. v[n] \in Masks(kept[n + (Len(v) - n)])
    <3>1. \A d \in Nat : n + d <= Len(v) => v[n] \in Masks(kept[n + d])
      BY <2>6
    <3>2. n + (Len(v) - n) <= Len(v)
      BY <2>2
    <3>. QED
      BY Zenon, <2>7, <3>1, <3>2
  <2>9. v[n] \in Masks(kept[Len(v)])
    BY <2>7, <2>8
  <2>. QED
    BY <2>1, <2>9
<1>. QED
  BY <1>1, <1>2

-----------------------------------------------------------------------------
(* Words are totally ordered.                                              *)
LEMMA HighestBit ==
  ASSUME NEW M \in Nat, NEW S \in SUBSET (0 .. M), S # {}
  PROVE  \E bit \in S : \A c \in S : c <= bit
<1>. DEFINE T == {n \in 0 .. M : M - n \in S}
<1>1. \A c \in S : M - c \in T /\ c \in 0 .. M
  OBVIOUS
<1>2. T \in SUBSET Nat /\ T # {}
  <2>1. T \in SUBSET Nat
    OBVIOUS
  <2>2. PICK c \in S : TRUE
    OBVIOUS
  <2>. QED
    BY <1>1, <2>1, <2>2
<1>3. PICK n \in T : \A k \in T : n <= k
  BY <1>2, LeastNumber
<1>4. M - n \in S /\ n \in 0 .. M
  OBVIOUS
<1>. HIDE DEF T
<1>5. \A c \in S : c <= M - n
  BY <1>1, <1>3, <1>4
<1>. QED
  BY <1>4, <1>5

LEMMA LessTotal ==
  ASSUME NEW M \in Nat, NEW m \in SUBSET (0 .. M), NEW n \in SUBSET (0 .. M), m # n
  PROVE  Less(m, n) \/ Less(n, m)
<1>1. Xor(m, n) \in SUBSET (0 .. M) /\ Xor(m, n) # {} /\ Xor(n, m) = Xor(m, n)
  BY DEF Xor
<1>2. PICK bit \in Xor(m, n) : \A c \in Xor(m, n) : c <= bit
  BY <1>1, HighestBit
<1>3. bit \in n \ m \/ bit \in m \ n
  BY DEF Xor
<1>. QED
  BY <1>1, <1>2, <1>3 DEF Less

(* The order on masks is a strict order.                                   *)
LEMMA LessIrreflexive ==
  ASSUME NEW m
  PROVE  ~Less(m, m)
BY DEF Less

(* The highest bit of two changes in a row is one of theirs.               *)
LEMMA LessTransitive ==
  ASSUME NEW k \in SUBSET Int, NEW m \in SUBSET Int, NEW n \in SUBSET Int,
         Less(k, m), Less(m, n)
  PROVE  Less(k, n)
<1>1. PICK p \in m \ k : \A c \in Xor(k, m) : c <= p
  BY DEF Less
<1>2. PICK q \in n \ m : \A c \in Xor(m, n) : c <= q
  BY DEF Less
<1>3. p \in Int /\ q \in Int /\ p # q
  OBVIOUS
<1>4. \A c \in Xor(k, n) : c \in Int /\ (c \in Xor(k, m) \/ c \in Xor(m, n))
  BY DEF Xor
<1>5. CASE p < q
  <2>1. q \notin Xor(k, m)
    BY <1>1, <1>3, <1>5
  <2>2. q \in n \ k
    BY <2>1 DEF Xor
  <2>3. \A c \in Xor(k, n) : c <= q
    BY <1>1, <1>2, <1>3, <1>4, <1>5
  <2>. QED
    BY <2>2, <2>3 DEF Less
<1>6. CASE q < p
  <2>1. p \notin Xor(m, n)
    BY <1>2, <1>3, <1>6
  <2>2. p \in n \ k
    BY <2>1 DEF Xor
  <2>3. \A c \in Xor(k, n) : c <= p
    BY <1>1, <1>2, <1>3, <1>4, <1>6
  <2>. QED
    BY <2>2, <2>3 DEF Less
<1>. QED
  BY <1>3, <1>5, <1>6

LEMMA LeastWord ==
  ASSUME NEW M \in Nat, NEW S \in SUBSET SUBSET (0 .. M), S # {}
  PROVE  \E m \in S : \A n \in S : m = n \/ Less(m, n)
<1>. DEFINE Below(m) == {k \in S : Less(k, m)}
            F == {Below(m) : m \in S}
<1>1. IsFiniteSet(S)
  <2>1. IsFiniteSet(0 .. M)
    BY FS_Interval
  <2>2. IsFiniteSet(SUBSET (0 .. M))
    BY <2>1, FS_SUBSET
  <2>. QED
    BY <2>2, FS_Subset
<1>2. \A m \in S : Below(m) \in SUBSET S
  OBVIOUS
<1>3. F # {} /\ \A T \in F : IsFiniteSet(T)
  <2>1. \A T \in F : T \in SUBSET S
    BY <1>2
  <2>2. F # {}
    OBVIOUS
  <2>. HIDE DEF F
  <2>. QED
    BY <1>1, <2>1, <2>2, FS_Subset
<1>4. PICK T \in F : \A U \in F : Cardinality(T) <= Cardinality(U)
  BY <1>3, FewestElements
<1>5. PICK m \in S : T = Below(m)
  OBVIOUS
<1>6. ASSUME NEW n \in S, Less(n, m)
      PROVE  FALSE
  <2>1. \A k \in S : k \in SUBSET Int
    OBVIOUS
  <2>2. \A k \in S : Less(k, n) => Less(k, m)
    BY <1>6, <2>1, LessTransitive
  <2>3. Below(n) \subseteq Below(m) \ {n}
    BY <2>2, LessIrreflexive
  <2>4. n \in Below(m)
    BY <1>6
  <2>5. IsFiniteSet(Below(m)) /\ Below(n) \in F
    BY <1>1, <1>2, FS_Subset
  <2>6. Cardinality(Below(m)) <= Cardinality(Below(n))
    BY <1>4, <1>5, <2>5
  <2>. HIDE DEF Below
  <2>7. /\ IsFiniteSet(Below(m) \ {n}) /\ Cardinality(Below(m)) \in Nat
        /\ Cardinality(Below(m) \ {n}) = Cardinality(Below(m)) - 1
    BY <2>4, <2>5, FS_RemoveElement, FS_CardinalityType
  <2>8. /\ Cardinality(Below(n)) <= Cardinality(Below(m) \ {n})
        /\ IsFiniteSet(Below(n))
    BY <2>3, <2>7, FS_Subset
  <2>9. Cardinality(Below(n)) \in Nat
    BY <2>8, FS_CardinalityType
  <2>. QED
    BY <2>6, <2>7, <2>8, <2>9
<1>7. \A n \in S : m = n \/ Less(m, n)
  BY <1>6, LessTotal
<1>. QED
  BY <1>7

(* Ascending sorts: it lists every word of a set once, the lower first.    *)
(* The rank of a word is the number of words below it.                     *)
Rank(S, m) == Cardinality({k \in S : Less(k, m)})

(* Words over finitely many bits are finitely many.                        *)
LEMMA WordsAreFinite ==
  ASSUME NEW M \in Nat, NEW S \in SUBSET SUBSET (0 .. M)
  PROVE  IsFiniteSet(S) /\ Cardinality(S) \in Nat
<1>1. IsFiniteSet(0 .. M)
  BY FS_Interval
<1>2. IsFiniteSet(SUBSET (0 .. M))
  BY <1>1, FS_SUBSET
<1>. QED
  BY <1>2, FS_Subset, FS_CardinalityType

(* The order is the order of the ranks.                                    *)
LEMMA RankGrows ==
  ASSUME NEW M \in Nat, NEW S \in SUBSET SUBSET (0 .. M),
         NEW m \in S, NEW n \in S, Less(m, n)
  PROVE  Rank(S, m) \in Nat /\ Rank(S, n) \in Nat /\ Rank(S, m) < Rank(S, n)
<1>. DEFINE A == {k \in S : Less(k, m)}
            B == {k \in S : Less(k, n)}
<1>1. A \in SUBSET S /\ B \in SUBSET S /\ m \in B /\ m \notin A
  BY LessIrreflexive
<1>2. A \in SUBSET B
  <2>1. \A k \in S : k \in SUBSET Int
    OBVIOUS
  <2>2. \A k \in S : Less(k, m) => Less(k, n)
    BY <2>1, LessTransitive
  <2>. QED
    BY <2>2
<1>3. IsFiniteSet(A) /\ IsFiniteSet(B)
  BY <1>1, WordsAreFinite, FS_Subset
<1>. HIDE DEF A, B
<1>4. /\ Cardinality(A) \in Nat /\ Cardinality(B) \in Nat
      /\ Cardinality(A) <= Cardinality(B) /\ Cardinality(B) # Cardinality(A)
  <2>1. Cardinality(A) \in Nat /\ Cardinality(B) \in Nat
    BY <1>3, FS_CardinalityType
  <2>2. /\ Cardinality(A) <= Cardinality(B)
        /\ Cardinality(B) = Cardinality(A) => B = A
    BY <1>2, <1>3, FS_Subset
  <2>. QED
    BY <1>1, <2>1, <2>2
<1>. QED
  BY <1>4 DEF Rank, A, B

(* Ranks are numbers below the size of the set, and tell words apart.      *)
LEMMA RankOrders ==
  ASSUME NEW M \in Nat, NEW S \in SUBSET SUBSET (0 .. M), NEW m \in S
  PROVE  /\ Rank(S, m) \in 0 .. Cardinality(S) - 1
         /\ \A n \in S : Rank(S, n) = Rank(S, m) => n = m
         /\ \A n \in S : Rank(S, n) < Rank(S, m) => Less(n, m)
<1>. DEFINE A == {k \in S : Less(k, m)}
<1>1. A \in SUBSET S /\ m \notin A
  BY LessIrreflexive
<1>2. IsFiniteSet(S) /\ Cardinality(S) \in Nat
  BY WordsAreFinite
<1>. HIDE DEF A
<1>3. /\ Cardinality(A) \in Nat /\ Cardinality(A) <= Cardinality(S)
      /\ Cardinality(S) = Cardinality(A) => S = A
  BY <1>1, <1>2, FS_Subset, FS_CardinalityType
<1>4. Rank(S, m) \in 0 .. Cardinality(S) - 1
  <2>1. Cardinality(A) # Cardinality(S)
    BY <1>1, <1>3
  <2>2. Cardinality(A) \in 0 .. Cardinality(S) - 1
    BY <1>2, <1>3, <2>1
  <2>. QED
    BY <2>2 DEF Rank, A
<1>5. ASSUME NEW n \in S, n # m
      PROVE  /\ Rank(S, n) # Rank(S, m)
             /\ Rank(S, n) < Rank(S, m) => Less(n, m)
  <2>1. m \in SUBSET (0 .. M) /\ n \in SUBSET (0 .. M)
    OBVIOUS
  <2>2. CASE Less(n, m)
    <3>1. /\ Rank(S, n) \in Nat /\ Rank(S, m) \in Nat
          /\ Rank(S, n) < Rank(S, m)
      BY <2>2, RankGrows
    <3>. QED
      BY <2>2, <3>1
  <2>3. CASE Less(m, n)
    <3>1. /\ Rank(S, n) \in Nat /\ Rank(S, m) \in Nat
          /\ Rank(S, m) < Rank(S, n)
      BY <2>3, RankGrows
    <3>. QED
      BY <3>1
  <2>. QED
    BY <1>5, <2>1, <2>2, <2>3, LessTotal
<1>6. \A n \in S : Rank(S, n) < Rank(S, m) => Less(n, m)
  <2>. SUFFICES ASSUME NEW n \in S, Rank(S, n) < Rank(S, m)
                PROVE  Less(n, m)
    OBVIOUS
  <2>1. n # m
    BY <1>4, WordsAreFinite
  <2>. QED
    BY <1>5, <2>1
<1>. QED
  BY <1>4, <1>5, <1>6

(* A word of every rank, by counting.                                      *)
LEMMA WordOfRank ==
  ASSUME NEW M \in Nat, NEW S \in SUBSET SUBSET (0 .. M),
         NEW n \in 1 .. Cardinality(S)
  PROVE  \E m \in S : Rank(S, m) = n - 1
<1>. DEFINE N == Cardinality(S)
            rank == [m \in S |-> Rank(S, m)]
<1>1. IsFiniteSet(S) /\ N \in Nat
  BY WordsAreFinite
<1>2. IsFiniteSet(0 .. N - 1) /\ Cardinality(0 .. N - 1) = N
  <2>1. \A x \in Nat : (IF 0 > x - 1 THEN 0 ELSE x - 1 - 0 + 1) = x
                       /\ x - 1 \in Int
    OBVIOUS
  <2>. HIDE DEF N
  <2>2. /\ IsFiniteSet(0 .. N - 1)
        /\ Cardinality(0 .. N - 1) = IF 0 > N - 1 THEN 0 ELSE N - 1 - 0 + 1
    BY <1>1, <2>1, FS_Interval
  <2>. QED
    BY <1>1, <2>1, <2>2
<1>3. rank \in [S -> 0 .. N - 1]
  BY RankOrders
<1>4. \A m, k \in S : rank[m] = rank[k] => m = k
  BY RankOrders
<1>5. \A m \in S : rank[m] = Rank(S, m)
  OBVIOUS
<1>. HIDE DEF N, rank
<1>6. rank \in Injection(S, 0 .. N - 1)
  BY <1>3, <1>4 DEF Injection, IsInjective
<1>7. Cardinality(S) = Cardinality(0 .. N - 1)
  BY <1>2 DEF N
<1>8. rank \in Surjection(S, 0 .. N - 1)
  BY <1>2, <1>6, <1>7, FS_Injection
<1>9. n - 1 \in 0 .. N - 1
  BY <1>1 DEF N
<1>. QED
  BY <1>5, <1>8, <1>9 DEF Surjection

(* All words, each once, the lower first.                                  *)
LEMMA AscendingSorts ==
  ASSUME NEW M \in Nat, NEW S \in SUBSET SUBSET (0 .. M)
  PROVE  /\ Ascending(S) \in Seq(S)
         /\ Masks(Ascending(S)) = S
         /\ \A i, j \in DOMAIN Ascending(S) :
              i < j => Less(Ascending(S)[i], Ascending(S)[j])
<1>. DEFINE N == Cardinality(S)
            A == Ascending(S)
<1>1. N \in Nat
  BY WordsAreFinite
<1>2. /\ DOMAIN A = 1 .. N
      /\ \A n \in 1 .. N : A[n] = CHOOSE m \in S : Rank(S, m) = n - 1
  BY DEF Ascending, Rank
<1>3. \A n \in 1 .. N : A[n] \in S /\ Rank(S, A[n]) = n - 1
  <2>. SUFFICES ASSUME NEW n \in 1 .. N
                PROVE  A[n] \in S /\ Rank(S, A[n]) = n - 1
    OBVIOUS
  <2>1. \E m \in S : Rank(S, m) = n - 1
    BY WordOfRank
  <2>2. A[n] = CHOOSE m \in S : Rank(S, m) = n - 1
    BY <1>2
  <2>. HIDE DEF A
  <2>. QED
    BY <2>1, <2>2
<1>4. A \in Seq(S)
  <2>1. A = [n \in 1 .. N |-> A[n]]
    <3>1. A = [n \in 1 .. N |-> CHOOSE m \in S : Rank(S, m) = n - 1]
      BY DEF Ascending, Rank
    <3>. HIDE DEF A, N
    <3>. QED
      BY <3>1
  <2>. HIDE DEF A, N
  <2>2. A \in [1 .. N -> S]
    BY <1>3, <2>1
  <2>. QED
    BY <1>1, <2>2
<1>. HIDE DEF A
<1>5. S \subseteq Masks(A)
  <2>. SUFFICES ASSUME NEW m \in S
                PROVE  \E n \in 1 .. N : A[n] = m
    BY <1>2 DEF Masks
  <2>1. Rank(S, m) \in 0 .. N - 1
    BY RankOrders
  <2>2. PICK n \in 1 .. N : n - 1 = Rank(S, m)
    <3>1. Rank(S, m) + 1 \in 1 .. N /\ (Rank(S, m) + 1) - 1 = Rank(S, m)
      BY <1>1, <2>1
    <3>. QED
      BY <3>1
  <2>3. A[n] \in S /\ Rank(S, A[n]) = Rank(S, m)
    BY <1>3, <2>2
  <2>. QED
    BY <2>3, RankOrders
<1>6. Masks(A) \subseteq S
  BY <1>2, <1>3 DEF Masks
<1>7. ASSUME NEW i \in 1 .. N, NEW j \in 1 .. N, i < j
      PROVE  Less(A[i], A[j])
  <2>1. /\ A[i] \in S /\ A[j] \in S
        /\ Rank(S, A[i]) = i - 1 /\ Rank(S, A[j]) = j - 1
    BY <1>3
  <2>2. Rank(S, A[i]) < Rank(S, A[j])
    BY <1>1, <1>7, <2>1
  <2>. QED
    BY <2>1, <2>2, RankOrders
<1>. QED
  BY <1>2, <1>4, <1>5, <1>6, <1>7 DEF A

-----------------------------------------------------------------------------
(* Sizes of sets and of the sets of their subsets.                         *)
LEMMA SubsetOfSize ==
  ASSUME NEW A, IsFiniteSet(A), NEW n \in Nat, n <= Cardinality(A)
  PROVE  \E S \in SUBSET A : Cardinality(S) = n
<1>. DEFINE size == Cardinality(A)
            F == {k \in 0 .. size : \E S \in SUBSET A : Cardinality(S) = size - k}
<1>1. size \in Nat
  BY FS_CardinalityType
<1>2. 0 \in F
  <2>1. A \in SUBSET A /\ Cardinality(A) = size - 0 /\ 0 \in 0 .. size
    BY <1>1
  <2>. QED
    BY <2>1
<1>3. \A k \in 0 .. size - 1 : k \in F => k + 1 \in F
  <2>. TAKE k \in 0 .. size - 1
  <2>. HAVE k \in F
  <2>1. PICK S \in SUBSET A : Cardinality(S) = size - k
    OBVIOUS
  <2>2. IsFiniteSet(S)
    BY FS_Subset
  <2>3. S # {}
    BY <1>1, <2>1, FS_EmptySet
  <2>4. PICK x \in S : TRUE
    BY <2>3
  <2>5. Cardinality(S \ {x}) = Cardinality(S) - 1
    BY <2>2, <2>4, FS_RemoveElement
  <2>6. S \ {x} \in SUBSET A /\ Cardinality(S \ {x}) = size - (k + 1)
        /\ k + 1 \in 0 .. size
    BY <1>1, <2>1, <2>5
  <2>. QED
    BY <2>6
<1>4. 0 .. size \subseteq F
  <2>. HIDE DEF F, size
  <2>. QED
    BY <1>1, <1>2, <1>3, InductionTo
<1>5. size - n \in 0 .. size /\ size - (size - n) = n
  BY <1>1
<1>. QED
  BY <1>4, <1>5

LEMMA PowerSetSize ==
  ASSUME NEW A, NEW B, IsFiniteSet(A), IsFiniteSet(B),
         NEW g \in Injection(SUBSET A, SUBSET B)
  PROVE  Cardinality(A) <= Cardinality(B)
<1>1. /\ IsFiniteSet(SUBSET A) /\ IsFiniteSet(SUBSET B)
      /\ Cardinality(A) \in Nat /\ Cardinality(B) \in Nat
      /\ Cardinality(SUBSET A) \in Nat /\ Cardinality(SUBSET B) \in Nat
  BY FS_SUBSET, FS_CardinalityType
<1>2. Cardinality(SUBSET A) <= Cardinality(SUBSET B)
  BY <1>1, FS_Injection
<1>. SUFFICES ASSUME Cardinality(B) < Cardinality(A)
              PROVE  FALSE
  BY <1>1
<1>3. PICK S \in SUBSET A : Cardinality(S) = Cardinality(B)
  BY <1>1, SubsetOfSize
<1>4. IsFiniteSet(S)
  BY FS_Subset
<1>5. Cardinality(SUBSET S) = 2^Cardinality(S)
  BY <1>4, FS_SUBSET
<1>6. Cardinality(SUBSET B) = 2^Cardinality(B)
  BY FS_SUBSET
<1>7. SUBSET S \in SUBSET SUBSET A /\ SUBSET S # SUBSET A
  <2>1. SUBSET S \in SUBSET SUBSET A
    OBVIOUS
  <2>2. S # A
    BY <1>1, <1>3
  <2>3. A \in SUBSET A /\ A \notin SUBSET S
    BY <2>2
  <2>. QED
    BY <2>1, <2>3
<1>8. /\ Cardinality(SUBSET S) <= Cardinality(SUBSET A)
      /\ Cardinality(SUBSET S) # Cardinality(SUBSET A)
  BY <1>1, <1>7, FS_Subset
<1>9. Cardinality(SUBSET S) = Cardinality(SUBSET B)
  BY <1>3, <1>5, <1>6
<1>. QED
  BY <1>1, <1>2, <1>8, <1>9

-----------------------------------------------------------------------------
(* An output bit of a function is linear in the address.                   *)
LEMMA ParityType ==
  ASSUME NEW f, NEW x, IsFiniteSet(x)
  PROVE  XORReductionWithMask(f, x) \in {0, 1}
<1>1. IsFiniteSet(f \cap x)
  BY FS_Subset
<1>2. Cardinality(f \cap x) \in Nat
  BY <1>1, FS_CardinalityType
<1>. QED
  BY <1>2 DEF XORReductionWithMask

LEMMA ParityOfXor ==
  ASSUME NEW f, NEW x, NEW y, IsFiniteSet(x), IsFiniteSet(y)
  PROVE  XORReductionWithMask(f, Xor(x, y)) = 0
           <=> XORReductionWithMask(f, x) = XORReductionWithMask(f, y)
<1>1. f \cap Xor(x, y) = Xor(f \cap x, f \cap y)
  BY DEF Xor
<1>2. IsFiniteSet(f \cap x) /\ IsFiniteSet(f \cap y)
  BY FS_Subset
<1>3. /\ Cardinality(f \cap x) \in Nat /\ Cardinality(f \cap y) \in Nat
      /\ Cardinality(Xor(f \cap x, f \cap y)) % 2
           = ((Cardinality(f \cap x) % 2) + (Cardinality(f \cap y) % 2)) % 2
  BY <1>2, XorCardinality
<1>4. ASSUME NEW s, NEW i \in Nat, NEW j \in Nat, s = ((i % 2) + (j % 2)) % 2
      PROVE  s = 0 <=> i % 2 = j % 2
  BY <1>4
<1>. QED
  BY <1>1, <1>3, <1>4 DEF XORReductionWithMask

LEMMA ParityOfOthers ==
  ASSUME NEW f, NEW x, f \cap x = {}
  PROVE  XORReductionWithMask(f, x) = 0
<1>1. Cardinality({}) % 2 = 0
  BY FS_EmptySet
<1>. QED
  BY <1>1 DEF XORReductionWithMask

(* The parity of one bit is the bit.                                       *)
LEMMA ParityOfBit ==
  ASSUME NEW bit, NEW x
  PROVE  XORReductionWithMask({bit}, x) = 0 <=> bit \notin x
<1>1. {bit} \cap x = IF bit \in x THEN {bit} ELSE {}
  OBVIOUS
<1>2. Cardinality({}) % 2 = 0
  BY FS_EmptySet
<1>3. Cardinality({bit}) = 1 /\ 1 % 2 = 1
  BY FS_Singleton
<1>. QED
  BY <1>1, <1>2, <1>3 DEF XORReductionWithMask

(* An address on which every function of a vector is zero makes every sum  *)
(* of them zero.                                                           *)
LEMMA ParityOfSums ==
  ASSUME NEW v, IsFiniteSet(DOMAIN v), NEW x,
         \A k \in DOMAIN v : IsFiniteSet(v[k]) /\ XORReductionWithMask(v[k], x) = 0
  PROVE  \A f \in Span(v) : XORReductionWithMask(f, x) = 0
<1>. DEFINE D == {f \in Span(v) : IsFiniteSet(f) /\ XORReductionWithMask(x, f) = 0}
<1>1. {} \in D
  <2>1. {} \in Span(v)
    BY SpanClosed
  <2>. QED
    BY <2>1, ParityOfOthers, FS_EmptySet
<1>2. ASSUME NEW f \in D, NEW k \in DOMAIN v
      PROVE  Xor(f, v[k]) \in D
  <2>1. Xor(f, v[k]) \in Span(v)
    BY SpanClosed
  <2>2. IsFiniteSet(Xor(f, v[k]))
    <3>1. IsFiniteSet(f \cup v[k])
      BY FS_Union
    <3>2. Xor(f, v[k]) \in SUBSET (f \cup v[k])
      BY DEF Xor
    <3>. QED
      BY <3>1, <3>2, FS_Subset
  <2>3. XORReductionWithMask(x, v[k]) = 0
    <3>1. v[k] \cap x = x \cap v[k]
      OBVIOUS
    <3>. QED
      BY <3>1 DEF XORReductionWithMask
  <2>4. XORReductionWithMask(x, Xor(f, v[k])) = 0
    BY <2>3, ParityOfXor
  <2>. QED
    BY <2>1, <2>2, <2>4
<1>3. Span(v) \subseteq D
  <2>. HIDE DEF D
  <2>. QED
    BY <1>1, <1>2, SpanLeast
<1>4. \A f : f \cap x = x \cap f
  OBVIOUS
<1>. QED
  BY <1>3, <1>4 DEF XORReductionWithMask

-----------------------------------------------------------------------------
(* The disjoint sets of functions: the finest grouping of their bits.       *)
(* They do not overlap.                                                    *)
LEMMA DisjointSetsAreDisjoint ==
  ASSUME NEW F, NEW s \in DisjointSets(F), NEW t \in DisjointSets(F), s # t
  PROVE  s \cap t = {}
<1>1. ASSUME NEW a \in UNION F, NEW b \in UNION F, NEW c \in UNION F,
             c \in ConnectedBits(a, F), c \in ConnectedBits(b, F)
      PROVE  ConnectedBits(a, F) \subseteq ConnectedBits(b, F)
  (* A closed set around b holds c; if a were outside it, its complement   *)
  (* would be a closed set around a without c.                             *)
  <2> SUFFICES ASSUME NEW C \in SUBSET UNION F, b \in C, Closed(C, F)
               PROVE  ConnectedBits(a, F) \subseteq C
    BY DEF ConnectedBits
  <2>1. c \in C
    BY <1>1 DEF ConnectedBits
  <2>2. Closed((UNION F) \ C, F)
    BY DEF Closed
  <2>3. a \in C
    BY <1>1, <2>1, <2>2 DEF ConnectedBits
  <2> QED
    BY <2>3 DEF ConnectedBits
<1>2. CASE s = {} \/ t = {}
  BY <1>2
<1>3. CASE s # {} /\ t # {}
  <2>1. PICK a \in UNION F : s = ConnectedBits(a, F)
    BY <1>3 DEF DisjointSets
  <2>2. PICK b \in UNION F : t = ConnectedBits(b, F)
    BY <1>3 DEF DisjointSets
  <2> SUFFICES ASSUME NEW c \in s, c \in t PROVE FALSE
    OBVIOUS
  <2>3. c \in UNION F
    BY <2>1 DEF ConnectedBits
  <2>4. s \subseteq t /\ t \subseteq s
    BY <1>1, <2>1, <2>2, <2>3
  <2> QED
    BY <2>4
<1> QED
  BY <1>2, <1>3

(* Sets of connected bits hold bits of functions only.                     *)
LEMMA DisjointSetsOfBits ==
  ASSUME NEW T, NEW F \in SUBSET SUBSET T
  PROVE  DisjointSets(F) \in SUBSET SUBSET T
BY DEF DisjointSets, ConnectedBits

(* A disjoint set is closed: it holds a function whole or not at all.      *)
LEMMA DisjointSetsAreClosed ==
  ASSUME NEW F, NEW s \in DisjointSets(F)
  PROVE  Closed(s, F) /\ s \subseteq UNION F
<1>1. CASE s = {}
  BY <1>1 DEF Closed
<1>2. CASE s # {}
  <2>1. PICK b \in UNION F : s = ConnectedBits(b, F)
    BY <1>2 DEF DisjointSets
  <2>2. ASSUME NEW f \in F, NEW c \in f, c \in s, NEW x \in f
        PROVE  x \in s
    BY <2>1, <2>2 DEF ConnectedBits, Closed
  <2>. QED
    BY <2>1, <2>2 DEF Closed, ConnectedBits
<1>. QED
  BY <1>1, <1>2

(* Every bit of a function is in one of the disjoint sets.                 *)
LEMMA DisjointSetsCover ==
  ASSUME NEW F
  PROVE  UNION F \subseteq UNION DisjointSets(F)
<1>1. ASSUME NEW b \in UNION F
      PROVE  b \in ConnectedBits(b, F)
  BY DEF ConnectedBits
<1>2. \A b \in UNION F : ConnectedBits(b, F) \in DisjointSets(F)
  BY DEF DisjointSets
<1>. QED
  BY <1>1, <1>2

-----------------------------------------------------------------------------
(* ReduceFunctions: Gaussian elimination keeps the greedy basis.           *)
LEMMA PivotBitIsHighest ==
  ASSUME NEW M \in Nat, NEW column \in SUBSET (0 .. M), column # {}
  PROVE  PivotBit(column) \in column
BY HighestBit DEF PivotBit

LEMMA AddPivotKeepsType ==
  ASSUME NEW N \in Nat, NEW M \in Nat,
         NEW mtx \in [1 .. N -> SUBSET (0 .. M)], NEW n \in 1 .. N
  PROVE  /\ AddPivot(mtx, n) \in [1 .. N -> SUBSET (0 .. M)]
         /\ mtx[n] = {} => AddPivot(mtx, n) = mtx
         /\ mtx[n] # {} =>
              /\ PivotBit(mtx[n]) \in mtx[n]
              /\ \A c \in 1 .. N :
                   AddPivot(mtx, n)[c]
                     = IF c # n /\ PivotBit(mtx[n]) \in mtx[c]
                       THEN Xor(mtx[c], mtx[n]) ELSE mtx[c]
<1>. DEFINE bit == PivotBit(mtx[n])
<1>1. AddPivot(mtx, n)
        = IF mtx[n] = {} THEN mtx
          ELSE [c \in 1 .. N |-> IF c # n /\ bit \in mtx[c]
                                 THEN Xor(mtx[c], mtx[n]) ELSE mtx[c]]
  BY DEF AddPivot
<1>2. mtx[n] # {} => bit \in mtx[n]
  BY PivotBitIsHighest
<1>3. \A c \in 1 .. N : Xor(mtx[c], mtx[n]) \in SUBSET (0 .. M)
  BY DEF Xor
<1>. HIDE DEF bit
<1>4. AddPivot(mtx, n) \in [1 .. N -> SUBSET (0 .. M)]
  BY <1>1, <1>3
<1>. QED
  BY <1>1, <1>2, <1>4 DEF bit

LEMMA MatricesUnfold ==
  ASSUME NEW M \in Nat, NEW v \in Seq(SUBSET (0 .. M))
  PROVE  /\ Matrices(v) \in [0 .. Len(v) -> [1 .. Len(v) -> SUBSET (0 .. M)]]
         /\ Matrices(v)[0] = v
         /\ \A n \in 1 .. Len(v) :
              Matrices(v)[n] = AddPivot(Matrices(v)[n - 1], n)
<1>. DEFINE N == Len(v)
            X == [1 .. N -> SUBSET (0 .. M)]
            step == [yn \in X \X (1 .. N) |-> AddPivot(yn[1], yn[2])]
            Is(k) == k = [n \in 0 .. Len(v) |->
                            IF n = 0 THEN v ELSE AddPivot(k[n - 1], n)]
            mtx == CHOOSE k : Is(k)
<1>1. /\ N \in Nat /\ v \in X /\ 0 \in 0 .. N
      /\ \A n \in 1 .. N : n - 1 \in 0 .. N /\ n \in 0 .. N /\ n # 0
      /\ \A n \in 0 .. N : n # 0 => n \in 1 .. N
  OBVIOUS
<1>2. \A y \in X, n \in 1 .. N : AddPivot(y, n) \in X
  BY <1>1, AddPivotKeepsType
<1>3. \A y \in X, n \in 1 .. N : step[<<y, n>>] = AddPivot(y, n)
  OBVIOUS
<1>4. \E f \in [0 .. N -> X] : Follows(f, N, v, step)
  <2>1. \A y \in X, n \in 1 .. N : step[<<y, n>>] \in X
    BY <1>2, <1>3
  <2>. HIDE DEF step, N, X
  <2>. QED
    BY <1>1, <2>1, RecursionExists
<1>5. PICK f \in [0 .. N -> X] :
        f[0] = v /\ \A n \in 1 .. N : f[n] = step[<<f[n - 1], n>>]
  BY <1>4 DEF Follows
<1>6. Is(f)
  <2>. HIDE DEF step, X
  <2>1. \A n \in 1 .. N : f[n] = AddPivot(f[n - 1], n)
    <3>. HIDE DEF N
    <3>. QED
      BY <1>1, <1>3, <1>5
  <2>2. f = [n \in 0 .. N |-> IF n = 0 THEN v ELSE AddPivot(f[n - 1], n)]
    <3>. HIDE DEF N
    <3>. QED
      BY <1>1, <1>5, <2>1
  <2>. QED
    BY <2>2
<1>7. Is(mtx)
  <2>. HIDE DEF Is
  <2>. QED
    BY <1>6
<1>8. Matrices(v) = mtx
  BY Zenon DEF Matrices
<1>. HIDE DEF mtx
<1>9. mtx[0] = v /\ \A n \in 1 .. N : mtx[n] = AddPivot(mtx[n - 1], n)
  BY <1>1, <1>7
<1>10. mtx = [n \in 0 .. N |-> mtx[n]]
  BY <1>7
<1>11. 0 .. N \subseteq {n \in 0 .. N : mtx[n] \in X}
  <2>. DEFINE S == {n \in 0 .. N : mtx[n] \in X}
  <2>. HIDE DEF N, X, Is
  <2>1. 0 \in S
    BY <1>1, <1>9
  <2>2. \A n \in 0 .. N - 1 : n \in S => n + 1 \in S
    <3>. TAKE n \in 0 .. N - 1
    <3>. HAVE n \in S
    <3>1. n + 1 \in 1 .. N /\ (n + 1) - 1 = n /\ n + 1 \in 0 .. N
      BY <1>1
    <3>2. mtx[n + 1] = AddPivot(mtx[n], n + 1)
      BY <1>9, <3>1
    <3>. QED
      BY <1>2, <3>1, <3>2
  <2>. HIDE DEF S
  <2>3. 0 .. N \subseteq S
    BY <1>1, <2>1, <2>2, InductionTo
  <2>. QED
    BY <2>3 DEF S
<1>12. mtx \in [0 .. N -> X]
  <2>. HIDE DEF N, X
  <2>. QED
    BY <1>10, <1>11
<1>. QED
  BY <1>8, <1>9, <1>12

(* After n pivots: a later column is its function but for a sum of the     *)
(* first n, and the pivots' highest bits, which no later column has, occur *)
(* in every sum of the first n functions that is not zero.                 *)
Eliminated(v, mtx, n, bits) ==
  /\ \A c \in n + 1 .. Len(v) :
       /\ Xor(mtx[c], v[c]) \in Span(SubSeq(v, 1, n))
       /\ mtx[c] \cap bits = {}
  /\ \A x \in Span(SubSeq(v, 1, n)) : x \cap bits = {} => x = {}

LEMMA EliminationStep ==
  ASSUME NEW M \in Nat, NEW v \in Seq(SUBSET (0 .. M)),
         NEW mtx \in [1 .. Len(v) -> SUBSET (0 .. M)],
         NEW n \in 1 .. Len(v), NEW bits, Eliminated(v, mtx, n - 1, bits)
  PROVE  \E more : Eliminated(v, AddPivot(mtx, n), n, more)
<1>. DEFINE E == SUBSET (0 .. M)
            S == Span(SubSeq(v, 1, n - 1))
            T == Span(SubSeq(v, 1, n))
            pivot == mtx[n]
            next == AddPivot(mtx, n)
<1>1. /\ Len(v) \in Nat /\ v[n] \in E /\ pivot \in E
      /\ n \in (n - 1) + 1 .. Len(v)
      /\ \A c \in n + 1 .. Len(v) :
           c \in (n - 1) + 1 .. Len(v) /\ c \in 1 .. Len(v) /\ c # n
  OBVIOUS
<1>2. /\ S \subseteq T
      /\ \A x : x \in T <=> x \in S \/ Xor(x, v[n]) \in S
  BY PrefixSpan
<1>3. /\ {} \in S /\ \A x, y \in S : Xor(x, y) \in S
      /\ {} \in T /\ \A x, y \in T : Xor(x, y) \in T
  <2>1. SubSeq(v, 1, n - 1) \in Seq(E) /\ SubSeq(v, 1, n) \in Seq(E)
    OBVIOUS
  <2>2. IsFiniteSet(DOMAIN SubSeq(v, 1, n - 1)) /\ IsFiniteSet(DOMAIN SubSeq(v, 1, n))
    BY <2>1, DomainIsFinite
  <2>. QED
    BY <2>2, SpanClosed
<1>4. /\ Xor(pivot, v[n]) \in S /\ pivot \cap bits = {}
      /\ \A c \in n + 1 .. Len(v) : Xor(mtx[c], v[c]) \in S /\ mtx[c] \cap bits = {}
      /\ \A x \in S : x \cap bits = {} => x = {}
  BY <1>1 DEF Eliminated
<1>. HIDE DEF S, T, pivot, next, E
<1>5. pivot \in T
  BY <1>2, <1>4
<1>6. CASE pivot = {}
  <2>1. next = mtx
    BY <1>6, <1>1, AddPivotKeepsType DEF next, pivot
  <2>2. v[n] \in S
    BY <1>4, <1>6, XorGroup
  <2>3. ASSUME NEW x \in T
        PROVE  x \in S
    <3>1. Xor(Xor(x, v[n]), v[n]) = x
      BY XorGroup
    <3>. QED
      BY <1>2, <1>3, <2>2, <2>3, <3>1
  <2>4. Eliminated(v, next, n, bits)
    BY <1>2, <1>4, <2>1, <2>3 DEF Eliminated, T
  <2>. QED
    BY <2>4 DEF next
<1>7. CASE pivot # {}
  <2>. DEFINE bit == PivotBit(pivot)
              more == bits \cup {bit}
  <2>1. /\ bit \in pivot
        /\ \A c \in n + 1 .. Len(v) :
             next[c] = IF bit \in mtx[c] THEN Xor(mtx[c], pivot) ELSE mtx[c]
    <3>1. /\ PivotBit(mtx[n]) \in mtx[n]
          /\ \A c \in 1 .. Len(v) :
               AddPivot(mtx, n)[c]
                 = IF c # n /\ PivotBit(mtx[n]) \in mtx[c]
                   THEN Xor(mtx[c], mtx[n]) ELSE mtx[c]
      BY <1>1, <1>7, AddPivotKeepsType DEF pivot
    <3>. QED
      BY <1>1, <3>1 DEF next, pivot
  <2>. HIDE DEF bit
  <2>2. ASSUME NEW c \in n + 1 .. Len(v)
        PROVE  Xor(next[c], v[c]) \in T /\ next[c] \cap more = {}
    <3>1. CASE bit \notin mtx[c]
      BY <1>2, <1>4, <2>1, <3>1
    <3>2. CASE bit \in mtx[c]
      <4>1. next[c] = Xor(mtx[c], pivot)
        BY <2>1, <3>2
      <4>2. Xor(mtx[c], pivot) \cap more = {}
        BY <1>4, <2>1, <3>2 DEF Xor
      <4>3. Xor(Xor(mtx[c], pivot), v[c]) = Xor(Xor(mtx[c], v[c]), pivot)
        BY DEF Xor
      <4>4. Xor(mtx[c], v[c]) \in T
        BY <1>2, <1>4
      <4>. QED
        BY <1>3, <1>5, <4>1, <4>2, <4>3, <4>4
    <3>. QED
      BY <3>1, <3>2
  <2>3. ASSUME NEW x \in T, x \cap more = {}
        PROVE  x = {}
    <3>1. CASE x \in S
      BY <1>4, <2>3, <3>1
    <3>2. CASE Xor(x, v[n]) \in S
      <4>1. Xor(Xor(x, v[n]), Xor(pivot, v[n])) = Xor(x, pivot)
        BY DEF Xor
      <4>2. Xor(x, pivot) \in S
        BY <1>3, <1>4, <3>2, <4>1
      <4>3. Xor(x, pivot) \cap bits = {}
        BY <1>4, <2>3 DEF Xor
      <4>4. Xor(x, pivot) = {}
        BY <1>4, <4>2, <4>3
      <4>5. x = pivot
        BY <4>4, XorIsEmpty
      <4>. QED
        BY <2>1, <2>3, <4>5
    <3>. QED
      BY <1>2, <3>1, <3>2
  <2>4. Eliminated(v, next, n, more)
    BY <2>2, <2>3 DEF Eliminated, T
  <2>. QED
    BY <2>4 DEF next
<1>. QED
  BY <1>6, <1>7

(* A column has become zero exactly if its function is a sum of those      *)
(* before it.                                                              *)
LEMMA ColumnTellsIndependence ==
  ASSUME NEW M \in Nat, NEW v \in Seq(SUBSET (0 .. M)), NEW n \in 1 .. Len(v)
  PROVE  Matrices(v)[n - 1][n] = {} <=> v[n] \in Span(SubSeq(v, 1, n - 1))
<1>. DEFINE N == Len(v)
            mtx == Matrices(v)
            F == {i \in 0 .. N : \E bits : Eliminated(v, mtx[i], i, bits)}
<1>1. /\ N \in Nat /\ mtx \in [0 .. N -> [1 .. N -> SUBSET (0 .. M)]]
      /\ mtx[0] = v /\ \A i \in 1 .. N : mtx[i] = AddPivot(mtx[i - 1], i)
  BY MatricesUnfold
<1>. HIDE DEF mtx
<1>2. 0 \in F
  <2>1. SubSeq(v, 1, 0) = <<>> /\ 0 \in 0 .. N
    OBVIOUS
  <2>2. \A c \in 0 + 1 .. Len(v) :
          Xor(v[c], v[c]) \in Span(SubSeq(v, 1, 0)) /\ v[c] \cap {} = {}
    BY <2>1, SpanOfNone, XorGroup
  <2>3. Eliminated(v, mtx[0], 0, {})
    BY <1>1, <2>1, <2>2, SpanOfNone DEF Eliminated
  <2>. QED
    BY <2>1, <2>3
<1>3. \A i \in 0 .. N - 1 : i \in F => i + 1 \in F
  <2>. TAKE i \in 0 .. N - 1
  <2>. HAVE i \in F
  <2>1. PICK bits : Eliminated(v, mtx[i], i, bits)
    OBVIOUS
  <2>2. i + 1 \in 1 .. Len(v) /\ i + 1 \in 0 .. N /\ (i + 1) - 1 = i
        /\ mtx[i] \in [1 .. Len(v) -> SUBSET (0 .. M)]
    BY <1>1
  <2>3. \E more : Eliminated(v, AddPivot(mtx[i], i + 1), i + 1, more)
    BY <2>1, <2>2, EliminationStep
  <2>4. mtx[i + 1] = AddPivot(mtx[i], i + 1)
    BY <1>1, <2>2
  <2>. QED
    BY <2>2, <2>3, <2>4
<1>4. 0 .. N \subseteq F
  <2>. HIDE DEF F, N
  <2>. QED
    BY <1>1, <1>2, <1>3, InductionTo
<1>5. PICK bits : Eliminated(v, mtx[n - 1], n - 1, bits)
  <2>1. n - 1 \in 0 .. N
    OBVIOUS
  <2>. QED
    BY <1>4, <2>1
<1>. DEFINE S == Span(SubSeq(v, 1, n - 1))
            column == mtx[n - 1][n]
<1>6. /\ Xor(column, v[n]) \in S /\ column \cap bits = {}
      /\ \A x \in S : x \cap bits = {} => x = {}
  <2>1. n \in (n - 1) + 1 .. Len(v)
    OBVIOUS
  <2>. QED
    BY <1>5, <2>1 DEF Eliminated
<1>7. \A x, y \in S : Xor(x, y) \in S
  <2>1. SubSeq(v, 1, n - 1) \in Seq(SUBSET (0 .. M))
    OBVIOUS
  <2>2. IsFiniteSet(DOMAIN SubSeq(v, 1, n - 1))
    BY <2>1, DomainIsFinite
  <2>. QED
    BY <2>2, SpanClosed
<1>. HIDE DEF S, column
<1>8. column = {} => v[n] \in S
  BY <1>6, XorGroup
<1>9. ASSUME v[n] \in S
      PROVE  column = {}
  <2>1. Xor(Xor(column, v[n]), v[n]) = column
    BY XorGroup
  <2>2. column \in S
    BY <1>6, <1>7, <1>9, <2>1
  <2>. QED
    BY <1>6, <2>2
<1>. QED
  BY <1>8, <1>9 DEF S, column, mtx

(* For every vector of functions of any length over any number of bits the *)
(* elimination keeps exactly the functions that are no sum of earlier      *)
(* ones.                                                                   *)
THEOREM ReductionIsGreedy ==
  ASSUME NEW M \in Nat, NEW v \in Seq(SUBSET (0 .. M))
  PROVE  KeepsGreedyBasisOf(v)
<1>. DEFINE N == Len(v)
            mtx == Matrices(v)
            Is(k) == k = [n \in 0 .. Len(v) |->
                            IF n = 0 THEN <<>>
                            ELSE IF mtx[n - 1][n] = {} THEN k[n - 1]
                                 ELSE Append(k[n - 1], v[n])]
            filtered == CHOOSE k : Is(k)
<1>1. PICK kept \in [0 .. N -> Seq(SUBSET (0 .. M))] :
        GreedySteps(v, kept) /\ Greedy(v) = kept[N]
  BY GreedyUnfolds
<1>2. /\ N \in Nat /\ 0 \in 0 .. N
      /\ \A n \in 0 .. N : n # 0 => n \in 1 .. N
      /\ \A n \in 1 .. N : n \in 0 .. N /\ n # 0
  OBVIOUS
<1>3. \A n \in 1 .. N : mtx[n - 1][n] = {} <=> v[n] \in Span(SubSeq(v, 1, n - 1))
  BY ColumnTellsIndependence
<1>4. ReducedFunctions(v) = filtered[N]
  BY Zenon DEF ReducedFunctions
<1>. HIDE DEF mtx
<1>5. /\ kept[0] = <<>>
      /\ \A n \in 1 .. N :
           kept[n] = IF mtx[n - 1][n] = {} THEN kept[n - 1]
                     ELSE Append(kept[n - 1], v[n])
  BY <1>1, <1>3 DEF GreedySteps
<1>6. Is(kept)
  <2>1. kept = [n \in 0 .. N |->
                  IF n = 0 THEN <<>>
                  ELSE IF mtx[n - 1][n] = {} THEN kept[n - 1]
                       ELSE Append(kept[n - 1], v[n])]
    <3>. HIDE DEF N
    <3>. QED
      BY <1>1, <1>2, <1>5
  <2>. QED
    BY <2>1
<1>7. Is(filtered)
  <2>. HIDE DEF Is
  <2>. QED
    BY <1>6
<1>. HIDE DEF filtered
<1>8. /\ filtered[0] = <<>>
      /\ \A n \in 1 .. N :
           filtered[n] = IF mtx[n - 1][n] = {} THEN filtered[n - 1]
                         ELSE Append(filtered[n - 1], v[n])
  <2>1. 0 \in 0 .. Len(v) /\ \A n \in 1 .. N : n \in 0 .. Len(v) /\ n # 0
    OBVIOUS
  <2>2. filtered[0] = <<>>
    BY <1>7, <2>1
  <2>3. ASSUME NEW n \in 1 .. N
        PROVE  filtered[n] = IF mtx[n - 1][n] = {} THEN filtered[n - 1]
                             ELSE Append(filtered[n - 1], v[n])
    BY <1>7, <2>1
  <2>. QED
    BY <2>2, <2>3
<1>. DEFINE Same == {n \in 0 .. N : filtered[n] = kept[n]}
<1>9. 0 .. N \subseteq Same
  <2>. HIDE DEF N, Is
  <2>1. 0 \in Same
    BY <1>2, <1>5, <1>8
  <2>2. \A n \in 0 .. N - 1 : n \in Same => n + 1 \in Same
    <3>. TAKE n \in 0 .. N - 1
    <3>. HAVE n \in Same
    <3>1. n + 1 \in 1 .. N /\ (n + 1) - 1 = n /\ n + 1 \in 0 .. N
      BY <1>2
    <3>2. filtered[n + 1] = kept[n + 1]
      BY <1>5, <1>8, <3>1
    <3>. QED
      BY <3>1, <3>2
  <2>. HIDE DEF Same
  <2>. QED
    BY <1>2, <2>1, <2>2, InductionTo
<1>10. N \in 0 .. N
  BY <1>2
<1>. QED
  BY <1>1, <1>4, <1>9, <1>10 DEF KeepsGreedyBasisOf
=============================================================================
