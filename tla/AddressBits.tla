----------------------------- MODULE AddressBits -----------------------------
(***************************************************************************)
(* Bit masks over physical address bits.                                   *)
(*                                                                         *)
(* The program keeps an address, a DRAM addressing function and the row    *)
(* and column bits in uint64_t words.  Here a word is the set of its bit   *)
(* positions: & is \cap, | is \cup, ^ is Xor, popcount is Cardinality and  *)
(* the word 0 is {}.                                                       *)
(***************************************************************************)
EXTENDS Integers, FiniteSets, Sequences

Xor(x, y) == (x \ y) \cup (y \ x)

Overlap(x, y) == x \cap y # {}

(* The order of words as numbers: the highest differing bit decides.       *)
Less(m, n) ==
  \E bit \in n \ m : \A c \in Xor(m, n) : c <= bit

(* The vector of the words of S in increasing order.                       *)
Ascending(S) ==
  [n \in 1 .. Cardinality(S) |->
     CHOOSE m \in S : Cardinality({k \in S : Less(k, m)}) = n - 1]

(* The masks held by a std::vector<uint64_t>, without their order.         *)
Masks(vector) == {vector[k] : k \in DOMAIN vector}

(* The output bit of an addressing function for an address.                *)
XORReductionWithMask(mask, addr) == Cardinality(mask \cap addr) % 2

(***************************************************************************)
(* The finest grouping of bits that keeps every function of F in one       *)
(* group, the reference definition of the "disjoint sets" of the program.  *)
(* A set of bits is closed when no function straddles its border; the      *)
(* group of a bit is the least closed set around it.  A function without   *)
(* bits (the word 0) is a group of its own.                                *)
(***************************************************************************)
Closed(C, F) == \A f \in F : f \cap C = {} \/ f \subseteq C

ConnectedBits(b, F) ==
  {c \in UNION F : \A C \in SUBSET UNION F :
                      b \in C /\ Closed(C, F) => c \in C}

DisjointSets(F) ==
  {ConnectedBits(b, F) : b \in UNION F} \cup {f \in F : f = {}}

(***************************************************************************)
(* Sums over GF(2).  XorOf adds up the functions of v at the indices K;    *)
(* Greedy(v) keeps the functions of v that are no sum of earlier ones, the *)
(* reference definition of the program's reduction of functions.           *)
(***************************************************************************)
XorOf(v, K) ==
  {bit \in UNION Masks(v) : Cardinality({k \in K : bit \in v[k]}) % 2 = 1}

Span(v) == {XorOf(v, K) : K \in SUBSET DOMAIN v}

IndependentMasks(v) == \A K \in SUBSET DOMAIN v : XorOf(v, K) = {} => K = {}

Greedy(v) ==
  LET kept[n \in 0 .. Len(v)] ==
        IF n = 0 THEN <<>>
        ELSE IF v[n] \in Span(SubSeq(v, 1, n - 1))
             THEN kept[n - 1]
             ELSE Append(kept[n - 1], v[n])
  IN  kept[Len(v)]
=============================================================================
