---------------------------- MODULE SameBankPairs ----------------------------
(***************************************************************************)
(* The first half of Addressing::ReverseAddressingFunctions: random        *)
(* addresses are sorted into sets of the same bank and different rows by   *)
(* timing pairs of them (CollectSameBankPairs), small sets are dropped,    *)
(* outliers are filtered out (FilterSameBankPairs) and the PCI hole is     *)
(* taken off the physical addresses (SlideOffsets).                        *)
(*                                                                         *)
(* A measurement is nondeterministic within what the pair of addresses may *)
(* show: "conflict", between SBDR_LOWER_BOUND and SBDR_UPPER_BOUND, "hit", *)
(* below the lower bound, or "outlier".                                    *)
(***************************************************************************)
EXTENDS Integers, FiniteSets, Sequences, SequencesExt

CONSTANTS
  Addr,                     \* paddr of the addresses of the pool, words
  Word,                     \* 2^64: unsigned arithmetic wraps there
  PCI_OFFSET,
  NumBanks,                 \* GetNumBanks
  DRAMA_MINIMUM_SET_SIZE,
  SUDOKU_FILTER_SCORE,
  CollectLatency,           \* what timing a pair may show while collecting
  FilterLatency             \* and while filtering

Outcome == {"hit", "conflict", "outlier"}

ASSUME SameBankAssumption ==
  /\ {Word, PCI_OFFSET, NumBanks, DRAMA_MINIMUM_SET_SIZE,
      SUDOKU_FILTER_SCORE} \subseteq Nat
  /\ Word > 0
  /\ Addr \subseteq 0 .. Word - 1
  /\ DRAMA_MINIMUM_SET_SIZE > SUDOKU_FILTER_SCORE
  /\ CollectLatency \in [Addr \X Addr -> (SUBSET Outcome) \ {{}}]
  /\ FilterLatency \in [Addr \X Addr -> (SUBSET Outcome) \ {{}}]

VARIABLES
  sbdr_pairs,      \* sbdr_pairs_: a vector of vectors of addresses
  used_addresses,
  set,             \* the set the prune and filter loops are at, from 1
  it,              \* the address in it the filter loop is at, from 1
  pc

vars == <<sbdr_pairs, used_addresses, set, it, pc>>

(* Vectors of the sets that are large enough count.                        *)
FullSets(pairs) ==
  {k \in DOMAIN pairs : Len(pairs[k]) >= DRAMA_MINIMUM_SET_SIZE}

(* A variant: as many sets as there are banks.                             *)
EnoughForEveryBank == Cardinality(FullSets(sbdr_pairs)) = NumBanks

EnoughSameBankPairs == Cardinality(FullSets(sbdr_pairs)) = NumBanks \div 2

MayConflict(k, a) == "conflict" \in CollectLatency[<<sbdr_pairs[k][1], a>>]
MayMiss(k, a) == CollectLatency[<<sbdr_pairs[k][1], a>>] # {"conflict"}

(* The other addresses of a vector that score against its element at n:    *)
(* those that must, and those that may.                                    *)
SureHits(v, n) ==
  {m \in DOMAIN v : v[m] # v[n] /\ FilterLatency[<<v[n], v[m]>>] = {"hit"}}
PossibleHits(v, n) ==
  {m \in DOMAIN v : v[m] # v[n] /\ "hit" \in FilterLatency[<<v[n], v[m]>>]}

-----------------------------------------------------------------------------
(* Variants with a slip, one per property: a search that does not stop at  *)
(* the first conflict, an address collected twice, an erased place that is *)
(* skipped, a deletion one hit too early, no filter, a signed difference.  *)
(* None is a part of Next.                                                 *)
JoinEverySet(a) ==
  /\ \E k \in DOMAIN sbdr_pairs : MayConflict(k, a)
  /\ sbdr_pairs' = [k \in DOMAIN sbdr_pairs |->
                      IF MayConflict(k, a) THEN Append(sbdr_pairs[k], a)
                                           ELSE sbdr_pairs[k]]

SkipErasedSet ==
  /\ pc = "prune"
  /\ set <= Len(sbdr_pairs)
  /\ Len(sbdr_pairs[set]) < DRAMA_MINIMUM_SET_SIZE
  /\ sbdr_pairs' = RemoveAt(sbdr_pairs, set)
  /\ set' = set + 1
  /\ UNCHANGED <<used_addresses, it, pc>>

PruneEndUnfiltered ==
  /\ pc = "prune"
  /\ set > Len(sbdr_pairs)
  /\ set' = 1
  /\ it' = 1
  /\ pc' = "slide"
  /\ UNCHANGED <<sbdr_pairs, used_addresses>>

DeleteFrom(score, next) ==
  /\ pc = "filter"
  /\ set <= Len(sbdr_pairs)
  /\ it <= Len(sbdr_pairs[set])
  /\ Cardinality(PossibleHits(sbdr_pairs[set], it)) > score
  /\ sbdr_pairs' = [sbdr_pairs EXCEPT ![set] = RemoveAt(@, it)]
  /\ it' = next
  /\ UNCHANGED <<used_addresses, set, pc>>

DeleteTooEarly == DeleteFrom(SUDOKU_FILTER_SCORE - 1, it)

DeleteAndSkip == DeleteFrom(SUDOKU_FILTER_SCORE, it + 1)

SlidSigned(a) == a - PCI_OFFSET

-----------------------------------------------------------------------------
Init ==
  /\ sbdr_pairs = <<>>
  /\ used_addresses = {}
  /\ set = 1
  /\ it = 1
  /\ pc = "collect"

(* An address joins the first set whose base it conflicts with; one that   *)
(* conflicts with no base founds a set.                                    *)
JoinSet(a) ==
  \E k \in DOMAIN sbdr_pairs :
    /\ MayConflict(k, a)
    /\ \A l \in 1 .. k - 1 : MayMiss(l, a)
    /\ sbdr_pairs' = [sbdr_pairs EXCEPT ![k] = Append(@, a)]

FoundSet(a) ==
  /\ \A k \in DOMAIN sbdr_pairs : MayMiss(k, a)
  /\ sbdr_pairs' = Append(sbdr_pairs, <<a>>)

(* A variant: used addresses are not remembered.                           *)
CollectAgain(a) ==
  /\ pc = "collect"
  /\ ~EnoughSameBankPairs
  /\ used_addresses' = used_addresses \cup {a}
  /\ JoinSet(a) \/ FoundSet(a)
  /\ UNCHANGED <<set, it, pc>>

CollectAddress(a) ==
  /\ pc = "collect"
  /\ ~EnoughSameBankPairs
  /\ a \notin used_addresses
  /\ used_addresses' = used_addresses \cup {a}
  /\ JoinSet(a) \/ FoundSet(a)
  /\ UNCHANGED <<set, it, pc>>

(* A used address is drawn again, and again if no other is left.           *)
RedrawUsed ==
  /\ pc = "collect"
  /\ ~EnoughSameBankPairs
  /\ used_addresses # {}
  /\ UNCHANGED vars

CollectEnd ==
  /\ pc = "collect"
  /\ EnoughSameBankPairs
  /\ set' = 1
  /\ pc' = "prune"
  /\ UNCHANGED <<sbdr_pairs, used_addresses, it>>

(* erase(s) followed by s-- and ++s: the next set takes the same place.    *)
(* (At the first set s-- leaves the vector, which the library never sees.) *)
PruneSet ==
  /\ pc = "prune"
  /\ set <= Len(sbdr_pairs)
  /\ Len(sbdr_pairs[set]) < DRAMA_MINIMUM_SET_SIZE
  /\ sbdr_pairs' = RemoveAt(sbdr_pairs, set)
  /\ UNCHANGED <<used_addresses, set, it, pc>>

KeepSet ==
  /\ pc = "prune"
  /\ set <= Len(sbdr_pairs)
  /\ Len(sbdr_pairs[set]) >= DRAMA_MINIMUM_SET_SIZE
  /\ set' = set + 1
  /\ UNCHANGED <<sbdr_pairs, used_addresses, it, pc>>

PruneEnd ==
  /\ pc = "prune"
  /\ set > Len(sbdr_pairs)
  /\ set' = 1
  /\ it' = 1
  /\ pc' = "filter"
  /\ UNCHANGED <<sbdr_pairs, used_addresses>>

DeleteAddress ==
  /\ pc = "filter"
  /\ set <= Len(sbdr_pairs)
  /\ it <= Len(sbdr_pairs[set])
  /\ Cardinality(PossibleHits(sbdr_pairs[set], it)) > SUDOKU_FILTER_SCORE
  /\ sbdr_pairs' = [sbdr_pairs EXCEPT ![set] = RemoveAt(@, it)]
  /\ UNCHANGED <<used_addresses, set, it, pc>>

KeepAddress ==
  /\ pc = "filter"
  /\ set <= Len(sbdr_pairs)
  /\ it <= Len(sbdr_pairs[set])
  /\ Cardinality(SureHits(sbdr_pairs[set], it)) <= SUDOKU_FILTER_SCORE
  /\ it' = it + 1
  /\ UNCHANGED <<sbdr_pairs, used_addresses, set, pc>>

NextSet ==
  /\ pc = "filter"
  /\ set <= Len(sbdr_pairs)
  /\ it > Len(sbdr_pairs[set])
  /\ set' = set + 1
  /\ it' = 1
  /\ UNCHANGED <<sbdr_pairs, used_addresses, pc>>

FilterEnd ==
  /\ pc = "filter"
  /\ set > Len(sbdr_pairs)
  /\ pc' = "slide"
  /\ UNCHANGED <<sbdr_pairs, used_addresses, set, it>>

Slid(a) == (a - PCI_OFFSET) % Word

SlideOffsets ==
  /\ pc = "slide"
  /\ sbdr_pairs' = [k \in DOMAIN sbdr_pairs |->
                      [n \in DOMAIN sbdr_pairs[k] |-> Slid(sbdr_pairs[k][n])]]
  /\ pc' = "done"
  /\ UNCHANGED <<used_addresses, set, it>>

Terminated ==
  /\ pc = "done"
  /\ UNCHANGED vars

LoopStep ==
  \/ CollectEnd
  \/ PruneSet
  \/ KeepSet
  \/ PruneEnd
  \/ DeleteAddress
  \/ KeepAddress
  \/ NextSet
  \/ FilterEnd
  \/ SlideOffsets

Next ==
  \/ \E a \in Addr : CollectAddress(a)
  \/ RedrawUsed
  \/ LoopStep
  \/ Terminated

(* The thread always takes its next step; and the uniform generator draws  *)
(* every address of the pool sooner or later, with probability one.        *)
Fairness ==
  /\ WF_vars(LoopStep)
  /\ \A a \in Addr : WF_vars(CollectAddress(a))

Spec == Init /\ [][Next]_vars /\ Fairness

-----------------------------------------------------------------------------
TypeOK ==
  /\ sbdr_pairs \in Seq(Seq(0 .. Word - 1))
  /\ used_addresses \in SUBSET Addr
  /\ set \in Nat \ {0}
  /\ it \in Nat \ {0}
  /\ pc \in {"collect", "prune", "filter", "slide", "done"}

(* No address is in two sets or twice in one, not even once the PCI hole   *)
(* is taken off and addresses below it wrap.                               *)
EachAddressOnce ==
  \A k, l \in DOMAIN sbdr_pairs :
    \A n \in DOMAIN sbdr_pairs[k], m \in DOMAIN sbdr_pairs[l] :
      sbdr_pairs[k][n] = sbdr_pairs[l][m] => k = l /\ n = m

(* However noisy the measurements, the filter leaves in every set that was *)
(* full more addresses than the score that condemns one.  The derivation   *)
(* of functions reads the first address of every set unchecked.            *)
NoSetEmptied ==
  pc \in {"filter", "slide", "done"} =>
    \A k \in DOMAIN sbdr_pairs : Len(sbdr_pairs[k]) > SUDOKU_FILTER_SCORE

(* The loop tests the number of full sets with == and never passes it by,  *)
(* and after the prune there are exactly that many sets.                   *)
SetsMatchBanks ==
  /\ Cardinality(FullSets(sbdr_pairs)) <= NumBanks \div 2
  /\ pc \in {"filter", "slide", "done"} => Len(sbdr_pairs) = NumBanks \div 2

(* An address the filter has passed scores at most SUDOKU_FILTER_SCORE     *)
(* sure hits in what is left of its set.                                   *)
Passed(k, n) ==
  \/ pc = "slide"
  \/ pc = "filter" /\ k < set
  \/ pc = "filter" /\ k = set /\ n < it

KeptScores ==
  \A k \in DOMAIN sbdr_pairs :
    \A n \in DOMAIN sbdr_pairs[k] :
      Passed(k, n) =>
        Cardinality(SureHits(sbdr_pairs[k], n)) <= SUDOKU_FILTER_SCORE
=============================================================================
