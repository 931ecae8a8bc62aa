--------------------------- MODULE DeriveFunctions ---------------------------
(***************************************************************************)
(* Addressing::DeriveFunctions and the verdict of                          *)
(* ReverseAddressingFunctions: every mask of few bits is tried, and one    *)
(* whose parity is the same for all addresses of a set, in every set, is a *)
(* possible addressing function; ReduceFunctions keeps a basis of them.    *)
(* The run succeeds when the basis is as large as the DRAM configuration   *)
(* makes the operator expect.                                              *)
(*                                                                         *)
(* The memory is given by its bank functions: a set holds some addresses   *)
(* of one bank, as many and whichever the collection has found.            *)
(***************************************************************************)
EXTENDS AddressBits, SequencesExt, ReduceFunctions

CONSTANTS
  MaxBits,                   \* max_bits_
  CACHELINE_OFFSET,
  FUNCTION_MIN_NUM_BITS,
  FUNCTION_MAX_NUM_BITS,
  Memories,                  \* pairs of bank functions and collected sets
  Inputs                     \* vectors of functions that may have to be reduced

AddressBit == 0 .. MaxBits - 1
LineBit == CACHELINE_OFFSET .. MaxBits - 1

SameParity(mask, set) ==
  \A x, y \in set : XORReductionWithMask(mask, x) = XORReductionWithMask(mask, y)

(* No bank function is a sum of others, for n of them tell 2^n banks       *)
(* apart, and the addresses of a set are of one bank.                      *)
ASSUME DeriveAssumption ==
  /\ {MaxBits, CACHELINE_OFFSET, FUNCTION_MIN_NUM_BITS,
      FUNCTION_MAX_NUM_BITS} \subseteq Nat
  /\ CACHELINE_OFFSET < MaxBits
  /\ FUNCTION_MIN_NUM_BITS > 0
  /\ FUNCTION_MAX_NUM_BITS <= MaxBits - CACHELINE_OFFSET
  /\ \A memory \in Memories :
       /\ memory.functions \in Seq(SUBSET LineBit)
       /\ IndependentMasks(memory.functions)
       /\ memory.sets \subseteq (SUBSET SUBSET AddressBit) \ {{}}
       /\ \A f \in Masks(memory.functions), set \in memory.sets : SameParity(f, set)
  /\ Inputs \subseteq Seq((SUBSET AddressBit) \ {{}})

VARIABLES
  memory,           \* not known to the program but for memory.sets
  b,                \* the number of bits of the masks being tried
  function_mask,
  functions,
  found,            \* the verdict of ReverseAddressingFunctions
  pc

vars == <<memory, b, function_mask, functions, found, pc>>

(* The next larger word with as many bits.                                 *)
NextBitPermutation(v) ==
  LET larger == {m \in kSubset(Cardinality(v), AddressBit) : Less(v, m)}
  IN  CHOOSE m \in larger : \A n \in larger : m = n \/ Less(m, n)

(* A variant: the first bit above the cache line is passed by.             *)
FirstMaskLate(size) == CACHELINE_OFFSET + 1 .. CACHELINE_OFFSET + size

FirstMask(size) == CACHELINE_OFFSET .. CACHELINE_OFFSET + size - 1
LastMask(size) == MaxBits - size .. MaxBits - 1

LowBits == 0 .. CACHELINE_OFFSET - 1

AllSetsAgree(mask) == \A set \in memory.sets : SameParity(mask, set)

-----------------------------------------------------------------------------
Init ==
  /\ memory \in Memories
  /\ b = FUNCTION_MIN_NUM_BITS
  /\ function_mask = {}
  /\ functions = <<>>
  /\ found = FALSE
  /\ pc = "size"

StartSize ==
  /\ pc = "size"
  /\ b <= FUNCTION_MAX_NUM_BITS
  /\ function_mask' = FirstMask(b)
  /\ pc' = "mask"
  /\ UNCHANGED <<memory, b, functions, found>>

Permute ==
  /\ pc = "mask"
  /\ function_mask # LastMask(b)
  /\ function_mask' = NextBitPermutation(function_mask)
  /\ UNCHANGED <<memory, b, found, pc>>

(* A variant: a mask is skipped and comes again.                           *)
SkipWithoutPermuting ==
  /\ pc = "mask"
  /\ function_mask # LastMask(b)
  /\ Overlap(function_mask, LowBits)
  /\ UNCHANGED vars

(* Permutations run through masks with bits inside the cache line, too.    *)
SkipLowMask ==
  /\ Permute
  /\ Overlap(function_mask, LowBits)
  /\ UNCHANGED functions

AcceptMask ==
  /\ Permute
  /\ ~Overlap(function_mask, LowBits)
  /\ AllSetsAgree(function_mask)
  /\ functions' = Append(functions, function_mask)

RejectMask ==
  /\ Permute
  /\ ~Overlap(function_mask, LowBits)
  /\ ~AllSetsAgree(function_mask)
  /\ UNCHANGED functions

EndSize ==
  /\ pc = "mask"
  /\ function_mask = LastMask(b)
  /\ b' = b + 1
  /\ pc' = "size"
  /\ UNCHANGED <<memory, function_mask, functions, found>>

(* Variants: too many functions are welcome, and long ones come first.     *)
Finish(basis, verdict) ==
  /\ pc = "size"
  /\ b > FUNCTION_MAX_NUM_BITS
  /\ functions' = basis
  /\ found' = verdict
  /\ pc' = "done"
  /\ UNCHANGED <<memory, b, function_mask>>

ReduceAtLeast ==
  Finish(ReducedFunctions(functions), Len(ReducedFunctions(functions)) >= Len(memory.functions))

ReduceLongFirst ==
  Finish(ReducedFunctions(Reverse(functions)),
         Len(ReducedFunctions(functions)) = Len(memory.functions))

(* The reduction, then the comparison with GetNumFunctions.                *)
Reduce ==
  /\ pc = "size"
  /\ b > FUNCTION_MAX_NUM_BITS
  /\ functions' = ReducedFunctions(functions)
  /\ found' = (Len(functions') = Len(memory.functions))
  /\ pc' = "done"
  /\ UNCHANGED <<memory, b, function_mask>>

Terminated ==
  /\ pc = "done"
  /\ UNCHANGED vars

Enumerate ==
  \/ StartSize
  \/ SkipLowMask
  \/ AcceptMask
  \/ RejectMask
  \/ EndSize

Next ==
  \/ Enumerate
  \/ Reduce
  \/ Terminated

(* The step of Reduce, whose reduction always returns; fairness needs no   *)
(* more of it.                                                             *)
Finishes ==
  /\ pc = "size"
  /\ b > FUNCTION_MAX_NUM_BITS
  /\ pc' = "done"

Spec == Init /\ [][Next]_vars /\ WF_vars(Enumerate) /\ WF_pc(Finishes)

-----------------------------------------------------------------------------
TypeOK ==
  /\ b \in Nat /\ b >= FUNCTION_MIN_NUM_BITS
  /\ function_mask \in SUBSET AddressBit
  /\ functions \in Seq(SUBSET LineBit)
  /\ found \in BOOLEAN
  /\ pc \in {"size", "mask", "done"}
  /\ pc = "mask" =>
       b <= FUNCTION_MAX_NUM_BITS /\ Cardinality(function_mask) = b

(* Every vector that may have to be reduced keeps its greedy basis.        *)
GreedyBasesKept == \A v \in Inputs : KeepsGreedyBasisOf(v)

KeepsGreedyBasis == pc = "size" => GreedyBasesKept

(* A function the enumeration reaches: not longer than the limit and not   *)
(* the last mask of its size, at which the loop stops before trying it.    *)
Reached(f) ==
  /\ Cardinality(f) \in FUNCTION_MIN_NUM_BITS .. FUNCTION_MAX_NUM_BITS
  /\ f # LastMask(Cardinality(f))

(* The masks the enumeration has passed.                                   *)
Passed(f) ==
  \/ Cardinality(f) < b
  \/ pc = "mask" /\ Cardinality(f) = b /\ Less(f, function_mask)

(* The enumeration loses nothing and keeps short functions in front: every *)
(* mask passed that holds on all sets is among the functions, and they are *)
(* ordered by their number of bits.                                        *)
EnumerationInv ==
  pc # "done" =>
    /\ \A f \in SUBSET LineBit :
         Reached(f) /\ Passed(f) /\ AllSetsAgree(f) => f \in Masks(functions)
    /\ \A j \in DOMAIN functions :
         /\ Cardinality(functions[j]) <= b
         /\ \A i \in 1 .. j : Cardinality(functions[i]) <= Cardinality(functions[j])

BanksReached == \A f \in Masks(memory.functions) : Reached(f)

(* Whichever addresses of each bank were collected, no bank function is    *)
(* lost: each is a sum of the functions found.                             *)
NoBankFunctionLost ==
  pc = "done" /\ BanksReached => Masks(memory.functions) \subseteq Span(functions)

(* The verdict is right: if as many functions are found as expected, they  *)
(* separate exactly the banks.  Too few addresses give too many functions, *)
(* never wrong ones in the right number.                                   *)
FoundIsRight ==
  found /\ BanksReached => Span(functions) = Span(memory.functions)

(* The basis is the shortest: no shorter function that holds on all sets   *)
(* is left to replace one of it.                                           *)
ShortestBasis ==
  pc = "done" =>
    \A k \in DOMAIN functions :
      \A m \in SUBSET LineBit :
        /\ Reached(m) /\ AllSetsAgree(m)
        /\ Cardinality(m) < Cardinality(functions[k])
        => m \in Span(SubSeq(functions, 1, k - 1))

(* The derivation ends: the masks of a size are tried in increasing order  *)
(* and the last of them is met.                                            *)
EnumerationEnds == <>(pc = "done")

-----------------------------------------------------------------------------
(* "iterate over all mask": every mask of an allowed size that holds on    *)
(* all sets is a sum of the functions found.                               *)
AllMasksTried ==
  pc = "done" =>
    \A m \in SUBSET LineBit :
      /\ Cardinality(m) \in FUNCTION_MIN_NUM_BITS .. FUNCTION_MAX_NUM_BITS
      /\ AllSetsAgree(m)
      => m \in Span(functions)
=============================================================================
