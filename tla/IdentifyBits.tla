----------------------------- MODULE IdentifyBits -----------------------------
(***************************************************************************)
(* Addressing::IdentifyBits: which address bits select the row and which   *)
(* the column.  Two addresses that differ by a mask are in the same bank   *)
(* if the mask changes no addressing function; their timing then shows     *)
(* whether the mask changes the row.  Masks of bits in no function are all *)
(* tried (CheckUnusedBits), masks of bits in one disjoint set of functions *)
(* if they are short and change no function (CheckUsedBits).  The masks    *)
(* found are reduced; the highest bit of one that changes the row is       *)
(* called a row bit, the lowest of one that does not a column bit.         *)
(*                                                                         *)
(* memory is the machine: its bank functions, which the user passes in,    *)
(* and its row and column bits, which the program only sees through        *)
(* timings.  No function is the xor of others, rows lie above columns, and *)
(* a bit in no function selects a row or a column.  The trials of one      *)
(* mask, module BitTrials, are one step here: they end with the right      *)
(* label, or with none.                                                    *)
(***************************************************************************)
EXTENDS AddressBits, SequencesExt, ReduceFunctions

CONSTANTS
  MaxBits,            \* max_bits_
  CACHELINE_OFFSET,
  Memories            \* records of functions, row bits and column bits

AddressBit == 0 .. MaxBits - 1
LineBit == CACHELINE_OFFSET .. MaxBits - 1

ASSUME IdentifyAssumption ==
  /\ {MaxBits, CACHELINE_OFFSET} \subseteq Nat
  /\ CACHELINE_OFFSET < MaxBits
  /\ \A memory \in Memories :
       /\ memory.functions \in Seq(SUBSET LineBit)
       /\ memory.row \subseteq LineBit
       /\ memory.column \subseteq LineBit
       /\ IndependentMasks(memory.functions)
       /\ \A r \in memory.row, c \in memory.column : c < r
       /\ LineBit \ UNION Masks(memory.functions)
            \subseteq memory.row \cup memory.column

VARIABLES
  memory,
  disjoint_sets,      \* the sets that CheckUsedBits has still to look at
  masks,              \* the masks left of the set it looks at
  row_functions,
  column_functions,
  row_bits,
  column_bits,
  unlabelled,         \* history: some mask was tried and got no label
  pc

vars == <<memory, disjoint_sets, masks, row_functions, column_functions,
          row_bits, column_bits, unlabelled, pc>>

functions == memory.functions
Covered == UNION Masks(functions)

(* Variants with a slip: subsets in decreasing order, row bits taken from  *)
(* the low end.  Neither is a part of Next.                                *)
DownwardCombinations(word) == Reverse(Ascending((SUBSET word) \ {{}}))

LowestBit(mask) == {b \in mask : \A c \in mask : b <= c}

(* The bits that no function covers, as the two xors of the code leave     *)
(* them: right as long as functions stay within the line bits.             *)
Uncovered ==
  Xor(Xor(AddressBit, Covered), 0 .. CACHELINE_OFFSET - 1)

(* All subsets of a word but the empty one, in the order of numbers.       *)
GenerateAllCombinations(word) == Ascending((SUBSET word) \ {{}})

ChangesFunction(mask) ==
  \E f \in Masks(functions) : XORReductionWithMask(f, mask) # 0

(* The highest and the lowest bit of a mask, as sets of one bit.           *)
MostSignificant(mask) == {b \in mask : \A c \in mask : c <= b}
LeastSignificant(mask) == {b \in mask : \A c \in mask : b <= c}

-----------------------------------------------------------------------------
Init ==
  /\ memory \in Memories
  /\ disjoint_sets = {}
  /\ masks = <<>>
  /\ row_functions = <<>>
  /\ column_functions = <<>>
  /\ row_bits = {}
  /\ column_bits = {}
  /\ unlabelled = FALSE
  /\ pc = "classify"

Classify ==
  /\ pc = "classify"
  /\ disjoint_sets' = DisjointSets(Masks(functions))
  /\ masks' = GenerateAllCombinations(Uncovered)
  /\ pc' = "unused"
  /\ UNCHANGED <<memory, row_functions, column_functions, row_bits,
                 column_bits, unlabelled>>

(* A variant: masks of three bits are skipped as well.                     *)
TriedInPairs(mask) ==
  pc = "used" => Cardinality(mask) < 3 /\ ~ChangesFunction(mask)

(* A mask of used bits is tried if it has at most three bits and changes   *)
(* no function.  (It changes no function outside its set in any case.)     *)
Tried(mask) ==
  pc = "used" => Cardinality(mask) < 4 /\ ~ChangesFunction(mask)

SkipMask ==
  /\ masks # <<>>
  /\ ~Tried(Head(masks))
  /\ masks' = Tail(masks)
  /\ UNCHANGED <<memory, disjoint_sets, row_functions, column_functions,
                 row_bits, column_bits, unlabelled, pc>>

(* Row buffer conflict: the same bank and another row.                     *)
Conflict(mask) == ~ChangesFunction(mask) /\ Overlap(mask, memory.row)

InsertRowFunction ==
  /\ masks # <<>>
  /\ Tried(Head(masks))
  /\ Conflict(Head(masks))
  /\ row_functions' = Append(row_functions, Head(masks))
  /\ masks' = Tail(masks)
  /\ UNCHANGED <<memory, disjoint_sets, column_functions, row_bits,
                 column_bits, unlabelled, pc>>

InsertColumnFunction ==
  /\ masks # <<>>
  /\ Tried(Head(masks))
  /\ ~Conflict(Head(masks))
  /\ column_functions' = Append(column_functions, Head(masks))
  /\ masks' = Tail(masks)
  /\ UNCHANGED <<memory, disjoint_sets, row_functions, row_bits,
                 column_bits, unlabelled, pc>>

FailToIdentify ==
  /\ masks # <<>>
  /\ Tried(Head(masks))
  /\ unlabelled' = TRUE
  /\ masks' = Tail(masks)
  /\ UNCHANGED <<memory, disjoint_sets, row_functions, column_functions,
                 row_bits, column_bits, pc>>

UnusedEnd ==
  /\ pc = "unused"
  /\ masks = <<>>
  /\ pc' = "used"
  /\ UNCHANGED <<memory, disjoint_sets, masks, row_functions,
                 column_functions, row_bits, column_bits, unlabelled>>

(* The sets are visited in the order of the merge, any order here.         *)
NextDisjointSet ==
  /\ pc = "used"
  /\ masks = <<>>
  /\ \E set \in disjoint_sets :
       /\ disjoint_sets' = disjoint_sets \ {set}
       /\ masks' = GenerateAllCombinations(set)
  /\ UNCHANGED <<memory, row_functions, column_functions, row_bits,
                 column_bits, unlabelled, pc>>

(* Reduction and extraction.                                               *)
RowBitsOf(basis) == UNION {MostSignificant(f) : f \in Masks(basis)}
ColumnBitsOf(basis) == UNION {LeastSignificant(f) : f \in Masks(basis)}

OneBitMasks(word) == Ascending({{b} : b \in word})

Extract ==
  /\ pc = "used"
  /\ masks = <<>>
  /\ disjoint_sets = {}
  /\ row_bits' = RowBitsOf(ReducedFunctions(row_functions))
  /\ column_bits' = ColumnBitsOf(ReducedFunctions(column_functions))
  /\ row_functions' = OneBitMasks(row_bits')
  /\ column_functions' = OneBitMasks(column_bits')
  /\ pc' = "done"
  /\ UNCHANGED <<memory, disjoint_sets, masks, unlabelled>>

Terminated ==
  /\ pc = "done"
  /\ UNCHANGED vars

Next ==
  \/ Classify
  \/ SkipMask
  \/ InsertRowFunction
  \/ InsertColumnFunction
  \/ FailToIdentify
  \/ UnusedEnd
  \/ NextDisjointSet
  \/ Extract
  \/ Terminated

Spec == Init /\ [][Next]_vars /\ WF_vars(Next)

-----------------------------------------------------------------------------
(* Inside every disjoint set the row bits are the highest, as they are on  *)
(* the processors the tool names; the extraction of bits rests on it.      *)
RowsOnTop ==
  \A set \in DisjointSets(Masks(functions)) :
    \A r \in set \cap memory.row : \A b \in set \ memory.row : b < r

(* The labels found are consistent, whichever masks could not be tried:    *)
(* row bits are rows, and no function, row bit or column bit is the xor of *)
(* others, so that what is missing can be added to a one-to-one mapping.   *)
LabelsAreIndependent ==
  pc = "done" /\ RowsOnTop =>
    /\ row_bits \subseteq memory.row
    /\ IndependentMasks(functions \o row_functions \o column_functions)

(* If every mask gets a label, so does every bit outside the functions,    *)
(* and the right one: of all the combinations tried none hides it.         *)
UncoveredBitsIdentified ==
  pc = "done" /\ ~unlabelled =>
    \A b \in LineBit \ Covered :
      /\ b \in row_bits <=> b \in memory.row
      /\ b \in column_bits <=> b \in memory.column

(* A row bit in at most two functions can be moved without changing bank   *)
(* if each of them has a bit of its own.  If every mask gets a label, all  *)
(* such row bits are found: reducing the masks, which drops most of them,  *)
(* loses no highest bit.                                                   *)
OwnBits(k) ==
  {b \in functions[k] \ memory.row :
     \A l \in DOMAIN functions : b \in functions[l] => l = k}

Movable(r) ==
  LET with == {k \in DOMAIN functions : r \in functions[k]}
  IN  Cardinality(with) <= 2 /\ \A k \in with : OwnBits(k) # {}

MovableRowsFound ==
  pc = "done" /\ ~unlabelled /\ RowsOnTop =>
    \A r \in memory.row : Movable(r) => r \in row_bits
=============================================================================
