--------------------------- MODULE ValidateMapping ---------------------------
(***************************************************************************)
(* Addressing::ValidateAddressMapping with CheckInjectivity and            *)
(* ResolveAddressMapping: given the addressing functions, the row bits and *)
(* the column bits, decide whether the mapping from physical addresses to  *)
(* DRAM coordinates is one-to-one, and try to complete the labels if not.  *)
(*                                                                         *)
(* The functions split the address bits into disjoint sets.  By rank and   *)
(* nullity a set is complete when it has as many functions, row bits and   *)
(* column bits as it has bits; the check compares the two numbers only.    *)
(* Bits are labelled as columns from the lowest up, then as rows from the  *)
(* highest down, in the incomplete sets, until the numbers of the DIMM's   *)
(* configuration are met.                                                  *)
(***************************************************************************)
EXTENDS AddressBits

CONSTANTS
  MaxBits,            \* max_bits_: addresses are below 2^MaxBits
  CACHELINE_OFFSET,   \* bits below it select a byte in a cache line
  NumRowBits,         \* of the DRAM configuration
  NumColumnBits,
  FunctionVectors     \* the vectors of functions given by the user

AddressBit == 0 .. MaxBits - 1
LineBit == CACHELINE_OFFSET .. MaxBits - 1

ASSUME ValidateAssumption ==
  /\ {MaxBits, CACHELINE_OFFSET, NumRowBits, NumColumnBits} \subseteq Nat
  /\ CACHELINE_OFFSET < MaxBits
  /\ FunctionVectors \subseteq Seq(SUBSET AddressBit)

VARIABLES
  addressing_functions,   \* a vector: a function may be repeated
  row_bits,
  column_bits,
  given,                  \* the row and column bits of the input
  disjoint_sets,
  incomplete_sets,
  pass,
  pc

vars == <<addressing_functions, row_bits, column_bits, given, disjoint_sets,
          incomplete_sets, pass, pc>>

(* Variants with a slip, one per property, that the properties tell from   *)
(* the code: a count that forgets the rows, a test against the wrong side, *)
(* a target missed by one, candidates of any set or below the cache line.  *)
(* None is a part of Next.                                                 *)
CountWithoutRows(set, rows, columns) ==
  Cardinality({k \in DOMAIN addressing_functions :
                 Overlap(addressing_functions[k], set)})
    + Cardinality(columns \cap set)
  = Cardinality(set)

CountNotAbove(set, rows, columns) ==
  Cardinality({k \in DOMAIN addressing_functions :
                 Overlap(addressing_functions[k], set)})
    + Cardinality(rows \cap set) + Cardinality(columns \cap set)
  <= Cardinality(set)

OneRowShort == Cardinality(row_bits) + 1 # NumRowBits

ColumnOfAnySet == {b \in LineBit \cap UNION disjoint_sets : b \notin column_bits}

RowDownToBitZero == {b \in UNION incomplete_sets : b \notin row_bits}

(* rows and columns are the labels the count looks at.                     *)
Complete(set, rows, columns) ==
  Cardinality({k \in DOMAIN addressing_functions :
                 Overlap(addressing_functions[k], set)})
    + Cardinality(rows \cap set) + Cardinality(columns \cap set)
  = Cardinality(set)

CheckInjectivity ==
  /\ incomplete_sets' =
       {set \in disjoint_sets : ~Complete(set, row_bits, column_bits)}
  /\ pass' = (incomplete_sets' = {})

ColumnCandidates == {b \in LineBit \cap UNION incomplete_sets : b \notin column_bits}

RowCandidates == {b \in LineBit \cap UNION incomplete_sets : b \notin row_bits}

(* The loops compare with != : past its target a count is never met.       *)
MoreColumns == Cardinality(column_bits) # NumColumnBits
MoreRows == Cardinality(row_bits) # NumRowBits

(* A variant: the search for a column does not give up.                    *)
ColumnsSearchOn ==
  /\ pc = "column"
  /\ ~MoreColumns \/ ColumnCandidates = {}
  /\ pc' = IF MoreColumns THEN "column" ELSE "row"
  /\ UNCHANGED <<addressing_functions, row_bits, column_bits, given,
                 disjoint_sets, incomplete_sets, pass>>

-----------------------------------------------------------------------------
Init ==
  /\ addressing_functions \in FunctionVectors
  /\ row_bits \in SUBSET LineBit
  /\ column_bits \in SUBSET LineBit
  /\ given = [row |-> row_bits, column |-> column_bits]
  /\ disjoint_sets = {}
  /\ incomplete_sets = {}
  /\ pass = FALSE
  /\ pc = "merge"

(* MergeFunctionsToDisjointSets, whose passes are module MergeFunctions.   *)
MergeStep ==
  /\ pc = "merge"
  /\ disjoint_sets' = DisjointSets(Masks(addressing_functions))
  /\ pc' = "check"
  /\ UNCHANGED <<addressing_functions, row_bits, column_bits, given,
                 incomplete_sets, pass>>

FirstCheck ==
  /\ pc = "check"
  /\ CheckInjectivity
  /\ pc' = IF pass' THEN "done" ELSE "column"
  /\ UNCHANGED <<addressing_functions, row_bits, column_bits, given,
                 disjoint_sets>>

AddColumnBit ==
  /\ pc = "column"
  /\ MoreColumns
  /\ \E b \in ColumnCandidates :
       /\ \A c \in ColumnCandidates : b <= c
       /\ column_bits' = column_bits \cup {b}
  /\ UNCHANGED <<addressing_functions, row_bits, given, disjoint_sets,
                 incomplete_sets, pass, pc>>

ColumnsEnd ==
  /\ pc = "column"
  /\ ~MoreColumns \/ ColumnCandidates = {}
  /\ pc' = "row"
  /\ UNCHANGED <<addressing_functions, row_bits, column_bits, given,
                 disjoint_sets, incomplete_sets, pass>>

AddRowBit ==
  /\ pc = "row"
  /\ MoreRows
  /\ \E b \in RowCandidates :
       /\ \A c \in RowCandidates : c <= b
       /\ row_bits' = row_bits \cup {b}
  /\ UNCHANGED <<addressing_functions, column_bits, given, disjoint_sets,
                 incomplete_sets, pass, pc>>

RowsEnd ==
  /\ pc = "row"
  /\ ~MoreRows \/ RowCandidates = {}
  /\ pc' = "recheck"
  /\ UNCHANGED <<addressing_functions, row_bits, column_bits, given,
                 disjoint_sets, incomplete_sets, pass>>

SecondCheck ==
  /\ pc = "recheck"
  /\ CheckInjectivity
  /\ pc' = "done"
  /\ UNCHANGED <<addressing_functions, row_bits, column_bits, given,
                 disjoint_sets>>

Terminated ==
  /\ pc = "done"
  /\ UNCHANGED vars

Next ==
  \/ MergeStep
  \/ FirstCheck
  \/ AddColumnBit
  \/ ColumnsEnd
  \/ AddRowBit
  \/ RowsEnd
  \/ SecondCheck
  \/ Terminated

(* One thread runs the function from its call to its return.               *)
Spec == Init /\ [][Next]_vars /\ WF_vars(Next)

-----------------------------------------------------------------------------
TypeOK ==
  /\ addressing_functions \in Seq(SUBSET AddressBit)
  /\ row_bits \in SUBSET LineBit
  /\ column_bits \in SUBSET LineBit
  /\ given \in [row : SUBSET LineBit, column : SUBSET LineBit]
  /\ disjoint_sets \in SUBSET SUBSET AddressBit
  /\ incomplete_sets \in SUBSET SUBSET AddressBit
  /\ pass \in BOOLEAN
  /\ pc \in {"merge", "check", "column", "row", "recheck", "done"}

-----------------------------------------------------------------------------
(* What one-to-one means, without counting: the mapping is linear over the *)
(* bits, so two addresses collide exactly when their difference d, a set   *)
(* of bits, changes no function, no row bit and no column bit.             *)
Collides(d, rows, columns) ==
  /\ d \cap (rows \cup columns) = {}
  /\ \A f \in Masks(addressing_functions) : XORReductionWithMask(f, d) = 0

OneToOne(bits, rows, columns) ==
  \A d \in SUBSET bits : Collides(d, rows, columns) => d = {}

(* No output is the xor of other outputs: no function is repeated, no bit  *)
(* is both row and column, no sum of functions is made of label bits.      *)
Independent ==
  /\ row_bits \cap column_bits = {}
  /\ \A K \in SUBSET DOMAIN addressing_functions :
       LET Odd(b) ==
             Cardinality({k \in K : b \in addressing_functions[k]}) % 2 = 1
       IN  {b \in AddressBit : Odd(b)} \subseteq row_bits \cup column_bits
             => K = {}

Covered == UNION Masks(addressing_functions)

(* A mapping of the cache lines of the module onto its banks, rows and     *)
(* columns: one-to-one and with no more outputs than address bits.         *)
Bijective(rows, columns) ==
  /\ Covered \subseteq LineBit
  /\ Len(addressing_functions) + Cardinality(rows) + Cardinality(columns)
       = Cardinality(LineBit)
  /\ OneToOne(LineBit, rows, columns)

-----------------------------------------------------------------------------
(* A correct mapping is accepted as it is.  The check looks at one set at  *)
(* a time and only counts, so this rests on the blocks being independent.  *)
AcceptsEveryBijection ==
  pc = "done" /\ Bijective(given.row, given.column) =>
    pass /\ row_bits = given.row /\ column_bits = given.column

(* Where the count is a proof: a mapping that passes and whose outputs are *)
(* linearly independent is one-to-one on every bit the functions cover.    *)
IndependentPassIsOneToOne ==
  pc = "done" /\ pass /\ Independent => OneToOne(Covered, row_bits, column_bits)

(* Labels found by IdentifyBits may be incomplete: they can be completed   *)
(* to a bijection in which every row bit is above every column bit.        *)
Completable ==
  \E R, C \in SUBSET LineBit :
    /\ given.row \subseteq R /\ Cardinality(R) = NumRowBits
    /\ given.column \subseteq C /\ Cardinality(C) = NumColumnBits
    /\ \A r \in R, c \in C : c < r
    /\ Bijective(R, C)

OneSetLacksLabels ==
  /\ LineBit \ Covered \subseteq given.row \cup given.column
  /\ Cardinality({set \in disjoint_sets :
                    ~Complete(set, given.row, given.column)}) = 1

(* If all the missing labels are those of one set, the extra step finds as *)
(* many row and column bits as the set lacks, and the mapping passes.      *)
OneSetIsResolved ==
  pc = "done" /\ OneSetLacksLabels /\ Completable => pass

(* Labelling bits for the incomplete sets never spoils a set that the      *)
(* first check found complete.                                             *)
CompleteStaysComplete ==
  [][\A set \in disjoint_sets \ incomplete_sets :
       Complete(set, row_bits, column_bits)
         => Complete(set, row_bits', column_bits')]_vars

(* Validation ends, even when more bits are labelled than the DIMM has.    *)
Terminates == <>(pc = "done")

-----------------------------------------------------------------------------
(* What the documentation says of the verdict and of the extra step.       *)

(* "Modified DRAM address mapping system is now injective": a mapping that *)
(* passes once missing labels, which could be completed, were chosen is    *)
(* one-to-one on the bits its functions cover.                             *)
InjectiveAfterResolving ==
  pc = "done" /\ pass /\ Completable => OneToOne(Covered, row_bits, column_bits)
=============================================================================
