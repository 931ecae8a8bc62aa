-------------------------- MODULE ConstrainedAddress --------------------------
(***************************************************************************)
(* Sudoku::GenerateRandomAddressTupleWithConstraints: given an address,    *)
(* draw a second one on which some functions agree with the first          *)
(* (same_functions) and others differ (diff_functions).  The constraints   *)
(* are a linear system over GF(2): elimination from the highest bit down,  *)
(* a particular solution from the lowest bit up, and a random sum of null  *)
(* vectors, one per free bit.  The address is of use if it is in the pool. *)
(*                                                                         *)
(* Addresses are those of the memory, without the hole of PCI_OFFSET.      *)
(***************************************************************************)
EXTENDS AddressBits

CONSTANTS
  MaxBits,            \* max_bits_
  CACHELINE_OFFSET,
  Queries,            \* records of a first address, same and diff functions
  Pool                \* the addresses that PhysToVirt finds in the pool

LineBit == CACHELINE_OFFSET .. MaxBits - 1

ASSUME ConstraintsAssumption ==
  /\ {MaxBits, CACHELINE_OFFSET} \subseteq Nat
  /\ CACHELINE_OFFSET <= MaxBits
  /\ Queries \subseteq [first : SUBSET LineBit,
                        same : Seq(SUBSET LineBit),
                        diff : Seq(SUBSET LineBit)]

VARIABLES
  query,
  base_functions,
  expected,           \* the right-hand side, 0 or 1 for every row
  pivot_row,          \* the row whose pivot a bit is, 0 if it is free
  row,                \* the number of pivots found
  bit,
  solution,
  retval,
  pc

vars == <<query, base_functions, expected, pivot_row, row, bit, solution,
          retval, pc>>

Rows == DOMAIN base_functions

Plus(x, y) == (x + y) % 2

RightHandSide(q) ==
  [k \in 1 .. Len(q.same) + Len(q.diff) |->
     IF k <= Len(q.same)
     THEN XORReductionWithMask(q.same[k], q.first)
     ELSE 1 - XORReductionWithMask(q.diff[k - Len(q.same)], q.first)]

(* The vector with the elements at i and j in each other's place.          *)
Swap(v, i, j) == [k \in DOMAIN v |-> IF k = i THEN v[j]
                                     ELSE IF k = j THEN v[i] ELSE v[k]]

(* Variants with a slip, no part of Next: elimination of the rows below    *)
(* the pivot only, a right-hand side that is not added up, null vectors    *)
(* without the pivots' bits.                                               *)
RowsBelow(v) == {i \in DOMAIN v : i > row + 1 /\ bit \in v[i]}

SumForgotten(v, w) == w

FreeBitOnly(free) == {free}

-----------------------------------------------------------------------------
Init ==
  /\ query \in Queries
  /\ base_functions = query.same \o query.diff
  /\ expected = RightHandSide(query)
  /\ pivot_row = [b \in LineBit |-> 0]
  /\ row = 0
  /\ bit = MaxBits - 1
  /\ solution = {}
  /\ retval = FALSE
  /\ pc = "eliminate"

Candidates == {i \in Rows : i > row /\ bit \in base_functions[i]}

SkipBit ==
  /\ pc = "eliminate"
  /\ bit >= CACHELINE_OFFSET
  /\ Candidates = {}
  /\ bit' = bit - 1
  /\ UNCHANGED <<query, base_functions, expected, pivot_row, row, solution,
                 retval, pc>>

(* The rows of the swapped matrix v that the pivot's row is added to.      *)
OtherRows(v) == {i \in DOMAIN v : i # row + 1 /\ bit \in v[i]}

(* The right-hand side w of the swapped matrix v after that.               *)
AddedUp(v, w) ==
  [i \in DOMAIN w |->
     IF i \in OtherRows(v) THEN Plus(w[i], w[row + 1]) ELSE w[i]]

Pivot(pivot) ==
  LET v == Swap(base_functions, row + 1, pivot)
      w == Swap(expected, row + 1, pivot)
  IN  /\ base_functions' = [i \in DOMAIN v |->
                              IF i \in OtherRows(v)
                              THEN Xor(v[i], v[row + 1]) ELSE v[i]]
      /\ expected' = AddedUp(v, w)

PivotBit ==
  /\ pc = "eliminate"
  /\ bit >= CACHELINE_OFFSET
  /\ \E pivot \in Candidates :
       /\ \A i \in Candidates : pivot <= i
       /\ Pivot(pivot)
  /\ pivot_row' = [pivot_row EXCEPT ![bit] = row + 1]
  /\ row' = row + 1
  /\ bit' = bit - 1
  /\ UNCHANGED <<query, solution, retval, pc>>

Contradiction ==
  \E i \in Rows : i > row /\ base_functions[i] = {} /\ expected[i] # 0

GiveUp ==
  /\ pc = "eliminate"
  /\ bit < CACHELINE_OFFSET
  /\ Contradiction
  /\ pc' = "unsolvable"
  /\ UNCHANGED <<query, base_functions, expected, pivot_row, row, bit,
                 solution, retval>>

EliminationEnd ==
  /\ pc = "eliminate"
  /\ bit < CACHELINE_OFFSET
  /\ ~Contradiction
  /\ bit' = CACHELINE_OFFSET
  /\ pc' = "substitute"
  /\ UNCHANGED <<query, base_functions, expected, pivot_row, row, solution,
                 retval>>

(* What the row of a pivot expects of its bit, given the bits above it.    *)
Rhs(r) ==
  Plus(expected[r],
       XORReductionWithMask({b \in base_functions[r] : b > bit}, solution))

SubstituteBit ==
  /\ pc = "substitute"
  /\ bit < MaxBits
  /\ solution' = IF pivot_row[bit] # 0 /\ Rhs(pivot_row[bit]) = 1
                 THEN solution \cup {bit} ELSE solution
  /\ bit' = bit + 1
  /\ UNCHANGED <<query, base_functions, expected, pivot_row, row, retval, pc>>

SubstitutionEnd ==
  /\ pc = "substitute"
  /\ bit = MaxBits
  /\ bit' = CACHELINE_OFFSET
  /\ pc' = "randomise"
  /\ UNCHANGED <<query, base_functions, expected, pivot_row, row, solution,
                 retval>>

(* The free bit with the bits of the pivots whose rows have it.            *)
NullVector(free) ==
  {free} \cup {b \in LineBit : /\ pivot_row[b] # 0
                               /\ free \in base_functions[pivot_row[b]]}

(* The code collects the null vectors first and then adds some of them.    *)
RandomiseBit ==
  /\ pc = "randomise"
  /\ bit < MaxBits
  /\ \/ solution' = solution
     \/ pivot_row[bit] = 0 /\ solution' = Xor(solution, NullVector(bit))
  /\ bit' = bit + 1
  /\ UNCHANGED <<query, base_functions, expected, pivot_row, row, retval, pc>>

Lookup ==
  /\ pc = "randomise"
  /\ bit = MaxBits
  /\ retval' = (solution \in Pool)
  /\ pc' = "done"
  /\ UNCHANGED <<query, base_functions, expected, pivot_row, row, bit,
                 solution>>

Terminated ==
  /\ pc \in {"unsolvable", "done"}
  /\ UNCHANGED vars

Next ==
  \/ SkipBit
  \/ PivotBit
  \/ GiveUp
  \/ EliminationEnd
  \/ SubstituteBit
  \/ SubstitutionEnd
  \/ RandomiseBit
  \/ Lookup
  \/ Terminated

Spec == Init /\ [][Next]_vars

-----------------------------------------------------------------------------
TypeOK ==
  /\ query \in Queries
  /\ base_functions \in Seq(SUBSET LineBit)
  /\ expected \in Seq({0, 1})
  /\ Len(base_functions) = Len(query.same) + Len(query.diff)
  /\ Len(expected) = Len(base_functions)
  /\ pivot_row \in [LineBit -> 0 .. Len(base_functions)]
  /\ row \in 0 .. Len(base_functions)
  /\ bit \in CACHELINE_OFFSET - 1 .. MaxBits
  /\ solution \in SUBSET LineBit
  /\ retval \in BOOLEAN
  /\ pc \in {"eliminate", "substitute", "randomise", "unsolvable", "done"}

(* The second addresses that the caller asks for.                          *)
Wanted(a) ==
  /\ \A f \in Masks(query.same) :
       XORReductionWithMask(f, a) = XORReductionWithMask(f, query.first)
  /\ \A f \in Masks(query.diff) :
       XORReductionWithMask(f, a) # XORReductionWithMask(f, query.first)

(* An address found satisfies every constraint, whatever was drawn.        *)
AnswerIsWanted == retval => Wanted(solution) /\ solution \in Pool

(* The search only gives up if no address satisfies the constraints.       *)
GivesUpRightly == pc = "unsolvable" => \A a \in SUBSET LineBit : ~Wanted(a)

(* Before the random bits every address wanted can still be drawn, so that *)
(* a pool that holds one is met sooner or later by retrying.               *)
FreeBits == {b \in LineBit : pivot_row[b] = 0}

EveryAnswerCanBeDrawn ==
  pc = "randomise" /\ bit = CACHELINE_OFFSET =>
    \A a \in SUBSET LineBit :
      Wanted(a) =>
        \E K \in SUBSET FreeBits :
          \A b \in LineBit :
            b \in Xor(solution, a)
              <=> Cardinality({free \in K : b \in NullVector(free)}) % 2 = 1

-----------------------------------------------------------------------------
(* The inductive invariant.  Row operations keep the set of solutions.     *)
Solves(a) ==
  \A i \in Rows : XORReductionWithMask(base_functions[i], a) = expected[i]

SystemKept == \A a \in SUBSET LineBit : Solves(a) <=> Wanted(a)

(* The bits that elimination has passed: all of them once it has ended.    *)
Passed == IF pc = "eliminate" THEN {b \in LineBit : b > bit} ELSE LineBit

(* A passed bit is the pivot of one row and in no other, or in no row      *)
(* below the pivots; every row up to the last pivot is that of one bit.    *)
Echelon ==
  /\ \A b \in LineBit \ Passed : pivot_row[b] = 0
  /\ \A b \in Passed :
       IF pivot_row[b] # 0
       THEN /\ pivot_row[b] <= row
            /\ \A i \in Rows : b \in base_functions[i] <=> i = pivot_row[b]
       ELSE \A i \in Rows : i > row => b \notin base_functions[i]
  /\ \A r \in 1 .. row : \E b \in Passed :
                           \A c \in Passed : pivot_row[c] = r <=> c = b

(* Past elimination the rows without a pivot say nothing, or one of them   *)
(* cannot be satisfied.                                                    *)
VerdictInv ==
  /\ pc = "unsolvable" => Contradiction
  /\ pc \in {"substitute", "randomise", "done"} =>
       \A i \in Rows : i > row => base_functions[i] = {} /\ expected[i] = 0

SolutionInv ==
  /\ pc = "eliminate" => solution = {}
  /\ pc = "substitute" =>
       /\ bit >= CACHELINE_OFFSET
       /\ solution = {b \in LineBit : /\ b < bit
                                      /\ pivot_row[b] # 0
                                      /\ expected[pivot_row[b]] = 1}
  /\ pc = "randomise" => bit >= CACHELINE_OFFSET
  /\ pc \in {"randomise", "done"} => Solves(solution)
  /\ retval => pc = "done" /\ solution \in Pool

SearchInv ==
  /\ SystemKept
  /\ Echelon
  /\ VerdictInv
  /\ SolutionInv

(* No pivot outside the matrix, and the system of equations is kept.       *)
IInv == TypeOK /\ SearchInv
=============================================================================
