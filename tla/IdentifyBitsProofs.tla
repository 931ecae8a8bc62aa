-------------------------- MODULE IdentifyBitsProofs --------------------------
(***************************************************************************)
(* Theorems about the identification of row and column bits, for every     *)
(* machine: the trials of one mask end with the right label or none, and   *)
(* the labels that the masks lead to are independent and complete.         *)
(***************************************************************************)
EXTENDS IdentifyBits, BitTrials, AddressBitsProofs

-----------------------------------------------------------------------------
(* The trials of one mask.                                                 *)
LimitsAreNat ==
  /\ SUDOKU_MAX_NUM_TRIALS \in Nat
  /\ SUDOKU_NUM_EFFECTIVE_TRIAL \in Nat
  /\ SUDOKU_TRIAL_SUCCESS_SCORE \in Nat
  /\ SUDOKU_NUM_EFFECTIVE_TRIAL <= SUDOKU_MAX_NUM_TRIALS
  /\ SUDOKU_TRIAL_SUCCESS_SCORE < SUDOKU_NUM_EFFECTIVE_TRIAL
  /\ SUDOKU_NUM_EFFECTIVE_TRIAL <= 2 * SUDOKU_TRIAL_SUCCESS_SCORE

(* The constants as arithmetic facts, one by one.                          *)
LEMMA Limits == LimitsAreNat
BY TrialsAssumption DEF LimitsAreNat

(* A sum of naturals is at least each of them.                             *)
LEMMA SumBounds ==
  ASSUME NEW x \in Nat, NEW y \in Nat, NEW z \in Nat, x + y = z
  PROVE  x <= z /\ y <= z
OBVIOUS

(* The loop starts with no score and no verdict.                           *)
LEMMA TrialsStart == TrialsInit => TrialsIInv
<1> SUFFICES ASSUME TrialsInit PROVE TrialsIInv
  OBVIOUS
<1>1. TrialsTypeOK
  BY Limits DEF TrialsInit, TrialsTypeOK, LimitsAreNat, Outcome
<1>2. TrialsInv
  BY Limits DEF TrialsInit, TrialsInv, ScoresAddUp, LeftEarlyOrRunOut,
                   ScoresAgree, VerdictHasScore, OutOfTrials, LimitsAreNat
<1>. QED
  BY <1>1, <1>2 DEF TrialsIInv

(* A verdict is only given where the loop was left.                        *)
LEMMA ConcludeKeepsTrials ==
  ASSUME TrialsIInv, NEW v \in {"row", "column", "failed", "outlier"}, Conclude(v),
         v = "failed" => OutOfTrials,
         v # "failed" => ~OutOfTrials,
         v = "row" => row_bit_score > SUDOKU_TRIAL_SUCCESS_SCORE,
         v = "column" => column_bit_score > SUDOKU_TRIAL_SUCCESS_SCORE,
         v = "outlier" => /\ row_bit_score <= SUDOKU_TRIAL_SUCCESS_SCORE
                          /\ column_bit_score <= SUDOKU_TRIAL_SUCCESS_SCORE
  PROVE  TrialsIInv'
<1>1. TrialsTypeOK'
  BY DEF TrialsIInv, TrialsTypeOK, Conclude
<1>2. ScoresAddUp' /\ ScoresAgree'
  BY DEF TrialsIInv, TrialsInv, ScoresAddUp, ScoresAgree, Conclude
<1>3. LeftEarlyOrRunOut'
  BY DEF TrialsIInv, TrialsInv, LeftEarlyOrRunOut, Conclude
<1>4. VerdictHasScore'
  BY DEF TrialsIInv, TrialsInv, VerdictHasScore, OutOfTrials, Conclude
<1>. QED
  BY <1>1, <1>2, <1>3, <1>4 DEF TrialsIInv, TrialsInv

(* Every step keeps the invariant.                                         *)
LEMMA TrialsStep == TrialsIInv /\ [TrialsNext]_trials_vars => TrialsIInv'
<1> SUFFICES ASSUME TrialsIInv, [TrialsNext]_trials_vars PROVE TrialsIInv'
  OBVIOUS
<1> USE Limits DEF LimitsAreNat
<1>1. CASE Miss
  <2>1. TrialsTypeOK'
    BY <1>1 DEF Miss, TrialsIInv, TrialsTypeOK
  <2>2. TrialsInv'
    BY <1>1 DEF Miss, TrialsIInv, TrialsTypeOK, TrialsInv, ScoresAddUp, LeftEarlyOrRunOut,
                ScoresAgree, VerdictHasScore, OutOfTrials
  <2>. QED
    BY <2>1, <2>2 DEF TrialsIInv
<1>2. ASSUME NEW outcome \in shown, Measure(outcome) PROVE TrialsIInv'
  <2>1. /\ row_bit_score' \in Nat /\ column_bit_score' \in Nat
        /\ row_bit_score' + column_bit_score' = effective_trials'
        /\ effective_trials' \in 0 .. SUDOKU_NUM_EFFECTIVE_TRIAL
        /\ trials' \in 0 .. SUDOKU_MAX_NUM_TRIALS
    BY <1>2 DEF Measure, Score, TrialsIInv, TrialsTypeOK, TrialsInv, ScoresAddUp,
                LeftEarlyOrRunOut
  <2>2. UNCHANGED <<check, shown, verdict>> /\ trials_pc = "trials"
        /\ trials_pc' \in {"trials", "decide"}
    BY <1>2 DEF Measure
  <2>3. TrialsTypeOK'
    <3>1. /\ check' \in {"unused", "used"}
          /\ shown' \in SUBSET Outcome
          /\ verdict' \in {"none", "row", "column", "failed", "outlier"}
          /\ trials_pc' \in {"trials", "decide", "done"}
      BY <2>2 DEF TrialsIInv, TrialsTypeOK
    <3>2. trials' \in 0 .. SUDOKU_MAX_NUM_TRIALS + 1
      BY <2>1
    <3>3. /\ row_bit_score' \in 0 .. SUDOKU_NUM_EFFECTIVE_TRIAL
          /\ column_bit_score' \in 0 .. SUDOKU_NUM_EFFECTIVE_TRIAL
      <4>1. /\ effective_trials' \in Nat
            /\ effective_trials' <= SUDOKU_NUM_EFFECTIVE_TRIAL
        BY <2>1
      <4>2. /\ row_bit_score' <= effective_trials'
            /\ column_bit_score' <= effective_trials'
        BY <2>1, <4>1, SumBounds
      <4>. QED
        BY <2>1, <4>1, <4>2
    <3>. QED
      BY <2>1, <3>1, <3>2, <3>3 DEF TrialsTypeOK
  <2>4. ScoresAddUp'
    BY <2>1 DEF ScoresAddUp
  <2>5. LeftEarlyOrRunOut'
    <3>1. trials_pc' = "decide" => effective_trials' = SUDOKU_NUM_EFFECTIVE_TRIAL
      BY <1>2, <2>1 DEF Measure
    <3>2. trials_pc' = "trials" => effective_trials' < SUDOKU_NUM_EFFECTIVE_TRIAL
      BY <1>2, <2>1 DEF Measure
    <3>3. effective_trials' <= trials'
      BY <1>2 DEF Measure, TrialsIInv, TrialsTypeOK, TrialsInv, LeftEarlyOrRunOut
    <3>. QED
      BY <2>1, <2>2, <3>1, <3>2, <3>3 DEF LeftEarlyOrRunOut
  <2>6. ScoresAgree'
    BY <1>2 DEF Measure, Score, TrialsIInv, TrialsTypeOK, TrialsInv, ScoresAgree
  <2>7. VerdictHasScore'
    BY <2>2 DEF TrialsIInv, TrialsInv, VerdictHasScore
  <2>. QED
    BY <2>3, <2>4, <2>5, <2>6, <2>7 DEF TrialsIInv, TrialsInv
<1>3. CASE RunOut
  <2>1. TrialsTypeOK'
    BY <1>3 DEF RunOut, TrialsIInv, TrialsTypeOK, TrialsInv, LeftEarlyOrRunOut
  <2>2. TrialsInv'
    BY <1>3 DEF RunOut, TrialsIInv, TrialsTypeOK, TrialsInv, ScoresAddUp,
                LeftEarlyOrRunOut, ScoresAgree, VerdictHasScore, OutOfTrials
  <2>. QED
    BY <2>1, <2>2 DEF TrialsIInv
<1>4. CASE CallFailed
  BY <1>4, ConcludeKeepsTrials DEF CallFailed
<1>5. CASE CallRow
  BY <1>5, ConcludeKeepsTrials DEF CallRow
<1>6. CASE CallColumn
  BY <1>6, ConcludeKeepsTrials DEF CallColumn
<1>7. CASE CallOutlier
  BY <1>7, ConcludeKeepsTrials DEF CallOutlier
<1>8. CASE UNCHANGED trials_vars
  BY <1>8 DEF trials_vars, TrialsIInv, TrialsTypeOK, TrialsInv, ScoresAddUp, LeftEarlyOrRunOut,
              ScoresAgree, VerdictHasScore, OutOfTrials
<1>. QED
  BY <1>1, <1>2, <1>3, <1>4, <1>5, <1>6, <1>7, <1>8 DEF TrialsNext, Decided

(* Whatever the pool and the noise, the counters stay within the limits of *)
(* the configuration and the scores add up to the measurements.            *)
THEOREM TrialsInvariance == TrialsSpec => []TrialsIInv
BY TrialsStart, TrialsStep, PTL DEF TrialsSpec

-----------------------------------------------------------------------------
(* The counters of the loop stay within the limits of the configuration.   *)
THEOREM TrialsTypeCorrect == TrialsSpec => []TrialsTypeOK
<1>1. TrialsIInv => TrialsTypeOK
  BY DEF TrialsIInv
<1>. QED
  BY <1>1, TrialsInvariance, PTL

(* Every measurement counts for one score, and the loop is left early only *)
(* with the full number of measurements.                                   *)
THEOREM TrialsScores == TrialsSpec => []TrialsInv
<1>1. TrialsIInv => TrialsInv
  BY DEF TrialsIInv
<1>. QED
  BY <1>1, TrialsInvariance, PTL

(* A row or column label rests on SUDOKU_NUM_EFFECTIVE_TRIAL measurements  *)
(* of which few contradict it, whatever the pool and the noise.            *)
THEOREM LabelsAreMeasured == TrialsSpec => []LabelsRestOnMeasurements
<1>1. TrialsIInv => LabelsRestOnMeasurements
  <2> SUFFICES ASSUME TrialsIInv PROVE LabelsRestOnMeasurements
    OBVIOUS
  <2>1. /\ effective_trials \in Nat /\ row_bit_score \in Nat
        /\ column_bit_score \in Nat /\ trials \in Nat
        /\ row_bit_score + column_bit_score = effective_trials
    BY Limits DEF TrialsIInv, TrialsTypeOK, TrialsInv, ScoresAddUp, LimitsAreNat
  <2>2. ASSUME verdict \in {"row", "column"}
        PROVE  effective_trials = SUDOKU_NUM_EFFECTIVE_TRIAL
    <3>1. ~OutOfTrials /\ trials_pc # "trials" /\ check \in {"unused", "used"}
      BY <2>2 DEF TrialsIInv, TrialsTypeOK, TrialsInv, VerdictHasScore
    <3>2. trials <= SUDOKU_MAX_NUM_TRIALS
      BY <2>1, <3>1, Limits DEF OutOfTrials, LimitsAreNat
    <3>. QED
      BY <2>1, <3>1, <3>2, Limits DEF TrialsIInv, TrialsInv, LeftEarlyOrRunOut,
                                    LimitsAreNat
  <2>3. /\ verdict = "row" => row_bit_score > SUDOKU_TRIAL_SUCCESS_SCORE
        /\ verdict = "column" => column_bit_score > SUDOKU_TRIAL_SUCCESS_SCORE
    BY DEF TrialsIInv, TrialsInv, VerdictHasScore
  <2>. QED
    BY <2>1, <2>2, <2>3, Limits DEF LabelsRestOnMeasurements, Contradicted,
                                        LimitsAreNat
<1>. QED
  BY <1>1, TrialsInvariance, PTL

(* A mask whose pairs always show a conflict is never taken for a column   *)
(* bit or an outlier, and one whose pairs never do, never for a row bit.   *)
THEOREM VerdictsAreExact == TrialsSpec => []ExactVerdict
<1>1. TrialsIInv => ExactVerdict
  <2> SUFFICES ASSUME TrialsIInv, trials_pc = "done" PROVE
        /\ shown = {"conflict"} => verdict \in {"row", "failed"}
        /\ "conflict" \notin shown => verdict \in {"column", "failed"}
    BY DEF ExactVerdict
  <2>1. /\ effective_trials \in Nat /\ row_bit_score \in Nat
        /\ column_bit_score \in Nat /\ trials \in Nat
        /\ row_bit_score + column_bit_score = effective_trials
    BY Limits DEF TrialsIInv, TrialsTypeOK, TrialsInv, ScoresAddUp, LimitsAreNat
  <2>2. verdict \in {"row", "column", "failed", "outlier"}
    BY DEF TrialsIInv, TrialsTypeOK, TrialsInv, VerdictHasScore
  <2>3. CASE verdict = "failed"
    BY <2>3
  <2>4. CASE verdict # "failed"
    <3>1. ~OutOfTrials /\ check \in {"unused", "used"}
      BY <2>2, <2>4 DEF TrialsIInv, TrialsTypeOK, TrialsInv, VerdictHasScore
    <3>2. trials <= SUDOKU_MAX_NUM_TRIALS
      BY <2>1, <3>1, Limits DEF OutOfTrials, LimitsAreNat
    <3>3. effective_trials = SUDOKU_NUM_EFFECTIVE_TRIAL
      BY <2>1, <3>2, Limits DEF TrialsIInv, TrialsInv, LeftEarlyOrRunOut,
                                    LimitsAreNat
    <3>4. ASSUME shown = {"conflict"}
          PROVE  verdict = "row"
      <4>1. row_bit_score > SUDOKU_TRIAL_SUCCESS_SCORE /\ column_bit_score = 0
        BY <2>1, <3>3, <3>4, Limits DEF TrialsIInv, TrialsInv, ScoresAgree,
                                    LimitsAreNat
      <4>2. verdict # "column" /\ verdict # "outlier"
        BY <2>1, <4>1, Limits DEF TrialsIInv, TrialsInv, VerdictHasScore,
                                    LimitsAreNat
      <4>. QED
        BY <2>2, <2>4, <4>2
    <3>5. ASSUME "conflict" \notin shown
          PROVE  verdict = "column"
      <4>1. column_bit_score > SUDOKU_TRIAL_SUCCESS_SCORE /\ row_bit_score = 0
        BY <2>1, <3>3, <3>5, Limits DEF TrialsIInv, TrialsInv, ScoresAgree,
                                    LimitsAreNat
      <4>2. verdict # "row" /\ verdict # "outlier"
        BY <2>1, <4>1, Limits DEF TrialsIInv, TrialsInv, VerdictHasScore,
                                    LimitsAreNat
      <4>. QED
        BY <2>2, <2>4, <4>2
    <3>. QED
      BY <3>4, <3>5
  <2>. QED
    BY <2>3, <2>4
<1>. QED
  BY <1>1, TrialsInvariance, PTL

-----------------------------------------------------------------------------
(* The inductive invariant.  Masks are tried block by block, the bits      *)
(* outside the functions and then every disjoint set, the lower mask       *)
(* first.                                                                  *)
Highest(b, mask) == b \in mask /\ \A c \in mask : c <= b
Lowest(b, mask) == b \in mask /\ \A c \in mask : b <= c

Blocks == DisjointSets(Masks(functions))

InBlock(mask) ==
  mask \subseteq Uncovered \/ \E set \in Blocks : mask \subseteq set

RowMask(mask) ==
  InBlock(mask) /\ ~ChangesFunction(mask) /\ Overlap(mask, memory.row)

ColumnMask(mask) ==
  /\ InBlock(mask) /\ mask # {}
  /\ ~ChangesFunction(mask) /\ ~Overlap(mask, memory.row)

(* Masks that find a row bit r if they are tried, and the bits that are    *)
(* found as column bits.                                                   *)
TriedMask(mask) ==
  \/ mask \subseteq Uncovered
  \/ /\ Cardinality(mask) < 4 /\ ~ChangesFunction(mask)
     /\ \E set \in Blocks : mask \subseteq set

RowTarget(r, mask) ==
  /\ mask \in SUBSET LineBit /\ TriedMask(mask)
  /\ r \in memory.row /\ Highest(r, mask)

ColumnTarget(c) == c \in Uncovered /\ c \notin memory.row

Awaited(mask) ==
  \/ pc = "classify"
  \/ mask \in Masks(masks)
  \/ \E set \in disjoint_sets : mask \subseteq set

None(b, fs) == \A k \in DOMAIN fs : b \notin fs[k]

(* The first function with a bit is one in which it is the highest or the  *)
(* lowest bit, so that the reduction keeps it.                             *)
HighestFirst(b, fs) ==
  \E n \in DOMAIN fs :
    Highest(b, fs[n]) /\ \A k \in DOMAIN fs : k < n => b \notin fs[k]

LowestFirst(b, fs) ==
  \E n \in DOMAIN fs :
    Lowest(b, fs[n]) /\ \A k \in DOMAIN fs : k < n => b \notin fs[k]

IdentifyTypeOK ==
  /\ memory \in Memories
  /\ disjoint_sets \in SUBSET SUBSET LineBit
  /\ masks \in Seq(SUBSET LineBit)
  /\ row_functions \in Seq(SUBSET LineBit)
  /\ column_functions \in Seq(SUBSET LineBit)
  /\ row_bits \in SUBSET LineBit
  /\ column_bits \in SUBSET LineBit
  /\ unlabelled \in BOOLEAN
  /\ pc \in {"classify", "unused", "used", "done"}

MasksInv ==
  /\ \A i, j \in DOMAIN masks : i < j => Less(masks[i], masks[j])
  /\ disjoint_sets \subseteq Blocks
  /\ pc = "classify" => row_functions = <<>> /\ column_functions = <<>>
  /\ masks # <<>> =>
       \/ pc = "unused" /\ \A m \in Masks(masks) : m # {} /\ m \subseteq Uncovered
       \/ pc = "used" /\ \E set \in Blocks \ disjoint_sets :
                           \A m \in Masks(masks) : m # {} /\ m \subseteq set

FunctionsInv ==
  pc # "done" =>
    /\ \A k \in DOMAIN row_functions : RowMask(row_functions[k])
    /\ \A k \in DOMAIN column_functions : ColumnMask(column_functions[k])

FoundInv ==
  pc # "done" /\ ~unlabelled =>
    /\ \A r, m : RowTarget(r, m) =>
         \/ HighestFirst(r, row_functions)
         \/ Awaited(m) /\ None(r, row_functions)
    /\ \A c : ColumnTarget(c) =>
         \/ LowestFirst(c, column_functions)
         \/ /\ pc = "classify" \/ {c} \in Masks(masks)
            /\ None(c, column_functions)

LabelsInv ==
  pc = "done" =>
    /\ \A r \in row_bits : \E m \in SUBSET LineBit : RowMask(m) /\ Highest(r, m)
    /\ \A c \in column_bits : \E m \in SUBSET LineBit : ColumnMask(m) /\ Lowest(c, m)
    /\ row_functions = OneBitMasks(row_bits)
    /\ column_functions = OneBitMasks(column_bits)
    /\ ~unlabelled =>
         /\ \A r, m : RowTarget(r, m) => r \in row_bits
         /\ \A c : ColumnTarget(c) => c \in column_bits

IInv == IdentifyTypeOK /\ MasksInv /\ FunctionsInv /\ FoundInv /\ LabelsInv
-----------------------------------------------------------------------------
(* What a machine is, fact by fact.                                        *)
MachineFacts ==
  /\ MaxBits - 1 \in Nat /\ LineBit \in SUBSET (0 .. MaxBits - 1)
  /\ functions \in Seq(SUBSET LineBit)
  /\ Masks(functions) \in SUBSET SUBSET LineBit
  /\ IndependentMasks(functions)
  /\ memory.row \in SUBSET LineBit
  /\ Uncovered = LineBit \ Covered
  /\ Blocks \in SUBSET SUBSET LineBit
  /\ \A set \in Blocks : set \subseteq Covered
  /\ \A c \in Uncovered \ memory.row : c \in memory.column
  /\ \A r \in memory.row, c \in memory.column : c < r

(* Every machine of Memories is one.                                       *)
LEMMA Machine == memory \in Memories => MachineFacts
<1>. SUFFICES ASSUME memory \in Memories
              PROVE  MachineFacts
  OBVIOUS
<1>1. /\ MaxBits - 1 \in Nat /\ LineBit \in SUBSET (0 .. MaxBits - 1)
      /\ LineBit = AddressBit \ (0 .. CACHELINE_OFFSET - 1)
  BY IdentifyAssumption DEF LineBit, AddressBit
<1>2. functions \in Seq(SUBSET LineBit)
  BY IdentifyAssumption DEF functions
<1>3. Masks(functions) \in SUBSET SUBSET LineBit
  BY <1>2 DEF Masks
<1>4. IndependentMasks(functions) /\ memory.row \in SUBSET LineBit
  BY IdentifyAssumption DEF functions
<1>5. Covered \subseteq LineBit
  BY <1>3 DEF Covered
<1>6. Uncovered = LineBit \ Covered
  <2>1. LineBit \cap (0 .. CACHELINE_OFFSET - 1) = {}
    BY <1>1
  <2>2. LineBit \subseteq AddressBit
    BY <1>1
  <2>3. 0 .. CACHELINE_OFFSET - 1 \subseteq AddressBit
    BY IdentifyAssumption DEF AddressBit
  <2>. QED
    BY <1>1, <1>5, <2>1, <2>2, <2>3 DEF Uncovered, Xor
<1>7. Blocks \in SUBSET SUBSET LineBit
  BY <1>3, DisjointSetsOfBits DEF Blocks
<1>8. \A set \in Blocks : set \subseteq Covered
  BY DisjointSetsAreClosed DEF Blocks, Covered
<1>9. /\ \A c \in Uncovered \ memory.row : c \in memory.column
      /\ \A r \in memory.row, c \in memory.column : c < r
  <2>1. LineBit \ UNION Masks(memory.functions)
          \subseteq memory.row \cup memory.column
    BY IdentifyAssumption
  <2>2. Uncovered \subseteq memory.row \cup memory.column
    BY <1>6, <2>1 DEF Covered, functions
  <2>. QED
    BY <2>2, IdentifyAssumption
<1>. QED
  BY <1>1, <1>2, <1>3, <1>4, <1>6, <1>7, <1>8, <1>9 DEF MachineFacts

(* The program never changes the machine.                                  *)
SameFacts ==
  /\ Blocks' = Blocks /\ Uncovered' = Uncovered
  /\ \A m : InBlock(m)' <=> InBlock(m)
  /\ \A m : RowMask(m)' <=> RowMask(m)
  /\ \A m : ColumnMask(m)' <=> ColumnMask(m)
  /\ \A r, m : RowTarget(r, m)' <=> RowTarget(r, m)
  /\ \A c : ColumnTarget(c)' <=> ColumnTarget(c)

(* So what the invariant says of masks does not change.                    *)
LEMMA SameMachine ==
  ASSUME memory' = memory
  PROVE  SameFacts
<1>1. functions' = functions
  BY DEF functions
<1>2. Blocks' = Blocks /\ Uncovered' = Uncovered
  BY <1>1 DEF Blocks, Uncovered, Covered
<1>3. \A m : ChangesFunction(m)' <=> ChangesFunction(m)
  BY <1>1 DEF ChangesFunction
<1>4. \A m : InBlock(m)' <=> InBlock(m)
  BY <1>2 DEF InBlock
<1>5. \A m : TriedMask(m)' <=> TriedMask(m)
  BY <1>2, <1>3 DEF TriedMask
<1>6. \A m : RowMask(m)' <=> RowMask(m)
  BY <1>3, <1>4 DEF RowMask
<1>7. \A m : ColumnMask(m)' <=> ColumnMask(m)
  BY <1>3, <1>4 DEF ColumnMask
<1>8. \A r, m : RowTarget(r, m)' <=> RowTarget(r, m)
  BY <1>5 DEF RowTarget
<1>9. \A c : ColumnTarget(c)' <=> ColumnTarget(c)
  BY <1>2 DEF ColumnTarget
<1>. QED
  BY <1>2, <1>4, <1>6, <1>7, <1>8, <1>9 DEF SameFacts

(* Masks of bits outside the functions change none of them.                *)
LEMMA UncoveredChangesNothing ==
  ASSUME memory \in Memories, NEW m, m \subseteq Uncovered
  PROVE  ~ChangesFunction(m)
<1>1. Uncovered = LineBit \ Covered
  BY Machine DEF MachineFacts
<1>2. \A f \in Masks(functions) : f \cap m = {}
  BY <1>1 DEF Covered
<1>. QED
  BY <1>2, ParityOfOthers DEF ChangesFunction

(* All combinations of the bits of a word, the lower first.                *)
LEMMA Combinations ==
  ASSUME memory \in Memories, NEW word \in SUBSET LineBit
  PROVE  /\ GenerateAllCombinations(word) \in Seq(SUBSET LineBit)
         /\ Masks(GenerateAllCombinations(word)) = (SUBSET word) \ {{}}
         /\ \A i, j \in DOMAIN GenerateAllCombinations(word) :
              i < j => Less(GenerateAllCombinations(word)[i],
                            GenerateAllCombinations(word)[j])
<1>. DEFINE S == (SUBSET word) \ {{}}
<1>1. MaxBits - 1 \in Nat /\ LineBit \in SUBSET (0 .. MaxBits - 1)
  BY Machine DEF MachineFacts
<1>2. S \in SUBSET SUBSET (0 .. MaxBits - 1) /\ S \in SUBSET SUBSET LineBit
  BY <1>1
<1>. HIDE DEF S
<1>3. /\ Ascending(S) \in Seq(S)
      /\ Masks(Ascending(S)) = S
      /\ \A i, j \in DOMAIN Ascending(S) :
           i < j => Less(Ascending(S)[i], Ascending(S)[j])
  BY <1>1, <1>2, AscendingSorts
<1>4. Ascending(S) \in Seq(SUBSET LineBit)
  BY <1>2, <1>3, SequenceWithin
<1>. QED
  BY <1>3, <1>4 DEF S, GenerateAllCombinations

(* Each bit of a word as a mask of its own.                                *)
LEMMA OneBitMasksAre ==
  ASSUME memory \in Memories, NEW bits \in SUBSET LineBit
  PROVE  /\ OneBitMasks(bits) \in Seq(SUBSET LineBit)
         /\ \A k \in DOMAIN OneBitMasks(bits) :
              \E b \in bits : OneBitMasks(bits)[k] = {b}
         /\ \A i, j \in DOMAIN OneBitMasks(bits) :
              OneBitMasks(bits)[i] = OneBitMasks(bits)[j] => i = j
<1>. DEFINE S == {{b} : b \in bits}
            v == Ascending(S)
<1>1. MaxBits - 1 \in Nat /\ LineBit \in SUBSET (0 .. MaxBits - 1)
  BY Machine DEF MachineFacts
<1>2. /\ S \in SUBSET SUBSET (0 .. MaxBits - 1) /\ S \subseteq SUBSET LineBit
      /\ \A s \in S : \E b \in bits : s = {b}
  BY <1>1
<1>. HIDE DEF S
<1>3. /\ v \in Seq(S)
      /\ Masks(v) = S
      /\ \A i, j \in DOMAIN v : i < j => Less(v[i], v[j])
  BY <1>1, <1>2, AscendingSorts
<1>. HIDE DEF v
<1>4. v \in Seq(SUBSET LineBit)
  BY <1>2, <1>3, SequenceWithin
<1>5. \A k \in DOMAIN v : \E b \in bits : v[k] = {b}
  BY <1>2, <1>3 DEF Masks
<1>6. ASSUME NEW i \in DOMAIN v, NEW j \in DOMAIN v, v[i] = v[j]
      PROVE  i = j
  <2>1. i \in Nat /\ j \in Nat
    BY <1>4
  <2>2. ~(i < j) /\ ~(j < i)
    BY <1>3, <1>6, LessIrreflexive
  <2>. QED
    BY <2>1, <2>2
<1>. QED
  BY <1>4, <1>5, <1>6 DEF S, v, OneBitMasks

(* The next mask is the lowest of those left.                              *)
LEMMA NextMask ==
  ASSUME NEW E, NEW ms \in Seq(E), ms # <<>>,
         \A i, j \in DOMAIN ms : i < j => Less(ms[i], ms[j])
  PROVE  /\ Head(ms) \in E /\ Head(ms) \in Masks(ms) /\ Tail(ms) \in Seq(E)
         /\ \A m \in Masks(ms) : m # Head(ms) => m \in Masks(Tail(ms))
         /\ Masks(Tail(ms)) \subseteq Masks(ms)
         /\ \A m \in Masks(ms) : m = Head(ms) \/ Less(Head(ms), m)
         /\ \A i, j \in DOMAIN Tail(ms) : i < j => Less(Tail(ms)[i], Tail(ms)[j])
<1>1. /\ Len(ms) \in Nat /\ DOMAIN ms = 1 .. Len(ms) /\ 1 \in DOMAIN ms
      /\ Head(ms) = ms[1] /\ Head(ms) \in E /\ Tail(ms) \in Seq(E)
  OBVIOUS
<1>2. /\ DOMAIN Tail(ms) = 1 .. Len(ms) - 1
      /\ \A i \in 1 .. Len(ms) - 1 : Tail(ms)[i] = ms[i + 1] /\ i + 1 \in 1 .. Len(ms)
  OBVIOUS
<1>3. \A m \in Masks(ms) : m # Head(ms) => m \in Masks(Tail(ms))
  <2>. SUFFICES ASSUME NEW i \in 1 .. Len(ms), ms[i] # Head(ms)
                PROVE  ms[i] \in Masks(Tail(ms))
    BY <1>1 DEF Masks
  <2>1. i - 1 \in 1 .. Len(ms) - 1 /\ (i - 1) + 1 = i
    BY <1>1
  <2>. QED
    BY <1>2, <2>1 DEF Masks
<1>4. Masks(Tail(ms)) \subseteq Masks(ms)
  BY <1>1, <1>2 DEF Masks
<1>5. \A m \in Masks(ms) : m = Head(ms) \/ Less(Head(ms), m)
  <2>. SUFFICES ASSUME NEW i \in 1 .. Len(ms)
                PROVE  ms[i] = Head(ms) \/ Less(Head(ms), ms[i])
    BY <1>1 DEF Masks
  <2>1. i = 1 \/ 1 < i
    OBVIOUS
  <2>. QED
    BY <1>1, <2>1
<1>6. \A i, j \in DOMAIN Tail(ms) : i < j => Less(Tail(ms)[i], Tail(ms)[j])
  <2>. SUFFICES ASSUME NEW i \in 1 .. Len(ms) - 1, NEW j \in 1 .. Len(ms) - 1, i < j
                PROVE  Less(Tail(ms)[i], Tail(ms)[j])
    BY <1>2
  <2>1. i + 1 < j + 1
    OBVIOUS
  <2>. QED
    BY <1>1, <1>2, <2>1
<1>7. Head(ms) \in Masks(ms)
  BY <1>1 DEF Masks
<1>. QED
  BY <1>1, <1>3, <1>4, <1>5, <1>6, <1>7

(* A mask that is not above another has none of the bits above its own.    *)
LEMMA LowerMask ==
  ASSUME NEW m \in SUBSET Int, NEW n \in SUBSET Int, NEW r \in m,
         Highest(r, n), m = n \/ Less(m, n)
  PROVE  Highest(r, m)
<1>1. CASE m = n
  BY <1>1
<1>2. CASE Less(m, n)
  <2>1. PICK bit \in n \ m : \A c \in Xor(m, n) : c <= bit
    BY <1>2 DEF Less
  <2>2. bit <= r /\ bit \in Int /\ r \in Int
    BY <2>1 DEF Highest
  <2>3. ASSUME NEW h \in m, ~(h <= r)
        PROVE  FALSE
    <3>1. h \notin n
      BY <2>3 DEF Highest
    <3>2. h \in Int /\ h <= bit
      BY <2>1, <3>1 DEF Xor
    <3>. QED
      BY <2>2, <2>3, <3>2
  <2>. QED
    BY <2>3 DEF Highest
<1>. QED
  BY <1>1, <1>2

(* No mask with a bit is below the mask of that bit alone.                 *)
LEMMA OneBitFirst ==
  ASSUME NEW m, NEW c \in m, m = {c} \/ Less(m, {c})
  PROVE  m = {c}
BY DEF Less

(* One function more.                                                      *)
LEMMA OneMore ==
  ASSUME NEW E, NEW fs \in Seq(E), NEW m \in E
  PROVE  /\ Append(fs, m) \in Seq(E)
         /\ \A k \in DOMAIN Append(fs, m) :
              \/ Append(fs, m)[k] = m
              \/ \E j \in DOMAIN fs : Append(fs, m)[k] = fs[j]
         /\ \A b : HighestFirst(b, fs) => HighestFirst(b, Append(fs, m))
         /\ \A b : LowestFirst(b, fs) => LowestFirst(b, Append(fs, m))
         /\ \A b : None(b, fs) /\ Highest(b, m) => HighestFirst(b, Append(fs, m))
         /\ \A b : None(b, fs) /\ Lowest(b, m) => LowestFirst(b, Append(fs, m))
         /\ \A b : None(b, fs) /\ b \notin m => None(b, Append(fs, m))
<1>. DEFINE v == Append(fs, m)
            last == Len(fs) + 1
<1>1. /\ v \in Seq(E) /\ DOMAIN v = DOMAIN fs \cup {last}
      /\ \A k \in DOMAIN fs : v[k] = fs[k] /\ k \in DOMAIN v
                              /\ k \in Nat /\ k < last /\ ~(last < k)
      /\ last \in DOMAIN v /\ v[last] = m /\ ~(last < last)
  OBVIOUS
<1>. HIDE DEF v, last
<1>2. \A k \in DOMAIN v : v[k] = m \/ \E j \in DOMAIN fs : v[k] = fs[j]
  BY <1>1
<1>3. \A b : HighestFirst(b, fs) => HighestFirst(b, v)
  BY <1>1 DEF HighestFirst
<1>4. \A b : LowestFirst(b, fs) => LowestFirst(b, v)
  BY <1>1 DEF LowestFirst
<1>5. \A b : None(b, fs) /\ Highest(b, m) => HighestFirst(b, v)
  BY <1>1 DEF HighestFirst, None
<1>6. \A b : None(b, fs) /\ Lowest(b, m) => LowestFirst(b, v)
  BY <1>1 DEF LowestFirst, None
<1>7. \A b : None(b, fs) /\ b \notin m => None(b, v)
  BY <1>1 DEF None
<1>. QED
  BY <1>1, <1>2, <1>3, <1>4, <1>5, <1>6, <1>7 DEF v

-----------------------------------------------------------------------------
(* The mask at hand.                                                       *)
HeadFacts ==
  /\ Head(masks) \in SUBSET LineBit /\ Head(masks) # {}
  /\ Tail(masks) \in Seq(SUBSET LineBit)
  /\ InBlock(Head(masks))
  /\ pc \in {"unused", "used"}
  /\ pc = "unused" => ~ChangesFunction(Head(masks))
  /\ \A m \in Masks(masks) : m # Head(masks) => m \in Masks(Tail(masks))
  /\ \A m \in Masks(masks) : m = Head(masks) \/ Less(Head(masks), m)
  /\ \A i, j \in DOMAIN Tail(masks) :
       i < j => Less(Tail(masks)[i], Tail(masks)[j])
  /\ \/ pc = "unused" /\ \A m \in Masks(Tail(masks)) : m # {} /\ m \subseteq Uncovered
     \/ pc = "used" /\ \E set \in Blocks \ disjoint_sets :
                         \A m \in Masks(Tail(masks)) : m # {} /\ m \subseteq set

(* It belongs to the block of its operation.                               *)
LEMMA HeadIs ==
  ASSUME IInv, masks # <<>>
  PROVE  HeadFacts
<1>. DEFINE E == SUBSET LineBit
<1>1. /\ masks \in Seq(E) /\ memory \in Memories
      /\ \A i, j \in DOMAIN masks : i < j => Less(masks[i], masks[j])
  BY DEF IInv, IdentifyTypeOK, MasksInv
<1>. HIDE DEF E
<1>2. /\ Head(masks) \in E /\ Head(masks) \in Masks(masks) /\ Tail(masks) \in Seq(E)
      /\ \A m \in Masks(masks) : m # Head(masks) => m \in Masks(Tail(masks))
      /\ Masks(Tail(masks)) \subseteq Masks(masks)
      /\ \A m \in Masks(masks) : m = Head(masks) \/ Less(Head(masks), m)
      /\ \A i, j \in DOMAIN Tail(masks) :
           i < j => Less(Tail(masks)[i], Tail(masks)[j])
  BY <1>1, NextMask
<1>3. \/ pc = "unused" /\ \A m \in Masks(masks) : m # {} /\ m \subseteq Uncovered
      \/ pc = "used" /\ \E set \in Blocks \ disjoint_sets :
                          \A m \in Masks(masks) : m # {} /\ m \subseteq set
  BY DEF IInv, MasksInv
<1>4. /\ Head(masks) # {} /\ InBlock(Head(masks))
      /\ pc \in {"unused", "used"}
      /\ \/ pc = "unused" /\ \A m \in Masks(Tail(masks)) : m # {} /\ m \subseteq Uncovered
         \/ pc = "used" /\ \E set \in Blocks \ disjoint_sets :
                             \A m \in Masks(Tail(masks)) : m # {} /\ m \subseteq set
  <2>1. CASE pc = "unused" /\ \A m \in Masks(masks) : m # {} /\ m \subseteq Uncovered
    BY <1>2, <2>1 DEF InBlock
  <2>2. CASE pc = "used" /\ \E set \in Blocks \ disjoint_sets :
                               \A m \in Masks(masks) : m # {} /\ m \subseteq set
    BY <1>2, <2>2 DEF InBlock
  <2>. QED
    BY <1>3, <2>1, <2>2
<1>5. pc = "unused" => ~ChangesFunction(Head(masks))
  BY <1>1, <1>2, <1>3, UncoveredChangesNothing
<1>. QED
  BY <1>2, <1>4, <1>5 DEF HeadFacts, E

(* A mask that finds a row bit and is still awaited when a mask with that  *)
(* bit is at hand is not below it.                                         *)
LEMMA AwaitedRow ==
  ASSUME IInv, masks # <<>>, NEW r, NEW m, RowTarget(r, m), Awaited(m),
         r \in Head(masks)
  PROVE  Highest(r, Head(masks)) /\ m \in Masks(masks)
<1>. DEFINE h == Head(masks)
<1>1. HeadFacts /\ memory \in Memories /\ MachineFacts
  BY HeadIs, Machine DEF IInv, IdentifyTypeOK
<1>2. r \in m /\ m \in SUBSET LineBit /\ Highest(r, m)
  BY DEF RowTarget, Highest
<1>3. ASSUME NEW set \in disjoint_sets, m \subseteq set
      PROVE  FALSE
  <2>1. set \in Blocks /\ disjoint_sets \subseteq Blocks
    BY DEF IInv, MasksInv
  <2>2. r \in set /\ r \in Covered
    BY <1>1, <1>2, <1>3, <2>1 DEF MachineFacts
  <2>3. r \notin Uncovered
    BY <1>1, <2>2 DEF MachineFacts
  <2>4. \A m2 \in Masks(masks) : m2 = h \/ Less(h, m2)
    BY <1>1 DEF HeadFacts
  <2>5. h \in Masks(masks)
    <3>1. masks \in Seq(SUBSET LineBit)
      BY DEF IInv, IdentifyTypeOK
    <3>. QED
      BY <3>1 DEF Masks
  <2>6. PICK t \in Blocks \ disjoint_sets : h \subseteq t
    BY <2>3, <2>5 DEF IInv, MasksInv
  <2>. QED
    BY <1>3, <2>1, <2>2, <2>6, DisjointSetsAreDisjoint DEF Blocks
<1>4. m \in Masks(masks)
  BY <1>1, <1>3 DEF Awaited, HeadFacts
<1>5. h = m \/ Less(h, m)
  BY <1>1, <1>4 DEF HeadFacts
<1>6. h \in SUBSET Int /\ m \in SUBSET Int
  <2>1. LineBit \subseteq Int
    BY <1>1 DEF MachineFacts
  <2>2. h \in SUBSET LineBit
    BY <1>1 DEF HeadFacts
  <2>. QED
    BY <1>2, <2>1, <2>2
<1>7. Highest(r, h)
  BY <1>2, <1>5, <1>6, LowerMask
<1>. QED
  BY <1>4, <1>7

-----------------------------------------------------------------------------
(* The steps.                                                              *)
LEMMA InitIdentify == Init => IInv
<1>. SUFFICES ASSUME Init
              PROVE  IInv
  OBVIOUS
<1>1. /\ masks = <<>> /\ row_functions = <<>> /\ column_functions = <<>>
      /\ pc = "classify" /\ disjoint_sets = {}
      /\ DOMAIN masks = {} /\ DOMAIN row_functions = {}
      /\ DOMAIN column_functions = {}
  BY DEF Init
<1>2. IdentifyTypeOK
  <2>1. <<>> \in Seq(SUBSET LineBit)
    OBVIOUS
  <2>. QED
    BY <2>1 DEF Init, IdentifyTypeOK
<1>3. MasksInv /\ FunctionsInv /\ LabelsInv
  BY <1>1 DEF MasksInv, FunctionsInv, LabelsInv
<1>4. FoundInv
  BY <1>1 DEF FoundInv, Awaited, None
<1>. QED
  BY <1>2, <1>3, <1>4 DEF IInv

(* The disjoint sets, and the combinations of the bits outside them.       *)
LEMMA ClassifyStep == IInv /\ Classify => IInv'
<1>. SUFFICES ASSUME IInv, Classify
              PROVE  IInv'
  OBVIOUS
<1>1. /\ memory' = memory /\ memory \in Memories /\ MachineFacts /\ SameFacts
      /\ pc = "classify" /\ pc' = "unused"
      /\ row_functions' = row_functions /\ column_functions' = column_functions
      /\ row_functions = <<>> /\ column_functions = <<>>
      /\ disjoint_sets' = Blocks
  BY Machine, SameMachine DEF IInv, IdentifyTypeOK, MasksInv, Classify, Blocks
<1>2. /\ masks' \in Seq(SUBSET LineBit)
      /\ Masks(masks') = (SUBSET Uncovered) \ {{}}
      /\ \A i, j \in DOMAIN masks' : i < j => Less(masks'[i], masks'[j])
  <2>1. Uncovered \in SUBSET LineBit /\ masks' = GenerateAllCombinations(Uncovered)
    BY <1>1 DEF MachineFacts, Classify
  <2>. QED
    BY <1>1, <2>1, Combinations
<1>3. IdentifyTypeOK'
  BY <1>1, <1>2 DEF IInv, IdentifyTypeOK, Classify, MachineFacts
<1>4. MasksInv'
  BY <1>1, <1>2 DEF MasksInv, SameFacts
<1>5. FunctionsInv' /\ LabelsInv'
  BY <1>1 DEF FunctionsInv, LabelsInv
<1>6. ASSUME NEW r, NEW m, RowTarget(r, m)
      PROVE  Awaited(m)' /\ None(r, row_functions')
  <2>1. r \in m /\ TriedMask(m)
    BY <1>6 DEF RowTarget, Highest
  <2>2. None(r, row_functions')
    BY <1>1 DEF None
  <2>3. CASE m \subseteq Uncovered
    BY <1>2, <2>1, <2>2, <2>3 DEF Awaited
  <2>4. CASE \E set \in Blocks : m \subseteq set
    BY <1>1, <2>2, <2>4 DEF Awaited
  <2>. QED
    BY <2>1, <2>3, <2>4 DEF TriedMask
<1>7. ASSUME NEW c, ColumnTarget(c)
      PROVE  {c} \in Masks(masks') /\ None(c, column_functions')
  BY <1>1, <1>2, <1>7 DEF ColumnTarget, None
<1>8. FoundInv'
  BY <1>1, <1>6, <1>7 DEF FoundInv, SameFacts
<1>. QED
  BY <1>3, <1>4, <1>5, <1>8 DEF IInv

(* The four steps that take the mask at hand off.                          *)
TakeMask ==
  /\ masks # <<>>
  /\ masks' = Tail(masks)
  /\ UNCHANGED <<memory, disjoint_sets, row_bits, column_bits, pc>>

(* They keep the order and the block of the masks.                         *)
LEMMA TakeKeepsMasks ==
  ASSUME IInv, TakeMask
  PROVE  /\ MasksInv' /\ LabelsInv' /\ SameFacts /\ HeadFacts /\ MachineFacts
         /\ memory \in Memories /\ memory' = memory
         /\ pc' = pc /\ pc # "classify" /\ pc # "done"
         /\ disjoint_sets' = disjoint_sets
         /\ masks' \in Seq(SUBSET LineBit)
<1>1. HeadFacts /\ SameFacts /\ memory \in Memories /\ MachineFacts
  BY HeadIs, SameMachine, Machine DEF TakeMask, IInv, IdentifyTypeOK
<1>2. /\ memory' = memory /\ pc' = pc /\ pc \in {"unused", "used"}
      /\ disjoint_sets' = disjoint_sets /\ masks' = Tail(masks)
  BY <1>1 DEF TakeMask, HeadFacts
<1>3. LabelsInv'
  BY <1>2 DEF LabelsInv
<1>4. MasksInv'
  <2>1. disjoint_sets' \subseteq Blocks'
    BY <1>1, <1>2 DEF SameFacts, IInv, MasksInv
  <2>2. \A i, j \in DOMAIN masks' : i < j => Less(masks'[i], masks'[j])
    BY <1>1, <1>2 DEF HeadFacts
  <2>3. \/ pc' = "unused" /\ \A m \in Masks(masks') : m # {} /\ m \subseteq Uncovered'
        \/ pc' = "used" /\ \E set \in Blocks' \ disjoint_sets' :
                             \A m \in Masks(masks') : m # {} /\ m \subseteq set
    BY <1>1, <1>2 DEF HeadFacts, SameFacts
  <2>4. pc' # "classify"
    BY <1>2
  <2>. QED
    BY <2>1, <2>2, <2>3, <2>4 DEF MasksInv
<1>5. masks' \in Seq(SUBSET LineBit)
  BY <1>1, <1>2 DEF HeadFacts
<1>. QED
  BY <1>1, <1>2, <1>3, <1>4, <1>5

(* A target other than the mask at hand stays awaited.                     *)
LEMMA StillAwaited ==
  ASSUME IInv, TakeMask, NEW m, Awaited(m), m # Head(masks)
  PROVE  Awaited(m)'
<1>1. /\ HeadFacts /\ pc # "classify" /\ disjoint_sets' = disjoint_sets
      /\ masks' = Tail(masks)
  BY TakeKeepsMasks DEF TakeMask
<1>2. CASE m \in Masks(masks)
  <2>1. m \in Masks(Tail(masks))
    BY <1>1, <1>2 DEF HeadFacts
  <2>. QED
    BY <1>1, <2>1 DEF Awaited
<1>3. CASE \E set \in disjoint_sets : m \subseteq set
  BY <1>1, <1>3 DEF Awaited
<1>. QED
  BY <1>1, <1>2, <1>3 DEF Awaited

(* A mask that finds a row bit is tried, and conflicts.                    *)
LEMMA TargetConflicts ==
  ASSUME IInv, NEW r, NEW m, RowTarget(r, m)
  PROVE  /\ ~ChangesFunction(m) /\ Conflict(m) /\ r \in m
         /\ pc = "unused" \/ m \in Masks(masks) => Tried(m)
<1>1. memory \in Memories /\ MachineFacts
  BY Machine DEF IInv, IdentifyTypeOK
<1>2. r \in m /\ r \in memory.row /\ TriedMask(m)
  BY DEF RowTarget, Highest
<1>3. ~ChangesFunction(m)
  BY <1>1, <1>2, UncoveredChangesNothing DEF TriedMask
<1>4. Conflict(m)
  BY <1>2, <1>3 DEF Conflict, Overlap
<1>5. ASSUME m \in Masks(masks), pc = "used"
      PROVE  Cardinality(m) < 4
  <2>1. masks # <<>>
    BY <1>5 DEF Masks
  <2>2. PICK set \in Blocks : m \subseteq set
    BY <1>5, <2>1 DEF IInv, MasksInv
  <2>3. r \notin Uncovered
    BY <1>1, <1>2, <2>2 DEF MachineFacts
  <2>. QED
    BY <1>2, <2>3 DEF TriedMask
<1>. QED
  BY <1>2, <1>3, <1>4, <1>5 DEF Tried

(* The bit of a column mask is only tried outside the functions.           *)
LEMMA ColumnTargetTried ==
  ASSUME IInv, NEW c, ColumnTarget(c), {c} \in Masks(masks)
  PROVE  /\ pc = "unused" /\ Tried({c}) /\ ~Conflict({c})
<1>1. memory \in Memories /\ MachineFacts
  BY Machine DEF IInv, IdentifyTypeOK
<1>2. masks # <<>>
  BY DEF Masks
<1>3. c \in Uncovered /\ c \notin Covered /\ c \notin memory.row
  BY <1>1 DEF ColumnTarget, MachineFacts
<1>4. pc = "unused"
  <2>1. \A set \in Blocks : c \notin set
    BY <1>1, <1>3 DEF MachineFacts
  <2>. QED
    BY <1>2, <2>1 DEF IInv, MasksInv
<1>. QED
  BY <1>3, <1>4 DEF Tried, Conflict, Overlap

(* No mask that finds a label is skipped.                                  *)
LEMMA SkipStep == IInv /\ SkipMask => IInv'
<1>. SUFFICES ASSUME IInv, SkipMask
              PROVE  IInv'
  OBVIOUS
<1>1. /\ TakeMask /\ ~Tried(Head(masks))
      /\ row_functions' = row_functions /\ column_functions' = column_functions
      /\ row_bits' = row_bits /\ column_bits' = column_bits
      /\ unlabelled' = unlabelled
  BY DEF SkipMask, TakeMask
<1>2. /\ MasksInv' /\ LabelsInv' /\ SameFacts /\ HeadFacts
      /\ memory' = memory /\ pc' = pc /\ pc # "classify" /\ pc # "done"
      /\ disjoint_sets' = disjoint_sets /\ masks' \in Seq(SUBSET LineBit)
  BY <1>1, TakeKeepsMasks
<1>3. IdentifyTypeOK'
  BY <1>1, <1>2 DEF IInv, IdentifyTypeOK
<1>4. FunctionsInv'
  BY <1>1, <1>2 DEF IInv, FunctionsInv, SameFacts
<1>5. ASSUME ~unlabelled, NEW r, NEW m, RowTarget(r, m)
      PROVE  \/ HighestFirst(r, row_functions')
             \/ Awaited(m)' /\ None(r, row_functions')
  <2>1. \/ HighestFirst(r, row_functions)
        \/ Awaited(m) /\ None(r, row_functions)
    BY <1>2, <1>5 DEF IInv, FoundInv
  <2>2. m # Head(masks) \/ m \notin Masks(masks)
    BY <1>1, <1>5, TargetConflicts
  <2>3. m # Head(masks)
    <3>1. masks # <<>> /\ masks \in Seq(SUBSET LineBit)
      BY <1>1 DEF TakeMask, IInv, IdentifyTypeOK
    <3>2. Head(masks) \in Masks(masks)
      BY <3>1 DEF Masks
    <3>. QED
      BY <2>2, <3>2
  <2>. QED
    BY <1>1, <2>1, <2>3, StillAwaited
<1>6. ASSUME ~unlabelled, NEW c, ColumnTarget(c)
      PROVE  \/ LowestFirst(c, column_functions')
             \/ {c} \in Masks(masks') /\ None(c, column_functions')
  <2>1. \/ LowestFirst(c, column_functions)
        \/ {c} \in Masks(masks) /\ None(c, column_functions)
    BY <1>2, <1>6 DEF IInv, FoundInv
  <2>2. {c} \in Masks(masks) => {c} # Head(masks)
    BY <1>1, <1>6, ColumnTargetTried
  <2>3. {c} \in Masks(masks) => {c} \in Masks(masks')
    BY <1>1, <1>2, <2>2 DEF HeadFacts, TakeMask
  <2>. QED
    BY <1>1, <2>1, <2>3
<1>7. FoundInv'
  BY <1>1, <1>2, <1>5, <1>6 DEF FoundInv, SameFacts
<1>. QED
  BY <1>2, <1>3, <1>4, <1>7 DEF IInv

(* A mask without a label.                                                 *)
LEMMA FailStep == IInv /\ FailToIdentify => IInv'
<1>. SUFFICES ASSUME IInv, FailToIdentify
              PROVE  IInv'
  OBVIOUS
<1>1. /\ TakeMask
      /\ row_functions' = row_functions /\ column_functions' = column_functions
      /\ row_bits' = row_bits /\ column_bits' = column_bits
      /\ unlabelled' = TRUE
  BY DEF FailToIdentify, TakeMask
<1>2. /\ MasksInv' /\ LabelsInv' /\ SameFacts
      /\ memory' = memory /\ pc' = pc
      /\ disjoint_sets' = disjoint_sets /\ masks' \in Seq(SUBSET LineBit)
  BY <1>1, TakeKeepsMasks
<1>3. IdentifyTypeOK'
  BY <1>1, <1>2 DEF IInv, IdentifyTypeOK
<1>4. FunctionsInv'
  BY <1>1, <1>2 DEF IInv, FunctionsInv, SameFacts
<1>5. FoundInv'
  BY <1>1 DEF FoundInv
<1>. QED
  BY <1>2, <1>3, <1>4, <1>5 DEF IInv

(* A mask with a row bit that was not seen before has it on top.           *)
LEMMA RowStep == IInv /\ InsertRowFunction => IInv'
<1>. DEFINE h == Head(masks)
<1>. SUFFICES ASSUME IInv, InsertRowFunction
              PROVE  IInv'
  OBVIOUS
<1>1. /\ TakeMask /\ Conflict(h)
      /\ row_functions' = Append(row_functions, h)
      /\ column_functions' = column_functions
      /\ row_bits' = row_bits /\ column_bits' = column_bits
      /\ unlabelled' = unlabelled
  BY DEF InsertRowFunction, TakeMask
<1>2. /\ MasksInv' /\ LabelsInv' /\ SameFacts /\ HeadFacts
      /\ memory' = memory /\ pc' = pc /\ pc # "classify" /\ pc # "done"
      /\ disjoint_sets' = disjoint_sets /\ masks' \in Seq(SUBSET LineBit)
  BY <1>1, TakeKeepsMasks
<1>3. /\ row_functions \in Seq(SUBSET LineBit) /\ h \in SUBSET LineBit
      /\ masks # <<>>
  BY <1>1, <1>2 DEF IInv, IdentifyTypeOK, HeadFacts, TakeMask
<1>4. RowMask(h)
  BY <1>1, <1>2 DEF RowMask, Conflict, HeadFacts
<1>. HIDE DEF h
<1>5. /\ row_functions' \in Seq(SUBSET LineBit)
      /\ \A k \in DOMAIN row_functions' :
           \/ row_functions'[k] = h
           \/ \E j \in DOMAIN row_functions : row_functions'[k] = row_functions[j]
      /\ \A b : HighestFirst(b, row_functions) => HighestFirst(b, row_functions')
      /\ \A b : None(b, row_functions) /\ Highest(b, h)
                  => HighestFirst(b, row_functions')
      /\ \A b : None(b, row_functions) /\ b \notin h => None(b, row_functions')
  BY <1>1, <1>3, OneMore
<1>6. IdentifyTypeOK'
  BY <1>1, <1>2, <1>5 DEF IInv, IdentifyTypeOK
<1>7. FunctionsInv'
  BY <1>1, <1>2, <1>4, <1>5 DEF IInv, FunctionsInv, SameFacts
<1>8. ASSUME ~unlabelled, NEW r, NEW m, RowTarget(r, m)
      PROVE  \/ HighestFirst(r, row_functions')
             \/ Awaited(m)' /\ None(r, row_functions')
  <2>1. \/ HighestFirst(r, row_functions)
        \/ Awaited(m) /\ None(r, row_functions)
    BY <1>2, <1>8 DEF IInv, FoundInv
  <2>2. ASSUME Awaited(m), None(r, row_functions), r \in h
        PROVE  HighestFirst(r, row_functions')
    BY <1>3, <1>5, <1>8, <2>2, AwaitedRow DEF h
  <2>3. ASSUME Awaited(m), None(r, row_functions), r \notin h
        PROVE  Awaited(m)' /\ None(r, row_functions')
    <3>1. m # h
      BY <1>8, <2>3, TargetConflicts
    <3>. QED
      BY <1>1, <1>5, <2>3, <3>1, StillAwaited DEF h
  <2>. QED
    BY <1>5, <2>1, <2>2, <2>3
<1>9. ASSUME ~unlabelled, NEW c, ColumnTarget(c)
      PROVE  \/ LowestFirst(c, column_functions')
             \/ {c} \in Masks(masks') /\ None(c, column_functions')
  <2>1. \/ LowestFirst(c, column_functions)
        \/ {c} \in Masks(masks) /\ None(c, column_functions)
    BY <1>2, <1>9 DEF IInv, FoundInv
  <2>2. {c} \in Masks(masks) => {c} # h
    BY <1>1, <1>9, ColumnTargetTried
  <2>3. {c} \in Masks(masks) => {c} \in Masks(masks')
    BY <1>1, <1>2, <2>2 DEF HeadFacts, TakeMask, h
  <2>. QED
    BY <1>1, <2>1, <2>3
<1>10. FoundInv'
  BY <1>1, <1>2, <1>8, <1>9 DEF FoundInv, SameFacts
<1>. QED
  BY <1>2, <1>6, <1>7, <1>10 DEF IInv

(* A mask with a new column bit outside the functions is that bit.         *)
LEMMA ColumnStep == IInv /\ InsertColumnFunction => IInv'
<1>. DEFINE h == Head(masks)
<1>. SUFFICES ASSUME IInv, InsertColumnFunction
              PROVE  IInv'
  OBVIOUS
<1>1. /\ TakeMask /\ ~Conflict(h) /\ Tried(h)
      /\ column_functions' = Append(column_functions, h)
      /\ row_functions' = row_functions
      /\ row_bits' = row_bits /\ column_bits' = column_bits
      /\ unlabelled' = unlabelled
  BY DEF InsertColumnFunction, TakeMask
<1>2. /\ MasksInv' /\ LabelsInv' /\ SameFacts /\ HeadFacts
      /\ memory' = memory /\ pc' = pc /\ pc # "classify" /\ pc # "done"
      /\ disjoint_sets' = disjoint_sets /\ masks' \in Seq(SUBSET LineBit)
  BY <1>1, TakeKeepsMasks
<1>3. /\ column_functions \in Seq(SUBSET LineBit) /\ h \in SUBSET LineBit
      /\ masks # <<>>
  BY <1>1, <1>2 DEF IInv, IdentifyTypeOK, HeadFacts, TakeMask
<1>4. ColumnMask(h)
  <2>1. ~ChangesFunction(h)
    BY <1>1, <1>2 DEF Tried, HeadFacts
  <2>. QED
    BY <1>1, <1>2, <2>1 DEF ColumnMask, Conflict, HeadFacts
<1>. HIDE DEF h
<1>5. /\ column_functions' \in Seq(SUBSET LineBit)
      /\ \A k \in DOMAIN column_functions' :
           \/ column_functions'[k] = h
           \/ \E j \in DOMAIN column_functions :
                column_functions'[k] = column_functions[j]
      /\ \A b : LowestFirst(b, column_functions)
                  => LowestFirst(b, column_functions')
      /\ \A b : None(b, column_functions) /\ Lowest(b, h)
                  => LowestFirst(b, column_functions')
      /\ \A b : None(b, column_functions) /\ b \notin h
                  => None(b, column_functions')
  BY <1>1, <1>3, OneMore
<1>6. IdentifyTypeOK'
  BY <1>1, <1>2, <1>5 DEF IInv, IdentifyTypeOK
<1>7. FunctionsInv'
  BY <1>1, <1>2, <1>4, <1>5 DEF IInv, FunctionsInv, SameFacts
<1>8. ASSUME ~unlabelled, NEW r, NEW m, RowTarget(r, m)
      PROVE  \/ HighestFirst(r, row_functions')
             \/ Awaited(m)' /\ None(r, row_functions')
  <2>1. \/ HighestFirst(r, row_functions)
        \/ Awaited(m) /\ None(r, row_functions)
    BY <1>2, <1>8 DEF IInv, FoundInv
  <2>2. m # h
    BY <1>1, <1>8, TargetConflicts
  <2>. QED
    BY <1>1, <2>1, <2>2, StillAwaited DEF h
<1>9. ASSUME ~unlabelled, NEW c, ColumnTarget(c)
      PROVE  \/ LowestFirst(c, column_functions')
             \/ {c} \in Masks(masks') /\ None(c, column_functions')
  <2>1. \/ LowestFirst(c, column_functions)
        \/ {c} \in Masks(masks) /\ None(c, column_functions)
    BY <1>2, <1>9 DEF IInv, FoundInv
  <2>2. ASSUME {c} \in Masks(masks), None(c, column_functions), c \in h
        PROVE  LowestFirst(c, column_functions')
    <3>1. h = {c}
      BY <1>2, <2>2, OneBitFirst DEF HeadFacts, h
    <3>2. Lowest(c, {c})
      <4>1. c \in Uncovered /\ memory \in Memories
        BY <1>9 DEF ColumnTarget, IInv, IdentifyTypeOK
      <4>2. c \in Int
        BY <4>1, Machine DEF MachineFacts
      <4>. QED
        BY <4>2 DEF Lowest
    <3>. QED
      BY <1>5, <2>2, <3>1, <3>2
  <2>3. ASSUME {c} \in Masks(masks), None(c, column_functions), c \notin h
        PROVE  {c} \in Masks(masks') /\ None(c, column_functions')
    <3>1. {c} # h
      BY <2>3
    <3>. QED
      BY <1>1, <1>2, <1>5, <2>3, <3>1 DEF HeadFacts, TakeMask, h
  <2>. QED
    BY <1>5, <2>1, <2>2, <2>3
<1>10. FoundInv'
  BY <1>1, <1>2, <1>8, <1>9 DEF FoundInv, SameFacts
<1>. QED
  BY <1>2, <1>6, <1>7, <1>10 DEF IInv

(* The bits outside the functions are done.                                *)
LEMMA UnusedEndStep == IInv /\ UnusedEnd => IInv'
<1>. SUFFICES ASSUME IInv, UnusedEnd
              PROVE  IInv'
  OBVIOUS
<1>1. /\ memory' = memory /\ SameFacts /\ pc = "unused" /\ pc' = "used"
      /\ masks = <<>> /\ masks' = masks /\ disjoint_sets' = disjoint_sets
      /\ row_functions' = row_functions /\ column_functions' = column_functions
      /\ row_bits' = row_bits /\ column_bits' = column_bits
      /\ unlabelled' = unlabelled /\ Masks(masks) = {}
  BY SameMachine DEF UnusedEnd, Masks
<1>2. IdentifyTypeOK'
  BY <1>1 DEF IInv, IdentifyTypeOK
<1>3. MasksInv' /\ LabelsInv'
  BY <1>1 DEF IInv, MasksInv, LabelsInv, SameFacts
<1>4. FunctionsInv'
  BY <1>1 DEF IInv, FunctionsInv, SameFacts
<1>5. \A m : Awaited(m) => Awaited(m)'
  BY <1>1 DEF Awaited
<1>6. ~unlabelled =>
        /\ \A r, m : RowTarget(r, m) =>
             \/ HighestFirst(r, row_functions)
             \/ Awaited(m) /\ None(r, row_functions)
        /\ \A c : ColumnTarget(c) => LowestFirst(c, column_functions)
  BY <1>1 DEF IInv, FoundInv
<1>7. FoundInv'
  BY <1>1, <1>5, <1>6 DEF FoundInv, SameFacts
<1>. QED
  BY <1>2, <1>3, <1>4, <1>7 DEF IInv

(* The next disjoint set.                                                  *)
LEMMA NextSetStep == IInv /\ NextDisjointSet => IInv'
<1>. SUFFICES ASSUME IInv, NextDisjointSet
              PROVE  IInv'
  OBVIOUS
<1>1. PICK set \in disjoint_sets :
        /\ disjoint_sets' = disjoint_sets \ {set}
        /\ masks' = GenerateAllCombinations(set)
  BY DEF NextDisjointSet
<1>2. /\ memory' = memory /\ SameFacts /\ pc = "used" /\ pc' = "used"
      /\ masks = <<>> /\ Masks(masks) = {} /\ memory \in Memories /\ MachineFacts
      /\ row_functions' = row_functions /\ column_functions' = column_functions
      /\ row_bits' = row_bits /\ column_bits' = column_bits
      /\ unlabelled' = unlabelled
  BY SameMachine, Machine DEF NextDisjointSet, Masks, IInv, IdentifyTypeOK
<1>3. set \in Blocks /\ disjoint_sets \subseteq Blocks /\ set \in SUBSET LineBit
  BY <1>2 DEF IInv, MasksInv, MachineFacts
<1>4. /\ masks' \in Seq(SUBSET LineBit)
      /\ Masks(masks') = (SUBSET set) \ {{}}
      /\ \A i, j \in DOMAIN masks' : i < j => Less(masks'[i], masks'[j])
  BY <1>1, <1>2, <1>3, Combinations
<1>5. IdentifyTypeOK'
  BY <1>1, <1>2, <1>4 DEF IInv, IdentifyTypeOK
<1>6. MasksInv'
  <2>1. disjoint_sets' \subseteq Blocks' /\ set \in Blocks' \ disjoint_sets'
    BY <1>1, <1>2, <1>3 DEF SameFacts
  <2>2. \A m \in Masks(masks') : m # {} /\ m \subseteq set
    BY <1>4
  <2>. QED
    BY <1>2, <1>4, <2>1, <2>2 DEF MasksInv
<1>7. LabelsInv'
  BY <1>2 DEF LabelsInv
<1>8. FunctionsInv'
  BY <1>2 DEF IInv, FunctionsInv, SameFacts
<1>9. ASSUME NEW r, NEW m, RowTarget(r, m), Awaited(m)
      PROVE  Awaited(m)'
  <2>1. PICK t \in disjoint_sets : m \subseteq t
    BY <1>2, <1>9 DEF Awaited
  <2>2. m # {}
    BY <1>9 DEF RowTarget, Highest
  <2>3. CASE t = set
    BY <1>4, <2>1, <2>2, <2>3 DEF Awaited
  <2>4. CASE t # set
    BY <1>1, <2>1, <2>4 DEF Awaited
  <2>. QED
    BY <2>3, <2>4
<1>10. ~unlabelled =>
        /\ \A r, m : RowTarget(r, m) =>
             \/ HighestFirst(r, row_functions)
             \/ Awaited(m) /\ None(r, row_functions)
        /\ \A c : ColumnTarget(c) => LowestFirst(c, column_functions)
  BY <1>2 DEF IInv, FoundInv
<1>11. FoundInv'
  BY <1>2, <1>9, <1>10 DEF FoundInv, SameFacts
<1>. QED
  BY <1>5, <1>6, <1>7, <1>8, <1>11 DEF IInv

(* No sum of functions without a bit has that bit.                         *)
LEMMA NewBitIsNoSum ==
  ASSUME NEW E, NEW fs \in Seq(E), NEW n \in DOMAIN fs, NEW b, b \in fs[n],
         \A k \in DOMAIN fs : k < n => b \notin fs[k]
  PROVE  fs[n] \notin Span(SubSeq(fs, 1, n - 1))
<1>. DEFINE w == SubSeq(fs, 1, n - 1)
<1>1. /\ DOMAIN w = 1 .. n - 1
      /\ \A k \in 1 .. n - 1 : w[k] = fs[k] /\ k \in DOMAIN fs /\ k < n
  OBVIOUS
<1>. HIDE DEF w
<1>2. \A K : b \notin XorOf(w, K)
  BY <1>1 DEF XorOf, Masks
<1>. QED
  BY <1>2 DEF Span, w

(* What the reduction keeps.                                               *)
LEMMA Reduced ==
  ASSUME memory \in Memories, NEW fs \in Seq(SUBSET LineBit)
  PROVE  /\ Masks(ReducedFunctions(fs)) \subseteq Masks(fs)
         /\ \A b : HighestFirst(b, fs) =>
              \E f \in Masks(ReducedFunctions(fs)) : Highest(b, f)
         /\ \A b : LowestFirst(b, fs) =>
              \E f \in Masks(ReducedFunctions(fs)) : Lowest(b, f)
<1>1. ReducedFunctions(fs) = Greedy(fs)
  <2>1. MaxBits - 1 \in Nat /\ LineBit \in SUBSET (0 .. MaxBits - 1)
    BY Machine DEF MachineFacts
  <2>2. fs \in Seq(SUBSET (0 .. MaxBits - 1))
    BY <2>1, SequenceWithin
  <2>. QED
    BY <2>1, <2>2, ReductionIsGreedy DEF KeepsGreedyBasisOf
<1>2. /\ Masks(Greedy(fs)) \subseteq Masks(fs)
      /\ \A n \in 1 .. Len(fs) : fs[n] \notin Span(SubSeq(fs, 1, n - 1))
                                   => fs[n] \in Masks(Greedy(fs))
  BY GreedyKeeps
<1>3. ASSUME NEW b, NEW n \in DOMAIN fs, b \in fs[n],
             \A k \in DOMAIN fs : k < n => b \notin fs[k]
      PROVE  fs[n] \in Masks(Greedy(fs))
  <2>1. fs[n] \notin Span(SubSeq(fs, 1, n - 1))
    BY <1>3, NewBitIsNoSum
  <2>2. n \in 1 .. Len(fs)
    OBVIOUS
  <2>. QED
    BY <1>2, <2>1, <2>2
<1>. QED
  BY <1>1, <1>2, <1>3 DEF HighestFirst, LowestFirst, Highest, Lowest

(* Reduction and extraction lose no bit that was found.                    *)
LEMMA ExtractStep == IInv /\ Extract => IInv'
<1>. SUFFICES ASSUME IInv, Extract
              PROVE  IInv'
  OBVIOUS
<1>. DEFINE rows == Masks(ReducedFunctions(row_functions))
            columns == Masks(ReducedFunctions(column_functions))
<1>1. /\ memory' = memory /\ memory \in Memories /\ SameFacts /\ MachineFacts
      /\ pc = "used" /\ pc' = "done" /\ masks = <<>> /\ masks' = masks
      /\ Masks(masks) = {} /\ disjoint_sets = {}
      /\ disjoint_sets' = disjoint_sets /\ unlabelled' = unlabelled
      /\ row_functions' = OneBitMasks(row_bits')
      /\ column_functions' = OneBitMasks(column_bits')
  BY SameMachine, Machine DEF Extract, Masks, IInv, IdentifyTypeOK
<1>2. /\ row_bits' = UNION {MostSignificant(f) : f \in rows}
      /\ column_bits' = UNION {LeastSignificant(f) : f \in columns}
  BY DEF Extract, RowBitsOf, ColumnBitsOf
<1>3. /\ row_functions \in Seq(SUBSET LineBit)
      /\ column_functions \in Seq(SUBSET LineBit)
  BY DEF IInv, IdentifyTypeOK
<1>4. /\ rows \subseteq Masks(row_functions)
      /\ \A b : HighestFirst(b, row_functions) => \E f \in rows : Highest(b, f)
      /\ columns \subseteq Masks(column_functions)
      /\ \A b : LowestFirst(b, column_functions) => \E f \in columns : Lowest(b, f)
  BY <1>1, <1>3, Reduced
<1>. HIDE DEF rows, columns
<1>5. /\ \A b : b \in row_bits' <=> \E f \in rows : Highest(b, f)
      /\ \A b : b \in column_bits' <=> \E f \in columns : Lowest(b, f)
  BY <1>2 DEF MostSignificant, LeastSignificant, Highest, Lowest
<1>6. /\ \A f \in rows : f \in SUBSET LineBit /\ RowMask(f)
      /\ \A f \in columns : f \in SUBSET LineBit /\ ColumnMask(f)
  BY <1>1, <1>3, <1>4 DEF Masks, IInv, FunctionsInv
<1>7. row_bits' \in SUBSET LineBit /\ column_bits' \in SUBSET LineBit
  BY <1>5, <1>6 DEF Highest, Lowest
<1>8. IdentifyTypeOK'
  <2>1. \A bits \in SUBSET LineBit : OneBitMasks(bits) \in Seq(SUBSET LineBit)
    BY <1>1, OneBitMasksAre
  <2>. QED
    BY <1>1, <1>7, <2>1 DEF IInv, IdentifyTypeOK
<1>9. MasksInv' /\ FunctionsInv' /\ FoundInv'
  BY <1>1 DEF IInv, MasksInv, FunctionsInv, FoundInv, SameFacts
<1>10. ~unlabelled =>
         /\ \A r, m : RowTarget(r, m) => r \in row_bits'
         /\ \A c : ColumnTarget(c) => c \in column_bits'
  <2>1. \A m : m # {} => ~Awaited(m)
    BY <1>1 DEF Awaited
  <2>2. \A r, m : RowTarget(r, m) => m # {}
    BY DEF RowTarget, Highest
  <2>. QED
    BY <1>1, <1>4, <1>5, <2>1, <2>2 DEF IInv, FoundInv
<1>11. LabelsInv'
  <2>1. \A r \in row_bits' : \E m \in SUBSET LineBit : RowMask(m) /\ Highest(r, m)
    BY <1>5, <1>6
  <2>2. \A c \in column_bits' :
          \E m \in SUBSET LineBit : ColumnMask(m) /\ Lowest(c, m)
    BY <1>5, <1>6
  <2>. QED
    BY <1>1, <1>10, <2>1, <2>2 DEF LabelsInv, SameFacts
<1>. QED
  BY <1>8, <1>9, <1>11 DEF IInv

(* In every state: masks come in order, what is kept is a mask of one      *)
(* block, and a mask that finds a label is awaited or has found it.        *)
THEOREM IdentifyInvariance == Spec => []IInv
<1>1. Init => IInv
  BY InitIdentify
<1>2. IInv /\ [Next]_vars => IInv'
  <2>. SUFFICES ASSUME IInv, [Next]_vars
                PROVE  IInv'
    OBVIOUS
  <2>1. CASE Classify
    BY <2>1, ClassifyStep
  <2>2. CASE SkipMask
    BY <2>2, SkipStep
  <2>3. CASE InsertRowFunction
    BY <2>3, RowStep
  <2>4. CASE InsertColumnFunction
    BY <2>4, ColumnStep
  <2>5. CASE FailToIdentify
    BY <2>5, FailStep
  <2>6. CASE UnusedEnd
    BY <2>6, UnusedEndStep
  <2>7. CASE NextDisjointSet
    BY <2>7, NextSetStep
  <2>8. CASE Extract
    BY <2>8, ExtractStep
  <2>9. CASE UNCHANGED vars
    <3>1. /\ memory' = memory /\ masks' = masks /\ pc' = pc
          /\ disjoint_sets' = disjoint_sets
          /\ row_functions' = row_functions /\ column_functions' = column_functions
          /\ row_bits' = row_bits /\ column_bits' = column_bits
          /\ unlabelled' = unlabelled
      BY <2>9 DEF vars
    <3>2. SameFacts
      BY <3>1, SameMachine
    <3>3. IdentifyTypeOK' /\ MasksInv'
      BY <3>1, <3>2 DEF IInv, IdentifyTypeOK, MasksInv, SameFacts
    <3>4. FunctionsInv' /\ LabelsInv'
      BY <3>1, <3>2 DEF IInv, FunctionsInv, LabelsInv, SameFacts
    <3>5. \A m : Awaited(m)' <=> Awaited(m)
      BY <3>1 DEF Awaited
    <3>6. FoundInv'
      BY <3>1, <3>2, <3>5 DEF IInv, FoundInv, SameFacts
    <3>. QED
      BY <3>3, <3>4, <3>6 DEF IInv
  <2>. QED
    BY <2>1, <2>2, <2>3, <2>4, <2>5, <2>6, <2>7, <2>8, <2>9 DEF Next, Terminated
<1>. QED
  BY <1>1, <1>2, PTL DEF Spec

-----------------------------------------------------------------------------
(* A vector stays independent if bits are added one by one of which no sum *)
(* of its functions consists.                                              *)
LEMMA BitsAreIndependent ==
  ASSUME NEW v, NEW w, NEW S, IsFiniteSet(DOMAIN w), DOMAIN v \subseteq DOMAIN w,
         \A k \in DOMAIN v : w[k] = v[k],
         IndependentMasks(v),
         \A k \in DOMAIN w \ DOMAIN v : \E b \in S : w[k] = {b},
         \A i, j \in DOMAIN w \ DOMAIN v : w[i] = w[j] => i = j,
         \A x \in Span(v) : x \subseteq S => x = {}
  PROVE  IndependentMasks(w)
<1>. SUFFICES ASSUME NEW K \in SUBSET DOMAIN w, XorOf(w, K) = {}
              PROVE  K = {}
  BY DEF IndependentMasks
<1>. DEFINE A == K \cap DOMAIN v
            B == K \ DOMAIN v
<1>1. /\ A \in SUBSET DOMAIN v /\ A \in SUBSET DOMAIN w /\ B \in SUBSET DOMAIN w
      /\ K = Xor(A, B) /\ K = A \cup B /\ B \subseteq DOMAIN w \ DOMAIN v
  BY DEF Xor
<1>. HIDE DEF A, B
<1>2. IsFiniteSet(A) /\ IsFiniteSet(B)
  BY <1>1, FS_Subset
<1>3. XorOf(w, A) = XorOf(w, B)
  <2>1. XorOf(w, Xor(A, B)) = Xor(XorOf(w, A), XorOf(w, B))
    <3>1. A \in SUBSET DOMAIN w /\ B \in SUBSET DOMAIN w
      BY <1>1
    <3>. QED
      BY <1>2, <3>1, SumOfXor
  <2>2. Xor(XorOf(w, A), XorOf(w, B)) = {}
    BY <1>1, <2>1
  <2>. QED
    BY <2>2, XorIsEmpty
<1>4. XorOf(w, A) \in Span(v)
  <2>1. XorOf(w, A) = XorOf(v, A)
    <3>1. \A k \in A : w[k] = v[k]
      BY <1>1
    <3>. QED
      BY <1>1, <3>1, SumOfPart
  <2>. QED
    BY <1>1, <2>1 DEF Span
<1>5. ASSUME NEW k \in B, NEW b, w[k] = {b}
      PROVE  b \in XorOf(w, B)
  <2>1. \A j \in B : b \in w[j] => j = k
    <3>. SUFFICES ASSUME NEW j \in B, b \in w[j]
                  PROVE  j = k
      OBVIOUS
    <3>1. PICK c \in S : w[j] = {c}
      BY <1>1
    <3>2. w[j] = w[k]
      BY <1>5, <3>1
    <3>. QED
      BY <1>1, <3>2
  <2>2. {j \in B : b \in w[j]} = {k}
    BY <1>5, <2>1
  <2>3. Cardinality({k}) = 1
    BY FS_Singleton
  <2>4. 1 % 2 = 1
    OBVIOUS
  <2>5. b \in UNION Masks(w)
    BY <1>1, <1>5 DEF Masks
  <2>. QED
    BY <2>2, <2>3, <2>4, <2>5 DEF XorOf
<1>6. XorOf(w, B) \subseteq S
  <2>. SUFFICES ASSUME NEW b \in XorOf(w, B)
                PROVE  b \in S
    OBVIOUS
  <2>1. {j \in B : b \in w[j]} # {}
    <3>1. Cardinality({}) = 0
      BY FS_EmptySet
    <3>2. 0 % 2 # 1
      OBVIOUS
    <3>3. Cardinality({j \in B : b \in w[j]}) % 2 = 1
      BY DEF XorOf
    <3>. QED
      BY <3>1, <3>2, <3>3
  <2>2. PICK j \in B : b \in w[j]
    BY <2>1
  <2>. QED
    BY <1>1, <2>2
<1>7. XorOf(w, A) = {} /\ XorOf(w, B) = {}
  BY <1>3, <1>4, <1>6
<1>8. B = {}
  <2>1. \A k \in B : \E b \in S : w[k] = {b}
    BY <1>1
  <2>. QED
    BY <1>5, <1>7, <2>1
<1>9. A = {}
  <2>1. XorOf(v, A) = XorOf(w, A)
    <3>1. \A k \in A : w[k] = v[k]
      BY <1>1
    <3>. QED
      BY <1>1, <3>1, SumOfPart
  <2>. QED
    BY <1>1, <1>7, <2>1 DEF IndependentMasks
<1>. QED
  BY <1>1, <1>8, <1>9

(* The highest bit of a mask that changes the row is a row bit, also       *)
(* outside the functions.                                                  *)
LEMMA HighestIsRow ==
  ASSUME memory \in Memories, NEW m \in SUBSET LineBit, RowMask(m), NEW r,
         Highest(r, m), RowsOnTop \/ m \subseteq Uncovered
  PROVE  r \in memory.row
<1>1. MachineFacts
  BY Machine
<1>2. PICK q \in m : q \in memory.row
  BY DEF RowMask, Overlap
<1>3. q \in LineBit /\ LineBit \subseteq Int /\ r \in m /\ r \in LineBit /\ q <= r
  BY <1>1, <1>2 DEF Highest, MachineFacts
<1>4. ASSUME r < q
      PROVE  FALSE
  BY <1>3, <1>4
<1>5. CASE m \subseteq Uncovered
  BY <1>1, <1>2, <1>3, <1>4, <1>5 DEF MachineFacts
<1>6. CASE ~(m \subseteq Uncovered)
  <2>1. PICK set \in Blocks : m \subseteq set
    BY <1>6 DEF RowMask, InBlock
  <2>2. r \notin memory.row => r < q
    BY <1>2, <1>3, <1>6, <2>1 DEF RowsOnTop, Blocks
  <2>. QED
    BY <1>4, <2>2
<1>. QED
  BY <1>5, <1>6

(* A mask that changes no function has an even number of bits of each sum. *)
LEMMA EvenInSums ==
  ASSUME memory \in Memories, NEW m \in SUBSET LineBit, ~ChangesFunction(m),
         NEW x \in Span(functions)
  PROVE  XORReductionWithMask(x, m) = 0
<1>1. MachineFacts
  BY Machine
<1>2. IsFiniteSet(LineBit)
  BY IdentifyAssumption, FS_Interval DEF LineBit
<1>3. functions \in Seq(SUBSET LineBit) /\ IsFiniteSet(DOMAIN functions)
  BY <1>1, DomainIsFinite DEF MachineFacts
<1>4. \A k \in DOMAIN functions :
        IsFiniteSet(functions[k]) /\ XORReductionWithMask(functions[k], m) = 0
  <2>. SUFFICES ASSUME NEW k \in DOMAIN functions
                PROVE  /\ IsFiniteSet(functions[k])
                       /\ XORReductionWithMask(functions[k], m) = 0
    OBVIOUS
  <2>1. functions[k] \in SUBSET LineBit /\ functions[k] \in Masks(functions)
    BY <1>3 DEF Masks
  <2>. QED
    BY <1>2, <2>1, FS_Subset DEF ChangesFunction
<1>. QED
  BY <1>3, <1>4, ParityOfSums

(* No sum of functions consists of labels: its highest column bit, or      *)
(* lowest row bit, is the only one of its bits in the mask that gave the   *)
(* label, which no function sees.                                          *)
LEMMA NoSumOfLabels ==
  ASSUME IInv, pc = "done", RowsOnTop,
         NEW x \in Span(functions), x \subseteq row_bits \cup column_bits
  PROVE  x = {}
<1>1. memory \in Memories /\ MachineFacts
  BY Machine DEF IInv, IdentifyTypeOK
<1>2. /\ \A r \in row_bits : \E m \in SUBSET LineBit : RowMask(m) /\ Highest(r, m)
      /\ \A c \in column_bits : \E m \in SUBSET LineBit : ColumnMask(m) /\ Lowest(c, m)
      /\ row_bits \in SUBSET LineBit /\ column_bits \in SUBSET LineBit
  BY DEF IInv, LabelsInv, IdentifyTypeOK
<1>3. \A r \in row_bits : r \in memory.row
  BY <1>1, <1>2, HighestIsRow
<1>4. ASSUME NEW m \in SUBSET LineBit, ~ChangesFunction(m), NEW b, x \cap m = {b}
      PROVE  FALSE
  <2>1. XORReductionWithMask(x, m) = 0
    BY <1>1, <1>4, EvenInSums
  <2>2. Cardinality({b}) = 1
    BY FS_Singleton
  <2>3. 1 % 2 = 1
    OBVIOUS
  <2>. QED
    BY <1>4, <2>1, <2>2, <2>3 DEF XORReductionWithMask
<1>5. LineBit \in SUBSET (0 .. MaxBits - 1) /\ MaxBits - 1 \in Nat
  BY <1>1 DEF MachineFacts
<1>6. ASSUME x \cap column_bits # {}
      PROVE  FALSE
  <2>1. x \cap column_bits \in SUBSET (0 .. MaxBits - 1)
    BY <1>2, <1>5
  <2>2. PICK c \in x \cap column_bits : \A d \in x \cap column_bits : d <= c
    BY <1>5, <1>6, <2>1, HighestBit
  <2>3. PICK m \in SUBSET LineBit : ColumnMask(m) /\ Lowest(c, m)
    BY <1>2
  <2>4. x \cap m = {c}
    <3>. SUFFICES ASSUME NEW d \in x, d \in m
                  PROVE  d = c
      BY <2>3 DEF Lowest
    <3>1. d \notin memory.row
      BY <2>3 DEF ColumnMask, Overlap
    <3>2. d \in column_bits
      BY <1>3, <3>1
    <3>3. d <= c /\ c <= d /\ c \in Int /\ d \in Int
      BY <1>2, <1>5, <2>2, <2>3, <3>2 DEF Lowest
    <3>. QED
      BY <3>3
  <2>. QED
    BY <1>4, <2>3, <2>4 DEF ColumnMask
<1>7. ASSUME x # {}
      PROVE  FALSE
  <2>1. x \subseteq row_bits
    BY <1>6
  <2>2. x \in SUBSET (0 .. MaxBits - 1)
    BY <1>2, <1>5, <2>1
  <2>3. PICK r \in x : \A d \in x : r <= d
    <3>1. x \in SUBSET Nat
      BY <2>2
    <3>. QED
      BY <1>7, <3>1, LeastNumber
  <2>4. PICK m \in SUBSET LineBit : RowMask(m) /\ Highest(r, m)
    BY <1>2, <2>1
  <2>5. x \cap m = {r}
    <3>. SUFFICES ASSUME NEW d \in x, d \in m
                  PROVE  d = r
      BY <2>4 DEF Highest
    <3>1. d <= r /\ r <= d /\ d \in Int /\ r \in Int
      BY <2>2, <2>3, <2>4 DEF Highest
    <3>. QED
      BY <3>1
  <2>. QED
    BY <1>4, <2>4, <2>5 DEF RowMask
<1>. QED
  BY <1>7

(* For every machine whose row bits lie on top of their sets, and whatever *)
(* masks get no label: row bits are rows, and functions, row bits and      *)
(* column bits are independent.                                            *)
THEOREM LabelsAreConsistent == Spec => []LabelsAreIndependent
<1>1. IInv => LabelsAreIndependent
  <2>. SUFFICES ASSUME IInv, pc = "done", RowsOnTop
                PROVE  /\ row_bits \subseteq memory.row
                       /\ IndependentMasks(functions \o row_functions
                                                     \o column_functions)
    BY DEF LabelsAreIndependent
  <2>1. memory \in Memories /\ MachineFacts
    BY Machine DEF IInv, IdentifyTypeOK
  <2>2. /\ \A r \in row_bits :
             \E m \in SUBSET LineBit : RowMask(m) /\ Highest(r, m)
        /\ \A c \in column_bits :
             \E m \in SUBSET LineBit : ColumnMask(m) /\ Lowest(c, m)
        /\ row_functions = OneBitMasks(row_bits)
        /\ column_functions = OneBitMasks(column_bits)
        /\ row_bits \in SUBSET LineBit /\ column_bits \in SUBSET LineBit
    BY DEF IInv, LabelsInv, IdentifyTypeOK
  <2>3. row_bits \subseteq memory.row
    BY <2>1, <2>2, HighestIsRow
  <2>4. \A c \in column_bits : c \notin row_bits
    BY <2>2, <2>3 DEF ColumnMask, Lowest, Overlap
  <2>. DEFINE S == row_bits \cup column_bits
              f == functions
              p == row_functions
              q == column_functions
              w == f \o p \o q
              E == SUBSET LineBit
  <2>5. /\ f \in Seq(E) /\ p \in Seq(E) /\ q \in Seq(E)
        /\ IndependentMasks(f)
    BY <2>1 DEF MachineFacts, IInv, IdentifyTypeOK
  <2>6. /\ \A k \in DOMAIN p : \E b \in row_bits : p[k] = {b}
        /\ \A i, j \in DOMAIN p : p[i] = p[j] => i = j
        /\ \A k \in DOMAIN q : \E b \in column_bits : q[k] = {b}
        /\ \A i, j \in DOMAIN q : q[i] = q[j] => i = j
    BY <2>1, <2>2, OneBitMasksAre
  <2>7. \A x \in Span(f) : x \subseteq S => x = {}
    BY NoSumOfLabels
  <2>. HIDE DEF f, p, q, E, S
  <2>8. /\ Len(f) \in Nat /\ Len(p) \in Nat /\ Len(q) \in Nat
        /\ DOMAIN f = 1 .. Len(f) /\ DOMAIN p = 1 .. Len(p)
        /\ DOMAIN q = 1 .. Len(q)
        /\ w \in Seq(E) /\ DOMAIN w = 1 .. Len(f) + Len(p) + Len(q)
        /\ \A k \in 1 .. Len(f) : w[k] = f[k]
        /\ \A k \in Len(f) + 1 .. Len(f) + Len(p) : w[k] = p[k - Len(f)]
        /\ \A k \in Len(f) + Len(p) + 1 .. Len(f) + Len(p) + Len(q) :
             w[k] = q[k - Len(f) - Len(p)]
    BY <2>5
  <2>. HIDE DEF w
  <2>9. IsFiniteSet(DOMAIN w)
    BY <2>8, DomainIsFinite
  <2>10. DOMAIN f \subseteq DOMAIN w /\ \A k \in DOMAIN f : w[k] = f[k]
    BY <2>8
  <2>11. ASSUME NEW k \in DOMAIN w \ DOMAIN f
         PROVE  \/ /\ k - Len(f) \in DOMAIN p /\ w[k] = p[k - Len(f)]
                \/ /\ k - Len(f) - Len(p) \in DOMAIN q
                   /\ w[k] = q[k - Len(f) - Len(p)]
    BY <2>8
  <2>12. \A k \in DOMAIN w \ DOMAIN f : \E b \in S : w[k] = {b}
    BY <2>6, <2>11 DEF S
  <2>13. ASSUME NEW i \in DOMAIN w \ DOMAIN f, NEW j \in DOMAIN w \ DOMAIN f,
                w[i] = w[j]
         PROVE  i = j
    <3>1. \A a \in DOMAIN p, c \in DOMAIN q : p[a] # q[c]
      BY <2>4, <2>6
    <3>2. i \in Int /\ j \in Int /\ Len(f) \in Int /\ Len(p) \in Int
      BY <2>8
    <3>3. \/ i - Len(f) = j - Len(f)
          \/ i - Len(f) - Len(p) = j - Len(f) - Len(p)
      BY <2>6, <2>11, <2>13, <3>1
    <3>. QED
      BY <3>2, <3>3
  <2>14. IndependentMasks(w)
    BY <2>5, <2>7, <2>9, <2>10, <2>12, <2>13, BitsAreIndependent
  <2>. QED
    BY <2>3, <2>14 DEF w, f, p, q
<1>. QED
  BY <1>1, IdentifyInvariance, PTL

(* If every mask gets a label, a bit in no function is labelled, and as    *)
(* what it is.                                                             *)
THEOREM UncoveredBitsAreFound == Spec => []UncoveredBitsIdentified
<1>1. IInv => UncoveredBitsIdentified
  <2>. SUFFICES ASSUME IInv, pc = "done", ~unlabelled, NEW b \in LineBit \ Covered
                PROVE  /\ b \in row_bits <=> b \in memory.row
                       /\ b \in column_bits <=> b \in memory.column
    BY DEF UncoveredBitsIdentified
  <2>1. memory \in Memories /\ MachineFacts
    BY Machine DEF IInv, IdentifyTypeOK
  <2>2. /\ \A r \in row_bits :
             \E m \in SUBSET LineBit : RowMask(m) /\ Highest(r, m)
        /\ \A c \in column_bits :
             \E m \in SUBSET LineBit : ColumnMask(m) /\ Lowest(c, m)
        /\ \A r, m : RowTarget(r, m) => r \in row_bits
        /\ \A c : ColumnTarget(c) => c \in column_bits
    BY DEF IInv, LabelsInv
  <2>3. /\ b \in Uncovered /\ b \in Int
        /\ b \in memory.row => b \notin memory.column
        /\ b \notin memory.row => b \in memory.column
    BY <2>1 DEF MachineFacts
  <2>4. ASSUME NEW m, InBlock(m), b \in m
        PROVE  m \subseteq Uncovered
    <3>1. \A set \in Blocks : b \notin set
      BY <2>1 DEF MachineFacts
    <3>. QED
      BY <2>4, <3>1 DEF InBlock
  <2>5. b \in row_bits => b \in memory.row
    <3>. SUFFICES ASSUME b \in row_bits
                  PROVE  b \in memory.row
      OBVIOUS
    <3>1. PICK m \in SUBSET LineBit : RowMask(m) /\ Highest(b, m)
      BY <2>2
    <3>2. m \subseteq Uncovered
      BY <2>4, <3>1 DEF RowMask, Highest
    <3>. QED
      BY <2>1, <3>1, <3>2, HighestIsRow
  <2>6. b \in memory.row => b \in row_bits
    <3>1. b \in memory.row => RowTarget(b, {b})
      BY <2>3 DEF RowTarget, TriedMask, Highest
    <3>. QED
      BY <2>2, <3>1
  <2>7. b \in column_bits => b \notin memory.row
    BY <2>2 DEF ColumnMask, Lowest, Overlap
  <2>8. b \notin memory.row => b \in column_bits
    BY <2>2, <2>3 DEF ColumnTarget
  <2>. QED
    BY <2>3, <2>5, <2>6, <2>7, <2>8
<1>. QED
  BY <1>1, IdentifyInvariance, PTL

(* The bits of a mask of at most three bits.                               *)
LEMMA AtMostThree ==
  ASSUME NEW a, NEW b, NEW c
  PROVE  IsFiniteSet({a, b, c}) /\ Cardinality({a, b, c}) < 4
<1>1. /\ IsFiniteSet({a}) /\ Cardinality({a}) = 1
      /\ {a, b} = {a} \cup {b} /\ {a, b, c} = {a, b} \cup {c}
  BY FS_Singleton
<1>2. IsFiniteSet({a, b}) /\ Cardinality({a, b}) \in 1 .. 2
  BY <1>1, FS_AddElement
<1>3. IsFiniteSet({a, b, c}) /\ Cardinality({a, b, c}) \in 1 .. 3
  BY <1>1, <1>2, FS_AddElement
<1>. QED
  BY <1>3

(* At most two indices.                                                    *)
LEMMA AtMostTwo ==
  ASSUME NEW K, IsFiniteSet(K), Cardinality(K) <= 2, K # {}
  PROVE  \E k, l \in K : K = {k, l}
<1>1. PICK k \in K : TRUE
  OBVIOUS
<1>2. CASE K = {k}
  BY <1>2
<1>3. CASE K # {k}
  <2>1. PICK l \in K : l # k
    BY <1>3
  <2>2. /\ {k, l} = {k} \cup {l} /\ IsFiniteSet({k}) /\ Cardinality({k}) = 1
    BY FS_Singleton
  <2>3. IsFiniteSet({k, l}) /\ Cardinality({k, l}) = 2
    <3>. DEFINE S == {k}
    <3>1. IsFiniteSet(S) /\ Cardinality(S) = 1 /\ l \notin S /\ {k, l} = S \cup {l}
      BY <2>1, <2>2
    <3>. HIDE DEF S
    <3>2. IsFiniteSet(S \cup {l}) /\ Cardinality(S \cup {l}) = 1 + 1
      BY <3>1, FS_AddElement
    <3>. QED
      BY <3>1, <3>2
  <2>4. {k, l} \in SUBSET K /\ Cardinality(K) \in Nat
    BY <2>1, FS_CardinalityType
  <2>5. Cardinality({k, l}) <= Cardinality(K)
    BY <2>4, FS_Subset
  <2>6. Cardinality(K) = Cardinality({k, l})
    BY <2>3, <2>4, <2>5
  <2>7. K = {k, l}
    BY <2>4, <2>6, FS_Subset
  <2>. QED
    BY <2>1, <2>7
<1>. QED
  BY <1>2, <1>3

(* A row bit that can be moved, with an own bit of each of its functions,  *)
(* is a mask that is tried.                                                *)
LEMMA MovableIsTarget ==
  ASSUME memory \in Memories, RowsOnTop, NEW r \in memory.row, Movable(r)
  PROVE  \E m : RowTarget(r, m)
<1>. DEFINE K == {k \in DOMAIN functions : r \in functions[k]}
<1>1. MachineFacts /\ IsFiniteSet(DOMAIN functions)
  <2>1. MachineFacts
    BY Machine
  <2>. QED
    BY <2>1, DomainIsFinite DEF MachineFacts
<1>2. r \in LineBit /\ r \in Int /\ LineBit \subseteq Int
  <2>1. LineBit \subseteq Int
    BY <1>1 DEF MachineFacts
  <2>2. r \in LineBit
    BY <1>1 DEF MachineFacts
  <2>. QED
    BY <2>1, <2>2
<1>3. /\ K \in SUBSET DOMAIN functions /\ Cardinality(K) <= 2
      /\ \A k \in K : OwnBits(k) # {} /\ r \in functions[k]
      /\ \A k \in DOMAIN functions : r \in functions[k] => k \in K
  BY DEF Movable
<1>. HIDE DEF K
<1>4. CASE K = {}
  <2>1. r \in Uncovered
    <3>1. r \notin Covered
      BY <1>3, <1>4 DEF Covered, Masks
    <3>. QED
      BY <1>1, <1>2, <3>1 DEF MachineFacts
  <2>2. RowTarget(r, {r})
    BY <1>2, <2>1 DEF RowTarget, TriedMask, Highest
  <2>. QED
    BY <2>2
<1>5. CASE K # {}
  <2>1. PICK k \in K, l \in K : K = {k, l}
    BY <1>1, <1>3, <1>5, FS_Subset, AtMostTwo
  <2>2. PICK p \in OwnBits(k) : TRUE
    BY <1>3
  <2>3. PICK q \in OwnBits(l) : k = l => q = p
    <3>1. OwnBits(l) # {}
      BY <1>3
    <3>. QED
      BY <2>2, <3>1
  <2>. DEFINE m == {r, p, q}
  <2>4. /\ p \in functions[k] /\ q \in functions[l]
        /\ p \notin memory.row /\ q \notin memory.row
        /\ \A j \in DOMAIN functions : p \in functions[j] => j = k
        /\ \A j \in DOMAIN functions : q \in functions[j] => j = l
    BY <2>2, <2>3 DEF OwnBits
  <2>5. ASSUME NEW j \in DOMAIN functions
        PROVE  XORReductionWithMask(functions[j], m) = 0
    <3>1. CASE j \notin K
      <4>1. functions[j] \cap m = {}
        BY <1>3, <2>4, <3>1
      <4>. QED
        BY <4>1, ParityOfOthers
    <3>2. ASSUME NEW b, functions[j] \cap m = {r, b}, b # r
          PROVE  XORReductionWithMask(functions[j], m) = 0
      <4>1. /\ {r, b} = {r} \cup {b} /\ IsFiniteSet({r}) /\ Cardinality({r}) = 1
        BY FS_Singleton
      <4>2. Cardinality({r, b}) = 2
        <5>1. Cardinality({r} \cup {b}) = Cardinality({r}) + 1
          BY <3>2, <4>1, FS_AddElement
        <5>. QED
          BY <4>1, <5>1
      <4>3. 2 % 2 = 0
        OBVIOUS
      <4>. QED
        BY <3>2, <4>2, <4>3 DEF XORReductionWithMask
    <3>3. CASE j = k
      <4>1. functions[j] \cap m = {r, p}
        BY <1>3, <2>3, <2>4, <3>3
      <4>. QED
        BY <2>4, <3>2, <4>1
    <3>4. CASE j = l
      <4>1. functions[j] \cap m = {r, q}
        BY <1>3, <2>3, <2>4, <3>4
      <4>. QED
        BY <2>4, <3>2, <4>1
    <3>. QED
      BY <2>1, <3>1, <3>3, <3>4
  <2>6. ~ChangesFunction(m)
    BY <2>5 DEF ChangesFunction, Masks
  <2>7. k \in DOMAIN functions /\ l \in DOMAIN functions
    BY <1>3
  <2>8. functions[k] \in Masks(functions) /\ functions[l] \in Masks(functions)
    BY <2>7 DEF Masks
  <2>9. PICK set \in Blocks : r \in set
    <3>1. r \in Covered
      BY <1>3, <2>8 DEF Covered
    <3>. QED
      BY <3>1, DisjointSetsCover DEF Covered, Blocks
  <2>10. functions[k] \subseteq set /\ functions[l] \subseteq set
    <3>1. Closed(set, Masks(functions))
      BY <2>9, DisjointSetsAreClosed DEF Blocks
    <3>. QED
      BY <1>3, <2>8, <2>9, <3>1 DEF Closed
  <2>11. m \subseteq set /\ m \in SUBSET LineBit
    BY <1>1, <2>4, <2>9, <2>10 DEF MachineFacts
  <2>12. p < r /\ q < r
    BY <2>4, <2>9, <2>11 DEF RowsOnTop, Blocks
  <2>13. Highest(r, m)
    <3>1. p \in Int /\ q \in Int
      BY <1>2, <2>11
    <3>2. p <= r /\ q <= r /\ r <= r
      BY <1>2, <2>12, <3>1
    <3>. QED
      BY <3>2 DEF Highest
  <2>14. Cardinality(m) < 4
    BY AtMostThree
  <2>15. TriedMask(m)
    BY <2>6, <2>9, <2>11, <2>14 DEF TriedMask
  <2>. QED
    BY <2>11, <2>13, <2>15 DEF RowTarget
<1>. QED
  BY <1>4, <1>5

(* If every mask gets a label, all row bits that can be moved are found.   *)
THEOREM MovableRowsAreFound == Spec => []MovableRowsFound
<1>1. IInv => MovableRowsFound
  <2>. SUFFICES ASSUME IInv, pc = "done", ~unlabelled, RowsOnTop,
                       NEW r \in memory.row, Movable(r)
                PROVE  r \in row_bits
    BY DEF MovableRowsFound
  <2>1. memory \in Memories
    BY DEF IInv, IdentifyTypeOK
  <2>2. PICK m : RowTarget(r, m)
    BY <2>1, MovableIsTarget
  <2>. QED
    BY <2>2 DEF IInv, LabelsInv
<1>. QED
  BY <1>1, IdentifyInvariance, PTL
=============================================================================
