------------------------------ MODULE BitTrials ------------------------------
(***************************************************************************)
(* The trials of one mask in Addressing::CheckUnusedBits and               *)
(* Addressing::CheckUsedBits: random addresses are paired with the address *)
(* that differs from them by the mask; if that one is in the pool the pair *)
(* is timed, a row buffer conflict speaks for a row bit and anything else  *)
(* for a column bit.  The two operations run the same loop and differ in   *)
(* the test that tells whether it ran out of trials.                       *)
(***************************************************************************)
EXTENDS Integers

CONSTANTS
  SUDOKU_MAX_NUM_TRIALS,
  SUDOKU_NUM_EFFECTIVE_TRIAL,
  SUDOKU_TRIAL_SUCCESS_SCORE

ASSUME TrialsAssumption ==
  /\ {SUDOKU_MAX_NUM_TRIALS, SUDOKU_NUM_EFFECTIVE_TRIAL,
      SUDOKU_TRIAL_SUCCESS_SCORE} \subseteq Nat
  /\ SUDOKU_NUM_EFFECTIVE_TRIAL <= SUDOKU_MAX_NUM_TRIALS
  /\ SUDOKU_TRIAL_SUCCESS_SCORE < SUDOKU_NUM_EFFECTIVE_TRIAL
  /\ SUDOKU_NUM_EFFECTIVE_TRIAL <= 2 * SUDOKU_TRIAL_SUCCESS_SCORE

Outcome == {"hit", "conflict", "outlier"}

VARIABLES
  check,              \* which of the operations: "unused" or "used"
  shown,              \* the outcomes that pairs of this mask may show, {} if
                      \* no partner of an address is in the pool
  trials,
  effective_trials,
  row_bit_score,
  column_bit_score,
  verdict,
  trials_pc

trials_vars == <<check, shown, trials, effective_trials, row_bit_score,
          column_bit_score, verdict, trials_pc>>

TrialsInit ==
  /\ check \in {"unused", "used"}
  /\ shown \in SUBSET Outcome
  /\ trials = 0
  /\ effective_trials = 0
  /\ row_bit_score = 0
  /\ column_bit_score = 0
  /\ verdict = "none"
  /\ trials_pc = "trials"

(* Variants with a slip: running out of trials is not looked at, an        *)
(* outlier counts for both scores.  Neither is a part of TrialsNext.       *)
NeverOutOfTrials == FALSE

CountOutlierTwice(outcome) ==
  /\ row_bit_score' = row_bit_score + (IF outcome # "hit" THEN 1 ELSE 0)
  /\ column_bit_score' = column_bit_score + (IF outcome # "conflict" THEN 1 ELSE 0)

(* What a latency between the bounds, or not, counts for.                  *)
Score(outcome) ==
  /\ row_bit_score' = row_bit_score + (IF outcome = "conflict" THEN 1 ELSE 0)
  /\ column_bit_score' = column_bit_score + (IF outcome # "conflict" THEN 1 ELSE 0)

(* PhysToVirt does not find the partner in the pool.                       *)
Miss ==
  /\ trials_pc = "trials"
  /\ trials < SUDOKU_MAX_NUM_TRIALS
  /\ trials' = trials + 1
  /\ UNCHANGED <<check, shown, effective_trials, row_bit_score,
                 column_bit_score, verdict, trials_pc>>

Measure(outcome) ==
  /\ trials_pc = "trials"
  /\ trials < SUDOKU_MAX_NUM_TRIALS
  /\ trials' = trials + 1
  /\ effective_trials' = effective_trials + 1
  /\ Score(outcome)
  /\ trials_pc' = IF effective_trials' >= SUDOKU_NUM_EFFECTIVE_TRIAL
           THEN "decide" ELSE "trials"
  /\ UNCHANGED <<check, shown, verdict>>

(* trials++ < SUDOKU_MAX_NUM_TRIALS fails, and increments all the same.    *)
RunOut ==
  /\ trials_pc = "trials"
  /\ trials >= SUDOKU_MAX_NUM_TRIALS
  /\ trials' = trials + 1
  /\ trials_pc' = "decide"
  /\ UNCHANGED <<check, shown, effective_trials, row_bit_score,
                 column_bit_score, verdict>>

OutOfTrials ==
  \/ check = "unused" /\ trials >= SUDOKU_MAX_NUM_TRIALS
  \/ check = "used" /\ trials > SUDOKU_MAX_NUM_TRIALS

Conclude(v) ==
  /\ trials_pc = "decide"
  /\ verdict' = v
  /\ trials_pc' = "done"
  /\ UNCHANGED <<check, shown, trials, effective_trials, row_bit_score,
                 column_bit_score>>

CallFailed == OutOfTrials /\ Conclude("failed")

CallRow ==
  /\ ~OutOfTrials
  /\ row_bit_score > SUDOKU_TRIAL_SUCCESS_SCORE
  /\ Conclude("row")

CallColumn ==
  /\ ~OutOfTrials
  /\ row_bit_score <= SUDOKU_TRIAL_SUCCESS_SCORE
  /\ column_bit_score > SUDOKU_TRIAL_SUCCESS_SCORE
  /\ Conclude("column")

CallOutlier ==
  /\ ~OutOfTrials
  /\ row_bit_score <= SUDOKU_TRIAL_SUCCESS_SCORE
  /\ column_bit_score <= SUDOKU_TRIAL_SUCCESS_SCORE
  /\ Conclude("outlier")

Decided ==
  /\ trials_pc = "done"
  /\ UNCHANGED trials_vars

TrialsNext ==
  \/ Miss
  \/ \E outcome \in shown : Measure(outcome)
  \/ RunOut
  \/ CallFailed
  \/ CallRow
  \/ CallColumn
  \/ CallOutlier
  \/ Decided

TrialsSpec == TrialsInit /\ [][TrialsNext]_trials_vars

-----------------------------------------------------------------------------
TrialsTypeOK ==
  /\ check \in {"unused", "used"}
  /\ shown \in SUBSET Outcome
  /\ trials \in 0 .. SUDOKU_MAX_NUM_TRIALS + 1
  /\ effective_trials \in 0 .. SUDOKU_NUM_EFFECTIVE_TRIAL
  /\ row_bit_score \in 0 .. SUDOKU_NUM_EFFECTIVE_TRIAL
  /\ column_bit_score \in 0 .. SUDOKU_NUM_EFFECTIVE_TRIAL
  /\ verdict \in {"none", "row", "column", "failed", "outlier"}
  /\ trials_pc \in {"trials", "decide", "done"}

(* A label rests on the full number of measurements, and on few that speak *)
(* against it, however many partners were not in the pool.                 *)
Contradicted == SUDOKU_NUM_EFFECTIVE_TRIAL - SUDOKU_TRIAL_SUCCESS_SCORE

LabelsRestOnMeasurements ==
  /\ verdict = "row" => /\ effective_trials = SUDOKU_NUM_EFFECTIVE_TRIAL
                        /\ column_bit_score < Contradicted
  /\ verdict = "column" => /\ effective_trials = SUDOKU_NUM_EFFECTIVE_TRIAL
                           /\ row_bit_score < Contradicted

(* What the identification of bits may rely on: a mask whose pairs always  *)
(* show the same is labelled accordingly, unless too few pairs are in the  *)
(* pool.  An outlier counts for a column bit.                              *)
ExactVerdict ==
  trials_pc = "done" =>
    /\ shown = {"conflict"} => verdict \in {"row", "failed"}
    /\ "conflict" \notin shown => verdict \in {"column", "failed"}

-----------------------------------------------------------------------------
(* The inductive invariant: every measurement counts for one of the        *)
(* scores, and the loop is only left early with enough of them.            *)
ScoresAddUp == row_bit_score + column_bit_score = effective_trials

LeftEarlyOrRunOut ==
  /\ effective_trials <= trials
  /\ trials_pc = "trials" => /\ trials <= SUDOKU_MAX_NUM_TRIALS
                      /\ effective_trials < SUDOKU_NUM_EFFECTIVE_TRIAL
  /\ trials_pc # "trials" => \/ effective_trials = SUDOKU_NUM_EFFECTIVE_TRIAL
                      \/ trials > SUDOKU_MAX_NUM_TRIALS

ScoresAgree ==
  /\ shown = {"conflict"} => column_bit_score = 0
  /\ "conflict" \notin shown => row_bit_score = 0

VerdictHasScore ==
  /\ verdict = "none" <=> trials_pc # "done"
  /\ verdict = "failed" => OutOfTrials
  /\ verdict \in {"row", "column", "outlier"} => ~OutOfTrials
  /\ verdict = "row" => row_bit_score > SUDOKU_TRIAL_SUCCESS_SCORE
  /\ verdict = "column" => column_bit_score > SUDOKU_TRIAL_SUCCESS_SCORE
  /\ verdict = "outlier" => /\ row_bit_score <= SUDOKU_TRIAL_SUCCESS_SCORE
                            /\ column_bit_score <= SUDOKU_TRIAL_SUCCESS_SCORE

TrialsInv ==
  /\ ScoresAddUp
  /\ LeftEarlyOrRunOut
  /\ ScoresAgree
  /\ VerdictHasScore

(* Types and scores are kept together: the bound on a score is the sum.    *)
TrialsIInv == TrialsTypeOK /\ TrialsInv
=============================================================================
