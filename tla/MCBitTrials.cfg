\* The constants of the code, 16384, 1024 and 960, scaled down in order.
CONSTANTS
  SUDOKU_MAX_NUM_TRIALS = 10
  SUDOKU_NUM_EFFECTIVE_TRIAL = 6
  SUDOKU_TRIAL_SUCCESS_SCORE = 4
SPECIFICATION TrialsSpec
INVARIANTS
  TrialsIInv
  LabelsRestOnMeasurements
  ExactVerdict
