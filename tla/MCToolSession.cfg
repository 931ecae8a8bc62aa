\* Two pages of eight lines, two measurements for a function, streams of two.
CONSTANTS
  CachelineBits = 6
  Options <- MCOptions
  page_size = 16
  num_pages = 2
  granularity = 2
  OSPageSize = 8
  Layouts <- MCLayouts
  SUDOKU_CONFLICT_NUM_ITERATION = 5
  SUDOKU_REFRESH_NUM_ITERATION = 20
  SUDOKU_CONSECUTIVE_NUM_ITERATION = 5
  REFRESH_CYCLE_LOWER_BOUND = 4
  FlushTime = 1
  AccessTime = 2
  ConflictTime = 2
  RefreshTime = 4
  Stagger = 14
  Periods = {28, 56}
  max_bits_ = 7
  CACHELINE_OFFSET = 1
  WordBits = 8
  SUDOKU_TEST_NUM_ITERATION = 2
  SUDOKU_NUM_EFFECTIVE_TRIAL = 2
  SUDOKU_TRIAL_SUCCESS_SCORE = 1
  CONSECUTIVE_LENGTH = 2
  REGULAR_REFRESH_INTERVAL_THRESHOLD = 20
  ShortestInterval = 2
  Commands <- MCCommands
  Uninitialised = {{1}, {2, 6}}
  PastTheEnd = {{}, {7}}
  Reads <- MCReads
SPECIFICATION Spec
INVARIANTS
  TypeOK
  PairsAsAsked
  StreamsStayInRow
  DecompositionIsRight
  BitsAddUp
  StatisticsTellPairs
PROPERTIES
  TranslationsInvert
  SessionEnds
