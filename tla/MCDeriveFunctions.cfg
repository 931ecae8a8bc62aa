\* Four line bits and one bit inside the line; masks of up to three bits.
CONSTANTS
  MaxBits = 5
  CACHELINE_OFFSET = 1
  FUNCTION_MIN_NUM_BITS = 1
  FUNCTION_MAX_NUM_BITS = 3
  Memories <- MCMemories
  Inputs <- MCInputs
SPECIFICATION Spec
INVARIANTS
  NoBankFunctionLost
  FoundIsRight
  ShortestBasis
  KeepsGreedyBasis
PROPERTY
  EnumerationEnds
