\* A memory whose bank function is the highest bit alone.
CONSTANTS
  MaxBits = 5
  CACHELINE_OFFSET = 1
  FUNCTION_MIN_NUM_BITS = 1
  FUNCTION_MAX_NUM_BITS = 3
  Memories <- MCMemories
  Inputs <- MCInputs
SPECIFICATION Spec
INVARIANT
  AllMasksTried
