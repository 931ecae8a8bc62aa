\* A bit that is a function of its own is labelled a column bit.
CONSTANTS
  MaxBits = 5
  CACHELINE_OFFSET = 1
  NumRowBits = 1
  NumColumnBits = 1
  MaxFunctions = 2
  FunctionVectors <- MCFunctionVectors
SPECIFICATION Spec
INVARIANT
  InjectiveAfterResolving
