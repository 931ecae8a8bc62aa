\* Four line bits for a DIMM with one row bit, one column bit and two
\* functions, and a bit inside the cache line that a function may contain.
CONSTANTS
  MaxBits = 5
  CACHELINE_OFFSET = 1
  NumRowBits = 1
  NumColumnBits = 1
  MaxFunctions = 2
  FunctionVectors <- MCFunctionVectors
SPECIFICATION Spec
INVARIANTS
  TypeOK
  AcceptsEveryBijection
  IndependentPassIsOneToOne
  OneSetIsResolved
PROPERTIES
  CompleteStaysComplete
  Terminates
