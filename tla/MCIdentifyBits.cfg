\* Four line bits and one bit inside the line: masks of four bits, which are
\* not tried, a row bit in three functions, sets of every shape.
CONSTANTS
  MaxBits = 5
  CACHELINE_OFFSET = 1
  MaxFunctions = 3
  Memories <- MCMemories
SPECIFICATION Spec
INVARIANTS
  LabelsAreIndependent
  UncoveredBitsIdentified
  MovableRowsFound
