\* Three line bits and up to three functions, dependent ones included.
CONSTANTS
  MaxBits = 4
  CACHELINE_OFFSET = 1
  MaxFunctions = 3
  Queries <- MCQueries
  Pool <- MCPool
SPECIFICATION Spec
INVARIANTS
  IInv
  AnswerIsWanted
  GivesUpRightly
  EveryAnswerCanBeDrawn
