\* As in the exact run, but noise while collecting may put any address in
\* any set, and a set must be larger to count.
CONSTANTS
  Addr <- MCAddr
  BankOf <- SevenBanks
  RowOf <- SevenRows
  Word = 16
  PCI_OFFSET = 4
  NumBanks = 4
  DRAMA_MINIMUM_SET_SIZE = 3
  SUDOKU_FILTER_SCORE = 1
  CollectLatency <- NoisyLatency
  FilterLatency <- ExactLatency
SPECIFICATION Spec
INVARIANTS
  TypeOK
  EachAddressOnce
  NoSetEmptied
  KeptScores
  OneBankAfterFilter
