\* Three banks of three, three and one address, two of the four banks of the
\* configuration wanted; bank 0 has two addresses in one row.
CONSTANTS
  Addr <- MCAddr
  BankOf <- SevenBanks
  RowOf <- SevenRows
  Word = 16
  PCI_OFFSET = 4
  NumBanks = 4
  DRAMA_MINIMUM_SET_SIZE = 2
  SUDOKU_FILTER_SCORE = 1
  CollectLatency <- ExactLatency
  FilterLatency <- ExactLatency
SPECIFICATION Spec
INVARIANTS
  SetsAreBanks
  SetsMatchBanks
PROPERTY
  CollectionEnds
