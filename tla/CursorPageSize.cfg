\* A page size larger than the block an open call answers with.
SPECIFICATION DatasourceSpec
CONSTANTS
  BlockSize = 3
  OpenBlock = 2
  RowBudget = 9
  Lengths = {7}
  MaxOpens = 1
  MaxSorts = 0
  MaxLost = 0
CHECK_DEADLOCK FALSE
PROPERTY SequentialBlocksStream
