SPECIFICATION Spec
CONSTANTS
  Modes <- MCModes
  Rows = 2
  KVHeads = 1
  NRep = 2
  MTile = 3
  BlockKV = 3
  TokensPerBlock = 2
  MaxBlocks = 3
  MaxTail = 1
  MaxPad = 3
  GroupSizes <- MCGroupSizes
  Windows <- MCWindows
  Tables <- MCTables
INVARIANTS
  OutputIsAttention
  MassPerBlock
PROPERTY OnlyOwnRows
CHECK_DEADLOCK FALSE
