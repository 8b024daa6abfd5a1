CONSTANTS
  MaxBlocks = 4
  BlockBytes = 2
  RamBudget = 5
  MaxFaults = 1
  TokensPerBlock = 3
  Prompts <- MCPrompts
  Chunks <- MCChunks
  Steps = 6
  Slots <- MCSlots
  BenchSlots = 2
  KeepRecent = 2
SPECIFICATION GenSpec
INVARIANTS
  Accounting
  LostByFaultsOnly
  ReturnedMeansPlaced
  SameTokens
  NoTokenLost
  PagerInSync
CHECK_DEADLOCK FALSE
