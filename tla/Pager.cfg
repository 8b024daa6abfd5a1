CONSTANTS
  MaxBlocks = 4
  SinkBlocks = 1
  MaxScore = 2
  Vram = {0, 2}
  Ram = {1}
  HeavyVram = {1, 3}
  HeavyRam = {1}
  Windows = {0, 1}
  Margins = {0, 1}
  Configs <- MCConfigs
SPECIFICATION FairSpec
INVARIANTS
  VramBudget
  TiersFilled
  PinnedFirst
  NoProfitableSwap
PROPERTIES
  RebalanceIdempotent
  RebalanceEnds
