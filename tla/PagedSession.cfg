CONSTANTS
  MaxTokens = 10
  Prompts = {2, 3}
  CanBatch = TRUE
  MayFail = TRUE
CHECK_DEADLOCK FALSE
SPECIFICATION Spec
INVARIANTS
  CacheFollowsSequence
  NeverRewound
