CONSTANTS
  MaxTokens = 8
  Prompts = {2, 3}
  CanBatch = TRUE
  MayFail = FALSE
CHECK_DEADLOCK FALSE
SPECIFICATION Spec
INVARIANTS
  NoTokenFedTwice
