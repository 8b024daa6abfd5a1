CONSTANTS
  Vocab <- MCVocab
  NoEos = 0
  TokensPerBlock = 2
  Runs <- MCRuns
SPECIFICATION Spec
INVARIANTS
  RowsFollowBeams
  ScoresAreSums
  SmallSearchIsExact
  BestReturned
CHECK_DEADLOCK FALSE
