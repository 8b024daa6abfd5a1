CONSTANTS
  MaxClients = 2
  MaxSessions = 3
  NoSession = 0
  Gpus = 2
  MaxConcurrent = 1
  MaxQueueDepth = 1
  Workers = 1
  MaxTokens = 2
  MaxCalls = 2
SPECIFICATION Spec
INVARIANTS
  OwnersAgree
  TurnsAtHome
  AnswersAreTrue
  StoppedAnswersAll
PROPERTY
  Answered
CHECK_DEADLOCK FALSE
