CONSTANTS
  Callers = {c1, c2}
  Requests = {r1, r2, r3}
  Sessions = {s1, s2}
  OneShot = OneShot
  None = None
  MaxConcurrent = 2
  MaxQueue = 0
  MaxTokens = 2
  CanBatch = TRUE
  BadSampling = {}
  StepMayFail = TRUE
  StopMayTimeOut = TRUE
  CallsDuringStop = TRUE
SPECIFICATION Spec
SYMMETRY Symmetry
INVARIANTS
  OneHome
  TurnsHoldSessions
  TurnExtendsHistory
  HistoryIsFinishedTurns
  RoundRobin
PROPERTIES
  NothingAfterSentinel
  ImplementsTurnService
CHECK_DEADLOCK FALSE
