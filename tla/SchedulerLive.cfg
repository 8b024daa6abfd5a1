CONSTANTS
  Callers = {c1}
  Requests = {r1, r2, r3}
  Sessions = {s1}
  OneShot = OneShot
  None = None
  MaxConcurrent = 2
  MaxQueue = 0
  MaxTokens = 2
  CanBatch = TRUE
  BadSampling = {r2}
  StepMayFail = FALSE
  StopMayTimeOut = TRUE
  CallsDuringStop = FALSE
SPECIFICATION FairSpec
PROPERTIES
  AcceptedFinishes
  BusySessionReleased
  StopAnswersAll
CHECK_DEADLOCK FALSE
