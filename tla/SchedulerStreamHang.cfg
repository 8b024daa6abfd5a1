CONSTANTS
  Callers = {c1}
  Requests = {r1, r2, r3}
  Sessions = {s1}
  OneShot = OneShot
  None = None
  MaxConcurrent = 2
  MaxQueue = 0
  MaxTokens = 1
  CanBatch = TRUE
  BadSampling = {}
  StepMayFail = TRUE
  StopMayTimeOut = TRUE
  CallsDuringStop = FALSE
SPECIFICATION Spec
INVARIANTS
  EveryStreamEnds
CHECK_DEADLOCK FALSE
