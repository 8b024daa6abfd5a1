CONSTANTS
  t1 = t1  t2 = t2
  a = a  b = b  c = c  d = d
  Threads = {t1, t2}
  Instances = {a, b, c, d}
  Uses <- MCUses
  ModelOf <- MCModelOf
  Streaming = {a, b, d}
  Unsupported = {"m3"}
  Layers = 2
  MaxSteps = 2
  NoThread = NoThread
SPECIFICATION Spec
INVARIANTS
  OwnForward
  Restored
PROPERTY LocksFreed
