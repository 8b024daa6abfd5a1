CONSTANTS
  t1 = t1  t2 = t2
  a = a  b = b  c = c  d = d
  Threads = {t1, t2}
  Instances = {a, b}
  Uses <- MCUsesOwn
  ModelOf <- MCOneModel
  Streaming = {a, b}
  Unsupported = {}
  Layers = 2
  MaxSteps = 1
  NoThread = NoThread
SPECIFICATION Spec
INVARIANT OwnForward
