CONSTANTS
  a = a
  b = b
  w1 = w1
  w2 = w2
  w3 = w3
  daemon = daemon
  backup = backup
  nobody = nobody
  Nobody = nobody
  Thread <- MCOne
  Preexisting <- MCOne
  Writer <- MCWriters
  ThreadOf <- MCSameThread
  Proc <- MCProcs
  ProcOf <- MCSplit
  FlatMax = 1
  Stamped = TRUE
  MaxTime = 3
  MaxKills = 0
SPECIFICATION Spec
PROPERTIES
  BackstopIsHarmless
