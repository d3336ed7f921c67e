CONSTANTS
  a = a
  b = b
  w1 = w1
  w2 = w2
  w3 = w3
  daemon = daemon
  backup = backup
  nobody = nobody
  Nobody = nobody
  Thread <- MCTwo
  Preexisting <- MCOne
  Writer <- MCWriters
  ThreadOf <- MCGrow
  Proc <- MCProcs
  ProcOf <- MCSplit
  FlatMax = 1
  Stamped = TRUE
  MaxTime = 2
  MaxKills = 1
SPECIFICATION Spec
INVARIANTS
  CommittedIsLogged
  SweepInv
PROPERTIES
  DrainNeverMakesTwin
  DepthNeverShrinks
