CONSTANTS
  a = a
  b = b
  w1 = w1
  w2 = w2
  w3 = w3
  daemon = daemon
  backup = backup
  nobody = nobody
  Nobody = nobody
  Thread <- MCTwo
  Preexisting <- MCOne
  Writer <- MCThreeWriters
  ThreadOf <- MCThrice
  Proc <- MCAlone
  ProcOf <- MCThreeOwn
  FlatMax = 1
  Stamped = TRUE
  MaxTime = 5
  MaxKills = 1
SPECIFICATION FairSpec
INVARIANTS
  StaleIsOwed
PROPERTIES
  StragglersGoHome
