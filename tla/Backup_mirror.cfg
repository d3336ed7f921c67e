SPECIFICATION Spec
CONSTANTS
  a = a
  b = b
  both = both
  one = one
  Thread <- MCThread
  Batch <- MCBatch
  Touches <- MCTouches
  Damaged = Damaged
  NoBatch = NoBatch
  NoManifest = NoManifest
  Nobody = Nobody
  Sweep = Sweep
  Mirror = Mirror
  DeleteFloor = 1
  KeepDays = 1
  KeepMonths = 1
  MonthDays = 2
  MaxDay = 1
  MaxRuns = 3
  MaxHarm = 1
INVARIANTS
  TypeOK
  DestroyedIsRecoverable
PROPERTIES
  DeletesKeepTheLiving
  OkIsWhole
  NoPartOfABatch
CHECK_DEADLOCK FALSE
