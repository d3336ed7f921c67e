CONSTANTS
  t1 = t1
  t2 = t2
  t3 = t3
  daemon = daemon
  oneshot = oneshot
  old = old
  new = new
  NoTxn = NoTxn
  Txn <- MCTxn
  Proc <- MCProc
  ProcOf <- MCProcOf
  File <- MCFile
  Preexisting <- MCPreexisting
  Batch <- MCBatch
  ClearCanFail = TRUE
  KillTears = TRUE
SPECIFICATION FairSpec
INVARIANTS
  CrashedDrainLeavesNothing
PROPERTIES
  SessionsEnd
CHECK_DEADLOCK FALSE
