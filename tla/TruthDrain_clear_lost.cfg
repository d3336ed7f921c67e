CONSTANTS
  t1 = t1
  t2 = t2
  t3 = t3
  daemon = daemon
  oneshot = oneshot
  old = old
  new = new
  NoTxn = NoTxn
  Txn <- MCTxn
  Proc <- MCProc
  ProcOf <- MCProcOf
  File <- MCFile
  Preexisting <- MCPreexisting
  Batch <- MCBatch
  ClearCanFail = TRUE
  KillTears = FALSE
SPECIFICATION Spec
INVARIANTS
  TruthCoversIndex
CHECK_DEADLOCK FALSE
