----------------------------- MODULE ReindexProofs -----------------------------
(***************************************************************************)
(* For any processes, rebuilds, events, index files and kills: no commit   *)
(* goes to a file that was swapped out, and no swap loses what a commit    *)
(* made visible.  What is said of rows is said until a rebuild that died   *)
(* in its swap has left a foreign log beside the index (Clean).            *)
(***************************************************************************)
EXTENDS Reindex, TLAPS

LEMMA InitInv == Init => SwapInv
<1> SUFFICES ASSUME Init PROVE SwapInv
  OBVIOUS
<1>0. 1 \in Inode /\ NoRows \in Rows
  BY ReindexBounds DEF Inode, Rows, NoRows
<1>1. TypeOK
  BY <1>0 DEF Init, TypeOK, NoFile, InPass, Staged
<1>2. file[index].ev = {} /\ file[index].cur = {}
  BY <1>0 DEF Init, NoRows
<1>3. LocksHeld /\ PoolsKnown
  BY ReindexActors DEF Init, LocksHeld, PoolsKnown, NoFile, InPass, Staged, Repairing
<1>4. RowsKnown
  BY <1>2 DEF Init, RowsKnown, Staged
<1>5. BuildKnown /\ RepairKnown
  BY <1>2 DEF Init, BuildKnown, RepairKnown
<1>6. PassesUseTheIndex /\ WalIsTheIndexs
  BY DEF Init, PassesUseTheIndex, WalIsTheIndexs, ForeignLog
<1>7. IndexHoldsCommitted /\ CursorsMatch
  BY <1>2 DEF Init, IndexHoldsCommitted, CursorsMatch
<1> QED BY <1>1, <1>3, <1>4, <1>5, <1>6, <1>7 DEF SwapInv, RowsInv

-----------------------------------------------------------------------------
(* Who is alone with the index.                                            *)
LEMMA PassAlone ==
  ASSUME SwapInv, NEW p \in Proc, pc[p] \in InPass
  PROVE  /\ exclusive = Nobody
         /\ \A q \in Proc : pc[q] \notin Repairing
         /\ \A r \in Rebuilder : rpc[r] \in {"idle", "wait"}
BY ReindexActors DEF SwapInv, LocksHeld

LEMMA RepairAlone ==
  ASSUME SwapInv, NEW p \in Proc, pc[p] \in Repairing
  PROVE  /\ exclusive = p
         /\ \A q \in Proc : pc[q] \notin InPass /\ (pc[q] \in Repairing => q = p)
         /\ \A r \in Rebuilder : rpc[r] \in {"idle", "wait"}
BY ReindexActors DEF SwapInv, LocksHeld

LEMMA RebuildAlone ==
  ASSUME SwapInv, NEW r \in Rebuilder, rpc[r] \notin {"idle", "wait"}
  PROVE  /\ exclusive = r
         /\ \A p \in Proc : pc[p] \notin InPass \cup Repairing
         /\ \A q \in Rebuilder : rpc[q] \in {"idle", "wait"} \/ q = r
BY ReindexActors DEF SwapInv, LocksHeld
-----------------------------------------------------------------------------
LEMMA OpenInv ==
  ASSUME SwapInv, NEW p \in Proc, Open(p)
  PROVE  SwapInv'
<1> USE DEF SwapInv, RowsInv, TypeOK, Clean, faults, Open, Reconnect, Goto, truths,
           files, locks, rebuilds, history, NoFile
<1>1. TypeOK'
  BY DEF InPass, Staged, Repairing, Rows
<1>2. LocksHeld'
  BY <1>1, ReindexActors DEF LocksHeld, InPass, Staged, Repairing
<1>3. PoolsKnown'
  BY <1>1 DEF PoolsKnown, InPass, Staged, Repairing, Inode
<1>4. Clean' => RowsKnown'
  BY <1>1 DEF RowsKnown, InPass, Staged, Repairing
<1>5. Clean' => BuildKnown'
  BY <1>1 DEF BuildKnown, Cursors
<1>6. Clean' => RepairKnown'
  BY <1>1 DEF RepairKnown, InPass, Staged, Repairing
<1>7. PassesUseTheIndex'
  BY <1>1, <1>3 DEF PassesUseTheIndex, PoolsKnown, InPass, Staged
<1>8. IndexHoldsCommitted' /\ CursorsMatch'
  BY <1>1 DEF PoolsKnown, IndexHoldsCommitted, CursorsMatch
<1>9. Clean' => WalIsTheIndexs'
  BY <1>1 DEF WalIsTheIndexs, ForeignLog
<1> QED BY <1>1, <1>2, <1>3, <1>4, <1>5, <1>6, <1>7, <1>8, <1>9

LEMMA InitDbInv ==
  ASSUME SwapInv, NEW p \in Proc, InitDb(p)
  PROVE  SwapInv'
<1> USE DEF SwapInv, RowsInv, TypeOK, Clean, faults, InitDb, Connect, Goto, truths,
           files, locks, rebuilds, history
<1>1. TypeOK'
  BY DEF InPass, Staged, Repairing, Rows
<1>2. LocksHeld'
  BY <1>1, ReindexActors DEF LocksHeld, InPass, Staged, Repairing
<1>3. PoolsKnown'
  BY <1>1 DEF PoolsKnown, InPass, Staged, Repairing, Inode, NoFile
<1>4. Clean' => RowsKnown'
  BY <1>1 DEF RowsKnown, InPass, Staged, Repairing
<1>5. Clean' => BuildKnown'
  BY <1>1 DEF BuildKnown, Cursors
<1>6. Clean' => RepairKnown'
  BY <1>1 DEF RepairKnown, InPass, Staged, Repairing
<1>7. PassesUseTheIndex'
  BY <1>1, <1>3 DEF PassesUseTheIndex, PoolsKnown, InPass, Staged
<1>8. IndexHoldsCommitted' /\ CursorsMatch'
  BY <1>1 DEF PoolsKnown, IndexHoldsCommitted, CursorsMatch
<1>9. Clean' => WalIsTheIndexs'
  BY <1>1 DEF WalIsTheIndexs, ForeignLog
<1> QED BY <1>1, <1>2, <1>3, <1>4, <1>5, <1>6, <1>7, <1>8, <1>9

LEMMA AcquireInv ==
  ASSUME SwapInv, NEW p \in Proc, Acquire(p)
  PROVE  SwapInv'
<1> USE DEF SwapInv, RowsInv, TypeOK, Clean, faults, Acquire, Reconnect, Goto, truths,
           files, rebuilds, history
<1>1. TypeOK'
  BY DEF InPass, Staged, Repairing, Rows
<1>2. LocksHeld'
  BY <1>1, ReindexActors DEF LocksHeld, InPass, Staged, Repairing
<1>3. PoolsKnown'
  BY <1>1 DEF PoolsKnown, InPass, Staged, Repairing, Inode, NoFile
<1>4. Clean' => RowsKnown'
  BY <1>1 DEF RowsKnown, InPass, Staged, Repairing
<1>5. Clean' => BuildKnown'
  BY <1>1 DEF BuildKnown, Cursors
<1>6. Clean' => RepairKnown'
  BY <1>1 DEF RepairKnown, InPass, Staged, Repairing
<1>7. PassesUseTheIndex'
  BY <1>1, <1>3 DEF PassesUseTheIndex, PoolsKnown, InPass, Staged
<1>8. IndexHoldsCommitted' /\ CursorsMatch'
  BY <1>1 DEF PoolsKnown, IndexHoldsCommitted, CursorsMatch
<1>9. Clean' => WalIsTheIndexs'
  BY <1>1 DEF WalIsTheIndexs, ForeignLog
<1> QED BY <1>1, <1>2, <1>3, <1>4, <1>5, <1>6, <1>7, <1>8, <1>9

LEMMA FirstUseInv ==
  ASSUME SwapInv, NEW p \in Proc, FirstUse(p)
  PROVE  SwapInv'
<1> USE DEF SwapInv, RowsInv, TypeOK, Clean, faults, FirstUse, Connect, truths, files,
           locks, rebuilds, history
<1>1. TypeOK'
  BY DEF InPass, Staged, Repairing, Rows
<1>2. LocksHeld'
  BY <1>1, ReindexActors DEF LocksHeld, InPass, Staged, Repairing
<1>3. PoolsKnown'
  BY <1>1 DEF PoolsKnown, InPass, Staged, Repairing, Inode, NoFile
<1>4. Clean' => RowsKnown'
  BY <1>1 DEF RowsKnown, InPass, Staged, Repairing
<1>5. Clean' => BuildKnown'
  BY <1>1 DEF BuildKnown, Cursors
<1>6. Clean' => RepairKnown'
  BY <1>1 DEF RepairKnown, InPass, Staged, Repairing
<1>7. PassesUseTheIndex'
  BY <1>1, <1>3 DEF PassesUseTheIndex, PoolsKnown, InPass, Staged
<1>8. IndexHoldsCommitted' /\ CursorsMatch'
  BY <1>1 DEF PoolsKnown, IndexHoldsCommitted, CursorsMatch
<1>9. Clean' => WalIsTheIndexs'
  BY <1>1 DEF WalIsTheIndexs, ForeignLog
<1> QED BY <1>1, <1>2, <1>3, <1>4, <1>5, <1>6, <1>7, <1>8, <1>9

(* The guard on the write lock keeps the writer alone.                     *)
LEMMA StageInv ==
  ASSUME SwapInv, NEW p \in Proc, NEW e \in Event, Stage(p, e)
  PROVE  SwapInv'
<1> USE DEF SwapInv, RowsInv, TypeOK, Clean, faults, Stage, Goto, truths, files, locks,
           rebuilds, history
<1>0. /\ exclusive = Nobody
      /\ \A q \in Proc : pc[q] \notin Repairing
      /\ \A r \in Rebuilder : rpc[r] \in {"idle", "wait"}
  BY PassAlone DEF InPass, Staged
<1>a. conn[p] = index /\ \A q \in Proc : pc[q] \notin Staged
  BY DEF PassesUseTheIndex, PoolsKnown, InPass
<1>1. TypeOK'
  BY <1>0 DEF InPass, Staged, Repairing, Rows
<1>2. LocksHeld'
  BY <1>0, <1>1, ReindexActors DEF LocksHeld, InPass, Staged, Repairing
<1>3. PoolsKnown'
  BY <1>0, <1>1 DEF PoolsKnown, InPass, Staged, Repairing, Inode, NoFile
<1>4. Clean' => RowsKnown'
  BY <1>a, <1>1 DEF RowsKnown, Staged
<1>5. Clean' => BuildKnown'
  BY <1>0, <1>1 DEF BuildKnown, Cursors
<1>6. Clean' => RepairKnown'
  BY <1>0, <1>1 DEF RepairKnown, InPass, Staged, Repairing
<1>7. PassesUseTheIndex'
  BY <1>1, <1>3 DEF PassesUseTheIndex, PoolsKnown, InPass, Staged
<1>8. IndexHoldsCommitted' /\ CursorsMatch'
  BY <1>0, <1>1 DEF PoolsKnown, IndexHoldsCommitted, CursorsMatch
<1>9. Clean' => WalIsTheIndexs'
  BY <1>0, <1>1 DEF WalIsTheIndexs, ForeignLog
<1> QED BY <1>1, <1>2, <1>3, <1>4, <1>5, <1>6, <1>7, <1>8, <1>9

LEMMA StartDrainInv ==
  ASSUME SwapInv, NEW p \in Proc, StartDrain(p)
  PROVE  SwapInv'
<1> USE DEF SwapInv, RowsInv, TypeOK, Clean, faults, StartDrain, Goto, files, rebuilds,
           history
<1>0. /\ exclusive = Nobody
      /\ \A q \in Proc : pc[q] \notin Repairing
      /\ \A r \in Rebuilder : rpc[r] \in {"idle", "wait"}
  BY PassAlone DEF InPass, Staged
<1>1. TypeOK'
  BY <1>0 DEF InPass, Staged, Repairing, Rows
<1>2. LocksHeld'
  BY <1>0, <1>1, ReindexActors DEF LocksHeld, InPass, Staged, Repairing
<1>3. PoolsKnown'
  BY <1>0, <1>1 DEF PoolsKnown, InPass, Staged, Repairing, Inode, NoFile
<1>4. Clean' => RowsKnown'
  BY <1>0, <1>1 DEF RowsKnown, InPass, Staged, Repairing
<1>5. Clean' => BuildKnown'
  BY <1>0, <1>1 DEF BuildKnown, Cursors
<1>6. Clean' => RepairKnown'
  BY <1>0, <1>1 DEF RepairKnown, InPass, Staged, Repairing
<1>7. PassesUseTheIndex'
  BY <1>1, <1>3 DEF PassesUseTheIndex, PoolsKnown, InPass, Staged
<1>8. IndexHoldsCommitted' /\ CursorsMatch'
  BY <1>0, <1>1 DEF PoolsKnown, IndexHoldsCommitted, CursorsMatch
<1>9. Clean' => WalIsTheIndexs'
  BY <1>0, <1>1 DEF WalIsTheIndexs, ForeignLog
<1> QED BY <1>1, <1>2, <1>3, <1>4, <1>5, <1>6, <1>7, <1>8, <1>9

LEMMA FinishDrainInv ==
  ASSUME SwapInv, NEW p \in Proc, FinishDrain(p)
  PROVE  SwapInv'
<1> USE DEF SwapInv, RowsInv, TypeOK, Clean, faults, FinishDrain, Goto, files,
           rebuilds, history
<1>0. /\ exclusive = Nobody
      /\ \A q \in Proc : pc[q] \notin Repairing
      /\ \A r \in Rebuilder : rpc[r] \in {"idle", "wait"}
  BY PassAlone DEF InPass, Staged
<1>1. TypeOK'
  BY <1>0 DEF InPass, Staged, Repairing, Rows
<1>2. LocksHeld'
  BY <1>0, <1>1, ReindexActors DEF LocksHeld, InPass, Staged, Repairing
<1>3. PoolsKnown'
  BY <1>0, <1>1 DEF PoolsKnown, InPass, Staged, Repairing, Inode, NoFile
<1>4. Clean' => RowsKnown'
  BY <1>0, <1>1 DEF RowsKnown, InPass, Staged, Repairing
<1>5. Clean' => BuildKnown'
  BY <1>0, <1>1 DEF BuildKnown, Cursors
<1>6. Clean' => RepairKnown'
  BY <1>0, <1>1 DEF RepairKnown, InPass, Staged, Repairing
<1>7. PassesUseTheIndex'
  BY <1>1, <1>3 DEF PassesUseTheIndex, PoolsKnown, InPass, Staged
<1>8. IndexHoldsCommitted' /\ CursorsMatch'
  BY <1>0, <1>1 DEF PoolsKnown, IndexHoldsCommitted, CursorsMatch
<1>9. Clean' => WalIsTheIndexs'
  BY <1>0, <1>1 DEF WalIsTheIndexs, ForeignLog
<1> QED BY <1>1, <1>2, <1>3, <1>4, <1>5, <1>6, <1>7, <1>8, <1>9

LEMMA CommitInv ==
  ASSUME SwapInv, NEW p \in Proc, Commit(p)
  PROVE  SwapInv'
<1> USE DEF SwapInv, RowsInv, TypeOK, Clean, faults, Commit, Goto, truths, locks,
           rebuilds
<1>0. /\ exclusive = Nobody
      /\ \A q \in Proc : pc[q] \notin Repairing
      /\ \A r \in Rebuilder : rpc[r] \in {"idle", "wait"}
  BY PassAlone DEF InPass, Staged
<1>a. conn[p] = index
  BY DEF PoolsKnown, Staged
<1>b. file'[index'] = [ev |-> file[index].ev \cup todo[p], cur |-> file[index].cur \cup todo[p]]
  BY <1>a DEF Rows
<1>c. Clean => todo[p] \subseteq truth \cup file[index].ev
  BY DEF RowsKnown
<1>1. TypeOK'
  BY <1>0 DEF InPass, Staged, Repairing, Rows
<1>2. LocksHeld'
  BY <1>0, <1>1, ReindexActors DEF LocksHeld, InPass, Staged, Repairing
<1>3. PoolsKnown'
  BY <1>0, <1>1 DEF PoolsKnown, InPass, Staged, Repairing, Inode, NoFile
<1>4. Clean' => RowsKnown'
  BY <1>a, <1>b, <1>c, <1>1 DEF RowsKnown, Staged
<1>5. Clean' => BuildKnown'
  BY <1>0, <1>1 DEF BuildKnown, Cursors
<1>6. Clean' => RepairKnown'
  BY <1>0, <1>1 DEF RepairKnown, InPass, Staged, Repairing
<1>7. PassesUseTheIndex'
  BY <1>1, <1>3 DEF PassesUseTheIndex, PoolsKnown, InPass, Staged
<1>8. IndexHoldsCommitted' /\ CursorsMatch'
  BY <1>b, <1>1 DEF IndexHoldsCommitted, CursorsMatch
<1>9. Clean' => WalIsTheIndexs'
  BY <1>0, <1>1 DEF WalIsTheIndexs, ForeignLog
<1> QED BY <1>1, <1>2, <1>3, <1>4, <1>5, <1>6, <1>7, <1>8, <1>9

LEMMA CommitFailsInv ==
  ASSUME SwapInv, NEW p \in Proc, CommitFails(p)
  PROVE  SwapInv'
<1> USE DEF SwapInv, RowsInv, TypeOK, Clean, faults, CommitFails, Goto, files, locks,
           rebuilds, history
<1>0. /\ exclusive = Nobody
      /\ \A q \in Proc : pc[q] \notin Repairing
      /\ \A r \in Rebuilder : rpc[r] \in {"idle", "wait"}
  BY PassAlone DEF InPass, Staged
<1>a. conn[p] = index
  BY DEF PoolsKnown, Staged
<1>1. TypeOK'
  BY <1>0 DEF InPass, Staged, Repairing, Rows
<1>2. LocksHeld'
  BY <1>0, <1>1, ReindexActors DEF LocksHeld, InPass, Staged, Repairing
<1>3. PoolsKnown'
  BY <1>0, <1>1 DEF PoolsKnown, InPass, Staged, Repairing, Inode, NoFile
<1>4. Clean' => RowsKnown'
  BY <1>a, <1>1 DEF RowsKnown, Staged
<1>5. Clean' => BuildKnown'
  BY <1>0, <1>1 DEF BuildKnown, Cursors
<1>6. Clean' => RepairKnown'
  BY <1>0, <1>1 DEF RepairKnown, InPass, Staged, Repairing
<1>7. PassesUseTheIndex'
  BY <1>1, <1>3 DEF PassesUseTheIndex, PoolsKnown, InPass, Staged
<1>8. IndexHoldsCommitted' /\ CursorsMatch'
  BY <1>0, <1>1 DEF PoolsKnown, IndexHoldsCommitted, CursorsMatch
<1>9. Clean' => WalIsTheIndexs'
  BY <1>0, <1>1 DEF WalIsTheIndexs, ForeignLog
<1> QED BY <1>1, <1>2, <1>3, <1>4, <1>5, <1>6, <1>7, <1>8, <1>9

LEMMA CheckpointInv ==
  ASSUME SwapInv, NEW p \in Proc, Checkpoint(p)
  PROVE  SwapInv'
<1> USE DEF SwapInv, RowsInv, TypeOK, Clean, faults, Checkpoint, files, locks, procs,
           rebuilds, history
<1>0. /\ exclusive = Nobody
      /\ \A q \in Proc : pc[q] \notin Repairing
      /\ \A r \in Rebuilder : rpc[r] \in {"idle", "wait"}
  BY PassAlone DEF InPass, Staged
<1>a. conn[p] = index
  BY DEF PassesUseTheIndex, InPass
<1>1. TypeOK'
  BY <1>0 DEF InPass, Staged, Repairing, Rows
<1>2. LocksHeld'
  BY <1>0, <1>1, ReindexActors DEF LocksHeld, InPass, Staged, Repairing
<1>3. PoolsKnown'
  BY <1>0, <1>1 DEF PoolsKnown, InPass, Staged, Repairing, Inode, NoFile
<1>4. Clean' => RowsKnown'
  BY <1>a, <1>1 DEF RowsKnown
<1>5. Clean' => BuildKnown'
  BY <1>0, <1>1 DEF BuildKnown, Cursors
<1>6. Clean' => RepairKnown'
  BY <1>0, <1>1 DEF RepairKnown, InPass, Staged, Repairing
<1>7. PassesUseTheIndex'
  BY <1>1, <1>3 DEF PassesUseTheIndex, PoolsKnown, InPass, Staged
<1>8. IndexHoldsCommitted' /\ CursorsMatch'
  BY <1>0, <1>1 DEF PoolsKnown, IndexHoldsCommitted, CursorsMatch
<1>9. Clean' => WalIsTheIndexs'
  BY <1>0, <1>1 DEF WalIsTheIndexs, ForeignLog
<1> QED BY <1>1, <1>2, <1>3, <1>4, <1>5, <1>6, <1>7, <1>8, <1>9

LEMMA ReleaseInv ==
  ASSUME SwapInv, NEW p \in Proc, Release(p)
  PROVE  SwapInv'
<1> USE DEF SwapInv, RowsInv, TypeOK, Clean, faults, Release, Goto, truths, files,
           rebuilds, history
<1>0. /\ exclusive = Nobody
      /\ \A q \in Proc : pc[q] \notin Repairing
      /\ \A r \in Rebuilder : rpc[r] \in {"idle", "wait"}
  BY PassAlone DEF InPass, Staged
<1>1. TypeOK'
  BY <1>0 DEF InPass, Staged, Repairing, Rows
<1>2. LocksHeld'
  BY <1>0, <1>1, ReindexActors DEF LocksHeld, InPass, Staged, Repairing
<1>3. PoolsKnown'
  BY <1>0, <1>1 DEF PoolsKnown, InPass, Staged, Repairing, Inode, NoFile
<1>4. Clean' => RowsKnown'
  BY <1>0, <1>1 DEF RowsKnown, InPass, Staged, Repairing
<1>5. Clean' => BuildKnown'
  BY <1>0, <1>1 DEF BuildKnown, Cursors
<1>6. Clean' => RepairKnown'
  BY <1>0, <1>1 DEF RepairKnown, InPass, Staged, Repairing
<1>7. PassesUseTheIndex'
  BY <1>1, <1>3 DEF PassesUseTheIndex, PoolsKnown, InPass, Staged
<1>8. IndexHoldsCommitted' /\ CursorsMatch'
  BY <1>0, <1>1 DEF PoolsKnown, IndexHoldsCommitted, CursorsMatch
<1>9. Clean' => WalIsTheIndexs'
  BY <1>0, <1>1 DEF WalIsTheIndexs, ForeignLog
<1> QED BY <1>1, <1>2, <1>3, <1>4, <1>5, <1>6, <1>7, <1>8, <1>9

LEMMA KillInv ==
  ASSUME SwapInv, NEW p \in Proc, Kill(p)
  PROVE  SwapInv'
<1> USE DEF SwapInv, RowsInv, TypeOK, Clean, faults, Kill, Goto, truths, files,
           rebuilds, history
<1>1. TypeOK'
  BY DEF InPass, Staged, Repairing, Rows
<1>2. LocksHeld'
  BY <1>1, ReindexActors DEF LocksHeld, InPass, Staged, Repairing
<1>3. PoolsKnown'
  BY <1>1 DEF PoolsKnown, InPass, Staged, Repairing, Inode, NoFile
<1>4. Clean' => RowsKnown'
  BY <1>1 DEF RowsKnown, InPass, Staged, Repairing
<1>5. Clean' => BuildKnown'
  BY <1>1 DEF BuildKnown, Cursors
<1>6. Clean' => RepairKnown'
  BY <1>1 DEF RepairKnown, InPass, Staged, Repairing
<1>7. PassesUseTheIndex'
  BY <1>1, <1>3 DEF PassesUseTheIndex, PoolsKnown, InPass, Staged
<1>8. IndexHoldsCommitted' /\ CursorsMatch'
  BY <1>1 DEF PoolsKnown, IndexHoldsCommitted, CursorsMatch
<1>9. Clean' => WalIsTheIndexs'
  BY <1>1 DEF WalIsTheIndexs, ForeignLog
<1> QED BY <1>1, <1>2, <1>3, <1>4, <1>5, <1>6, <1>7, <1>8, <1>9

LEMMA LockRepairInv ==
  ASSUME SwapInv, NEW p \in Proc, LockRepair(p)
  PROVE  SwapInv'
<1> USE DEF SwapInv, RowsInv, TypeOK, Clean, faults, LockRepair, NoPass, Goto, truths,
           files, rebuilds, history
<1>1. TypeOK'
  BY DEF InPass, Staged, Repairing, Rows
<1>2. LocksHeld'
  BY <1>1, ReindexActors DEF LocksHeld, InPass, Staged, Repairing
<1>3. PoolsKnown'
  BY <1>1 DEF PoolsKnown, InPass, Staged, Repairing, Inode, NoFile
<1>4. Clean' => RowsKnown'
  BY <1>1 DEF RowsKnown, InPass, Staged, Repairing
<1>5. Clean' => BuildKnown'
  BY <1>1 DEF BuildKnown, Cursors
<1>6. Clean' => RepairKnown'
  BY <1>1 DEF RepairKnown, InPass, Staged, Repairing
<1>7. PassesUseTheIndex'
  BY <1>1, <1>3 DEF PassesUseTheIndex, PoolsKnown, InPass, Staged
<1>8. IndexHoldsCommitted' /\ CursorsMatch'
  BY <1>1 DEF PoolsKnown, IndexHoldsCommitted, CursorsMatch
<1>9. Clean' => WalIsTheIndexs'
  BY <1>1 DEF WalIsTheIndexs, ForeignLog
<1> QED BY <1>1, <1>2, <1>3, <1>4, <1>5, <1>6, <1>7, <1>8, <1>9

LEMMA ScanInv ==
  ASSUME SwapInv, NEW p \in Proc, Scan(p)
  PROVE  SwapInv'
<1> USE DEF SwapInv, RowsInv, TypeOK, Clean, faults, Scan, Missing, Goto, files, locks,
           rebuilds, history
<1>0. /\ exclusive = p
      /\ \A q \in Proc : pc[q] \notin InPass /\ (pc[q] \in Repairing => q = p)
      /\ \A r \in Rebuilder : rpc[r] \in {"idle", "wait"}
  BY RepairAlone DEF Repairing
<1>1. TypeOK'
  BY <1>0 DEF InPass, Staged, Repairing, Rows
<1>2. LocksHeld'
  BY <1>0, <1>1, ReindexActors DEF LocksHeld, InPass, Staged, Repairing
<1>3. PoolsKnown'
  BY <1>0, <1>1 DEF PoolsKnown, InPass, Staged, Repairing, Inode, NoFile
<1>4. Clean' => RowsKnown'
  BY <1>0, <1>1 DEF RowsKnown, InPass, Staged, Repairing
<1>5. Clean' => BuildKnown'
  BY <1>0, <1>1 DEF BuildKnown, Cursors
<1>6. Clean' => RepairKnown'
  BY <1>0, <1>1 DEF RepairKnown, InPass, Staged, Repairing
<1>7. PassesUseTheIndex'
  BY <1>1, <1>3 DEF PassesUseTheIndex, PoolsKnown, InPass, Staged
<1>8. IndexHoldsCommitted' /\ CursorsMatch'
  BY <1>0, <1>1 DEF PoolsKnown, IndexHoldsCommitted, CursorsMatch
<1>9. Clean' => WalIsTheIndexs'
  BY <1>0, <1>1 DEF WalIsTheIndexs, ForeignLog
<1> QED BY <1>1, <1>2, <1>3, <1>4, <1>5, <1>6, <1>7, <1>8, <1>9

LEMMA RestoreInv ==
  ASSUME SwapInv, NEW p \in Proc, NEW e \in Event, Restore(p, e)
  PROVE  SwapInv'
<1> USE DEF SwapInv, RowsInv, TypeOK, Clean, faults, Restore, Goto, files, locks,
           rebuilds, history
<1>0. /\ exclusive = p
      /\ \A q \in Proc : pc[q] \notin InPass /\ (pc[q] \in Repairing => q = p)
      /\ \A r \in Rebuilder : rpc[r] \in {"idle", "wait"}
  BY RepairAlone DEF Repairing
<1>1. TypeOK'
  BY <1>0 DEF InPass, Staged, Repairing, Rows
<1>2. LocksHeld'
  BY <1>0, <1>1, ReindexActors DEF LocksHeld, InPass, Staged, Repairing
<1>3. PoolsKnown'
  BY <1>0, <1>1 DEF PoolsKnown, InPass, Staged, Repairing, Inode, NoFile
<1>4. Clean' => RowsKnown'
  BY <1>0, <1>1 DEF RowsKnown, InPass, Staged, Repairing
<1>5. Clean' => BuildKnown'
  BY <1>0, <1>1 DEF BuildKnown, Cursors
<1>6. Clean' => RepairKnown'
  BY <1>0, <1>1 DEF RepairKnown, InPass, Staged, Repairing
<1>7. PassesUseTheIndex'
  BY <1>1, <1>3 DEF PassesUseTheIndex, PoolsKnown, InPass, Staged
<1>8. IndexHoldsCommitted' /\ CursorsMatch'
  BY <1>0, <1>1 DEF PoolsKnown, IndexHoldsCommitted, CursorsMatch
<1>9. Clean' => WalIsTheIndexs'
  BY <1>0, <1>1 DEF WalIsTheIndexs, ForeignLog
<1> QED BY <1>1, <1>2, <1>3, <1>4, <1>5, <1>6, <1>7, <1>8, <1>9

LEMMA EndRepairInv ==
  ASSUME SwapInv, NEW p \in Proc, EndRepair(p)
  PROVE  SwapInv'
<1> USE DEF SwapInv, RowsInv, TypeOK, Clean, faults, EndRepair, Goto, truths, files,
           rebuilds, history
<1>0. /\ exclusive = p
      /\ \A q \in Proc : pc[q] \notin InPass /\ (pc[q] \in Repairing => q = p)
      /\ \A r \in Rebuilder : rpc[r] \in {"idle", "wait"}
  BY RepairAlone DEF Repairing
<1>1. TypeOK'
  BY <1>0 DEF InPass, Staged, Repairing, Rows
<1>2. LocksHeld'
  BY <1>0, <1>1, ReindexActors DEF LocksHeld, InPass, Staged, Repairing
<1>3. PoolsKnown'
  BY <1>0, <1>1 DEF PoolsKnown, InPass, Staged, Repairing, Inode, NoFile
<1>4. Clean' => RowsKnown'
  BY <1>0, <1>1 DEF RowsKnown, InPass, Staged, Repairing
<1>5. Clean' => BuildKnown'
  BY <1>0, <1>1 DEF BuildKnown, Cursors
<1>6. Clean' => RepairKnown'
  BY <1>0, <1>1 DEF RepairKnown, InPass, Staged, Repairing
<1>7. PassesUseTheIndex'
  BY <1>1, <1>3 DEF PassesUseTheIndex, PoolsKnown, InPass, Staged
<1>8. IndexHoldsCommitted' /\ CursorsMatch'
  BY <1>0, <1>1 DEF PoolsKnown, IndexHoldsCommitted, CursorsMatch
<1>9. Clean' => WalIsTheIndexs'
  BY <1>0, <1>1 DEF WalIsTheIndexs, ForeignLog
<1> QED BY <1>1, <1>2, <1>3, <1>4, <1>5, <1>6, <1>7, <1>8, <1>9

LEMMA StartInv ==
  ASSUME SwapInv, NEW r \in Rebuilder, Start(r)
  PROVE  SwapInv'
<1> USE DEF SwapInv, RowsInv, TypeOK, Clean, faults, Start, RebuildTo, truths, files,
           locks, procs, history
<1>1. TypeOK'
  BY DEF InPass, Staged, Repairing, Rows
<1>2. LocksHeld'
  BY <1>1, ReindexActors DEF LocksHeld, InPass, Staged, Repairing
<1>3. PoolsKnown'
  BY <1>1 DEF PoolsKnown, InPass, Staged, Repairing, Inode, NoFile
<1>4. Clean' => RowsKnown'
  BY <1>1 DEF RowsKnown, InPass, Staged, Repairing
<1>5. Clean' => BuildKnown'
  BY <1>1 DEF BuildKnown, Cursors
<1>6. Clean' => RepairKnown'
  BY <1>1 DEF RepairKnown, InPass, Staged, Repairing
<1>7. PassesUseTheIndex'
  BY <1>1, <1>3 DEF PassesUseTheIndex, PoolsKnown, InPass, Staged
<1>8. IndexHoldsCommitted' /\ CursorsMatch'
  BY <1>1 DEF PoolsKnown, IndexHoldsCommitted, CursorsMatch
<1>9. Clean' => WalIsTheIndexs'
  BY <1>1 DEF WalIsTheIndexs, ForeignLog
<1> QED BY <1>1, <1>2, <1>3, <1>4, <1>5, <1>6, <1>7, <1>8, <1>9

LEMMA LockInv ==
  ASSUME SwapInv, NEW r \in Rebuilder, Lock(r)
  PROVE  SwapInv'
<1> USE DEF SwapInv, RowsInv, TypeOK, Clean, faults, Lock, NoPass, RebuildTo, truths,
           files, procs, history
<1>1. TypeOK'
  BY DEF InPass, Staged, Repairing, Rows
<1>2. LocksHeld'
  BY <1>1, ReindexActors DEF LocksHeld, InPass, Staged, Repairing
<1>3. PoolsKnown'
  BY <1>1 DEF PoolsKnown, InPass, Staged, Repairing, Inode, NoFile
<1>4. Clean' => RowsKnown'
  BY <1>1 DEF RowsKnown, InPass, Staged, Repairing
<1>5. Clean' => BuildKnown'
  BY <1>1 DEF BuildKnown, Cursors
<1>6. Clean' => RepairKnown'
  BY <1>1 DEF RepairKnown, InPass, Staged, Repairing
<1>7. PassesUseTheIndex'
  BY <1>1, <1>3 DEF PassesUseTheIndex, PoolsKnown, InPass, Staged
<1>8. IndexHoldsCommitted' /\ CursorsMatch'
  BY <1>1 DEF PoolsKnown, IndexHoldsCommitted, CursorsMatch
<1>9. Clean' => WalIsTheIndexs'
  BY <1>1 DEF WalIsTheIndexs, ForeignLog
<1> QED BY <1>1, <1>2, <1>3, <1>4, <1>5, <1>6, <1>7, <1>8, <1>9

LEMMA ResolveInv ==
  ASSUME SwapInv, NEW r \in Rebuilder, Resolve(r)
  PROVE  SwapInv'
<1> USE DEF SwapInv, RowsInv, TypeOK, Clean, faults, Resolve, RebuildTo, files, locks,
           procs, history
<1>0. /\ exclusive = r /\ shared = {}
      /\ \A p \in Proc : pc[p] \notin InPass \cup Repairing
      /\ \A q \in Rebuilder : rpc[q] \in {"idle", "wait"} \/ q = r
  BY RebuildAlone, ReindexActors DEF LocksHeld
<1>1. TypeOK'
  BY <1>0 DEF InPass, Staged, Repairing, Rows
<1>2. LocksHeld'
  BY <1>0, <1>1, ReindexActors DEF LocksHeld, InPass, Staged, Repairing
<1>3. PoolsKnown'
  BY <1>0, <1>1 DEF PoolsKnown, InPass, Staged, Repairing, Inode, NoFile
<1>4. Clean' => RowsKnown'
  BY <1>0, <1>1 DEF RowsKnown, InPass, Staged, Repairing
<1>5. Clean' => BuildKnown'
  BY <1>0, <1>1 DEF BuildKnown, Cursors
<1>6. Clean' => RepairKnown'
  BY <1>0, <1>1 DEF RepairKnown, InPass, Staged, Repairing
<1>7. PassesUseTheIndex'
  BY <1>1, <1>3 DEF PassesUseTheIndex, PoolsKnown, InPass, Staged
<1>8. IndexHoldsCommitted' /\ CursorsMatch'
  BY <1>0, <1>1 DEF PoolsKnown, IndexHoldsCommitted, CursorsMatch
<1>9. Clean' => WalIsTheIndexs'
  BY <1>0, <1>1 DEF WalIsTheIndexs, ForeignLog
<1> QED BY <1>1, <1>2, <1>3, <1>4, <1>5, <1>6, <1>7, <1>8, <1>9

LEMMA LoadInv ==
  ASSUME SwapInv, NEW r \in Rebuilder, Load(r)
  PROVE  SwapInv'
<1> USE DEF SwapInv, RowsInv, TypeOK, Clean, faults, Load, RebuildTo, truths, files,
           locks, procs, history
<1>0. /\ exclusive = r /\ shared = {}
      /\ \A p \in Proc : pc[p] \notin InPass \cup Repairing
      /\ \A q \in Rebuilder : rpc[q] \in {"idle", "wait"} \/ q = r
  BY RebuildAlone, ReindexActors DEF LocksHeld
<1>1. TypeOK'
  BY <1>0 DEF InPass, Staged, Repairing, Rows
<1>2. LocksHeld'
  BY <1>0, <1>1, ReindexActors DEF LocksHeld, InPass, Staged, Repairing
<1>3. PoolsKnown'
  BY <1>0, <1>1 DEF PoolsKnown, InPass, Staged, Repairing, Inode, NoFile
<1>4. Clean' => RowsKnown'
  BY <1>0, <1>1 DEF RowsKnown, InPass, Staged, Repairing
<1>5. Clean' => BuildKnown'
  BY <1>0, <1>1 DEF BuildKnown, Cursors
<1>6. Clean' => RepairKnown'
  BY <1>0, <1>1 DEF RepairKnown, InPass, Staged, Repairing
<1>7. PassesUseTheIndex'
  BY <1>1, <1>3 DEF PassesUseTheIndex, PoolsKnown, InPass, Staged
<1>8. IndexHoldsCommitted' /\ CursorsMatch'
  BY <1>0, <1>1 DEF PoolsKnown, IndexHoldsCommitted, CursorsMatch
<1>9. Clean' => WalIsTheIndexs'
  BY <1>0, <1>1 DEF WalIsTheIndexs, ForeignLog
<1> QED BY <1>1, <1>2, <1>3, <1>4, <1>5, <1>6, <1>7, <1>8, <1>9

LEMMA CarryImportStateInv ==
  ASSUME SwapInv, NEW r \in Rebuilder, CarryImportState(r)
  PROVE  SwapInv'
<1> USE DEF SwapInv, RowsInv, TypeOK, Clean, faults, CarryImportState, RebuildTo,
           truths, files, locks, procs, history
<1>0. /\ exclusive = r /\ shared = {}
      /\ \A p \in Proc : pc[p] \notin InPass \cup Repairing
      /\ \A q \in Rebuilder : rpc[q] \in {"idle", "wait"} \/ q = r
  BY RebuildAlone, ReindexActors DEF LocksHeld
<1>1. TypeOK'
  <2>1. build[r] \in Rows /\ Cursors(r) \subseteq Event
    BY DEF Cursors, Rows
  <2>2. [build[r] EXCEPT !.cur = Cursors(r)] \in Rows
    BY <2>1 DEF Rows
  <2>3. build' \in [Rebuilder -> Rows]
    BY <2>2
  <2> QED BY <2>3
<1>2. LocksHeld'
  BY <1>0, <1>1, ReindexActors DEF LocksHeld, InPass, Staged, Repairing
<1>3. PoolsKnown'
  BY <1>0, <1>1 DEF PoolsKnown, InPass, Staged, Repairing, Inode, NoFile
<1>4. Clean' => RowsKnown'
  BY <1>0, <1>1 DEF RowsKnown, InPass, Staged, Repairing
<1>5. Clean' => BuildKnown'
  BY <1>0, <1>1 DEF BuildKnown, Cursors
<1>6. Clean' => RepairKnown'
  BY <1>0, <1>1 DEF RepairKnown, InPass, Staged, Repairing
<1>7. PassesUseTheIndex'
  BY <1>1, <1>3 DEF PassesUseTheIndex, PoolsKnown, InPass, Staged
<1>8. IndexHoldsCommitted' /\ CursorsMatch'
  BY <1>0, <1>1 DEF PoolsKnown, IndexHoldsCommitted, CursorsMatch
<1>9. Clean' => WalIsTheIndexs'
  BY <1>0, <1>1 DEF WalIsTheIndexs, ForeignLog
<1> QED BY <1>1, <1>2, <1>3, <1>4, <1>5, <1>6, <1>7, <1>8, <1>9

LEMMA RefuseInv ==
  ASSUME SwapInv, NEW r \in Rebuilder, Refuse(r)
  PROVE  SwapInv'
<1> USE DEF SwapInv, RowsInv, TypeOK, Clean, faults, Refuse, Leave, RebuildTo, NoRows,
           truths, files, procs, history
<1>0. /\ exclusive = r /\ shared = {}
      /\ \A p \in Proc : pc[p] \notin InPass \cup Repairing
      /\ \A q \in Rebuilder : rpc[q] \in {"idle", "wait"} \/ q = r
  BY RebuildAlone, ReindexActors DEF LocksHeld
<1>1. TypeOK'
  BY <1>0 DEF InPass, Staged, Repairing, Rows
<1>2. LocksHeld'
  BY <1>0, <1>1, ReindexActors DEF LocksHeld, InPass, Staged, Repairing
<1>3. PoolsKnown'
  BY <1>0, <1>1 DEF PoolsKnown, InPass, Staged, Repairing, Inode, NoFile
<1>4. Clean' => RowsKnown'
  BY <1>0, <1>1 DEF RowsKnown, InPass, Staged, Repairing
<1>5. Clean' => BuildKnown'
  BY <1>0, <1>1 DEF BuildKnown, Cursors
<1>6. Clean' => RepairKnown'
  BY <1>0, <1>1 DEF RepairKnown, InPass, Staged, Repairing
<1>7. PassesUseTheIndex'
  BY <1>1, <1>3 DEF PassesUseTheIndex, PoolsKnown, InPass, Staged
<1>8. IndexHoldsCommitted' /\ CursorsMatch'
  BY <1>0, <1>1 DEF PoolsKnown, IndexHoldsCommitted, CursorsMatch
<1>9. Clean' => WalIsTheIndexs'
  BY <1>0, <1>1 DEF WalIsTheIndexs, ForeignLog
<1> QED BY <1>1, <1>2, <1>3, <1>4, <1>5, <1>6, <1>7, <1>8, <1>9

LEMMA PublishInv ==
  ASSUME SwapInv, NEW r \in Rebuilder, Publish(r)
  PROVE  SwapInv'
<1> USE DEF SwapInv, RowsInv, TypeOK, Clean, faults, Publish, Replace, Regressed,
           RebuildTo, truths, locks, procs
<1>0. /\ exclusive = r /\ shared = {}
      /\ \A p \in Proc : pc[p] \notin InPass \cup Repairing
      /\ \A q \in Rebuilder : rpc[q] \in {"idle", "wait"} \/ q = r
  BY RebuildAlone, ReindexActors DEF LocksHeld
<1>a. /\ index' = made + 1 /\ index' \in Inode /\ index' # index
      /\ file' \in [Inode -> Rows] /\ file'[index'] = build[r]
  BY ReindexBounds DEF PoolsKnown, Inode
<1>b. Clean => /\ build[r].ev = truth
               /\ build[r].cur = (snapshot \cup file[index].cur) \cap (truth \cup bare)
  BY DEF BuildKnown, Cursors
<1>c. file[index] \in Rows
  OBVIOUS
<1>1. TypeOK'
  BY <1>a
<1>2. LocksHeld'
  BY <1>0, <1>1, ReindexActors DEF LocksHeld, InPass, Staged, Repairing
<1>3. PoolsKnown'
  BY <1>0, <1>1 DEF PoolsKnown, InPass, Staged, Repairing, Inode, NoFile
<1>4. Clean' => RowsKnown'
  BY <1>0, <1>a, <1>b, <1>c DEF RowsKnown, CursorsMatch, Staged, InPass
<1>5. Clean' => BuildKnown'
  BY <1>0, <1>1 DEF BuildKnown, Cursors
<1>6. Clean' => RepairKnown'
  BY <1>0, <1>1 DEF RepairKnown, InPass, Staged, Repairing
<1>7. PassesUseTheIndex'
  BY <1>1, <1>3 DEF PassesUseTheIndex, PoolsKnown, InPass, Staged
<1>8. IndexHoldsCommitted' /\ CursorsMatch'
  BY <1>a, <1>b, <1>c DEF RowsKnown, IndexHoldsCommitted, CursorsMatch
<1>9. Clean' => WalIsTheIndexs'
  BY <1>0, <1>1 DEF WalIsTheIndexs, ForeignLog
<1> QED BY <1>1, <1>2, <1>3, <1>4, <1>5, <1>6, <1>7, <1>8, <1>9

LEMMA SalvageInv ==
  ASSUME SwapInv, NEW r \in Rebuilder, Salvage(r)
  PROVE  SwapInv'
<1> USE DEF SwapInv, RowsInv, TypeOK, Clean, faults, Salvage, Replace, Regressed,
           RebuildTo, truths, locks, procs
<1>0. /\ exclusive = r /\ shared = {}
      /\ \A p \in Proc : pc[p] \notin InPass \cup Repairing
      /\ \A q \in Rebuilder : rpc[q] \in {"idle", "wait"} \/ q = r
  BY RebuildAlone, ReindexActors DEF LocksHeld
<1>a. /\ index' = made + 1 /\ index' \in Inode /\ index' # index
      /\ file' \in [Inode -> Rows] /\ file'[index'] = build[r]
  BY ReindexBounds DEF PoolsKnown, Inode
<1>b. Clean => /\ build[r].ev = truth
               /\ build[r].cur = (snapshot \cup file[index].cur) \cap (truth \cup bare)
  BY DEF BuildKnown, Cursors
<1>c. file[index] \in Rows
  OBVIOUS
<1>1. TypeOK'
  BY <1>a
<1>2. LocksHeld'
  BY <1>0, <1>1, ReindexActors DEF LocksHeld, InPass, Staged, Repairing
<1>3. PoolsKnown'
  BY <1>0, <1>1 DEF PoolsKnown, InPass, Staged, Repairing, Inode, NoFile
<1>4. Clean' => RowsKnown'
  BY <1>0, <1>a, <1>b, <1>c DEF RowsKnown, CursorsMatch, Staged, InPass
<1>5. Clean' => BuildKnown'
  BY <1>0, <1>1 DEF BuildKnown, Cursors
<1>6. Clean' => RepairKnown'
  BY <1>0, <1>1 DEF RepairKnown, InPass, Staged, Repairing
<1>7. PassesUseTheIndex'
  BY <1>1, <1>3 DEF PassesUseTheIndex, PoolsKnown, InPass, Staged
<1>8. IndexHoldsCommitted' /\ CursorsMatch'
  BY <1>a, <1>b, <1>c DEF RowsKnown, IndexHoldsCommitted, CursorsMatch
<1>9. Clean' => WalIsTheIndexs'
  BY <1>0, <1>1 DEF WalIsTheIndexs, ForeignLog
<1> QED BY <1>1, <1>2, <1>3, <1>4, <1>5, <1>6, <1>7, <1>8, <1>9

LEMMA UnlinkWalInv ==
  ASSUME SwapInv, NEW r \in Rebuilder, UnlinkWal(r)
  PROVE  SwapInv'
<1> USE DEF SwapInv, RowsInv, TypeOK, Clean, faults, UnlinkWal, Leave, RebuildTo,
           NoRows, truths, procs, history, NoFile
<1>0. /\ exclusive = r /\ shared = {}
      /\ \A p \in Proc : pc[p] \notin InPass \cup Repairing
      /\ \A q \in Rebuilder : rpc[q] \in {"idle", "wait"} \/ q = r
  BY RebuildAlone, ReindexActors DEF LocksHeld
<1>1. TypeOK'
  BY <1>0 DEF InPass, Staged, Repairing, Rows
<1>2. LocksHeld'
  BY <1>0, <1>1, ReindexActors DEF LocksHeld, InPass, Staged, Repairing
<1>3. PoolsKnown'
  BY <1>0, <1>1 DEF PoolsKnown, InPass, Staged, Repairing, Inode
<1>4. Clean' => RowsKnown'
  BY <1>0, <1>1 DEF RowsKnown, InPass, Staged, Repairing
<1>5. Clean' => BuildKnown'
  BY <1>0, <1>1 DEF BuildKnown, Cursors
<1>6. Clean' => RepairKnown'
  BY <1>0, <1>1 DEF RepairKnown, InPass, Staged, Repairing
<1>7. PassesUseTheIndex'
  BY <1>1, <1>3 DEF PassesUseTheIndex, PoolsKnown, InPass, Staged
<1>8. IndexHoldsCommitted' /\ CursorsMatch'
  BY <1>0, <1>1 DEF PoolsKnown, IndexHoldsCommitted, CursorsMatch
<1>9. Clean' => WalIsTheIndexs'
  BY <1>0, <1>1 DEF WalIsTheIndexs, ForeignLog
<1> QED BY <1>1, <1>2, <1>3, <1>4, <1>5, <1>6, <1>7, <1>8, <1>9

LEMMA KillRebuildInv ==
  ASSUME SwapInv, NEW r \in Rebuilder, KillRebuild(r)
  PROVE  SwapInv'
<1> USE DEF SwapInv, RowsInv, TypeOK, Clean, faults, KillRebuild, RebuildTo, NoRows,
           truths, files, procs, history
<1>0. /\ \A q \in Rebuilder : rpc[q] = "swapped" => exclusive = q
      /\ \A p \in Proc : exclusive = p => exclusive # r
  BY ReindexActors DEF LocksHeld
<1>a. Clean' => Clean /\ ~(rpc[r] = "swapped" /\ ForeignLog)
  BY DEF ForeignLog
<1>1. TypeOK'
  BY <1>0 DEF InPass, Staged, Repairing, Rows
<1>2. LocksHeld'
  BY <1>0, <1>1, ReindexActors DEF LocksHeld, InPass, Staged, Repairing
<1>3. PoolsKnown'
  BY <1>0, <1>1 DEF PoolsKnown, InPass, Staged, Repairing, Inode, NoFile
<1>4. Clean' => RowsKnown'
  BY <1>0, <1>1, <1>a DEF RowsKnown, InPass, Staged, Repairing
<1>5. Clean' => BuildKnown'
  BY <1>0, <1>1, <1>a DEF BuildKnown, Cursors
<1>6. Clean' => RepairKnown'
  BY <1>0, <1>1, <1>a DEF RepairKnown, InPass, Staged, Repairing
<1>7. PassesUseTheIndex'
  BY <1>1, <1>3 DEF PassesUseTheIndex, PoolsKnown, InPass, Staged
<1>8. IndexHoldsCommitted' /\ CursorsMatch'
  BY <1>0, <1>1, <1>a DEF PoolsKnown, IndexHoldsCommitted, CursorsMatch
<1>9. Clean' => WalIsTheIndexs'
  BY <1>0, <1>1, <1>a DEF WalIsTheIndexs, ForeignLog
<1> QED BY <1>1, <1>2, <1>3, <1>4, <1>5, <1>6, <1>7, <1>8, <1>9

(* The line alone, or the whole file.                                      *)
LEMMA DamageInv ==
  ASSUME SwapInv, NEW e \in Event, Damage(e), bare' = bare \cup {e} \/ bare' = bare \ {e}
  PROVE  SwapInv'
<1> USE DEF SwapInv, RowsInv, TypeOK, Clean, Damage, files, locks, procs,
           rebuilds, history
<1>0. /\ \A p \in Proc : pc[p] \notin Repairing
      /\ \A r \in Rebuilder : rpc[r] \in {"idle", "wait"}
  BY ReindexActors DEF LocksHeld
<1>1. TypeOK'
  BY <1>0 DEF InPass, Staged, Repairing, Rows
<1>2. LocksHeld'
  BY <1>0, <1>1, ReindexActors DEF LocksHeld, InPass, Staged, Repairing
<1>3. PoolsKnown'
  BY <1>0, <1>1 DEF PoolsKnown, InPass, Staged, Repairing, Inode, NoFile
<1>4. Clean' => RowsKnown'
  BY <1>1 DEF RowsKnown, Staged
<1>5. Clean' => BuildKnown'
  BY <1>0, <1>1 DEF BuildKnown, Cursors
<1>6. Clean' => RepairKnown'
  BY <1>0, <1>1 DEF RepairKnown, InPass, Staged, Repairing
<1>7. PassesUseTheIndex'
  BY <1>1, <1>3 DEF PassesUseTheIndex, PoolsKnown, InPass, Staged
<1>8. IndexHoldsCommitted' /\ CursorsMatch'
  BY <1>0, <1>1 DEF PoolsKnown, IndexHoldsCommitted, CursorsMatch
<1>9. Clean' => WalIsTheIndexs'
  BY <1>0, <1>1 DEF WalIsTheIndexs, ForeignLog
<1> QED BY <1>1, <1>2, <1>3, <1>4, <1>5, <1>6, <1>7, <1>8, <1>9

LEMMA RotInv ==
  ASSUME SwapInv, NEW e \in Event, Rot(e) \/ LoseFile(e)
  PROVE  SwapInv'
BY DamageInv DEF Rot, LoseFile
-----------------------------------------------------------------------------
LEMMA StutterInv == ASSUME SwapInv, UNCHANGED vars PROVE SwapInv'
BY DEF SwapInv, TypeOK, LocksHeld, PoolsKnown, RowsKnown, BuildKnown, RepairKnown, Cursors,
   PassesUseTheIndex, IndexHoldsCommitted, CursorsMatch, WalIsTheIndexs, ForeignLog, Clean,
   RowsInv, vars, truths, files, locks, procs, rebuilds, history, faults

LEMMA StepInv ==
  ASSUME SwapInv, Next
  PROVE  SwapInv'
<1>1. CASE \E p \in Proc : Open(p) \/ InitDb(p) \/ Acquire(p) \/ Pass(p) \/ CommitFails(p)
                          \/ Checkpoint(p)
  BY <1>1, OpenInv, InitDbInv, AcquireInv, FirstUseInv, StartDrainInv, FinishDrainInv, CommitInv,
     ReleaseInv, CommitFailsInv, CheckpointInv DEF Pass
<1>2. CASE \E p \in Proc : LockRepair(p) \/ Scan(p) \/ EndRepair(p) \/ Kill(p)
  BY <1>2, LockRepairInv, ScanInv, EndRepairInv, KillInv
<1>3. CASE \E p \in Proc, e \in Event : Stage(p, e) \/ Restore(p, e)
  BY <1>3, StageInv, RestoreInv
<1>4. CASE \E r \in Rebuilder : Start(r) \/ Lock(r) \/ Reindex(r) \/ KillRebuild(r)
  BY <1>4, StartInv, LockInv, ResolveInv, LoadInv, CarryImportStateInv, RefuseInv, PublishInv,
     SalvageInv, UnlinkWalInv, KillRebuildInv DEF Reindex
<1>5. CASE \E e \in Event : Rot(e) \/ LoseFile(e)
  BY <1>5, RotInv
<1> QED BY <1>1, <1>2, <1>3, <1>4, <1>5 DEF Next

(* The invariant of the swap holds in every reachable state: what it says  *)
(* of locks and connections always, what it says of rows and logs until a  *)
(* rebuild dies between its rename and the unlink of a foreign log.        *)
THEOREM SwapInvariant == Spec => []SwapInv
<1>1. SwapInv /\ [Next]_vars => SwapInv'
  BY StepInv, StutterInv
<1> QED BY <1>1, InitInv, PTL DEF Spec

(* No commit goes to a file that was swapped out.                          *)
THEOREM NoCommitAstray == Spec => []PassesUseTheIndex
<1>1. SwapInv => PassesUseTheIndex
  BY DEF SwapInv
<1> QED BY <1>1, SwapInvariant, PTL

(* What a commit made visible stays in the index, unless a salvage gives   *)
(* it up and no import brings it back.                                     *)
THEOREM NothingCommittedLost == Spec => []IndexHoldsCommitted
<1>1. SwapInv => IndexHoldsCommitted
  BY DEF SwapInv, RowsInv, IndexHoldsCommitted
<1> QED BY <1>1, SwapInvariant, PTL

(* No rebuild leaves a cursor over a line the index lacks, except where a  *)
(* salvage published the thread without the line, nor loses the cursor of  *)
(* a line the index has.                                                   *)
THEOREM CursorsSound == Spec => []CursorsMatch
<1>1. SwapInv => CursorsMatch
  BY DEF SwapInv, RowsInv, CursorsMatch
<1> QED BY <1>1, SwapInvariant, PTL
-----------------------------------------------------------------------------
(* The refinement.  What the abstract store sees of the rows of an action. *)
LEMMA PassStep ==
  ASSUME SwapInv, Clean, NEW p \in Proc, pc[p] \in Staged
  PROVE  conn[p] = index /\ \E e \in Event : todo[p] = {e}
BY DEF SwapInv, RowsInv, PoolsKnown, RowsKnown

(* A foreign log that a rebuild left is never forgotten.                   *)
LEMMA CleanBefore == ASSUME SwapInv, Next, Clean' PROVE Clean
<1>1. CASE \E r \in Rebuilder : KillRebuild(r)
  BY <1>1 DEF KillRebuild, ForeignLog, Clean
<1>2. CASE UNCHANGED stray
  BY <1>2 DEF Clean
<1>3. (\E r \in Rebuilder : KillRebuild(r)) \/ UNCHANGED stray
  BY DEF Next, Pass, Reindex, Open, InitDb, Acquire, FirstUse, StartDrain, FinishDrain, Commit,
     Release, CommitFails, Checkpoint, LockRepair, Scan, EndRepair, Kill, Connect, Stage, Restore,
     Start, Lock, Resolve, Load, CarryImportState, Refuse, Publish, Salvage, Replace, UnlinkWal,
     Rot, LoseFile, Damage, history
<1> QED BY <1>1, <1>2, <1>3

LEMMA StoreStep ==
  ASSUME SwapInv, SwapInv', Clean, Next
  PROVE  Store!Next \/ UNCHANGED <<truth, file[index].ev>>
<1>1. CASE \E p \in Proc : Open(p) \/ InitDb(p) \/ Acquire(p) \/ FirstUse(p) \/ StartDrain(p)
                          \/ Release(p) \/ Checkpoint(p) \/ Kill(p)
  BY <1>1 DEF Open, InitDb, Acquire, FirstUse, Connect, StartDrain, Release, Checkpoint, Kill,
     truths, files, SwapInv, TypeOK
<1>2. ASSUME NEW p \in Proc, FinishDrain(p)
      PROVE  \E e \in Event : Store!Log(e)
  <2>1. PICK e \in Event : todo[p] = {e}
    BY <1>2, PassStep DEF FinishDrain, Staged
  <2> QED BY <1>2, <2>1 DEF FinishDrain, Store!Log, files
<1>3. ASSUME NEW p \in Proc, Commit(p)
      PROVE  Store!Next \/ UNCHANGED <<truth, file[index].ev>>
  <2>1. PICK e \in Event : todo[p] = {e}
    BY <1>3, PassStep DEF Commit, Staged
  <2>2. conn[p] = index /\ index' = index /\ truth' = truth
    BY <1>3, PassStep DEF Commit, Staged, truths
  <2>3. file'[index].ev = file[index].ev \cup {e}
    BY <1>3, <2>1, <2>2 DEF Commit, SwapInv, TypeOK
  <2>4. e \in truth \/ e \in file[index].ev
    BY <1>3, <2>1 DEF Commit, SwapInv, RowsInv, RowsKnown
  <2>5. CASE e \in truth
    BY <2>2, <2>3, <2>5 DEF Store!Next, Store!Index
  <2>6. CASE e \in file[index].ev
    BY <2>2, <2>3, <2>6
  <2> QED BY <2>4, <2>5, <2>6
<1>4. ASSUME NEW p \in Proc, CommitFails(p)
      PROVE  Store!Next \/ UNCHANGED <<truth, file[index].ev>>
  <2>1. PICK e \in Event : todo[p] = {e}
    BY <1>4, PassStep DEF CommitFails, Staged
  <2>2. UNCHANGED file[index].ev /\ (truth' = truth \/ truth' = truth \ {e})
    BY <1>4, <2>1 DEF CommitFails, files
  <2> QED BY <2>2 DEF Store!Next, Store!Drop
<1>5. ASSUME NEW p \in Proc, NEW e \in Event, Restore(p, e)
      PROVE  Store!Log(e)
  BY <1>5 DEF Restore, files, Store!Log
<1>6. CASE \E p \in Proc : LockRepair(p) \/ Scan(p) \/ EndRepair(p) \/ \E e \in Event : Stage(p, e)
  BY <1>6 DEF LockRepair, Scan, EndRepair, Stage, truths, files
<1>7. ASSUME NEW r \in Rebuilder, Publish(r) \/ Salvage(r)
      PROVE  Store!Rebuild
  <2>1. file'[index'] = build[r] /\ truth' = truth
    BY <1>7, ReindexBounds DEF Publish, Salvage, Replace, SwapInv, TypeOK, Inode, truths
  <2>2. build[r].ev = truth
    BY <1>7 DEF Publish, Salvage, Replace, SwapInv, RowsInv, BuildKnown
  <2> QED BY <2>1, <2>2 DEF Store!Rebuild
<1>8. CASE \E r \in Rebuilder : Start(r) \/ Lock(r) \/ Resolve(r) \/ Load(r) \/ CarryImportState(r)
                              \/ Refuse(r) \/ UnlinkWal(r) \/ KillRebuild(r)
  BY <1>8 DEF Start, Lock, Resolve, Load, CarryImportState, Refuse, UnlinkWal, KillRebuild, truths,
     files
<1>9. ASSUME NEW e \in Event, Rot(e) \/ LoseFile(e)
      PROVE  Store!Drop(e)
  BY <1>9 DEF Rot, LoseFile, Damage, files, Store!Drop
<1> QED
  BY <1>1, <1>2, <1>3, <1>4, <1>5, <1>6, <1>7, <1>8, <1>9 DEF Next, Pass, Reindex, Store!Next

(* A rebuild is one step from the index to the image of the truth, and     *)
(* what is indexed is durable in the truth first, until a foreign log is   *)
(* left beside the index.                                                  *)
THEOREM SwapRefinement == Spec => SwapsAtomically
<1>1. Init => Store!Init
  BY ReindexBounds DEF Init, Store!Init, Inode, NoRows
<1>2. SwapInv /\ SwapInv' /\ [Next]_vars => [Clean' => Store!Next]_<<truth, file[index].ev>>
  <2>1. CASE Next
    BY <2>1, StoreStep, CleanBefore
  <2>2. CASE UNCHANGED vars
    BY <2>2 DEF vars, truths, files
  <2> QED BY <2>1, <2>2
<1> QED BY <1>1, <1>2, SwapInvariant, PTL DEF Spec, SwapsAtomically
================================================================================
