------------------------- MODULE TruthDrainRowProofs --------------------------
(***************************************************************************)
(* Theorems about where the rows of a batch are: what a drain that died    *)
(* leaves, and what a rollback cuts.  A batch with rows and no footprint   *)
(* has its frame in place and none of its ids in the index, so whoever     *)
(* takes the mutex next rolls it back; a committed row is a durable, whole *)
(* line below every baseline a rollback may cut to.                        *)
(***************************************************************************)
EXTENDS TruthDrainProofs

-----------------------------------------------------------------------------
(* The ids a batch may use are known from its flush on.                    *)

LEMMA IdsFacts ==
  ASSUME NEW t \in Txn
  PROVE  /\ HasInserts(t) <=> EventIds(t) # {}
         /\ TypeOK => \A id \in EventIds(t) : id \in Nat /\ id > first[t]
         /\ first'[t] = first[t] => EventIds(t)' = EventIds(t)
<1>1. \A i \in EventRows(t) : Batch[t][i].nth \in Nat /\ Batch[t][i].nth > 0
  BY BatchFacts DEF EventRows
<1>2. TypeOK => \A id \in EventIds(t) : id \in Nat /\ id > first[t]
  BY <1>1 DEF EventIds, TypeOK
<1>3. HasInserts(t) <=> EventIds(t) # {}
  BY DEF HasInserts, EventIds
<1>4. first'[t] = first[t] => EventIds(t)' = EventIds(t)
  BY DEF EventIds, EventRows
<1> QED BY <1>2, <1>3, <1>4

LEMMA IndexSame ==
  ASSUME UNCHANGED <<committed, first>>
  PROVE  IndexIds' = IndexIds /\ \A t : EventIds(t)' = EventIds(t)
BY DEF IndexIds, EventIds

(* A step that lets nobody nearer to COMMIT, and takes the write lock from *)
(* nobody who still is before it.                                          *)
LEMMA IdsQuiet ==
  ASSUME IdsInv, UNCHANGED <<committed, first, highWater>>,
         \A u \in Txn : HasInserts(u) /\ BeforeCommit(u)' => BeforeCommit(u),
         \A u \in Txn : dbLock = u /\ BeforeCommit(u)' => dbLock' = u
  PROVE  IdsInv'
BY IndexSame DEF IdsInv

(* A step of t that keeps the footprints and moves its counter to l.       *)
LEMMA IdsMove ==
  ASSUME TypeOK, IdsInv, UNCHANGED <<committed, first, highWater, post>>,
         NEW t \in Txn, NEW l, pc' = [pc EXCEPT ![t] = l],
         l \in Writing \/ (l \in {"recover", "rollback"} /\ ~Drained(t)) => BeforeCommit(t),
         dbLock' = dbLock \/ (dbLock = t /\ l \notin Writing \cup {"recover", "rollback"})
  PROVE  IdsInv'
<1>1. \A u : Drained(u)' <=> Drained(u)
  BY DEF Drained
<1>2. pc'[t] = l /\ \A u \in Txn \ {t} : pc'[u] = pc[u]
  BY DEF TypeOK
<1>3. \A u \in Txn \ {t} : BeforeCommit(u)' <=> BeforeCommit(u)
  BY <1>1, <1>2 DEF BeforeCommit
<1>4. BeforeCommit(t)' <=> l \in Writing \/ (l \in {"recover", "rollback"} /\ ~Drained(t))
  BY <1>1, <1>2 DEF BeforeCommit
<1> QED BY <1>3, <1>4, IdsQuiet

LEMMA IdsRecover ==
  ASSUME IInv, IdsInv, NEW t \in Txn, Acquire(t) \/ Recover(t)
  PROVE  IdsInv'
<1>0. TypeOK /\ SessionInv(t)
  BY DEF IInv
<1>1. CASE Acquire(t)
  <2>1. pc[t] = "staged" => BeforeCommit(t)
    BY DEF BeforeCommit, Writing
  <2>2. pc[t] = "undoWait" => Drained(t)
    BY <1>0, FootprintFacts DEF SessionInv
  <2> QED BY <1>0, <1>1, <2>1, <2>2, IdsMove DEF Acquire, Goto, dbVars, drainVars, Writing
<1>2. CASE RecoverNothing(t) \/ RecoverKeep(t) \/ RecoverDone(t)
  <2>1. pc' = [pc EXCEPT ![t] = AfterRecovery(t)] /\ pc[t] \in {"recover", "rollback"}
        /\ UNCHANGED <<dbLock, committed, first, highWater, post>>
    BY <1>2 DEF RecoverNothing, RecoverKeep, RecoverDone, Goto, dbVars, drainVars
  <2>2. AfterRecovery(t) \in Writing \cup {"recover", "rollback"} => ~Drained(t)
    BY DEF AfterRecovery, Writing
  <2>3. AfterRecovery(t) \in Writing \cup {"recover", "rollback"} => BeforeCommit(t)
    BY <2>1, <2>2 DEF BeforeCommit
  <2> QED BY <1>0, <2>1, <2>3, IdsMove
<1>3. CASE RecoverUncommitted(t)
  BY <1>0, <1>3, IdsMove DEF RecoverUncommitted, Goto, dbVars, drainVars, BeforeCommit, Writing
<1>4. ASSUME NEW f \in File, RecoverFile(t, f) PROVE IdsInv'
  BY <1>4, IdsQuiet DEF RecoverFile, dbVars, drainVars, BeforeCommit, Drained
<1> QED BY <1>1, <1>2, <1>3, <1>4 DEF Recover

LEMMA IdsDrain ==
  ASSUME IInv, IdsInv, NEW t \in Txn, Drain(t)
  PROVE  IdsInv'
<1>0. TypeOK /\ SessionInv(t)
  BY DEF IInv
<1>1. ASSUME NEW f \in File, OpenHandle(t, f) \/ FsyncFile(t, f) PROVE IdsInv'
  BY <1>1, IdsQuiet DEF OpenHandle, FsyncFile, dbVars, drainVars, BeforeCommit, Drained
<1>2. CASE WriteIntent(t)
  BY <1>0, <1>2, IdsMove DEF WriteIntent, Goto, dbVars, drainVars, BeforeCommit, Writing
<1>3. CASE SyncIntent(t)
  BY <1>0, <1>3, IdsMove DEF SyncIntent, Goto, dbVars, drainVars, BeforeCommit, Writing
<1>4. CASE AppendRow(t)
  BY <1>4, IdsQuiet DEF AppendRow, dbVars, BeforeCommit, Drained
<1>5. CASE ClearIntent(t) \/ ClearIntentFails(t)
  <2>1. /\ pc' = [pc EXCEPT ![t] = "drained"] /\ pc[t] = "append"
        /\ UNCHANGED <<dbLock, committed, first, highWater>>
    BY <1>5 DEF ClearIntent, ClearIntentFails, FinishDrain, Goto, dbVars
  <2>2. \A u \in Txn \ {t} : pc'[u] = pc[u] /\ post'[u] = post[u]
    BY <1>0, <1>5 DEF ClearIntent, ClearIntentFails, FinishDrain, Goto, TypeOK
  <2>3. \A u \in Txn \ {t} : BeforeCommit(u)' <=> BeforeCommit(u)
    BY <2>2 DEF BeforeCommit, Drained
  <2>4. BeforeCommit(t)
    BY <2>1 DEF BeforeCommit, Writing
  <2> QED BY <2>1, <2>3, <2>4, IdsQuiet
<1> QED BY <1>1, <1>2, <1>3, <1>4, <1>5 DEF Drain

LEMMA IdsUndo ==
  ASSUME IInv, IdsInv, NEW t \in Txn, Unwind(t) \/ Undo(t)
  PROVE  IdsInv'
<1>0. TypeOK
  BY DEF IInv
<1>1. ASSUME NEW f \in File, UnwindFile(t, f) \/ UndoFile(t, f) PROVE IdsInv'
  BY <1>1, IdsQuiet DEF UnwindFile, UndoFile, dbVars, drainVars, BeforeCommit, Drained
<1>2. CASE UnwindDone(t) \/ UndoDone(t)
  <2>1. /\ pc' = [pc EXCEPT ![t] = "aborted"]
        /\ UNCHANGED <<committed, first, highWater, post>>
        /\ dbLock' = dbLock \/ (dbLock = t /\ dbLock' = NoTxn)
    BY <1>2 DEF UnwindDone, UndoDone, Goto, ReleaseLocks, drainVars
  <2> QED BY <1>0, <2>1, IdsMove DEF Writing
<1>3. CASE UndoKeep(t) \/ UndoNeeded(t)
  <2>1. /\ pc' = [pc EXCEPT ![t] = "kept"] \/ pc' = [pc EXCEPT ![t] = "undoWait"]
        /\ UNCHANGED <<dbLock, committed, first, highWater, post>>
    BY <1>3 DEF UndoKeep, UndoNeeded, Goto, dbVars, drainVars
  <2> QED BY <1>0, <2>1, IdsMove DEF Writing
<1> QED BY <1>1, <1>2, <1>3 DEF Unwind, Undo
(* The flush takes the lock and its ids are above the high water.          *)
LEMMA IdsStage == ASSUME IInv, IdsInv, NEW t \in Txn, Stage(t) PROVE IdsInv'
<1> USE NotSessions
<1>0. TypeOK /\ pc[t] = "idle" /\ t \notin committed
  BY DEF IInv, SessionInv, Stage
<1>1. /\ UNCHANGED <<committed, highWater, post>> /\ pc' = [pc EXCEPT ![t] = "staged"]
      /\ IF HasInserts(t) THEN dbLock = NoTxn /\ dbLock' = t /\ first' = [first EXCEPT ![t] = highWater]
         ELSE UNCHANGED <<dbLock, first>>
  BY DEF Stage, Goto, drainVars
<1>2. /\ \A u \in Txn \ {t} : pc'[u] = pc[u] /\ first'[u] = first[u]
      /\ HasInserts(t) => first'[t] = highWater
  BY <1>0, <1>1 DEF TypeOK
<1>3. \A u \in Txn \ {t} : (BeforeCommit(u)' <=> BeforeCommit(u)) /\ EventIds(u)' = EventIds(u)
  BY <1>1, <1>2, IdsFacts DEF BeforeCommit, Drained
<1>4. IndexIds' = IndexIds
  <2>1. committed' = committed /\ \A u \in committed : EventIds(u)' = EventIds(u)
    BY <1>0, <1>1, <1>3 DEF TypeOK
  <2>2. {EventIds(u)' : u \in committed'} = {EventIds(u) : u \in committed}
    BY <2>1
  <2> QED BY <2>2 DEF IndexIds
<1>5. \A id \in IndexIds' : id <= highWater'
  BY <1>1, <1>4 DEF IdsInv
<1>6. \A u \in Txn \ {t} : HasInserts(u) /\ BeforeCommit(u)' => dbLock' = u /\ first'[u] = highWater'
  <2> SUFFICES ASSUME NEW u \in Txn \ {t}, HasInserts(u), BeforeCommit(u)'
               PROVE  dbLock' = u /\ first'[u] = highWater'
    OBVIOUS
  <2>1. dbLock = u /\ first[u] = highWater
    BY <1>3 DEF IdsInv
  <2> QED BY <1>1, <1>2, <2>1
<1>7. HasInserts(t) => dbLock' = t /\ first'[t] = highWater'
  BY <1>1, <1>2
<1> QED BY <1>5, <1>6, <1>7 DEF IdsInv

(* A COMMIT adds ids of the session that holds the lock.                   *)
LEMMA LandIds ==
  ASSUME IInv, IdsInv, NEW t \in Txn, CanCommit(t), Land(t), UNCHANGED first
  PROVE  /\ IndexIds' = IndexIds \cup EventIds(t)
         /\ \A id \in IndexIds' : id <= highWater'
         /\ ~HasInserts(t) => UNCHANGED highWater /\ IndexIds' = IndexIds
<1>0. TypeOK
  BY DEF IInv
<1>1. IndexIds' = IndexIds \cup EventIds(t)
  BY DEF Land, IndexIds, EventIds
<1>2. CASE ~HasInserts(t)
  <2>1. EventIds(t) = {} /\ UNCHANGED highWater
    BY <1>2, IdsFacts DEF Land
  <2> QED BY <1>1, <2>1 DEF IdsInv
<1>3. CASE HasInserts(t)
  <2>1. first[t] = highWater
    BY <1>3 DEF CanCommit, IdsInv, BeforeCommit, Writing
  <2>2. PICK h \in EventIds(t) : (\A id \in EventIds(t) : id <= h) /\ highWater' = h
    BY <1>3 DEF Land
  <2>3. h \in Nat /\ h > highWater /\ highWater \in Nat
    BY <1>0, <2>1, IdsFacts DEF TypeOK
  <2>4. \A id \in IndexIds : id \in Nat
    <3>1. committed \subseteq Txn
      BY <1>0 DEF TypeOK
    <3> QED BY <1>0, <3>1, IdsFacts DEF IndexIds
  <2>5. \A id \in IndexIds : id <= h
    BY <2>3, <2>4 DEF IdsInv
  <2> QED BY <1>1, <1>3, <2>2, <2>5
<1> QED BY <1>1, <1>2, <1>3

LEMMA IdsCommit ==
  ASSUME IInv, IdsInv, NEW t \in Txn, Commit(t) \/ CommitRaises(t) PROVE IdsInv'
<1> USE NotSessions
<1>0. TypeOK /\ CanCommit(t) /\ UNCHANGED <<first, post>> /\ dbLock' = NoTxn
  BY DEF IInv, Commit, CommitRaises, drainVars
<1>1. PICK l \in {"done", "failed"} : pc' = [pc EXCEPT ![t] = l]
  BY DEF Commit, CommitRaises, Goto
<1>2. pc'[t] = l /\ \A u \in Txn \ {t} : pc'[u] = pc[u]
  BY <1>0, <1>1 DEF TypeOK
<1>3. /\ \A u \in Txn \ {t} : BeforeCommit(u)' <=> BeforeCommit(u)
      /\ ~BeforeCommit(t)'
  BY <1>0, <1>2 DEF BeforeCommit, Writing, Drained
<1>4. \A u \in Txn : ~(HasInserts(u) /\ BeforeCommit(u)')
  BY <1>0, <1>3 DEF IdsInv, CanCommit
<1>5. \A id \in IndexIds' : id <= highWater'
  <2>1. CASE Land(t)
    BY <1>0, <2>1, LandIds
  <2>2. CASE UNCHANGED <<committed, highWater>>
    BY <1>0, <2>2, IndexSame DEF IdsInv
  <2> QED BY <2>1, <2>2 DEF Commit, CommitRaises
<1> QED BY <1>4, <1>5 DEF IdsInv

LEMMA IdsFault ==
  ASSUME IInv, IdsInv, NEW t \in Txn, FrameFails(t) \/ AppendFails(t) PROVE IdsInv'
<1>0. TypeOK
  BY DEF IInv
<1>1. CASE FrameFails(t)
  <2>1. /\ pc' = [pc EXCEPT ![t] = "aborted"]
        /\ UNCHANGED <<committed, first, highWater, post>>
        /\ dbLock' = dbLock \/ (dbLock = t /\ dbLock' = NoTxn)
    BY <1>1 DEF FrameFails, Goto, ReleaseLocks, drainVars
  <2> QED BY <1>0, <2>1, IdsMove DEF Writing
<1>2. CASE AppendFails(t)
  <2>1. /\ pc' = [pc EXCEPT ![t] = "unwind"] /\ BeforeCommit(t)
        /\ UNCHANGED <<dbLock, committed, first, highWater, post>>
    BY <1>2 DEF AppendFails, Goto, dbVars, drainVars, BeforeCommit, Writing
  <2> QED BY <1>0, <2>1, IdsMove
<1> QED BY <1>1, <1>2

(* Who is killed is no longer before its COMMIT.                           *)
LEMMA DeathFacts ==
  ASSUME (\E p \in Proc : Kill(p)) \/ PowerLoss
  PROVE  /\ \A u \in Txn : pc'[u] = pc[u] \/ (pc'[u] = "dead" /\ Live(u))
         /\ UNCHANGED <<committed, first, highWater, base, post, pos>>
         /\ \A u \in Txn : dbLock = u /\ pc'[u] \notin Final => dbLock' = u
<1>1. ASSUME NEW p \in Proc, Kill(p)
      PROVE  /\ \A u \in Txn : pc'[u] = pc[u] \/ (pc'[u] = "dead" /\ Live(u))
             /\ UNCHANGED <<committed, first, highWater, base, post, pos>>
             /\ \A u \in Txn : dbLock = u /\ pc'[u] \notin Final => dbLock' = u
  <2>1. /\ pc' = [u \in Txn |-> IF ProcOf[u] = p /\ Live(u) THEN "dead" ELSE pc[u]]
        /\ dbLock' = IF \E u \in Txn : ProcOf[u] = p /\ dbLock = u THEN NoTxn ELSE dbLock
        /\ UNCHANGED <<committed, first, highWater, base, post, pos>>
    BY <1>1 DEF Kill, drainVars
  <2>2. \A u \in Txn : pc'[u] = IF ProcOf[u] = p /\ Live(u) THEN "dead" ELSE pc[u]
    BY <2>1
  <2>3. \A u \in Txn : dbLock = u /\ pc'[u] \notin Final => ProcOf[u] # p
    BY <2>2 DEF Live, Final
  <2> QED BY <2>1, <2>2, <2>3
<1>2. CASE PowerLoss
  <2>1. /\ pc' = [u \in Txn |-> IF Live(u) THEN "dead" ELSE pc[u]]
        /\ UNCHANGED <<committed, first, highWater, base, post, pos>>
    BY <1>2 DEF PowerLoss, drainVars
  <2>2. \A u \in Txn : pc'[u] = IF Live(u) THEN "dead" ELSE pc[u]
    BY <2>1
  <2> QED BY <2>1, <2>2 DEF Live, Final
<1> QED BY <1>1, <1>2

LEMMA IdsDeath ==
  ASSUME IdsInv, (\E p \in Proc : Kill(p)) \/ PowerLoss PROVE IdsInv'
<1>1. \A u \in Txn : BeforeCommit(u)' => BeforeCommit(u) /\ pc'[u] \notin Final
  BY DeathFacts DEF BeforeCommit, Writing, Final, Drained
<1> QED BY <1>1, DeathFacts, IdsQuiet

(* The ids of every batch before its COMMIT are above the index.           *)
LEMMA IdsStep == ASSUME IInv, IdsInv, [Next]_vars PROVE IdsInv'
<1>1. CASE UNCHANGED vars
  BY <1>1, IdsQuiet DEF vars, dbVars, drainVars, BeforeCommit, Drained
<1>2. ASSUME NEW t \in Txn, Stage(t) \/ Progress(t) \/ Fault(t) PROVE IdsInv'
  BY <1>2, IdsStage, IdsRecover, IdsDrain, IdsUndo, IdsCommit, IdsFault DEF Progress, Fault
<1> QED BY <1>1, <1>2, IdsDeath DEF Next
-----------------------------------------------------------------------------
(* Whoever is past recovery found the intent empty.                        *)

LEMMA ResolvedMove ==
  ASSUME IInv, ResolvedInv, NEW t \in Txn, NEW l, pc' = [pc EXCEPT ![t] = l],
         intent' = intent \/ pc[t] \in InLock,
         l \in {"open", "undo"} => intent' = Empty,
         l = "framing" => intent' = Torn
  PROVE  ResolvedInv'
<1>1. pc'[t] = l /\ \A u \in Txn \ {t} : pc'[u] = pc[u]
  BY DEF IInv, TypeOK
<1>2. \A u \in Txn \ {t} : pc[u] \in {"open", "undo", "framing"} => intent' = intent
  BY OneHolder DEF InLock
<1> QED BY <1>1, <1>2 DEF ResolvedInv

LEMMA ResolvedStep == ASSUME IInv, ResolvedInv, [Next]_vars PROVE ResolvedInv'
<1>1. CASE UNCHANGED vars
  BY <1>1 DEF vars, intentVars, ResolvedInv
<1>2. ASSUME NEW t \in Txn, Stage(t) \/ Acquire(t) \/ Commit(t) \/ Fault(t) PROVE ResolvedInv'
  BY <1>2, ResolvedMove DEF Stage, Acquire, Commit, Fault, FrameFails, AppendFails,
     CommitRaises, Goto, intentVars
<1>3. ASSUME NEW t \in Txn, Recover(t) PROVE ResolvedInv'
  <2>1. CASE RecoverNothing(t) \/ RecoverKeep(t) \/ RecoverDone(t)
    <3>1. /\ pc' = [pc EXCEPT ![t] = AfterRecovery(t)] /\ pc[t] \in InLock
          /\ intent' = Empty /\ AfterRecovery(t) # "framing"
      BY <2>1 DEF RecoverNothing, RecoverKeep, RecoverDone, Goto, InLock, AfterRecovery, intentVars
    <3> QED BY <3>1, ResolvedMove
  <2>2. CASE RecoverUncommitted(t)
    BY <2>2, ResolvedMove DEF RecoverUncommitted, Goto, intentVars
  <2>3. ASSUME NEW f \in File, RecoverFile(t, f) PROVE ResolvedInv'
    BY <2>3 DEF RecoverFile, intentVars, ResolvedInv
  <2> QED BY <1>3, <2>1, <2>2, <2>3 DEF Recover
<1>4. ASSUME NEW t \in Txn, Drain(t) PROVE ResolvedInv'
  <2>1. ASSUME NEW f \in File, OpenHandle(t, f) \/ FsyncFile(t, f) PROVE ResolvedInv'
    BY <2>1 DEF OpenHandle, FsyncFile, intentVars, ResolvedInv
  <2>2. CASE WriteIntent(t) \/ SyncIntent(t)
    BY <2>2, ResolvedMove DEF WriteIntent, SyncIntent, Goto, InLock
  <2>3. CASE AppendRow(t)
    BY <2>3 DEF AppendRow, intentVars, ResolvedInv
  <2>4. CASE ClearIntent(t) \/ ClearIntentFails(t)
    BY <2>4, ResolvedMove DEF ClearIntent, ClearIntentFails, FinishDrain, Goto, InLock
  <2> QED BY <1>4, <2>1, <2>2, <2>3, <2>4 DEF Drain
<1>5. ASSUME NEW t \in Txn, Unwind(t) \/ Undo(t) PROVE ResolvedInv'
  <2>1. ASSUME NEW f \in File, UnwindFile(t, f) \/ UndoFile(t, f) PROVE ResolvedInv'
    BY <2>1 DEF UnwindFile, UndoFile, intentVars, ResolvedInv
  <2>2. CASE UnwindDone(t)
    BY <2>2, ResolvedMove DEF UnwindDone, Goto, InLock
  <2>3. CASE UndoKeep(t) \/ UndoNeeded(t) \/ UndoDone(t)
    BY <2>3, ResolvedMove DEF UndoKeep, UndoNeeded, UndoDone, Goto, intentVars
  <2> QED BY <1>5, <2>1, <2>2, <2>3 DEF Unwind, Undo
<1>6. ASSUME NEW p \in Proc, Kill(p) PROVE ResolvedInv'
  <2>1. UNCHANGED intent
    BY <1>6 DEF Kill, intentVars
  <2>2. \A u \in Txn : pc'[u] = pc[u] \/ pc'[u] = "dead"
    BY <1>6, DeathFacts
  <2> QED BY <2>1, <2>2 DEF ResolvedInv
<1>7. CASE PowerLoss
  <2>1. \A u \in Txn : pc'[u] \in Final
    BY <1>7 DEF PowerLoss, Live, Final
  <2> QED BY <2>1 DEF ResolvedInv, Final
<1> QED BY <1>1, <1>2, <1>3, <1>4, <1>5, <1>6, <1>7 DEF Next, Progress
-----------------------------------------------------------------------------
(* Which step changes what a batch's rows are measured against.            *)

LEMMA WhoChanges ==
  ASSUME [Next]_vars
  PROVE  /\ UNCHANGED post \/ \E t \in Txn : FinishDrain(t)
         /\ UNCHANGED base \/ \E t \in Txn, f \in File : OpenHandle(t, f)
         /\ UNCHANGED first \/ \E t \in Txn : Stage(t)
<1>1. CASE UNCHANGED vars \/ PowerLoss
  BY <1>1 DEF vars, dbVars, drainVars, PowerLoss
<1>2. ASSUME NEW p \in Proc, Kill(p) PROVE UNCHANGED <<post, base, first>>
  BY <1>2 DEF Kill, drainVars
<1>3. ASSUME NEW t \in Txn, Recover(t) PROVE UNCHANGED <<post, base, first>>
  BY <1>3 DEF Recover, RecoverNothing, RecoverKeep, RecoverUncommitted, RecoverFile,
              RecoverDone, dbVars, drainVars
<1>4. ASSUME NEW t \in Txn, Unwind(t) \/ Undo(t) PROVE UNCHANGED <<post, base, first>>
  BY <1>4 DEF Unwind, UnwindFile, UnwindDone, Undo, UndoKeep, UndoNeeded, UndoFile,
              UndoDone, dbVars, drainVars
<1>5. ASSUME NEW t \in Txn, Acquire(t) \/ Commit(t) \/ Fault(t) PROVE UNCHANGED <<post, base, first>>
  BY <1>5 DEF Acquire, Commit, Fault, FrameFails, AppendFails, CommitRaises, dbVars, drainVars
<1>6. ASSUME NEW t \in Txn, Stage(t) PROVE UNCHANGED <<post, base>>
  BY <1>6 DEF Stage, drainVars
<1>7. ASSUME NEW t \in Txn, Drain(t)
      PROVE  /\ UNCHANGED first
             /\ UNCHANGED post \/ FinishDrain(t)
             /\ UNCHANGED base \/ \E f \in File : OpenHandle(t, f)
  BY <1>7 DEF Drain, OpenHandle, WriteIntent, SyncIntent, AppendRow, FsyncFile,
              ClearIntent, ClearIntentFails, dbVars, drainVars
<1> QED BY <1>1, <1>2, <1>3, <1>4, <1>5, <1>6, <1>7 DEF Next, Progress

(* A footprint is written once, with the sizes of all files of the batch.  *)
LEMMA FinishFacts ==
  ASSUME TypeOK, NEW t \in Txn, FinishDrain(t)
  PROVE  /\ \A f \in FilesOf(t) : post'[t][f] = Len(log[f])
         /\ \A u \in Txn \ {t} : post'[u] = post[u]
         /\ Drained(t)'
<1>1. /\ \A f \in FilesOf(t) : post'[t][f] = Len(log[f])
      /\ \A u \in Txn \ {t} : post'[u] = post[u]
  BY BatchFacts DEF FinishDrain, TypeOK
<1>2. PICK f \in FilesOf(t) : f \in File
  BY BatchFacts
<1>3. Len(log[f]) \in Nat
  BY <1>2, LogFacts
<1> QED BY <1>1, <1>2, <1>3 DEF Drained, Unset

LEMMA FootprintStays ==
  ASSUME TypeOK, [Next]_vars, NEW u \in Txn, Drained(u) PROVE Drained(u)'
<1>1. CASE UNCHANGED post
  BY <1>1 DEF Drained
<1>2. ASSUME NEW t \in Txn, FinishDrain(t) PROVE Drained(u)'
  BY <1>2, FinishFacts DEF Drained
<1> QED BY <1>1, <1>2, WhoChanges

LEMMA CommittedStep ==
  ASSUME IInv, CommittedDrained, [Next]_vars PROVE CommittedDrained'
<1>0. TypeOK /\ committed \subseteq Txn
  BY DEF IInv, TypeOK
<1>1. \A u \in committed : Drained(u)'
  BY <1>0, FootprintStays DEF CommittedDrained
<1>2. ASSUME NEW t \in Txn, Commit(t) \/ CommitRaises(t) PROVE CommittedDrained'
  <2>1. pc[t] = "drained" /\ (committed' = committed \/ committed' = committed \cup {t})
    BY <1>2 DEF Commit, CommitRaises, CanCommit, Land
  <2>2. Drained(t)
    BY <1>0, <2>1, FootprintFacts DEF IInv, SessionInv
  <2>3. Drained(t)'
    BY <1>0, <2>2, FootprintStays
  <2> QED BY <1>1, <2>1, <2>3 DEF CommittedDrained
<1> QED BY <1>1, <1>2, OnlyCommits DEF CommittedDrained
-----------------------------------------------------------------------------
(* What a step does to the rows: most steps keep each row that is left.    *)

RowsStay ==
  \A f \in File : \A p \in DOMAIN log'[f] :
     /\ p \in DOMAIN log[f] /\ log'[f][p] = log[f][p]
     /\ p <= synced[f] => p <= synced'[f]

LEMMA SameStay == UNCHANGED <<log, synced>> => RowsStay
BY DEF RowsStay

LEMMA RollStays ==
  ASSUME IInv, NEW t \in Txn, NEW o \in Txn, NEW f \in File,
         Rolls(o, f), RollbackFile(ProcOf[t], o, f)
  PROVE  RowsStay /\ (PlacedInv => RowsOf(o, f)' = {})
<1>1. DOMAIN log[f] = 1 .. Len(log[f]) /\ Len(log[f]) \in Nat
  BY LogFacts DEF IInv
<1>2. Baseline(o, f) \in Nat /\ Baseline(o, f) <= Len(log[f])
  BY <1>1, RollFacts
<1>3. RowsStay
  <2> SUFFICES ASSUME NEW g \in File, NEW p \in DOMAIN log'[g]
               PROVE  /\ p \in DOMAIN log[g] /\ log'[g][p] = log[g][p]
                      /\ p <= synced[g] => p <= synced'[g]
    BY DEF RowsStay
  <2>1. CASE g = f
    <3>1. p \in 1 .. Baseline(o, f) /\ synced'[f] = Baseline(o, f)
      BY <2>1, RollFacts
    <3>2. p \in DOMAIN log[f] /\ p <= synced'[f]
      BY <1>1, <1>2, <3>1
    <3>3. log'[f][p] = log[f][p]
      BY <3>1, RollFacts
    <3> QED BY <2>1, <3>2, <3>3
  <2>2. CASE g # f
    BY <2>2, RollFacts
  <2> QED BY <2>1, <2>2
<1>4. ASSUME PlacedInv, NEW p \in RowsOf(o, f)' PROVE FALSE
  <2>1. p \in DOMAIN log'[f] /\ log'[f][p].txn = o
    BY <1>4 DEF RowsOf
  <2>2. p \in RowsOf(o, f) /\ p \in 1 .. Baseline(o, f)
    BY <1>3, <2>1, RollFacts DEF RowsStay, RowsOf
  <2>3. p > Baseline(o, f)
    BY <1>4, <2>2 DEF PlacedInv
  <2> QED BY <1>2, <2>2, <2>3
<1> QED BY <1>3, <1>4

(* Every rollback is of a batch that is not in the index.                  *)
LEMMA Rollbacks ==
  ASSUME IInv, NEW t \in Txn, NEW f \in File,
         RecoverFile(t, f) \/ UnwindFile(t, f) \/ UndoFile(t, f)
  PROVE  \E o \in Txn : /\ Rolls(o, f) /\ RollbackFile(ProcOf[t], o, f)
                        /\ o \notin committed
                        /\ o = (IF RecoverFile(t, f) THEN intent ELSE t)
<1> USE DEF intentVars, dbVars, drainVars
<1>1. CASE RecoverFile(t, f)
  <2>1. /\ intent \in Txn /\ intent \notin committed
        /\ base[intent][f] # Unset /\ OwnTail(intent, f)
    BY <1>1 DEF RecoverFile, IInv, RollbackInv, FrameInv
  <2>2. base[intent][f] = Absent \/ Baseline(intent, f) < Len(log[f])
    BY <1>1, <2>1, BeyondFacts DEF RecoverFile, IInv
  <2>3. Rolls(intent, f)
    BY <1>1, <2>1, <2>2 DEF RecoverFile, Rolls
  <2> QED BY <1>1, <2>1, <2>3 DEF RecoverFile
<1>2. CASE UnwindFile(t, f)
  <2>1. t \notin committed /\ base[t][f] # Unset /\ OwnTail(t, f)
    BY <1>2 DEF UnwindFile, IInv, SessionInv, Unwinding, Mine
  <2>2. base[t][f] = Absent \/ Baseline(t, f) < Len(log[f])
    BY <1>2, <2>1, BeyondFacts DEF UnwindFile, IInv
  <2>3. Rolls(t, f) /\ ~RecoverFile(t, f)
    BY <1>2, <2>1, <2>2 DEF UnwindFile, RecoverFile, Rolls
  <2> QED BY <1>2, <2>1, <2>3 DEF UnwindFile
<1>3. CASE UndoFile(t, f)
  <2>1. Undoing(t) /\ t \notin committed /\ Len(log[f]) = post[t][f]
    BY <1>3 DEF UndoFile, IInv, SessionInv, Undoable
  <2>2. base[t][f] # Unset /\ Baseline(t, f) < Len(log[f]) /\ OwnSpan(t, f)
    BY <1>3, <2>1 DEF UndoFile, Undoing
  <2>3. \A p \in DOMAIN log[f] : p <= post[t][f]
    BY <2>1, LogFacts DEF IInv
  <2>4. OwnTail(t, f)
    BY <2>2, <2>3 DEF OwnTail, OwnSpan
  <2>5. Rolls(t, f) /\ ~RecoverFile(t, f)
    BY <1>3, <2>2, <2>4 DEF UndoFile, RecoverFile, Rolls
  <2> QED BY <1>3, <2>1, <2>5 DEF UndoFile
<1> QED BY <1>1, <1>2, <1>3

(* The steps that do not keep each row that is left.                       *)
LEMMA StayStep ==
  ASSUME Benign, IInv, [Next]_vars
  PROVE  \/ RowsStay
         \/ \E t \in Txn : AppendRow(t) \/ \E f \in File : OpenHandle(t, f)
         \/ PowerLoss
<1>1. CASE UNCHANGED vars
  BY <1>1, SameStay DEF vars, fileVars
<1>2. ASSUME NEW p \in Proc, Kill(p) PROVE RowsStay
  BY <1>2, SameStay DEF Kill, KillTorn, Benign
<1>3. ASSUME NEW t \in Txn, NEW f \in File,
             RecoverFile(t, f) \/ UnwindFile(t, f) \/ UndoFile(t, f)
      PROVE  RowsStay
  BY <1>3, Rollbacks, RollStays
<1>4. ASSUME NEW t \in Txn, NEW f \in File, FsyncFile(t, f) PROVE RowsStay
  <2>1. UNCHANGED log /\ \A g \in File : synced'[g] = IF g = f THEN Len(log[f]) ELSE synced[g]
    BY <1>4 DEF FsyncFile, IInv, TypeOK
  <2>2. \A p \in DOMAIN log[f] : p <= Len(log[f])
    BY LogFacts DEF IInv
  <2> QED BY <2>1, <2>2 DEF RowsStay
<1>5. ASSUME NEW t \in Txn, Stage(t) \/ Acquire(t) \/ Commit(t) \/ Fault(t)
      PROVE  RowsStay
  BY <1>5, SameStay DEF Stage, Acquire, Commit, Fault, FrameFails, AppendFails,
     CommitRaises, fileVars
<1>6. ASSUME NEW t \in Txn, Recover(t) \/ Unwind(t) \/ Undo(t) PROVE RowsStay
  BY <1>3, <1>6, SameStay DEF Recover, RecoverNothing, RecoverKeep, RecoverUncommitted,
     RecoverDone, Unwind, UnwindDone, Undo, UndoKeep, UndoNeeded, UndoDone, fileVars
<1>7. ASSUME NEW t \in Txn, Drain(t)
      PROVE  RowsStay \/ AppendRow(t) \/ \E f \in File : OpenHandle(t, f)
  BY <1>4, <1>7, SameStay DEF Drain, WriteIntent, SyncIntent, ClearIntent, ClearIntentFails,
     fileVars
<1> QED BY <1>1, <1>2, <1>5, <1>6, <1>7 DEF Next, Progress
(* After a power loss: durable lines are whole, a later one may be torn.   *)
LEMMA LossFacts ==
  ASSUME TypeOK, PowerLoss, NEW f \in File
  PROVE  /\ \A p \in DOMAIN log'[f] :
              /\ p \in DOMAIN log[f] /\ log'[f][p].txn = log[f][p].txn
              /\ log'[f][p] = log[f][p] \/ log'[f][p].kind = "torn"
              /\ p <= synced[f] => log'[f][p] = log[f][p]
              /\ p <= synced'[f]
         /\ \A p \in DOMAIN log[f] : p <= synced[f] => p \in DOMAIN log'[f]
<1>1. PICK cut \in [File -> UNION {synced[g] .. Len(log[g]) : g \in File}],
           torn \in [File -> BOOLEAN] :
             /\ \A g \in File : cut[g] \in synced[g] .. Len(log[g])
             /\ log' = [g \in File |-> Survivor(g, cut[g], torn[g])]
  BY DEF PowerLoss
<1>2. cut[f] \in synced[f] .. Len(log[f]) /\ log'[f] = Survivor(f, cut[f], torn[f])
  BY <1>1
<1>3. synced'[f] = Len(log'[f])
  BY DEF PowerLoss
<1>4. synced[f] \in Nat /\ Len(log[f]) \in Nat /\ DOMAIN log[f] = 1 .. Len(log[f])
  BY LogFacts DEF TypeOK
<1>5. /\ log'[f] \in Seq(Record) /\ Len(log'[f]) \in {cut[f], cut[f] + 1}
      /\ \A p \in 1 .. cut[f] : log'[f][p] = log[f][p]
      /\ Len(log'[f]) = cut[f] + 1 =>
           /\ cut[f] + 1 \in DOMAIN log[f]
           /\ log'[f][cut[f] + 1].txn = log[f][cut[f] + 1].txn
           /\ log'[f][cut[f] + 1].kind = "torn"
  <2>1. /\ Survivor(f, cut[f], torn[f]) \in Seq(Record)
        /\ Len(Survivor(f, cut[f], torn[f])) \in {cut[f], cut[f] + 1}
        /\ \A p \in 1 .. cut[f] : Survivor(f, cut[f], torn[f])[p] = log[f][p]
        /\ Len(Survivor(f, cut[f], torn[f])) = cut[f] + 1 =>
             /\ cut[f] + 1 \in DOMAIN log[f]
             /\ Survivor(f, cut[f], torn[f])[cut[f] + 1].txn = log[f][cut[f] + 1].txn
             /\ Survivor(f, cut[f], torn[f])[cut[f] + 1].kind = "torn"
    BY <1>2, SurvivorFacts
  <2> QED BY <1>2, <2>1
<1>6. DOMAIN log'[f] = 1 .. Len(log'[f])
  BY <1>5
<1>7. cut[f] \in Nat /\ cut[f] >= synced[f] /\ cut[f] <= Len(log[f])
  BY <1>2, <1>4
<1>8. ASSUME NEW p \in DOMAIN log'[f]
      PROVE  /\ p \in DOMAIN log[f] /\ log'[f][p].txn = log[f][p].txn
             /\ log'[f][p] = log[f][p] \/ log'[f][p].kind = "torn"
             /\ p <= synced[f] => log'[f][p] = log[f][p]
             /\ p <= synced'[f]
  <2>1. p \in Nat /\ p >= 1 /\ p <= Len(log'[f])
    BY <1>5, <1>6, <1>7
  <2>2. CASE p <= cut[f]
    BY <1>3, <1>4, <1>5, <1>7, <2>1, <2>2
  <2>3. CASE p > cut[f]
    <3>1. p = cut[f] + 1 /\ Len(log'[f]) = cut[f] + 1
      BY <1>5, <1>7, <2>1, <2>3
    <3> QED BY <1>3, <1>4, <1>5, <1>7, <2>1, <3>1
  <2> QED BY <1>7, <2>1, <2>2, <2>3
<1>9. \A p \in DOMAIN log[f] : p <= synced[f] => p \in DOMAIN log'[f]
  BY <1>4, <1>5, <1>6, <1>7
<1> QED BY <1>8, <1>9
-----------------------------------------------------------------------------
(* Where the rows of a batch are.                                          *)

Anchored(t, f, p) ==
  /\ f \in FilesOf(t) /\ base[t][f] # Unset /\ p > Baseline(t, f)
  /\ Drained(t) => p <= post[t][f] /\ p <= synced[f] /\ log[f][p].kind # "torn"
UndoSize(t, f) ==
  pc[t] = "undo" /\ RowsOf(t, f) # {} => post[t][f] <= Len(log[f])

LEMMA PlacedParts ==
  PlacedInv <=> \A t \in Txn, f \in File :
                   (\A p \in RowsOf(t, f) : Anchored(t, f, p)) /\ UndoSize(t, f)
BY DEF PlacedInv, Anchored, UndoSize

(* A step that keeps each row that is left, and u's baselines.             *)
LEMMA AnchoredStay ==
  ASSUME RowsStay, NEW u \in Txn, NEW f \in File, NEW p \in RowsOf(u, f)',
         \A q \in RowsOf(u, f) : Anchored(u, f, q),
         base'[u] = base[u], post'[u] = post[u]
  PROVE  Anchored(u, f, p)'
<1>1. /\ p \in RowsOf(u, f) /\ log'[f][p] = log[f][p]
      /\ p <= synced[f] => p <= synced'[f]
  BY DEF RowsStay, RowsOf
<1>2. Baseline(u, f)' = Baseline(u, f) /\ (Drained(u)' <=> Drained(u)) /\ FilesOf(u)' = FilesOf(u)
  BY DEF Baseline, Drained, FilesOf
<1> QED BY <1>1, <1>2 DEF Anchored

(* The end of a drain: all the batch's rows are durable and whole.         *)
LEMMA AnchoredFinish ==
  ASSUME IInv, RowsStay, NEW t \in Txn, FinishDrain(t), base'[t] = base[t],
         NEW f \in File, NEW p \in RowsOf(t, f)', \A q \in RowsOf(t, f) : Anchored(t, f, q)
  PROVE  Anchored(t, f, p)'
<1>1. /\ p \in RowsOf(t, f) /\ log'[f][p] = log[f][p]
      /\ p <= synced[f] => p <= synced'[f]
  BY DEF RowsStay, RowsOf
<1>2. Baseline(t, f)' = Baseline(t, f) /\ FilesOf(t)' = FilesOf(t)
  BY DEF Baseline, FilesOf
<1>3. f \in FilesOf(t) /\ base[t][f] # Unset /\ p > Baseline(t, f)
  BY <1>1 DEF Anchored
<1>4. p \in DOMAIN log[f] /\ p <= Len(log[f])
  BY <1>1, LogFacts DEF RowsOf, IInv
<1>5. post'[t][f] = Len(log[f]) /\ synced[f] = Len(log[f])
  BY <1>3, FinishFacts DEF IInv, FinishDrain, AllSynced
<1>6. log[f][p].kind # "torn"
  <2>1. Held(t, f)
    BY <1>3 DEF FinishDrain, IInv, SessionInv, Appending
  <2>2. f \in handles[ProcOf[t]] /\ ProcOf[t] \in Proc
    BY <2>1, ProcAssumption DEF Held
  <2> QED BY <1>4, <2>2 DEF IInv, TornLast
<1> QED BY <1>1, <1>2, <1>3, <1>4, <1>5, <1>6 DEF Anchored
(* A new row is past the baseline of its batch, which has no footprint.    *)
LEMMA AnchoredAppend ==
  ASSUME IInv, NEW t \in Txn, AppendRow(t), NEW u \in Txn, NEW g \in File,
         NEW p \in RowsOf(u, g)', \A q \in RowsOf(u, g) : Anchored(u, g, q)
  PROVE  Anchored(u, g, p)'
<1> DEFINE i == pos[t] + 1
           f == Batch[t][i].file
           r == Rec(t, i)
           n == Len(log[f]) + 1
<1>0. TypeOK /\ pos[t] \in Nat /\ pos[t] < Len(Batch[t])
  BY DEF IInv, TypeOK, AppendRow
<1>1. i \in DOMAIN Batch[t] /\ f \in File /\ f \in FilesOf(t)
  BY <1>0, BatchFacts DEF FilesOf
<1>2. r \in Record /\ r.txn = t /\ n \in Nat
  BY <1>0, <1>1, RecFacts, LogFacts
<1>3. Appends(t, i, f, r, n)
  BY DEF AppendRow, Appends, intentVars, dbVars
<1> HIDE DEF i, f, r, n
<1>4. UNCHANGED <<base, post, synced>>
  BY <1>3 DEF Appends
<1>5. Baseline(u, g)' = Baseline(u, g) /\ (Drained(u)' <=> Drained(u)) /\ FilesOf(u)' = FilesOf(u)
  BY <1>4 DEF Baseline, Drained, FilesOf
<1>6. CASE p \in RowsOf(u, g) /\ log'[g][p] = log[g][p]
  BY <1>4, <1>5, <1>6 DEF Anchored
<1>7. CASE ~(p \in RowsOf(u, g) /\ log'[g][p] = log[g][p])
  <2>1. p \in DOMAIN log'[g] /\ log'[g][p].txn = u
    BY DEF RowsOf
  <2>2. g = f /\ p = n
    BY <1>0, <1>1, <1>2, <1>3, <1>7, <2>1, AppendsFacts DEF RowsOf
  <2>3. u = t
    BY <1>0, <1>1, <1>2, <1>3, <2>1, <2>2, AppendsFacts
  <2>4. Held(t, f) /\ ~Drained(t)
    BY <1>1 DEF AppendRow, IInv, SessionInv, Appending, NoPost, Drained
  <2>5. p > Baseline(t, f)
    BY <1>0, <1>1, <1>2, <1>3, <2>2, <2>4, AppendsFacts, BaselineFacts DEF Held, Mine
  <2> QED BY <1>1, <1>4, <1>5, <2>2, <2>3, <2>4, <2>5 DEF Anchored, Held, Mine
<1> QED BY <1>6, <1>7

(* Opening a file: t has no row there yet, and no other row moves.         *)
LEMMA AnchoredOpen ==
  ASSUME IInv, NEW t \in Txn, NEW f \in File, OpenHandle(t, f), NEW u \in Txn, NEW g \in File,
         NEW p \in RowsOf(u, g)', \A q \in RowsOf(u, g) : Anchored(u, g, q)
  PROVE  Anchored(u, g, p)'
<1>1. TypeOK /\ base[t][f] = Unset /\ UNCHANGED post
      /\ base' = [base EXCEPT ![t][f] = IF exists[f] THEN Len(log[f]) ELSE Absent]
  BY DEF OpenHandle, IInv
<1>2. p \in DOMAIN log[g] /\ log[g][p].txn = u /\ synced[g] <= synced'[g]
      /\ (log[g][p].kind # "torn" => log'[g][p] = log[g][p])
  BY OpenFacts DEF RowsOf, Grows
<1>3. p \in RowsOf(u, g)
  BY <1>2 DEF RowsOf
<1>4. Anchored(u, g, p)
  BY <1>3
<1>5. ~(u = t /\ g = f)
  BY <1>1, <1>4 DEF Anchored
<1>6. base'[u][g] = base[u][g]
  BY <1>1, <1>5 DEF TypeOK
<1>7. Baseline(u, g)' = Baseline(u, g) /\ (Drained(u)' <=> Drained(u)) /\ FilesOf(u)' = FilesOf(u)
  BY <1>1, <1>6 DEF Baseline, Drained, FilesOf
<1>8. p \in Nat /\ synced[g] \in Nat /\ synced'[g] \in Nat
  <2>1. TypeOK'
    BY OpenFacts
  <2>2. synced[g] \in Nat /\ synced'[g] \in Nat
    BY <1>1, <2>1 DEF TypeOK
  <2>3. p \in Nat
    BY <1>1, <1>2, LogFacts
  <2> QED BY <2>2, <2>3
<1> QED BY <1>1, <1>2, <1>4, <1>6, <1>7, <1>8 DEF Anchored

(* After a power loss what is left of a finished drain is whole.           *)
LEMMA AnchoredLoss ==
  ASSUME IInv, PowerLoss, NEW u \in Txn, NEW f \in File,
         NEW p \in RowsOf(u, f)', \A q \in RowsOf(u, f) : Anchored(u, f, q)
  PROVE  Anchored(u, f, p)'
<1>1. UNCHANGED <<base, post>>
  BY DEF PowerLoss, drainVars
<1>2. /\ p \in DOMAIN log'[f] /\ p \in DOMAIN log[f] /\ log'[f][p].txn = log[f][p].txn
      /\ p <= synced[f] => log'[f][p] = log[f][p]
      /\ p <= synced'[f]
  BY LossFacts DEF RowsOf, IInv
<1>3. p \in RowsOf(u, f)
  BY <1>2 DEF RowsOf
<1>4. Baseline(u, f)' = Baseline(u, f) /\ (Drained(u)' <=> Drained(u)) /\ FilesOf(u)' = FilesOf(u)
  BY <1>1 DEF Baseline, Drained, FilesOf
<1> QED BY <1>1, <1>2, <1>3, <1>4 DEF Anchored
LEMMA AnchoredStep ==
  ASSUME Benign, IInv, [Next]_vars, NEW u \in Txn, NEW f \in File,
         \A q \in RowsOf(u, f) : Anchored(u, f, q), NEW p \in RowsOf(u, f)'
  PROVE  Anchored(u, f, p)'
<1>1. CASE \E t \in Txn : AppendRow(t) \/ \E g \in File : OpenHandle(t, g)
  BY <1>1, AnchoredAppend, AnchoredOpen
<1>2. CASE PowerLoss
  BY <1>2, AnchoredLoss
<1>3. CASE RowsStay /\ ~\E t \in Txn, g \in File : OpenHandle(t, g)
  <2>1. UNCHANGED base
    BY <1>3, WhoChanges
  <2>2. CASE post'[u] = post[u]
    BY <1>3, <2>1, <2>2, AnchoredStay
  <2>3. CASE FinishDrain(u)
    BY <1>3, <2>1, <2>3, AnchoredFinish
  <2>4. post'[u] = post[u] \/ FinishDrain(u)
    BY WhoChanges, FinishFacts DEF IInv
  <2> QED BY <2>2, <2>3, <2>4
<1> QED BY <1>1, <1>2, <1>3, StayStep

(* How a session comes to undo, and what can change under it meanwhile.    *)
UndoEntry(u) ==
  \/ Settled(u) /\ UNCHANGED log /\ post'[u] = post[u]
  \/ /\ pc[u] = "undo" /\ post'[u] = post[u]
     /\ \A f \in File : log'[f] = log[f] \/ (PlacedInv => RowsOf(u, f)' = {})

LEMMA UndoMove ==
  ASSUME IInv, NEW t \in Txn, NEW l, pc' = [pc EXCEPT ![t] = l], UNCHANGED log,
         \A v \in Txn \ {t} : post'[v] = post[v],
         l = "undo" => Settled(t) /\ post'[t] = post[t],
         NEW u \in Txn, pc'[u] = "undo"
  PROVE  UndoEntry(u)
<1>1. pc'[t] = l /\ \A v \in Txn \ {t} : pc'[v] = pc[v]
  BY DEF IInv, TypeOK
<1> QED BY <1>1 DEF UndoEntry

LEMMA UndoEnters ==
  ASSUME Benign, IInv, [Next]_vars, NEW u \in Txn, pc'[u] = "undo"
  PROVE  UndoEntry(u)
<1> USE DEF fileVars, drainVars
<1>1. CASE UNCHANGED vars
  BY <1>1 DEF vars, UndoEntry
<1>2. ASSUME NEW t \in Txn, Stage(t) \/ Acquire(t) \/ Commit(t) \/ Fault(t)
      PROVE  UndoEntry(u)
  <2>1. PICK l : l # "undo" /\ pc' = [pc EXCEPT ![t] = l]
    BY <1>2 DEF Stage, Acquire, Commit, Fault, FrameFails, AppendFails, CommitRaises, Goto
  <2>2. UNCHANGED <<log, post>>
    BY <1>2 DEF Stage, Acquire, Commit, Fault, FrameFails, AppendFails, CommitRaises
  <2> QED BY <2>1, <2>2, UndoMove
<1>3. ASSUME NEW t \in Txn, RecoverNothing(t) \/ RecoverKeep(t) \/ RecoverDone(t)
      PROVE  UndoEntry(u)
  <2>1. /\ pc' = [pc EXCEPT ![t] = AfterRecovery(t)] /\ pc[t] \in {"recover", "rollback"}
        /\ UNCHANGED <<log, post>>
    BY <1>3 DEF RecoverNothing, RecoverKeep, RecoverDone, Goto
  <2>2. AfterRecovery(t) = "undo" => Settled(t)
    BY <2>1, FootprintFacts DEF AfterRecovery, IInv, SessionInv
  <2> QED BY <2>1, <2>2, UndoMove
<1>4. ASSUME NEW t \in Txn, RecoverUncommitted(t) \/ UnwindDone(t) \/ UndoKeep(t)
                            \/ UndoNeeded(t) \/ UndoDone(t)
      PROVE  UndoEntry(u)
  <2>1. PICK l : l # "undo" /\ pc' = [pc EXCEPT ![t] = l]
    BY <1>4 DEF RecoverUncommitted, UnwindDone, UndoKeep, UndoNeeded, UndoDone, Goto
  <2>2. UNCHANGED <<log, post>>
    BY <1>4 DEF RecoverUncommitted, UnwindDone, UndoKeep, UndoNeeded, UndoDone
  <2> QED BY <2>1, <2>2, UndoMove
<1>5. ASSUME NEW t \in Txn, NEW g \in File,
             RecoverFile(t, g) \/ UnwindFile(t, g) \/ UndoFile(t, g)
      PROVE  UndoEntry(u)
  <2>1. /\ pc' = pc /\ pc[t] \in InLock /\ post' = post
        /\ pc[t] = "undo" => UndoFile(t, g) /\ ~RecoverFile(t, g)
    BY <1>5 DEF RecoverFile, UnwindFile, UndoFile, InLock
  <2>2. u = t
    BY <2>1, OneHolder DEF InLock
  <2>3. /\ Rolls(u, g) /\ RollbackFile(ProcOf[u], u, g)
    BY <1>5, <2>1, <2>2, Rollbacks
  <2>4. \A f \in File : log'[f] = log[f] \/ (PlacedInv => RowsOf(u, f)' = {})
    BY <2>3, RollStays, RollFacts
  <2> QED BY <2>1, <2>4 DEF UndoEntry
<1>6. ASSUME NEW t \in Txn, Drain(t) PROVE UndoEntry(u)
  <2>1. CASE WriteIntent(t) \/ SyncIntent(t) \/ ClearIntent(t) \/ ClearIntentFails(t)
    <3>1. PICK l : l # "undo" /\ pc' = [pc EXCEPT ![t] = l]
      BY <2>1 DEF WriteIntent, SyncIntent, ClearIntent, ClearIntentFails, FinishDrain, Goto
    <3>2. UNCHANGED log
      BY <2>1 DEF WriteIntent, SyncIntent, ClearIntent, ClearIntentFails
    <3>3. \A v \in Txn \ {t} : post'[v] = post[v]
      BY <2>1, FinishFacts DEF WriteIntent, SyncIntent, ClearIntent, ClearIntentFails, IInv
    <3> QED BY <3>1, <3>2, <3>3, UndoMove
  <2>2. CASE ~(WriteIntent(t) \/ SyncIntent(t) \/ ClearIntent(t) \/ ClearIntentFails(t))
    <3>1. pc' = pc /\ pc[t] \in {"open", "append"}
      BY <1>6, <2>2 DEF Drain, OpenHandle, AppendRow, FsyncFile
    <3>2. u = t
      BY <3>1, OneHolder DEF InLock
    <3> QED BY <3>1, <3>2
  <2> QED BY <2>1, <2>2
<1>7. ASSUME NEW p \in Proc, Kill(p) PROVE UndoEntry(u)
  <2>1. UNCHANGED <<log, post>>
    BY <1>7 DEF Kill, KillTorn, Benign
  <2>2. pc[u] = "undo"
    BY <1>7, DeathFacts
  <2> QED BY <2>1, <2>2 DEF UndoEntry
<1>8. CASE PowerLoss
  BY <1>8 DEF PowerLoss, Live, Final
<1> QED BY <1>1, <1>2, <1>3, <1>4, <1>5, <1>6, <1>7, <1>8
        DEF Next, Progress, Recover, Unwind, Undo

LEMMA UndoSizeStep ==
  ASSUME Benign, IInv, PlacedInv, [Next]_vars, NEW u \in Txn, NEW f \in File
  PROVE  UndoSize(u, f)'
<1> SUFFICES ASSUME pc'[u] = "undo", RowsOf(u, f)' # {} PROVE post'[u][f] <= Len(log'[f])
  BY DEF UndoSize
<1>1. log'[f] = log[f] /\ post'[u] = post[u] /\ (Settled(u) \/ pc[u] = "undo")
  BY UndoEnters DEF UndoEntry
<1>2. PICK p : p \in RowsOf(u, f)
  BY <1>1 DEF RowsOf
<1>3. f \in FilesOf(u)
  BY <1>2 DEF PlacedInv
<1>4. synced[f] \in Nat /\ Len(log[f]) \in Nat /\ synced[f] <= Len(log[f])
      /\ post[u][f] \in Nat \cup {Unset}
  BY LogFacts DEF IInv, TypeOK, Sizes
<1>5. CASE Settled(u)
  BY <1>1, <1>3, <1>4, <1>5 DEF Settled, Unset
<1>6. CASE pc[u] = "undo"
  BY <1>1, <1>2, <1>6 DEF PlacedInv
<1> QED BY <1>1, <1>5, <1>6

LEMMA PlacedStep == ASSUME Benign, IInv, PlacedInv, [Next]_vars PROVE PlacedInv'
<1>1. \A u \in Txn, f \in File : \A p \in RowsOf(u, f)' : Anchored(u, f, p)'
  BY AnchoredStep, PlacedParts
<1>2. \A u \in Txn, f \in File : UndoSize(u, f)'
  BY UndoSizeStep
<1> QED BY <1>1, <1>2 DEF PlacedInv, Anchored, UndoSize
(* The records that were there first stay durable and whole.               *)
LEMMA OldStep == ASSUME Benign, IInv, OldInv, [Next]_vars PROVE OldInv'
<1> SUFFICES ASSUME NEW f \in File, NEW p \in RowsOf(NoTxn, f)'
             PROVE  p <= synced'[f] /\ log'[f][p].kind # "torn"
  BY DEF OldInv
<1>1. CASE RowsStay
  <2>1. p \in RowsOf(NoTxn, f) /\ log'[f][p] = log[f][p] /\ (p <= synced[f] => p <= synced'[f])
    BY <1>1 DEF RowsStay, RowsOf
  <2> QED BY <2>1 DEF OldInv
<1>2. ASSUME NEW t \in Txn, AppendRow(t) PROVE p <= synced'[f] /\ log'[f][p].kind # "torn"
  <2> DEFINE i == pos[t] + 1
             g == Batch[t][i].file
             r == Rec(t, i)
             n == Len(log[g]) + 1
  <2>0. TypeOK /\ pos[t] \in Nat /\ pos[t] < Len(Batch[t])
    BY <1>2 DEF IInv, TypeOK, AppendRow
  <2>1. i \in DOMAIN Batch[t] /\ g \in File
    BY <2>0, BatchFacts
  <2>2. r \in Record /\ r.txn = t /\ n \in Nat
    BY <2>0, <2>1, RecFacts, LogFacts
  <2>3. Appends(t, i, g, r, n)
    BY <1>2 DEF AppendRow, Appends, intentVars, dbVars
  <2> HIDE DEF i, g, r, n
  <2>4. p \in DOMAIN log'[f] /\ log'[f][p].txn = NoTxn
    BY DEF RowsOf
  <2>5. ~(f = g /\ p = n)
    BY <2>0, <2>1, <2>2, <2>3, <2>4, AppendsFacts, NotSessions
  <2>6. p \in DOMAIN log[f] /\ log'[f][p] = log[f][p]
    BY <2>0, <2>1, <2>2, <2>3, <2>4, <2>5, AppendsFacts
  <2>7. p \in RowsOf(NoTxn, f) /\ synced'[f] = synced[f]
    BY <2>3, <2>4, <2>6 DEF RowsOf, Appends
  <2> QED BY <2>6, <2>7 DEF OldInv
<1>3. ASSUME NEW t \in Txn, NEW g \in File, OpenHandle(t, g)
      PROVE  p <= synced'[f] /\ log'[f][p].kind # "torn"
  <2>1. /\ p \in DOMAIN log[f] /\ log[f][p].txn = NoTxn /\ synced[f] <= synced'[f]
        /\ log[f][p].kind # "torn" => log'[f][p] = log[f][p]
    BY <1>3, OpenFacts DEF RowsOf, Grows
  <2>2. p <= synced[f] /\ log[f][p].kind # "torn"
    BY <2>1 DEF OldInv, RowsOf
  <2>3. TypeOK' /\ TypeOK
    BY <1>3, OpenFacts DEF IInv
  <2>4. synced[f] \in Nat /\ synced'[f] \in Nat
    BY <2>3 DEF TypeOK
  <2>5. p \in Nat
    BY <2>1, <2>3, LogFacts
  <2> QED BY <2>1, <2>2, <2>4, <2>5
<1>4. CASE PowerLoss
  <2>1. /\ p \in DOMAIN log[f] /\ log'[f][p].txn = log[f][p].txn
        /\ p <= synced[f] => log'[f][p] = log[f][p]
        /\ p <= synced'[f]
    BY <1>4, LossFacts DEF RowsOf, IInv
  <2>2. p \in RowsOf(NoTxn, f)
    BY <2>1 DEF RowsOf
  <2> QED BY <2>1, <2>2 DEF OldInv
<1> QED BY <1>1, <1>2, <1>3, <1>4, StayStep
-----------------------------------------------------------------------------
(* A batch that has rows and no footprint is framed.                       *)

Framed(t) ==
  /\ intent = t /\ intentOnDisk = t
  /\ pc[t] \in {"append", "unwind", "dead"}
  /\ \A f \in File : \A p \in RowsOf(t, f) : Recognised(t, f, p)
  /\ EventIds(t) \cap IndexIds = {}
  /\ pc[t] = "dead" => \A u \in Txn : HasInserts(u) => pc[u] # "drained"

LEMMA FramedParts == FramedInv => \A t \in Txn : Unresolved(t) => Framed(t)
BY DEF FramedInv, Framed

LEMMA UnresolvedStay ==
  ASSUME RowsStay, NEW u \in Txn, post'[u] = post[u], Unresolved(u)'
  PROVE  Unresolved(u) /\ \A f \in File : \A p \in RowsOf(u, f)' :
                             p \in RowsOf(u, f) /\ log'[f][p] = log[f][p]
BY DEF RowsStay, RowsOf, Unresolved, Drained

(* A step that leaves the frame, the ids and the rows of u as they are.    *)
LEMMA FramedQuiet ==
  ASSUME FramedInv, RowsStay, NEW u \in Txn, Unresolved(u)',
         post'[u] = post[u], first'[u] = first[u],
         UNCHANGED <<intent, intentOnDisk>>,
         Framed(u) => /\ pc'[u] \in {"append", "unwind", "dead"}
                      /\ EventIds(u) \cap IndexIds' = {}
                      /\ pc'[u] = "dead" => \A w \in Txn : HasInserts(w) => pc'[w] # "drained"
  PROVE  Framed(u)'
<1>1. Framed(u)
  BY UnresolvedStay, FramedParts
<1>2. EventIds(u)' = EventIds(u)
  BY IdsFacts
<1>3. \A f \in File : \A p \in RowsOf(u, f)' : Recognised(u, f, p)'
  <2> SUFFICES ASSUME NEW f \in File, NEW p \in RowsOf(u, f)' PROVE Recognised(u, f, p)'
    OBVIOUS
  <2>1. Recognised(u, f, p) /\ log'[f][p] = log[f][p]
    BY <1>1, UnresolvedStay DEF Framed
  <2>2. \A i : Rec(u, i)' = Rec(u, i)
    BY DEF Rec
  <2> QED BY <2>1, <2>2 DEF Recognised
<1>4. \A w \in Txn : HasInserts(w)' <=> HasInserts(w)
  BY DEF HasInserts, EventRows
<1> QED BY <1>1, <1>2, <1>3, <1>4 DEF Framed

(* The same, for a step of t that only moves its own counter.              *)
LEMMA FramedMove ==
  ASSUME IInv, FramedInv, RowsStay, NEW t \in Txn, NEW l, pc' = [pc EXCEPT ![t] = l],
         l = pc[t] \/ (l # "drained" /\ (pc[t] \in {"append", "unwind", "dead"} => l = "unwind")),
         UNCHANGED <<post, first, committed, intent, intentOnDisk>>,
         NEW u \in Txn, Unresolved(u)'
  PROVE  Framed(u)'
<1>1. pc'[t] = l /\ \A v \in Txn \ {t} : pc'[v] = pc[v]
  BY DEF IInv, TypeOK
<1>2. IndexIds' = IndexIds
  BY IndexSame
<1>3. Framed(u) => /\ pc'[u] \in {"append", "unwind", "dead"}
                   /\ pc'[u] = "dead" => \A w \in Txn : HasInserts(w) => pc'[w] # "drained"
  BY <1>1 DEF Framed
<1> QED BY <1>2, <1>3, FramedQuiet DEF Framed

(* A file with a row of a framed batch is one recovery rolls back.         *)
LEMMA RecoverableRows ==
  ASSUME IInv, PlacedInv, NEW t \in Txn, NEW f \in File, RowsOf(t, f) # {}
  PROVE  /\ f \in FilesOf(t) /\ BeyondBaseline(t, f)
         /\ OwnTail(t, f) /\ (\A p \in RowsOf(t, f) : Recognised(t, f, p))
               => TailIsIntentOnly(t, f)
<1>0. TypeOK
  BY DEF IInv
<1>1. PICK p : p \in RowsOf(t, f)
  OBVIOUS
<1>2. f \in FilesOf(t) /\ base[t][f] # Unset /\ p > Baseline(t, f)
  BY <1>1 DEF PlacedInv
<1>3. DOMAIN log[f] = 1 .. Len(log[f]) /\ Len(log[f]) \in Nat /\ log[f] # <<>>
      /\ p \in Nat /\ p <= Len(log[f]) /\ Baseline(t, f) \in Nat
  BY <1>0, <1>1, <1>2, LogFacts, BaselineFacts DEF RowsOf
<1>4. BeyondBaseline(t, f)
  <2>1. exists[f]
    BY <1>3 DEF IInv, Sizes
  <2>2. Len(log[f]) > Baseline(t, f)
    BY <1>2, <1>3
  <2> QED BY <1>0, <1>2, <2>1, <2>2, BaselineFacts DEF BeyondBaseline
<1>5. ASSUME OwnTail(t, f), \A q \in RowsOf(t, f) : Recognised(t, f, q)
      PROVE  TailIsIntentOnly(t, f)
  <2> SUFFICES ASSUME NEW q \in Baseline(t, f) + 1 .. Len(log[f])
               PROVE  \/ /\ <<log[f][q].kind, log[f][q].id>> \in Allowed(t, f)
                         /\ q > Baseline(t, f) + 1 => log[f][q - 1].kind # "torn"
                      \/ log[f][q].kind = "torn" /\ q = Len(log[f])
    BY DEF TailIsIntentOnly
  <2>1. q \in DOMAIN log[f] /\ q > Baseline(t, f) /\ q \in Nat /\ q <= Len(log[f])
    BY <1>3
  <2>2. Recognised(t, f, q)
    BY <1>5, <2>1 DEF OwnTail, RowsOf
  <2>3. CASE log[f][q].kind = "torn"
    BY <2>1, <2>3 DEF IInv, TornLast
  <2>4. ASSUME NEW i \in DOMAIN Batch[t], Batch[t][i].file = f, log[f][q] = Rec(t, i)
        PROVE  <<log[f][q].kind, log[f][q].id>> \in Allowed(t, f)
    BY <2>4 DEF Allowed
  <2>5. q > Baseline(t, f) + 1 => log[f][q - 1].kind # "torn"
    <3> SUFFICES ASSUME q > Baseline(t, f) + 1, log[f][q - 1].kind = "torn" PROVE FALSE
      OBVIOUS
    <3>1. q - 1 \in DOMAIN log[f] /\ q - 1 # Len(log[f])
      BY <1>3, <2>1
    <3> QED BY <3>1 DEF IInv, TornLast
  <2> QED BY <2>2, <2>3, <2>4, <2>5 DEF Recognised
<1> QED BY <1>2, <1>4, <1>5

LEMMA FramedRecover ==
  ASSUME Benign, IInv, PlacedInv, FramedInv, [Next]_vars, NEW t \in Txn, Acquire(t) \/ Recover(t),
         NEW u \in Txn, Unresolved(u)'
  PROVE  Framed(u)'
<1> USE DEF intentVars, dbVars, drainVars, fileVars
<1>1. CASE Acquire(t) \/ RecoverNothing(t) \/ RecoverUncommitted(t)
  <2>1. PICK l : l \in {"recover", "rollback", AfterRecovery(t)} /\ pc' = [pc EXCEPT ![t] = l]
    BY <1>1 DEF Acquire, RecoverNothing, RecoverUncommitted, Goto
  <2>2. RowsStay /\ UNCHANGED <<post, first, committed, intent, intentOnDisk>>
    BY <1>1, SameStay DEF Acquire, RecoverNothing, RecoverUncommitted
  <2>3. l # "drained" /\ pc[t] \notin {"append", "unwind", "dead"}
    BY <1>1, <2>1 DEF Acquire, RecoverNothing, RecoverUncommitted, AfterRecovery
  <2> QED BY <2>1, <2>2, <2>3, FramedMove
<1>2. ASSUME NEW f \in File, RecoverFile(t, f) PROVE Framed(u)'
  <2>1. RowsStay
    BY <1>2, Rollbacks, RollStays
  <2>2. UNCHANGED <<pc, post, first, committed, intent, intentOnDisk>>
    BY <1>2 DEF RecoverFile
  <2>3. pc' = [pc EXCEPT ![t] = pc[t]]
    BY <2>2 DEF IInv, TypeOK
  <2> QED BY <2>1, <2>2, <2>3, FramedMove
<1>3. CASE RecoverKeep(t) \/ RecoverDone(t)
  <2>1. UNCHANGED <<log, synced, post>>
    BY <1>3 DEF RecoverKeep, RecoverDone
  <2>2. Unresolved(u) /\ Framed(u)
    BY <2>1, SameStay, UnresolvedStay, FramedParts
  <2>3. CASE RecoverKeep(t)
    <3>1. Probe(u) = "no"
      BY <2>2 DEF Unresolved, Framed, Probe
    <3> QED BY <2>2, <2>3, <3>1, NotSessions DEF RecoverKeep, Framed
  <2>4. CASE RecoverDone(t)
    <3>1. PICK f \in File : RowsOf(u, f) # {}
      BY <2>2 DEF Unresolved
    <3>2. OwnTail(u, f)
      BY <2>2, <3>1, RecoverableRows DEF Framed, IInv, FrameInv
    <3>3. f \in FilesOf(u) /\ BeyondBaseline(u, f) /\ TailIsIntentOnly(u, f)
      BY <2>2, <3>1, <3>2, RecoverableRows DEF Framed
    <3> QED BY <2>2, <2>4, <3>3 DEF RecoverDone, Framed
  <2> QED BY <1>3, <2>3, <2>4
<1> QED BY <1>1, <1>2, <1>3 DEF Recover
(* The ids of a batch that is being appended are not in the index.         *)
LEMMA FreshIds ==
  ASSUME IInv, IdsInv, NEW t \in Txn, HasInserts(t), BeforeCommit(t)
  PROVE  EventIds(t) \cap IndexIds = {}
<1>1. first[t] = highWater /\ first[t] \in Nat
  BY DEF IdsInv, IInv, TypeOK
<1>2. \A id \in EventIds(t) : id \in Nat /\ id > highWater
  BY <1>1, IdsFacts DEF IInv
<1>3. \A id \in IndexIds : id <= highWater
  BY DEF IdsInv
<1> QED BY <1>1, <1>2, <1>3

LEMMA FramedAppend ==
  ASSUME IInv, IdsInv, FramedInv, NEW t \in Txn, AppendRow(t), NEW u \in Txn, Unresolved(u)'
  PROVE  Framed(u)'
<1> DEFINE i == pos[t] + 1
           f == Batch[t][i].file
           r == Rec(t, i)
           n == Len(log[f]) + 1
<1>0. TypeOK /\ pos[t] \in Nat /\ pos[t] < Len(Batch[t])
  BY DEF IInv, TypeOK, AppendRow
<1>1. i \in DOMAIN Batch[t] /\ f \in File /\ f = Batch[t][i].file /\ r = Rec(t, i)
  BY <1>0, BatchFacts
<1>2. r \in Record /\ r.txn = t /\ n \in Nat
  BY <1>0, <1>1, RecFacts, LogFacts
<1>3. Appends(t, i, f, r, n)
  BY DEF AppendRow, Appends, intentVars, dbVars
<1> HIDE DEF i, f, r, n
<1>4. UNCHANGED <<pc, post, first, committed, intent, intentOnDisk>> /\ pc[t] = "append"
  BY <1>3 DEF Appends
<1>5. intent = t /\ intentOnDisk = t
  BY <1>4 DEF IInv, SessionInv, Appending
<1>6. \A g \in File : \A p \in RowsOf(u, g)' :
         \/ p \in RowsOf(u, g) /\ log'[g][p] = log[g][p]
         \/ u = t /\ g = f /\ log'[g][p] = r
  <2> SUFFICES ASSUME NEW g \in File, NEW p \in RowsOf(u, g)'
               PROVE  \/ p \in RowsOf(u, g) /\ log'[g][p] = log[g][p]
                      \/ u = t /\ g = f /\ log'[g][p] = r
    OBVIOUS
  <2>1. p \in DOMAIN log'[g] /\ log'[g][p].txn = u
    BY DEF RowsOf
  <2>2. CASE g # f
    BY <1>0, <1>1, <1>2, <1>3, <2>1, <2>2, AppendsFacts DEF RowsOf
  <2>3. CASE g = f /\ p \in DOMAIN log[f]
    BY <1>0, <1>1, <1>2, <1>3, <2>1, <2>3, AppendsFacts DEF RowsOf
  <2>4. CASE g = f /\ p = n
    BY <1>0, <1>1, <1>2, <1>3, <2>1, <2>4, AppendsFacts
  <2> QED BY <1>0, <1>1, <1>2, <1>3, <2>1, <2>2, <2>3, <2>4, AppendsFacts
<1>7. HasInserts(u) /\ ~Drained(u)
  BY <1>4 DEF Unresolved, HasInserts, EventRows, Drained
<1>8. u = t
  <2> SUFFICES ASSUME u # t PROVE FALSE
    OBVIOUS
  <2>1. Unresolved(u)
    BY <1>6, <1>7 DEF Unresolved
  <2> QED BY <1>5, <2>1, FramedParts DEF Framed
<1>9. EventIds(t)' \cap IndexIds' = {}
  <2>1. BeforeCommit(t)
    BY <1>4 DEF BeforeCommit, Writing
  <2> QED BY <1>4, <1>7, <1>8, <2>1, FreshIds, IndexSame
<1>10. \A g \in File : \A p \in RowsOf(t, g)' : Recognised(t, g, p)'
  <2> SUFFICES ASSUME NEW g \in File, NEW p \in RowsOf(t, g)' PROVE Recognised(t, g, p)'
    OBVIOUS
  <2>1. \A j : Rec(t, j)' = Rec(t, j)
    BY <1>4 DEF Rec
  <2>2. CASE p \in RowsOf(t, g) /\ log'[g][p] = log[g][p]
    <3>1. Unresolved(t)
      BY <1>7, <1>8, <2>2 DEF Unresolved
    <3>2. Recognised(t, g, p)
      BY <2>2, <3>1, FramedParts DEF Framed
    <3> QED BY <2>1, <2>2, <3>2 DEF Recognised
  <2>3. CASE g = f /\ log'[g][p] = r
    BY <1>1, <2>1, <2>3 DEF Recognised
  <2> QED BY <1>6, <1>8, <2>2, <2>3
<1> QED BY <1>4, <1>5, <1>8, <1>9, <1>10 DEF Framed

LEMMA FramedDrain ==
  ASSUME Benign, IInv, IdsInv, ResolvedInv, FramedInv, NEW t \in Txn, Drain(t),
         NEW u \in Txn, Unresolved(u)'
  PROVE  Framed(u)'
<1> USE DEF intentVars, dbVars, drainVars, fileVars
<1>1. ASSUME NEW f \in File, OpenHandle(t, f) PROVE FALSE
  <2>1. UNCHANGED post /\ intent = Empty
    BY <1>1 DEF OpenHandle, ResolvedInv
  <2>2. \A g \in File : \A p \in RowsOf(u, g)' : p \in RowsOf(u, g)
    BY <1>1, OpenFacts DEF Grows, RowsOf
  <2>3. Unresolved(u)
    BY <2>1, <2>2 DEF Unresolved, Drained, HasInserts, EventRows
  <2> QED BY <2>1, <2>3, FramedParts, NotSessions DEF Framed
<1>2. CASE WriteIntent(t) \/ SyncIntent(t)
  <2>1. UNCHANGED <<log, synced, post>> /\ intent \in {Empty, Torn}
    BY <1>2 DEF WriteIntent, SyncIntent, ResolvedInv
  <2>2. Framed(u)
    BY <2>1, SameStay, UnresolvedStay, FramedParts
  <2> QED BY <2>1, <2>2, NotSessions DEF Framed
<1>3. CASE ClearIntent(t) \/ ClearIntentFails(t)
  <2>1. ClearIntent(t) /\ FinishDrain(t) /\ UNCHANGED <<log, synced>>
    BY <1>3 DEF ClearIntent, ClearIntentFails, Benign
  <2>2. u # t
    BY <2>1, FinishFacts DEF Unresolved, IInv
  <2>3. post'[u] = post[u]
    BY <2>1, <2>2, FinishFacts DEF IInv
  <2>4. Framed(u)
    BY <2>1, <2>3, SameStay, UnresolvedStay, FramedParts
  <2>5. intent = t
    BY <2>1 DEF FinishDrain, IInv, SessionInv, Appending
  <2> QED BY <2>2, <2>4, <2>5 DEF Framed
<1>4. ASSUME NEW f \in File, FsyncFile(t, f) PROVE Framed(u)'
  <2>1. UNCHANGED <<pc, log, post, first, committed, intent, intentOnDisk>>
        /\ synced' = [synced EXCEPT ![f] = Len(log[f])]
    BY <1>4 DEF FsyncFile
  <2>2. RowsStay
    <3>1. \A g \in File : synced'[g] = IF g = f THEN Len(log[f]) ELSE synced[g]
      BY <2>1 DEF IInv, TypeOK
    <3>2. \A p \in DOMAIN log[f] : p <= Len(log[f])
      BY LogFacts DEF IInv
    <3> QED BY <2>1, <3>1, <3>2 DEF RowsStay
  <2>3. pc' = [pc EXCEPT ![t] = pc[t]]
    BY <2>1 DEF IInv, TypeOK
  <2> QED BY <2>1, <2>2, <2>3, FramedMove
<1> QED BY <1>1, <1>2, <1>3, <1>4, FramedAppend DEF Drain

LEMMA FramedUndo ==
  ASSUME IInv, PlacedInv, FramedInv, NEW t \in Txn, Unwind(t) \/ Undo(t),
         NEW u \in Txn, Unresolved(u)'
  PROVE  Framed(u)'
<1> USE DEF intentVars, dbVars, drainVars, fileVars
<1>1. ASSUME NEW f \in File, UnwindFile(t, f) \/ UndoFile(t, f) PROVE Framed(u)'
  <2>1. RowsStay
    BY <1>1, Rollbacks, RollStays
  <2>2. UNCHANGED <<pc, post, first, committed, intent, intentOnDisk>>
    BY <1>1 DEF UnwindFile, UndoFile
  <2>3. pc' = [pc EXCEPT ![t] = pc[t]]
    BY <2>2 DEF IInv, TypeOK
  <2> QED BY <2>1, <2>2, <2>3, FramedMove
<1>2. CASE UnwindDone(t)
  <2>1. UNCHANGED <<log, synced, post>> /\ intent = t
    BY <1>2 DEF UnwindDone, IInv, SessionInv, Unwinding
  <2>2. Unresolved(u) /\ Framed(u)
    BY <2>1, SameStay, UnresolvedStay, FramedParts
  <2>3. PICK f \in File : RowsOf(u, f) # {}
    BY <2>2 DEF Unresolved
  <2>4. f \in FilesOf(u) /\ BeyondBaseline(u, f)
    BY <2>3, RecoverableRows
  <2> QED BY <1>2, <2>1, <2>2, <2>4 DEF UnwindDone, Framed
<1>3. CASE UndoKeep(t) \/ UndoNeeded(t) \/ UndoDone(t)
  <2>1. PICK l : l \in {"kept", "undoWait", "aborted"} /\ pc' = [pc EXCEPT ![t] = l]
    BY <1>3 DEF UndoKeep, UndoNeeded, UndoDone, Goto
  <2>2. RowsStay /\ UNCHANGED <<post, first, committed, intent, intentOnDisk>>
    BY <1>3, SameStay DEF UndoKeep, UndoNeeded, UndoDone
  <2>3. pc[t] \notin {"append", "unwind", "dead"}
    BY <1>3 DEF UndoKeep, UndoNeeded, UndoDone
  <2> QED BY <2>1, <2>2, <2>3, FramedMove
<1> QED BY <1>1, <1>2, <1>3 DEF Unwind, Undo

(* A COMMIT indexes no id of a framed batch: the write lock is its own.    *)
LEMMA FramedCommit ==
  ASSUME IInv, IdsInv, FramedInv, NEW t \in Txn, Commit(t) \/ CommitRaises(t),
         NEW u \in Txn, Unresolved(u)'
  PROVE  Framed(u)'
<1> USE DEF intentVars, dbVars, drainVars, fileVars
<1>1. /\ UNCHANGED <<log, synced, post, first, intent, intentOnDisk>> /\ CanCommit(t)
      /\ Land(t) \/ UNCHANGED <<committed, highWater>>
  BY DEF Commit, CommitRaises
<1>2. PICK l \in {"done", "failed"} : pc' = [pc EXCEPT ![t] = l]
  BY DEF Commit, CommitRaises, Goto
<1>3. pc'[t] = l /\ \A v \in Txn \ {t} : pc'[v] = pc[v]
  BY <1>2 DEF IInv, TypeOK
<1>4. RowsStay /\ Unresolved(u) /\ Framed(u)
  BY <1>1, SameStay, UnresolvedStay, FramedParts
<1>5. u # t /\ pc[t] = "drained"
  BY <1>1, <1>4 DEF Framed, CanCommit
<1>6. EventIds(u) \cap IndexIds' = {}
  <2>1. CASE ~HasInserts(t) \/ UNCHANGED <<committed, highWater>>
    <3>1. IndexIds' = IndexIds
      BY <1>1, <2>1, LandIds, IndexSame
    <3> QED BY <1>4, <3>1 DEF Framed
  <2>2. CASE HasInserts(t)
    <3>1. pc[u] \in {"append", "unwind"}
      BY <1>4, <1>5, <2>2 DEF Framed
    <3>2. HasInserts(u) /\ BeforeCommit(u)
      BY <1>4, <3>1 DEF Unresolved, BeforeCommit, Writing
    <3> QED BY <1>1, <1>5, <2>2, <3>2 DEF CanCommit, IdsInv
  <2> QED BY <2>1, <2>2
<1>7. pc'[u] = pc[u] /\ \A w \in Txn : pc'[w] = "drained" => pc[w] = "drained"
  BY <1>2, <1>3, <1>5
<1> QED BY <1>1, <1>4, <1>6, <1>7, FramedQuiet DEF Framed

LEMMA FramedOther ==
  ASSUME IInv, FramedInv, NEW t \in Txn, Stage(t) \/ FrameFails(t) \/ AppendFails(t),
         NEW u \in Txn, Unresolved(u)'
  PROVE  Framed(u)'
<1> USE DEF intentVars, dbVars, drainVars, fileVars
<1>1. CASE FrameFails(t) \/ AppendFails(t)
  <2>1. PICK l : /\ l \in {"aborted", "unwind"} /\ pc' = [pc EXCEPT ![t] = l]
                 /\ pc[t] \in {"append", "unwind", "dead"} => l = "unwind"
    BY <1>1 DEF FrameFails, AppendFails, Goto
  <2>2. RowsStay /\ UNCHANGED <<post, first, committed, intent, intentOnDisk>>
    BY <1>1, SameStay DEF FrameFails, AppendFails
  <2> QED BY <2>1, <2>2, FramedMove
<1>2. CASE Stage(t)
  <2>1. /\ RowsStay /\ UNCHANGED <<post, committed, intent, intentOnDisk>>
        /\ pc' = [pc EXCEPT ![t] = "staged"] /\ pc[t] = "idle"
        /\ \A v \in Txn \ {t} : first'[v] = first[v]
    BY <1>2, SameStay DEF Stage, Goto, IInv, TypeOK
  <2>2. pc'[t] = "staged" /\ \A v \in Txn \ {t} : pc'[v] = pc[v]
    BY <2>1 DEF IInv, TypeOK
  <2>3. Framed(u) /\ u # t
    BY <2>1, UnresolvedStay, FramedParts DEF Framed
  <2>4. IndexIds' = IndexIds
    <3>1. t \notin committed /\ committed \subseteq Txn
      BY <2>1 DEF IInv, SessionInv, TypeOK
    <3>2. \A v \in committed : EventIds(v)' = EventIds(v)
      BY <2>1, <3>1, IdsFacts
    <3>3. {EventIds(v)' : v \in committed'} = {EventIds(v) : v \in committed}
      BY <2>1, <3>2
    <3> QED BY <3>3 DEF IndexIds
  <2>5. pc'[u] = pc[u] /\ \A w \in Txn : pc'[w] = "drained" => pc[w] = "drained"
    BY <2>2, <2>3
  <2> QED BY <2>1, <2>3, <2>4, <2>5, FramedQuiet DEF Framed
<1> QED BY <1>1, <1>2
(* Who dies framed held the write lock: nobody else was on its way.        *)
LEMMA FramedDeath ==
  ASSUME Benign, IInv, IdsInv, FramedInv, (\E p \in Proc : Kill(p)) \/ PowerLoss,
         NEW u \in Txn, Unresolved(u)'
  PROVE  Framed(u)'
<1>1. /\ \A v \in Txn : pc'[v] = pc[v] \/ (pc'[v] = "dead" /\ Live(v))
      /\ UNCHANGED <<committed, first, post>>
  BY DeathFacts
<1>2. IndexIds' = IndexIds /\ EventIds(u)' = EventIds(u) /\ \A i : Rec(u, i)' = Rec(u, i)
  BY <1>1, IndexSame DEF Rec
<1>3. ASSUME Framed(u), Unresolved(u), NEW w \in Txn, HasInserts(w), pc'[u] = "dead"
      PROVE  pc'[w] # "drained"
  <2> SUFFICES ASSUME pc'[w] = "drained" PROVE FALSE
    OBVIOUS
  <2>1. pc[w] = "drained"
    BY <1>1
  <2>2. pc[u] # "dead"
    BY <1>3, <2>1 DEF Framed
  <2>3. HasInserts(u) /\ BeforeCommit(u) /\ BeforeCommit(w) /\ u # w
    BY <1>3, <2>1, <2>2 DEF Framed, Unresolved, BeforeCommit, Writing
  <2> QED BY <1>3, <2>3 DEF IdsInv
<1>4. ASSUME Framed(u) PROVE pc'[u] \in {"append", "unwind", "dead"}
  BY <1>1, <1>4 DEF Framed
<1>5. ASSUME NEW p \in Proc, Kill(p) PROVE Framed(u)'
  <2>1. RowsStay /\ UNCHANGED <<intent, intentOnDisk>>
    BY <1>5, SameStay DEF Kill, KillTorn, Benign, intentVars
  <2>2. Unresolved(u) /\ Framed(u)
    BY <1>1, <2>1, UnresolvedStay, FramedParts
  <2> QED BY <1>1, <1>2, <1>3, <1>4, <2>1, <2>2, FramedQuiet DEF Framed
<1>6. CASE PowerLoss
  <2>1. \A f \in File : \A p \in RowsOf(u, f)' :
          p \in RowsOf(u, f) /\ (log'[f][p] = log[f][p] \/ log'[f][p].kind = "torn")
    BY <1>6, LossFacts DEF RowsOf, IInv
  <2>2. Unresolved(u)
    BY <1>1, <2>1 DEF Unresolved, HasInserts, EventRows, Drained
  <2>3. Framed(u)
    BY <2>2, FramedParts
  <2>4. \A f \in File : \A p \in RowsOf(u, f)' : Recognised(u, f, p)'
    BY <1>2, <2>1, <2>3 DEF Recognised, Framed
  <2>5. intent' = u /\ intentOnDisk' = u
    BY <1>6, <2>3 DEF PowerLoss, Framed
  <2>6. \A w \in Txn : HasInserts(w)' <=> HasInserts(w)
    BY DEF HasInserts, EventRows
  <2> QED BY <1>2, <1>3, <1>4, <2>2, <2>3, <2>4, <2>5, <2>6 DEF Framed
<1> QED BY <1>5, <1>6

LEMMA FramedStep ==
  ASSUME Benign, IInv, IdsInv, ResolvedInv, PlacedInv, FramedInv, [Next]_vars
  PROVE  FramedInv'
<1> SUFFICES ASSUME NEW u \in Txn, Unresolved(u)' PROVE Framed(u)'
  BY DEF FramedInv, Framed
<1>1. CASE UNCHANGED vars
  <2>1. UNCHANGED <<pc, log, synced, post, first, committed, intent, intentOnDisk>>
    BY <1>1 DEF vars, fileVars, intentVars, dbVars, drainVars
  <2> QED BY <2>1, SameStay, FramedQuiet, IndexSame DEF Framed
<1>2. ASSUME NEW t \in Txn, Stage(t) \/ Progress(t) \/ Fault(t) PROVE Framed(u)'
  BY <1>2, FramedRecover, FramedDrain, FramedUndo, FramedCommit, FramedOther
     DEF Progress, Fault
<1> QED BY <1>1, <1>2, FramedDeath DEF Next
-----------------------------------------------------------------------------
(* The invariant, and what follows from it.                                *)

LEMMA InitDrainInv == ASSUME Init PROVE DrainInv
<1>1. \A t \in Txn, f \in File : RowsOf(t, f) = {}
  BY NotSessions DEF Init, RowsOf
<1>2. IdsInv
  BY DEF Init, IdsInv, IndexIds, BeforeCommit, Writing
<1>3. ResolvedInv /\ CommittedDrained
  BY DEF Init, ResolvedInv, CommittedDrained
<1>4. PlacedInv /\ FramedInv
  BY <1>1 DEF PlacedInv, FramedInv, Unresolved
<1>5. OldInv
  <2> SUFFICES ASSUME NEW f \in File, NEW p \in RowsOf(NoTxn, f)
               PROVE  p <= synced[f] /\ log[f][p].kind # "torn"
    BY DEF OldInv
  <2> DEFINE r == [kind |-> "thread", id |-> 0, txn |-> NoTxn]
  <2>1. CASE f \in Preexisting
    <3>1. log[f] = <<r>> /\ synced[f] = 1 /\ r.kind = "thread"
      BY <2>1 DEF Init
    <3> HIDE DEF r
    <3>2. p \in 1 .. 1
      BY <3>1 DEF RowsOf
    <3> QED BY <3>1, <3>2
  <2>2. CASE f \notin Preexisting
    BY <2>2 DEF Init, RowsOf
  <2> QED BY <2>1, <2>2
<1> QED BY <1>2, <1>3, <1>4, <1>5, InitIInv DEF DrainInv

(* The invariant of the drain, rows and ids included.                      *)
THEOREM DrainInductive == ASSUME Benign PROVE Spec => []DrainInv
<1>1. ASSUME DrainInv, [Next]_vars PROVE DrainInv'
  BY <1>1, StepKeeps, IdsStep, ResolvedStep, PlacedStep, OldStep, CommittedStep, FramedStep
     DEF DrainInv
<1> QED BY <1>1, InitDrainInv, PTL DEF Spec

(* A drain that died, or met an I/O error, leaves nothing in the truth     *)
(* once its intent is resolved (drain.py 475: "The drain is all-or-nothing *)
(* per commit").                                                           *)
THEOREM AllOrNothing == ASSUME Benign PROVE Spec => []CrashedDrainLeavesNothing
<1>1. ASSUME DrainInv PROVE CrashedDrainLeavesNothing
  <2> SUFFICES ASSUME intent = Empty, NEW t \in Txn, HasInserts(t), ~Drained(t),
                      NEW f \in File, RowsOf(t, f) # {}
               PROVE  FALSE
    BY DEF CrashedDrainLeavesNothing, AtRest
  <2>1. Unresolved(t)
    BY DEF Unresolved
  <2> QED BY <1>1, <2>1, NotSessions DEF DrainInv, FramedInv
<1> QED BY <1>1, DrainInductive, PTL

(* The undo of a rejected COMMIT gives up a file only if another writer    *)
(* appended after the batch (_undo_drain).                                 *)
THEOREM UndoIsExact == ASSUME Benign PROVE Spec => UndoLeavesOnlyBuriedRows
<1>1. ASSUME DrainInv, [Next]_vars, NEW t \in Txn, pc[t] = "undo", pc'[t] = "aborted"
      PROVE  UndoDone(t)
  <2> USE DEF intentVars, dbVars, drainVars, fileVars
  <2>0. IInv
    BY <1>1 DEF DrainInv
  <2>1. ASSUME NEW u \in Txn, Stage(u) \/ Progress(u) \/ Fault(u) PROVE UndoDone(t)
    <3>1. CASE u # t
      <4>1. pc' = pc \/ \E l : pc' = [pc EXCEPT ![u] = l]
        BY <2>1 DEF Stage, Progress, Fault, Acquire, Recover, RecoverNothing, RecoverKeep,
           RecoverUncommitted, RecoverFile, RecoverDone, Drain, OpenHandle, WriteIntent,
           SyncIntent, AppendRow, FsyncFile, ClearIntent, ClearIntentFails, FinishDrain, Unwind,
           UnwindFile, UnwindDone, Commit, Undo, UndoKeep, UndoNeeded, UndoFile, UndoDone,
           FrameFails, AppendFails, CommitRaises, Goto
      <4>2. pc'[t] = pc[t]
        BY <2>0, <3>1, <4>1 DEF IInv, TypeOK
      <4> QED BY <1>1, <4>2
    <3>2. CASE u = t
      <4>1. ~Stage(t) /\ ~Acquire(t) /\ ~Recover(t) /\ ~Drain(t) /\ ~Unwind(t) /\ ~Commit(t)
            /\ ~Fault(t) /\ ~UndoKeep(t) /\ ~UndoNeeded(t)
        BY <1>1 DEF Stage, Fault, Acquire, Recover, RecoverNothing, RecoverKeep,
           RecoverUncommitted, RecoverFile, RecoverDone, Drain, OpenHandle, WriteIntent,
           SyncIntent, AppendRow, FsyncFile, ClearIntent, ClearIntentFails, FinishDrain, Unwind,
           UnwindFile, UnwindDone, Commit, CanCommit, UndoKeep, UndoNeeded,
           FrameFails, AppendFails, CommitRaises
      <4>2. \A f \in File : ~UndoFile(t, f)
        BY <1>1 DEF UndoFile
      <4> QED BY <2>1, <3>2, <4>1, <4>2 DEF Progress, Undo
    <3> QED BY <3>1, <3>2
  <2>2. ~((\E p \in Proc : Kill(p)) \/ PowerLoss)
    BY <1>1, DeathFacts
  <2>3. ~UNCHANGED vars
    BY <1>1 DEF vars
  <2> QED BY <1>1, <2>1, <2>2, <2>3 DEF Next
<1>2. ASSUME DrainInv, NEW t \in Txn, pc[t] = "undo", UndoDone(t),
             NEW f \in FilesOf(t), NEW p \in RowsOf(t, f)
      PROVE  p <= post[t][f] /\ post[t][f] < Len(log[f])
  <2>1. IInv /\ PlacedInv /\ Undoing(t) /\ f \in File
    BY <1>2, BatchFacts DEF DrainInv, IInv, SessionInv
  <2>2. post[t][f] <= Len(log[f]) /\ f \in FilesOf(t) /\ base[t][f] # Unset
        /\ Baseline(t, f) < post[t][f]
    BY <1>2, <2>1 DEF PlacedInv, Undoing
  <2>3. Baseline(t, f) \in Nat
    BY <2>1, <2>2, BaselineFacts DEF IInv
  <2>4. post[t][f] \in Nat \cup {Unset} /\ Len(log[f]) \in Nat
    BY <2>1, LogFacts DEF IInv, TypeOK
  <2>5. post[t][f] \in Nat
    BY <2>2, <2>3, <2>4 DEF Unset
  <2>6. p <= post[t][f]
    BY <1>2, <2>1, <2>5 DEF PlacedInv, Drained, Unset
  <2>7. exists[f]
    <3>1. p \in DOMAIN log[f]
      BY DEF RowsOf
    <3> QED BY <2>1, <3>1 DEF IInv, Sizes
  <2>8. Len(log[f]) # post[t][f]
    BY <1>2, <2>7 DEF UndoDone, Undoable
  <2> QED BY <2>2, <2>4, <2>5, <2>6, <2>8
<1>3. ASSUME DrainInv, [Next]_vars
      PROVE  \A t \in Txn : pc[t] = "undo" /\ pc'[t] = "aborted" =>
               \A f \in FilesOf(t) : \A p \in RowsOf(t, f) :
                  p <= post[t][f] /\ post[t][f] < Len(log[f])
  BY <1>1, <1>2, <1>3
<1> QED BY <1>3, DrainInductive, PTL DEF Spec, UndoLeavesOnlyBuriedRows
LEMMA LogChanges ==
  ASSUME Benign, [Next]_vars
  PROVE  \/ UNCHANGED log
         \/ \E t \in Txn, f \in File : RecoverFile(t, f) \/ UnwindFile(t, f) \/ UndoFile(t, f)
                                       \/ OpenHandle(t, f)
         \/ \E t \in Txn : AppendRow(t)
         \/ PowerLoss
<1>1. CASE UNCHANGED vars
  BY <1>1 DEF vars, fileVars
<1>2. ASSUME NEW p \in Proc, Kill(p) PROVE UNCHANGED log
  BY <1>2 DEF Kill, KillTorn, Benign
<1>3. ASSUME NEW t \in Txn, Stage(t) \/ Acquire(t) \/ Commit(t) \/ Fault(t) PROVE UNCHANGED log
  BY <1>3 DEF Stage, Acquire, Commit, Fault, FrameFails, AppendFails, CommitRaises, fileVars
<1>4. ASSUME NEW t \in Txn, Recover(t) \/ Unwind(t) \/ Undo(t) PROVE
         UNCHANGED log \/ \E f \in File : RecoverFile(t, f) \/ UnwindFile(t, f) \/ UndoFile(t, f)
  BY <1>4 DEF Recover, RecoverNothing, RecoverKeep, RecoverUncommitted,
     RecoverDone, Unwind, UnwindDone, Undo, UndoKeep, UndoNeeded, UndoDone, fileVars
<1>5. ASSUME NEW t \in Txn, Drain(t)
      PROVE  UNCHANGED log \/ AppendRow(t) \/ \E f \in File : OpenHandle(t, f)
  BY <1>5 DEF Drain, WriteIntent, SyncIntent, FsyncFile, ClearIntent, ClearIntentFails, fileVars
<1> QED BY <1>1, <1>2, <1>3, <1>4, <1>5 DEF Next, Progress

(* A line of the index or of the initial truth is durable and whole.       *)
LEMMA CommittedLines ==
  ASSUME DrainInv, NEW f \in File, NEW p \in DOMAIN log[f],
         log[f][p].txn \in committed \cup {NoTxn}
  PROVE  p <= synced[f] /\ log[f][p].kind # "torn"
<1>1. CASE log[f][p].txn = NoTxn
  BY <1>1 DEF DrainInv, OldInv, RowsOf
<1>2. CASE log[f][p].txn \in committed
  <2>1. log[f][p].txn \in Txn /\ Drained(log[f][p].txn)
    BY <1>2 DEF DrainInv, IInv, TypeOK, CommittedDrained
  <2>2. p \in RowsOf(log[f][p].txn, f)
    BY DEF RowsOf
  <2> QED BY <2>1, <2>2 DEF DrainInv, PlacedInv
<1> QED BY <1>1, <1>2

LEMMA LinesStay ==
  ASSUME Benign, DrainInv, [Next]_vars, NEW f \in File, NEW p \in DOMAIN log[f],
         log[f][p].txn \in committed \cup {NoTxn}
  PROVE  p \in DOMAIN log'[f] /\ log'[f][p] = log[f][p]
<1>0. IInv /\ TypeOK /\ DOMAIN log[f] = 1 .. Len(log[f]) /\ Len(log[f]) \in Nat
  BY LogFacts DEF DrainInv, IInv
<1>1. ASSUME NEW t \in Txn, NEW g \in File,
             RecoverFile(t, g) \/ UnwindFile(t, g) \/ UndoFile(t, g)
      PROVE  p \in DOMAIN log'[f] /\ log'[f][p] = log[f][p]
  <2>1. PICK o \in Txn : Rolls(o, g) /\ RollbackFile(ProcOf[t], o, g) /\ o \notin committed
    BY <1>0, <1>1, Rollbacks
  <2>2. CASE f # g
    BY <1>0, <2>1, <2>2, RollFacts
  <2>3. CASE f = g
    <3>1. log[f][p].txn # o
      BY <2>1, NotSessions
    <3>2. ~(p > Baseline(o, f))
      BY <2>1, <2>3, <3>1 DEF Rolls, OwnTail
    <3>3. Baseline(o, f) \in 0 .. Len(log[f]) /\ DOMAIN log'[f] = 1 .. Baseline(o, f)
          /\ \A q \in 1 .. Baseline(o, f) : log'[f][q] = log[f][q]
      BY <1>0, <2>1, <2>3, RollFacts
    <3>4. p \in 1 .. Baseline(o, f)
      BY <1>0, <3>2, <3>3
    <3> QED BY <3>3, <3>4
  <2> QED BY <2>2, <2>3
<1>2. ASSUME NEW t \in Txn, NEW g \in File, OpenHandle(t, g)
      PROVE  p \in DOMAIN log'[f] /\ log'[f][p] = log[f][p]
  BY <1>0, <1>2, OpenFacts, CommittedLines DEF Grows
<1>3. ASSUME NEW t \in Txn, AppendRow(t)
      PROVE  p \in DOMAIN log'[f] /\ log'[f][p] = log[f][p]
  <2> DEFINE i == pos[t] + 1
             g == Batch[t][i].file
             r == Rec(t, i)
             n == Len(log[g]) + 1
  <2>0. pos[t] \in Nat /\ pos[t] < Len(Batch[t])
    BY <1>0, <1>3 DEF TypeOK, AppendRow
  <2>1. i \in DOMAIN Batch[t] /\ g \in File
    BY <2>0, BatchFacts
  <2>2. r \in Record /\ n \in Nat
    BY <1>0, <2>1, RecFacts, LogFacts
  <2>3. Appends(t, i, g, r, n)
    BY <1>3 DEF AppendRow, Appends, intentVars, dbVars
  <2> HIDE DEF i, g, r, n
  <2>4. f # g => log'[f] = log[f]
    BY <1>0, <2>1, <2>2, <2>3, AppendsFacts
  <2>5. f = g => p \in DOMAIN log'[f] /\ log'[f][p] = log[f][p]
    BY <1>0, <2>1, <2>2, <2>3, AppendsFacts
  <2> QED BY <2>4, <2>5
<1>4. CASE PowerLoss
  BY <1>0, <1>4, LossFacts, CommittedLines
<1> QED BY <1>1, <1>2, <1>3, <1>4, LogChanges

(* No recovery, unwind, undo, torn-tail repair or power loss removes or    *)
(* changes a line of a batch the index holds (_rollback_file, _handle).    *)
THEOREM CommittedLinesStay == ASSUME Benign PROVE Spec => NoCommittedLineCut
<1>1. ASSUME DrainInv, [Next]_vars
      PROVE  \A f \in File : \A p \in DOMAIN log[f] :
               log[f][p].txn \in committed \cup {NoTxn}
                 => p \in DOMAIN log'[f] /\ log'[f][p] = log[f][p]
  BY <1>1, LinesStay
<1> QED BY <1>1, DrainInductive, PTL DEF Spec, NoCommittedLineCut
===============================================================================
