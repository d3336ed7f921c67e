-------------------------------- MODULE Reindex --------------------------------
(***************************************************************************)
(* The rebuild of the index (_truth/rebuild.py) next to the processes that *)
(* import or repair the truth (_truth/repair.py): the ingest lock          *)
(* (_truth/locks.py), held shared for a pass and exclusive for build and   *)
(* swap and for a repair, and the connections each process keeps to the    *)
(* file that was index.db when it connected (_store/_base.py).             *)
(*                                                                         *)
(* An index file is an inode: its events and its import cursors (the       *)
(* events whose source lines count as imported).  The drain is TruthDrain's*)
(* subject; here it appends a line under the mutex and is framed by the    *)
(* intent until it is complete.  An archive whose index.db was removed is  *)
(* not modelled.                                                           *)
(***************************************************************************)
EXTENDS Integers

CONSTANTS
  Event,       \* the content of the source lines, one thread and source each
  Proc,        \* processes that import or repair: the watcher daemon, one-shot commands
  Rebuilder,   \* processes that run `index rebuild`
  Nobody,
  MaxInode,    \* bound: index files ever made
  MaxKills,    \* bound: processes killed
  MaxRot       \* bound: times the truth is damaged on the disk

ASSUME ReindexActors == Nobody \notin Proc \cup Rebuilder /\ Proc \cap Rebuilder = {}
ASSUME ReindexBounds == MaxInode \in Nat \ {0} /\ MaxKills \in Nat /\ MaxRot \in Nat

VARIABLES
  truth,      \* the complete, readable event lines
  bare,       \* threads whose record outlived their damaged event line
  partial,    \* the line of an unfinished drain: .drain.intent frames it
  snapshot,   \* import_state.jsonl
  file,       \* inode -> its rows
  index,      \* the inode named index.db
  made,       \* inodes made so far
  walOf,      \* the inode whose log is named index.db-wal, or NoFile
  shared,     \* the processes that hold the ingest lock shared
  exclusive,  \* the rebuild or the repair that holds it exclusive
  mutex,      \* the truth-write mutex
  conn,       \* process -> the inode its pool is connected to, or NoFile
  ident,      \* process -> index_ident, or NoFile
  pc,         \* where each process is
  todo,       \* process -> the events of its batch (one or none), or those to restore
  rpc,        \* where each rebuild is
  build,      \* rebuild -> index.db.rebuild
  committed,  \* history: the events some COMMIT made visible
  dropped,    \* history: those a salvage gave up and no import brought back
  stray,      \* history: the inode whose log a rebuild that died in its swap left to
              \* another index, or NoFile
  rots,
  kills

truths == <<truth, bare, partial, snapshot>>
files == <<file, index, made, walOf>>
locks == <<shared, exclusive, mutex>>
procs == <<conn, ident, pc, todo>>
rebuilds == <<rpc, build>>
history == <<committed, dropped, stray>>
faults == <<rots, kills>>
vars == <<truths, files, locks, procs, rebuilds, history, faults>>
-----------------------------------------------------------------------------
NoFile == 0
Inode == 1 .. MaxInode
Rows == [ev : SUBSET Event, cur : SUBSET Event]
NoRows == [ev |-> {}, cur |-> {}]

Staged == {"staged", "draining", "drained"}
InPass == Staged \cup {"pass"}
Repairing == {"repair", "restore"}

Init ==
  /\ truth = {} /\ bare = {} /\ partial = {} /\ snapshot = {}
  /\ file = [i \in Inode |-> NoRows]
  /\ index = 1 /\ made = 1 /\ walOf = NoFile
  /\ shared = {} /\ exclusive = Nobody /\ mutex = Nobody
  /\ conn = [p \in Proc |-> NoFile] /\ ident = [p \in Proc |-> NoFile]
  /\ pc = [p \in Proc |-> "idle"]
  /\ todo = [p \in Proc |-> {}]
  /\ rpc = [r \in Rebuilder |-> "idle"]
  /\ build = [r \in Rebuilder |-> NoRows]
  /\ committed = {} /\ dropped = {} /\ stray = NoFile
  /\ rots = 0 /\ kills = 0
-----------------------------------------------------------------------------
(* The processes that import.                                              *)

Goto(p, l) == pc' = [pc EXCEPT ![p] = l]

(* reconnect_if_swapped: another inode under the name than at the last     *)
(* look, and the pool is disposed.                                         *)
ReconnectNever(p) ==              \* mutant: the pool outlives the swap
  /\ ident' = [ident EXCEPT ![p] = index]
  /\ UNCHANGED conn
Reconnect(p) ==
  /\ ident' = [ident EXCEPT ![p] = index]
  /\ conn' = [conn EXCEPT ![p] =
                IF ident[p] \notin {NoFile, index} THEN NoFile ELSE @]

(* open_archive: the check first, then (init_db) a connection; other       *)
(* processes move in between.                                              *)
Open(p) ==
  /\ pc[p] = "idle"
  /\ Reconnect(p)
  /\ Goto(p, "opening")
  /\ UNCHANGED <<truths, files, locks, todo, rebuilds, history, faults>>

Connect(p) ==
  /\ conn' = [conn EXCEPT ![p] = IF @ = NoFile THEN index ELSE @]
  /\ UNCHANGED <<truths, files, locks, ident, todo, rebuilds, history, faults>>

InitDb(p) ==
  /\ pc[p] = "opening"
  /\ Connect(p)
  /\ Goto(p, "idle")

(* try_shared_ingest_lock of a watcher pass, shared_ingest_lock of a       *)
(* command: the check is made under the lock.                              *)
Acquire(p) ==
  /\ pc[p] = "idle"
  /\ exclusive = Nobody
  /\ shared' = shared \cup {p}
  /\ Reconnect(p)
  /\ Goto(p, "pass")
  /\ UNCHANGED <<truths, files, exclusive, mutex, todo, rebuilds, history, faults>>

(* A pooled connection is opened at the first use.                         *)
FirstUse(p) ==
  /\ pc[p] \in {"pass", "repair"}
  /\ conn[p] = NoFile
  /\ Connect(p)
  /\ UNCHANGED pc

(* A source line past the cursor is parsed and, unless its content is in   *)
(* the index already, inserted (SQLite's write lock, of this inode).       *)
Stage(p, e) ==
  /\ pc[p] = "pass"
  /\ conn[p] # NoFile
  /\ e \notin file[conn[p]].cur
  /\ \A q \in Proc : conn[q] = conn[p] => pc[q] \notin Staged
  /\ todo' = [todo EXCEPT ![p] = {e}]
  /\ Goto(p, IF e \in file[conn[p]].ev THEN "drained" ELSE "staged")
  /\ UNCHANGED <<truths, files, locks, conn, ident, rebuilds, history, faults>>

(* The drain enters the mutex, which resolves a leftover intent, and       *)
(* appends.                                                                *)
StartDrain(p) ==
  /\ pc[p] = "staged"
  /\ mutex = Nobody
  /\ mutex' = p
  /\ partial' = todo[p]
  /\ Goto(p, "draining")
  /\ UNCHANGED <<truth, bare, snapshot, files, shared, exclusive, conn, ident, todo,
                 rebuilds, history, faults>>

FinishDrain(p) ==
  /\ pc[p] = "draining"
  /\ truth' = truth \cup todo[p]
  /\ partial' = {}
  /\ mutex' = Nobody
  /\ Goto(p, "drained")
  /\ UNCHANGED <<bare, snapshot, files, shared, exclusive, conn, ident, todo,
                 rebuilds, history, faults>>

(* The rows and the cursor in one COMMIT, to the inode of the connection;  *)
(* only the inode that is index.db has its log under the name.             *)
Commit(p) ==
  /\ pc[p] = "drained"
  /\ file' = [file EXCEPT ![conn[p]] = [ev |-> @.ev \cup todo[p], cur |-> @.cur \cup todo[p]]]
  /\ walOf' = IF conn[p] = index THEN index ELSE walOf
  /\ committed' = committed \cup todo[p]
  /\ dropped' = dropped \ todo[p]
  /\ todo' = [todo EXCEPT ![p] = {}]
  /\ Goto(p, "pass")
  /\ UNCHANGED <<truths, index, made, locks, conn, ident, rebuilds, stray, faults>>

(* A rejected COMMIT: the drain is undone, unless the line is buried.      *)
CommitFails(p) ==
  /\ pc[p] = "drained"
  /\ truth' \in {truth, truth \ (todo[p] \ file[conn[p]].ev)}
  /\ todo' = [todo EXCEPT ![p] = {}]
  /\ Goto(p, "pass")
  /\ UNCHANGED <<bare, partial, snapshot, files, locks, conn, ident,
                 rebuilds, history, faults>>

(* A checkpoint snapshots the cursors.                                     *)
Checkpoint(p) ==
  /\ pc[p] = "pass"
  /\ conn[p] # NoFile
  /\ snapshot' = file[conn[p]].cur
  /\ UNCHANGED <<truth, bare, partial, files, locks, procs, rebuilds, history, faults>>

Release(p) ==
  /\ pc[p] = "pass"
  /\ shared' = shared \ {p}
  /\ Goto(p, "idle")
  /\ UNCHANGED <<truths, files, exclusive, mutex, conn, ident, todo, rebuilds, history, faults>>

(* SIGKILL: the locks are free; the log of the index stays under its name. *)
Kill(p) ==
  /\ kills < MaxKills
  /\ kills' = kills + 1
  /\ conn[p] # NoFile \/ pc[p] # "idle"
  /\ shared' = shared \ {p}
  /\ mutex' = IF mutex = p THEN Nobody ELSE mutex
  /\ exclusive' = IF exclusive = p THEN Nobody ELSE exclusive
  /\ conn' = [conn EXCEPT ![p] = NoFile]
  /\ ident' = [ident EXCEPT ![p] = NoFile]
  /\ todo' = [todo EXCEPT ![p] = {}]
  /\ Goto(p, "idle")
  /\ UNCHANGED <<truths, files, rebuilds, history, rots>>
-----------------------------------------------------------------------------
(* repair_truth.                                                           *)

(* _hold_reindex_lock waits for every pass to end.                         *)
NoConnection == \A p \in Proc : conn[p] = NoFile  \* mutant: it waits for processes
NoPass == shared = {}

(* After open_archive; it looks for no swap again, so the pool is what it  *)
(* was before the wait.                                                    *)
LockRepair(p) ==
  /\ pc[p] = "idle"
  /\ ident[p] # NoFile
  /\ exclusive = Nobody /\ NoPass
  /\ exclusive' = p
  /\ Goto(p, "repair")
  /\ UNCHANGED <<truths, files, shared, mutex, conn, ident, todo, rebuilds, history, faults>>

(* Rows of the index no readable line has: damaged ones (the fragments are *)
(* quarantined) and any others.                                            *)
Missing(p) == file[conn[p]].ev \ truth

(* Entering the mutex resolves a dead process's intent first.              *)
Scan(p) ==
  /\ pc[p] = "repair"
  /\ mutex = Nobody
  /\ conn[p] # NoFile
  /\ partial' = {}
  /\ todo' = [todo EXCEPT ![p] = Missing(p)]
  /\ Goto(p, "restore")
  /\ UNCHANGED <<truth, bare, snapshot, files, locks, conn, ident, rebuilds, history, faults>>

Restore(p, e) ==
  /\ pc[p] = "restore"
  /\ e \in todo[p]
  /\ truth' = truth \cup {e}
  /\ todo' = [todo EXCEPT ![p] = @ \ {e}]
  /\ UNCHANGED <<bare, partial, snapshot, files, locks, conn, ident, pc, rebuilds, history, faults>>

EndRepair(p) ==
  /\ pc[p] = "restore"
  /\ todo[p] = {}
  /\ exclusive' = Nobody
  /\ Goto(p, "idle")
  /\ UNCHANGED <<truths, files, shared, mutex, conn, ident, todo, rebuilds, history, faults>>
-----------------------------------------------------------------------------
(* reindex.                                                                *)

RebuildTo(r, l) == rpc' = [rpc EXCEPT ![r] = l]

Start(r) ==
  /\ rpc[r] = "idle"
  /\ RebuildTo(r, "wait")
  /\ UNCHANGED <<truths, files, locks, procs, build, history, faults>>

Lock(r) ==
  /\ rpc[r] = "wait"
  /\ exclusive = Nobody /\ NoPass
  /\ exclusive' = r
  /\ RebuildTo(r, "resolve")
  /\ UNCHANGED <<truths, files, shared, mutex, procs, build, history, faults>>

(* Entering the mutex resolves a dead process's intent.                    *)
ResolveNothing(r) ==              \* mutant: the mutex is not entered
  /\ rpc[r] = "resolve"
  /\ RebuildTo(r, "load")
  /\ UNCHANGED <<truths, files, locks, procs, build, history, faults>>
Resolve(r) ==
  /\ rpc[r] = "resolve"
  /\ mutex = Nobody
  /\ partial' = {}
  /\ RebuildTo(r, "load")
  /\ UNCHANGED <<truth, bare, snapshot, files, locks, procs, build, history, faults>>

(* load_thread_files reads whatever lines the files hold.                  *)
Load(r) ==
  /\ rpc[r] = "load"
  /\ build' = [build EXCEPT ![r] = [ev |-> truth \cup partial, cur |-> {}]]
  /\ RebuildTo(r, "carry")
  /\ UNCHANGED <<truths, files, locks, procs, history, faults>>

(* The snapshot's cursors, overlaid by those of the index it replaces, but *)
(* for those of threads the build lacks.  It has the thread of each event  *)
(* it loaded (a stub, if the record is gone) and of each bare record.      *)
AllCursors(r) == snapshot \cup file[index].cur    \* mutant: nothing is pruned
Cursors(r) == (snapshot \cup file[index].cur) \cap (build[r].ev \cup bare)

CarryImportState(r) ==
  /\ rpc[r] = "carry"
  /\ build' = [build EXCEPT ![r].cur = Cursors(r)]
  /\ RebuildTo(r, "gate")
  /\ UNCHANGED <<truths, files, locks, procs, history, faults>>

(* _committed_regression.                                                  *)
NoBaseline(r) == FALSE            \* mutant: nothing is ever missed
Regressed(r) == ~(file[index].ev \subseteq build[r].ev)

Leave(r) ==
  /\ exclusive' = Nobody
  /\ build' = [build EXCEPT ![r] = NoRows]
  /\ RebuildTo(r, "idle")

(* The build is discarded: it would lose rows, or another gate (foreign    *)
(* keys, quick_check, disk space, an exception) stops it.                  *)
Refuse(r) ==
  /\ rpc[r] \in {"resolve", "load", "carry", "gate"}
  /\ Leave(r)
  /\ UNCHANGED <<truths, files, shared, mutex, procs, history, faults>>

(* os.replace of the folded build ...                                      *)
Replace(r) ==
  /\ rpc[r] = "gate"
  /\ made < MaxInode
  /\ made' = made + 1
  /\ index' = made + 1
  /\ file' = [file EXCEPT ![made + 1] = build[r]]
  /\ RebuildTo(r, "swapped")
  /\ UNCHANGED <<truths, walOf, locks, procs, build, committed, stray, faults>>

Publish(r) == Replace(r) /\ ~Regressed(r) /\ UNCHANGED dropped

(* ... which with --salvage loses rows the index held.                     *)
Salvage(r) ==
  /\ Replace(r) /\ Regressed(r)
  /\ dropped' = dropped \cup (committed \ build[r].ev)

(* The old log is unlinked: it must never be replayed into the new file.   *)
LeaveWal(r) ==                    \* mutant: the old log stays
  /\ rpc[r] = "swapped"
  /\ Leave(r)
  /\ UNCHANGED <<truths, files, shared, mutex, procs, history, faults>>
UnlinkWal(r) ==
  /\ rpc[r] = "swapped"
  /\ walOf' = NoFile
  /\ Leave(r)
  /\ UNCHANGED <<truths, file, index, made, shared, mutex, procs, history, faults>>

(* Killed between its rename and its unlink, it leaves the old log to the  *)
(* new index, if there is one: from then on SQLite may replay it, and      *)
(* nothing is claimed of the rows any more.                                *)
ForeignLog == walOf \notin {NoFile, index}
Clean == stray = NoFile

KillRebuild(r) ==
  /\ kills < MaxKills
  /\ kills' = kills + 1
  /\ rpc[r] # "idle"
  /\ stray' = IF rpc[r] = "swapped" /\ ForeignLog THEN walOf ELSE stray
  /\ build' = [build EXCEPT ![r] = NoRows]
  /\ RebuildTo(r, "idle")
  /\ exclusive' = IF exclusive = r THEN Nobody ELSE exclusive
  /\ UNCHANGED <<truths, files, shared, mutex, procs, committed, dropped, rots>>
-----------------------------------------------------------------------------
(* The line of a row is damaged on the disk, between rebuilds: the line    *)
(* alone, which leaves its thread's record, or the whole file.             *)
Damage(e) ==
  /\ rots < MaxRot
  /\ rots' = rots + 1
  /\ exclusive = Nobody
  /\ e \in truth \cap committed \cap file[index].ev
  /\ truth' = truth \ {e}
  /\ UNCHANGED <<partial, snapshot, files, locks, procs, rebuilds, history, kills>>

Rot(e) == Damage(e) /\ bare' = bare \cup {e}

LoseFile(e) == Damage(e) /\ bare' = bare \ {e}
-----------------------------------------------------------------------------
Pass(p) == \/ FirstUse(p) \/ StartDrain(p) \/ FinishDrain(p) \/ Commit(p) \/ Release(p)

Reindex(r) == \/ Resolve(r) \/ Load(r) \/ CarryImportState(r) \/ Refuse(r) \/ Publish(r)
              \/ Salvage(r) \/ UnlinkWal(r)

Next ==
  \/ \E p \in Proc :
       \/ Open(p) \/ InitDb(p) \/ Acquire(p) \/ Pass(p) \/ CommitFails(p) \/ Checkpoint(p)
       \/ LockRepair(p) \/ Scan(p) \/ EndRepair(p) \/ Kill(p)
       \/ \E e \in Event : Stage(p, e) \/ Restore(p, e)
  \/ \E r \in Rebuilder : Start(r) \/ Lock(r) \/ Reindex(r) \/ KillRebuild(r)
  \/ \E e \in Event : Rot(e) \/ LoseFile(e)

Spec == Init /\ [][Next]_vars

(* A rebuild that lives is scheduled, and one that finds the ingest lock   *)
(* free again and again gets it.                                           *)
FairSpec == Spec /\ \A r \in Rebuilder : WF_vars(Reindex(r)) /\ SF_vars(Lock(r))
-----------------------------------------------------------------------------
TypeOK ==
  /\ truth \in SUBSET Event /\ bare \in SUBSET Event
  /\ partial \in SUBSET Event /\ snapshot \in SUBSET Event
  /\ file \in [Inode -> Rows]
  /\ index \in Inode
  /\ made \in Inode
  /\ walOf \in Inode \cup {NoFile}
  /\ shared \in SUBSET Proc
  /\ exclusive \in Rebuilder \cup Proc \cup {Nobody}
  /\ mutex \in Proc \cup {Nobody}
  /\ conn \in [Proc -> Inode \cup {NoFile}]
  /\ ident \in [Proc -> Inode \cup {NoFile}]
  /\ pc \in [Proc -> InPass \cup Repairing \cup {"idle", "opening"}]
  /\ todo \in [Proc -> SUBSET Event]
  /\ rpc \in [Rebuilder -> {"idle", "wait", "resolve", "load", "carry", "gate", "swapped"}]
  /\ build \in [Rebuilder -> Rows]
  /\ committed \in SUBSET Event /\ dropped \in SUBSET Event
  /\ stray \in Inode \cup {NoFile}
  /\ rots \in Nat /\ kills \in Nat

(* No commit goes to a file another process has swapped out: whoever is in *)
(* a pass works on the inode that is index.db, whenever it connected and   *)
(* however long it waited for the lock (_base.py 160-170).                 *)
PassesUseTheIndex ==
  \A p \in Proc : pc[p] \in InPass => conn[p] \in {NoFile, index}

(* Whatever a COMMIT made visible is in the index, through swaps, refused  *)
(* and killed rebuilds and damage to the truth; only a salvage gives rows  *)
(* up, and an import brings them back.                                     *)
IndexHoldsCommitted ==
  Clean => committed \ dropped \subseteq file[index].ev

(* A cursor that hides a line the index lacks is of a thread a salvage     *)
(* published without that line, never of one it lost whole, whose source   *)
(* is imported again; and no cursor gets lost: what was committed is not   *)
(* imported again (rebuild.py 293-336).                                    *)
CursorsMatch ==
  Clean => /\ file[index].cur \subseteq file[index].ev \cup (dropped \cap bare)
           /\ committed \ dropped \subseteq file[index].cur

(* But for a rebuild between its rename and its unlink, the log found next *)
(* to index.db is its own: opening the index replays nothing foreign into  *)
(* it (rebuild.py 892-895).                                                *)
WalIsTheIndexs ==
  (\A r \in Rebuilder : rpc[r] # "swapped") => ~ForeignLog

(* The index and the truth step like IndexStore: in particular a rebuild   *)
(* publishes exactly the complete lines of the truth, never the line of a  *)
(* crashed drain, and nothing is committed meanwhile.                      *)
Store == INSTANCE IndexStore WITH durable <- truth, indexed <- file[index].ev
SwapsAtomically == Store!Init /\ [][Clean' => Store!Next]_<<truth, file[index].ev>>

(* The inductive invariant of the proofs.  Who holds what: ...             *)
LocksHeld ==
  /\ exclusive # Nobody => shared = {}
  /\ \A p \in Proc : pc[p] \in InPass <=> p \in shared
  /\ \A p \in Proc : pc[p] = "draining" <=> mutex = p
  /\ \A p \in Proc : pc[p] \in Repairing <=> exclusive = p
  /\ \A r \in Rebuilder : rpc[r] \notin {"idle", "wait"} <=> exclusive = r

(* ... a pool is as old as the last look, and whoever looked last at the   *)
(* inode that is index.db is connected to it; ...                          *)
PoolsKnown ==
  /\ index <= made
  /\ \A p \in Proc :
       /\ ident[p] <= made
       /\ conn[p] # NoFile => ident[p] # NoFile
       /\ ident[p] = index => conn[p] \in {NoFile, index}
       /\ pc[p] \in InPass => ident[p] = index
       /\ pc[p] \in {"opening"} \cup Repairing => ident[p] # NoFile
       /\ pc[p] \in Staged => conn[p] = index

(* ... one process writes, one row at a time, and its line is complete in  *)
(* the truth before the COMMIT; ...                                        *)
RowsKnown ==
  /\ file[index].ev \subseteq truth \cup committed
  /\ snapshot \cup file[index].cur \subseteq committed
  /\ snapshot \subseteq file[index].cur \cup dropped
  /\ \A p, q \in Proc : pc[p] \in Staged /\ pc[q] \in Staged => p = q
  /\ \A p \in Proc :
       /\ pc[p] \in Staged => \E e \in Event \ file[index].cur : todo[p] = {e}
       /\ pc[p] = "drained" => todo[p] \subseteq truth \cup file[index].ev
       /\ pc[p] \notin Staged \cup {"restore"} => todo[p] = {}

(* ... what a rebuild has loaded is still the truth, and a repair that has *)
(* restored its list leaves the truth with the whole index, if no index    *)
(* was swapped in while it waited for the lock.                            *)
BuildKnown ==
  \A r \in Rebuilder :
    /\ rpc[r] = "load" => partial = {}
    /\ rpc[r] \in {"carry", "gate"} => build[r].ev = truth
    /\ rpc[r] = "gate" => build[r].cur = Cursors(r)
RepairKnown ==
  \A p \in Proc :
    pc[p] = "restore" /\ conn[p] = index => file[index].ev \subseteq truth \cup todo[p]

RowsInv == /\ RowsKnown /\ BuildKnown /\ RepairKnown
           /\ IndexHoldsCommitted /\ CursorsMatch /\ WalIsTheIndexs

SwapInv == /\ TypeOK /\ LocksHeld /\ PoolsKnown /\ PassesUseTheIndex
           /\ Clean => RowsInv

(* A rebuild that was started ends, if passes and repairs leave the lock   *)
(* free now and then: flock grants it shared beside a rebuild that waits,  *)
(* so passes of several processes that always overlap would keep a rebuild *)
(* out.                                                                    *)
RebuildEnds ==
  []<>(shared = {} /\ exclusive \notin Proc) =>
    \A r \in Rebuilder : rpc[r] # "idle" ~> rpc[r] = "idle"
=============================================================================
