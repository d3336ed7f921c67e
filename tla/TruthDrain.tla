------------------------------ MODULE TruthDrain ------------------------------
(***************************************************************************)
(* The append path of the truth (_truth/drain.py, _truth/locks.py): a      *)
(* session stages rows, the before_commit listener drains them to their    *)
(* JSONL files under the truth-write mutex, framed by an undo journal (the *)
(* drain intent), and only then does SQLite COMMIT.  A process may be      *)
(* killed, and the machine may lose power, between any two steps; an I/O   *)
(* error may end any step that writes; a COMMIT may raise although it      *)
(* landed.                                                                 *)
(*                                                                         *)
(* A transaction t \in Txn is one session that commits one batch: Batch[t] *)
(* is its pending list, in order, each entry naming the file the row goes  *)
(* to and what it is: nth = 0 for a thread's metadata record, nth = n for  *)
(* the n-th event the batch inserts.  A record's txn field is the row's    *)
(* payload: two rows with the same kind and id and different txn are       *)
(* different content.                                                      *)
(* kg_events.jsonl is one more file, its rows of kind "event".             *)
(***************************************************************************)
EXTENDS Integers, Sequences, FiniteSets

CONSTANTS
  Txn,          \* sessions, each with one batch
  Proc,         \* processes (watcher daemon, one-shot commands)
  ProcOf,       \* txn -> the process its session lives in
  File,         \* truth files
  Preexisting,  \* the files that exist, with one durable record, at the start
  Batch,        \* [Txn -> Seq(Row)]: session.info[_PENDING]
  NoTxn,        \* nobody: a free lock, or the author of the initial records
  ClearCanFail, \* may _clear_intent meet an OSError (logged and ignored)?
  KillTears     \* may SIGKILL cut the write of one line short?

Row == [file : File, nth : Nat]

ASSUME TxnAssumption == {NoTxn, "empty", "torn"} \cap Txn = {}
ASSUME FileAssumption == Preexisting \subseteq File
ASSUME BatchAssumption ==
  /\ Batch \in [Txn -> Seq(Row)]
  /\ \A t \in Txn : Batch[t] # <<>>
ASSUME ProcAssumption == ProcOf \in [Txn -> Proc]
ASSUME FaultAssumption == ClearCanFail \in BOOLEAN /\ KillTears \in BOOLEAN

VARIABLES
  pc,           \* where each session is
  log,          \* file -> what was appended to it, as the OS shows it
  exists,       \* file -> has it been created (creation is fsynced at once)
  synced,       \* file -> how much of it is durable
  handles,      \* process -> files it holds a cached append handle on
  intent,       \* .drain.intent: a framed batch, Empty or Torn
  intentOnDisk, \* the content of .drain.intent that is durable
  truthLock,    \* holder of the truth-write mutex
  dbLock,       \* holder of SQLite's write lock
  committed,    \* the transactions the index holds
  highWater,    \* sqlite_sequence: the largest id the index has committed
  first,        \* txn -> the high water its ids were allocated above
  base,         \* txn -> file -> size before the drain, Absent or Unset
  post,         \* txn -> file -> size after the drain: session.info[_DRAINED]
  pos           \* txn -> rows of the batch appended so far

fileVars == <<log, exists, synced, handles>>
intentVars == <<intent, intentOnDisk>>
dbVars == <<dbLock, committed, highWater, first>>
drainVars == <<base, post, pos>>
vars == <<pc, fileVars, intentVars, truthLock, dbVars, drainVars>>
-----------------------------------------------------------------------------
Empty == "empty"
Torn == "torn"
Absent == -1
Unset == -2

Final == {"idle", "done", "aborted", "kept", "dead"}
PCs == Final \cup {"staged", "recover", "rollback", "open", "framing", "append",
                   "unwind", "drained", "failed", "undoWait", "undo"}

Record == [kind : {"event", "thread", "torn", "junk"}, id : Nat,
           txn : Txn \cup {NoTxn}]

(***************************************************************************)
(* What a batch writes.  A row's id is fresh for an event (AUTOINCREMENT,  *)
(* allocated by the flush above the committed high water) and the thread's *)
(* own, here 0, for a metadata record.                                     *)
(***************************************************************************)
FilesOf(t) == {Batch[t][i].file : i \in DOMAIN Batch[t]}
Rec(t, i) == LET n == Batch[t][i].nth
             IN [kind |-> IF n = 0 THEN "thread" ELSE "event",
                 id |-> IF n = 0 THEN 0 ELSE first[t] + n,
                 txn |-> t]
EventRows(t) == {i \in DOMAIN Batch[t] : Batch[t][i].nth # 0}
EventIds(t) == {first[t] + Batch[t][i].nth : i \in EventRows(t)}
HasInserts(t) == EventRows(t) # {}
IndexIds == UNION {EventIds(t) : t \in committed}

(* A write cut short has no newline: it is the file's unterminated last    *)
(* line, and whatever is appended next is glued to it and unreadable.      *)
TornRecord(t) == [kind |-> "torn", id |-> 0, txn |-> t]
Readable(f, p) == /\ log[f][p].kind \in {"event", "thread"}
                  /\ p > 1 => log[f][p - 1].kind # "torn"

Init ==
  /\ pc = [t \in Txn |-> "idle"]
  /\ log = [f \in File |->
              IF f \in Preexisting
              THEN <<[kind |-> "thread", id |-> 0, txn |-> NoTxn]>> ELSE <<>>]
  /\ exists = [f \in File |-> f \in Preexisting]
  /\ synced = [f \in File |-> IF f \in Preexisting THEN 1 ELSE 0]
  /\ handles = [p \in Proc |-> {}]
  /\ intent = Empty
  /\ intentOnDisk = Empty
  /\ truthLock = NoTxn
  /\ dbLock = NoTxn
  /\ committed = {}
  /\ highWater = 0
  /\ first = [t \in Txn |-> 0]
  /\ base = [t \in Txn |-> [f \in File |-> Unset]]
  /\ post = [t \in Txn |-> [f \in File |-> Unset]]
  /\ pos = [t \in Txn |-> 0]
-----------------------------------------------------------------------------
Goto(t, l) == pc' = [pc EXCEPT ![t] = l]

(* write_events flushes the rows: SQLite's write lock is taken and the ids *)
(* are allocated.  A metadata-only batch is flushed by the commit itself.  *)
Stage(t) ==
  /\ pc[t] = "idle"
  /\ IF HasInserts(t)
     THEN /\ dbLock = NoTxn
          /\ dbLock' = t
          /\ first' = [first EXCEPT ![t] = highWater]
     ELSE UNCHANGED <<dbLock, first>>
  /\ Goto(t, "staged")
  /\ UNCHANGED <<fileVars, intentVars, truthLock, committed, highWater, drainVars>>

(* _truth_write_lock: the flock, taken for the drain or for its undo.      *)
Acquire(t) ==
  /\ pc[t] \in {"staged", "undoWait"}
  /\ truthLock = NoTxn
  /\ truthLock' = t
  /\ Goto(t, "recover")
  /\ UNCHANGED <<fileVars, intentVars, dbVars, drainVars>>

Drained(t) == \E f \in File : post[t][f] # Unset
AfterRecovery(t) == IF Drained(t) THEN "undo" ELSE "open"

(* _intent_committed: is one of the batch's fresh ids in the live index?   *)
ProbeUnreadable(t) == IF HasInserts(t) /\ EventIds(t) \subseteq IndexIds
                      THEN "yes" ELSE "unknown"  \* mutant: "no" read as "cannot tell"
ProbeMetadata(t) == IF EventIds(t) \cap IndexIds # {} THEN "yes" ELSE "no"
                                  \* mutant: a batch without ids read as uncommitted
Probe(t) == IF ~HasInserts(t) THEN "unknown"
            ELSE IF EventIds(t) \cap IndexIds # {} THEN "yes" ELSE "no"

(* _tail_is_intent_only: past the baseline there is nothing but the framed *)
(* batch's own records, and possibly a torn last line.                     *)
Allowed(t, f) == {<<Rec(t, i).kind, Rec(t, i).id>> :
                    i \in {j \in DOMAIN Batch[t] : Batch[t][j].file = f}}
RawBaseline(t, f) == base[t][f]   \* mutant: a created file's None taken for a size
Baseline(t, f) == IF base[t][f] = Absent THEN 0 ELSE base[t][f]
TailIsParseable(t, f) ==          \* mutant: the torn last line is refused
  \A p \in Baseline(t, f) + 1 .. Len(log[f]) :
     <<log[f][p].kind, log[f][p].id>> \in Allowed(t, f)
TailIsIntentOnly(t, f) ==
  \A p \in Baseline(t, f) + 1 .. Len(log[f]) :
     \/ /\ <<log[f][p].kind, log[f][p].id>> \in Allowed(t, f)
        /\ p > Baseline(t, f) + 1 => log[f][p - 1].kind # "torn"
     \/ log[f][p].kind = "torn" /\ p = Len(log[f])

(* _rollback_file, called by a session of process p: drop p's handle, then *)
(* truncate to the batch's baseline, or unlink the file it created;        *)
(* fsynced either way.  A handle on an unlinked file is as good as dropped *)
(* in every process: _same_inode refuses it.                               *)
RollbackFile(p, t, f) ==
  /\ handles' = [q \in Proc |-> IF q = p \/ base[t][f] = Absent
                                THEN handles[q] \ {f} ELSE handles[q]]
  /\ log' = [log EXCEPT ![f] = SubSeq(@, 1, Baseline(t, f))]
  /\ synced' = [synced EXCEPT ![f] = Baseline(t, f)]
  /\ exists' = [exists EXCEPT ![f] = base[t][f] # Absent]

(* The file holds something the batch of t put there.                      *)
SizeBeyondBaseline(t, f) ==       \* mutant: a created file is never rolled back
  exists[f] /\ base[t][f] # Absent /\ Len(log[f]) > base[t][f]
BeyondBaseline(t, f) ==
  /\ exists[f]
  /\ base[t][f] = Absent \/ Len(log[f]) > base[t][f]
-----------------------------------------------------------------------------
(* _recover_crashed_drain, run at every acquisition of the mutex.          *)

(* No leftover intent.                                                     *)
RecoverNothing(t) ==
  /\ pc[t] = "recover"
  /\ intent = Empty
  /\ Goto(t, AfterRecovery(t))
  /\ UNCHANGED <<fileVars, intentVars, truthLock, dbVars, drainVars>>

(* A torn intent, or a batch that committed or cannot be decided: its      *)
(* records stay and the intent is emptied.                                 *)
RecoverKeep(t) ==
  /\ pc[t] = "recover"
  /\ intent = Torn \/ (intent \in Txn /\ Probe(intent) # "no")
  /\ intent' = Empty
  /\ Goto(t, AfterRecovery(t))
  /\ UNCHANGED <<fileVars, intentOnDisk, truthLock, dbVars, drainVars>>

(* A batch none of whose ids is in the index: its files are rolled back.   *)
RecoverUncommitted(t) ==
  /\ pc[t] = "recover"
  /\ intent \in Txn
  /\ Probe(intent) = "no"
  /\ Goto(t, "rollback")
  /\ UNCHANGED <<fileVars, intentVars, truthLock, dbVars, drainVars>>

RecoverFile(t, f) ==
  /\ pc[t] = "rollback"
  /\ f \in FilesOf(intent)
  /\ BeyondBaseline(intent, f)
  /\ TailIsIntentOnly(intent, f)
  /\ RollbackFile(ProcOf[t], intent, f)
  /\ UNCHANGED <<pc, intentVars, truthLock, dbVars, drainVars>>

RecoverDone(t) ==
  /\ pc[t] = "rollback"
  /\ \A f \in FilesOf(intent) :
        ~(BeyondBaseline(intent, f) /\ TailIsIntentOnly(intent, f))
  /\ intent' = Empty
  /\ Goto(t, AfterRecovery(t))
  /\ UNCHANGED <<fileVars, intentOnDisk, truthLock, dbVars, drainVars>>
-----------------------------------------------------------------------------
(* _drain_before_commit.                                                   *)

(* _handle for each touched file: a cached handle is used as it is;        *)
(* otherwise the file is created, or the torn last line it ends with is    *)
(* terminated (and fsynced).  Its size is then the baseline.               *)
RepairTail(s) == IF s # <<>> /\ s[Len(s)].kind = "torn"
                 THEN [s EXCEPT ![Len(s)].kind = "junk"] ELSE s

OpenHandle(t, f) ==
  /\ pc[t] = "open"
  /\ f \in FilesOf(t)
  /\ base[t][f] = Unset
  /\ base' = [base EXCEPT ![t][f] = IF exists[f] THEN Len(log[f]) ELSE Absent]
  /\ handles' = [handles EXCEPT ![ProcOf[t]] = @ \cup {f}]
  /\ exists' = [exists EXCEPT ![f] = TRUE]
  /\ \/ /\ f \in handles[ProcOf[t]] \/ RepairTail(log[f]) = log[f]
        /\ UNCHANGED <<log, synced>>
     \/ /\ f \notin handles[ProcOf[t]] /\ RepairTail(log[f]) # log[f]
        /\ log' = [log EXCEPT ![f] = RepairTail(@)]
        /\ synced' = [synced EXCEPT ![f] = Len(log[f])]
  /\ UNCHANGED <<pc, intentVars, truthLock, dbVars, post, pos>>

(* _write_intent opens the file with "w" and writes the frame ...          *)
WriteIntent(t) ==
  /\ pc[t] = "open"
  /\ \A f \in FilesOf(t) : base[t][f] # Unset
  /\ intent' = Torn
  /\ Goto(t, "framing")
  /\ UNCHANGED <<fileVars, intentOnDisk, truthLock, dbVars, drainVars>>

(* ... and fsyncs it: the batch is framed.                                 *)
SyncIntent(t) ==
  /\ pc[t] = "framing"
  /\ intent' = t
  /\ intentOnDisk' = t
  /\ Goto(t, "append")
  /\ UNCHANGED <<fileVars, truthLock, dbVars, drainVars>>

ReleaseDbLock(t) ==               \* mutant: the mutex outlives its holder
  /\ dbLock' = IF dbLock = t THEN NoTxn ELSE dbLock
  /\ UNCHANGED truthLock
ReleaseLocks(t) ==
  /\ truthLock' = IF truthLock = t THEN NoTxn ELSE truthLock
  /\ dbLock' = IF dbLock = t THEN NoTxn ELSE dbLock

(* An OSError while opening handles or framing is outside the try block:   *)
(* the mutex is released and the session rolls back, nothing else.         *)
FrameFails(t) ==
  /\ pc[t] \in {"open", "framing"}
  /\ ReleaseLocks(t)
  /\ Goto(t, "aborted")
  /\ UNCHANGED <<fileVars, intentVars, committed, highWater, first, drainVars>>

AppendRow(t) ==
  /\ pc[t] = "append"
  /\ pos[t] < Len(Batch[t])
  /\ pos' = [pos EXCEPT ![t] = @ + 1]
  /\ log' = [log EXCEPT ![Batch[t][pos[t] + 1].file] =
                           Append(@, Rec(t, pos[t] + 1))]
  /\ UNCHANGED <<pc, exists, synced, handles, intentVars, truthLock, dbVars, base, post>>

FsyncFile(t, f) ==
  /\ pc[t] = "append"
  /\ pos[t] = Len(Batch[t])
  /\ f \in FilesOf(t)
  /\ synced[f] < Len(log[f])
  /\ synced' = [synced EXCEPT ![f] = Len(log[f])]
  /\ UNCHANGED <<pc, log, exists, handles, intentVars, truthLock, dbVars, drainVars>>

SomeSynced(t) == \E f \in FilesOf(t) : synced[f] = Len(log[f])  \* mutant: first file only
AllSynced(t) == \A f \in FilesOf(t) : synced[f] = Len(log[f])

(* The drain is over: _clear_intent (not fsynced), the footprint is kept   *)
(* on the session, the mutex is released.                                  *)
FinishDrain(t) ==
  /\ pc[t] = "append"
  /\ pos[t] = Len(Batch[t])
  /\ AllSynced(t)
  /\ post' = [post EXCEPT ![t] =
                [f \in File |-> IF f \in FilesOf(t) THEN Len(log[f]) ELSE Unset]]
  /\ truthLock' = NoTxn
  /\ Goto(t, "drained")

LeaveIntent(t) ==                 \* mutant: the frame is left for the next writer
  /\ FinishDrain(t)
  /\ UNCHANGED <<fileVars, intentVars, dbVars, base, pos>>

ClearIntent(t) ==
  /\ FinishDrain(t)
  /\ intent' = Empty
  /\ UNCHANGED <<fileVars, intentOnDisk, dbVars, base, pos>>

(* The same when _clear_intent meets an OSError: logged, not raised.       *)
ClearIntentFails(t) ==
  /\ ClearCanFail
  /\ FinishDrain(t)
  /\ UNCHANGED <<fileVars, intentVars, dbVars, base, pos>>

(* A write or fsync of the batch fails: every touched file is rolled back, *)
(* one after the other, the intent is emptied and the error is raised.     *)
AppendFails(t) ==
  /\ pc[t] = "append"
  /\ Goto(t, "unwind")
  /\ UNCHANGED <<fileVars, intentVars, truthLock, dbVars, drainVars>>

UnwindFile(t, f) ==
  /\ pc[t] = "unwind"
  /\ f \in FilesOf(t)
  /\ BeyondBaseline(t, f)
  /\ RollbackFile(ProcOf[t], t, f)
  /\ UNCHANGED <<pc, intentVars, truthLock, dbVars, drainVars>>

UnwindDone(t) ==
  /\ pc[t] = "unwind"
  /\ \A f \in FilesOf(t) : ~BeyondBaseline(t, f)
  /\ intent' = Empty
  /\ ReleaseLocks(t)
  /\ Goto(t, "aborted")
  /\ UNCHANGED <<fileVars, intentOnDisk, committed, highWater, first, drainVars>>
-----------------------------------------------------------------------------
(* The COMMIT and what follows it.                                         *)

Land(t) ==
  /\ committed' = committed \cup {t}
  /\ IF HasInserts(t)
     THEN \E h \in EventIds(t) :
             (\A id \in EventIds(t) : id <= h) /\ highWater' = h
     ELSE UNCHANGED highWater

CanCommit(t) == /\ pc[t] = "drained"
                /\ dbLock = IF HasInserts(t) THEN t ELSE NoTxn

Commit(t) ==
  /\ CanCommit(t)
  /\ Land(t)
  /\ dbLock' = NoTxn
  /\ Goto(t, "done")
  /\ UNCHANGED <<fileVars, intentVars, truthLock, first, drainVars>>

(* COMMIT raises: rejected, or durable in the WAL and reported as failed.  *)
(* Either way the connection is rolled back before the undo hook runs.     *)
CommitRaises(t) ==
  /\ CanCommit(t)
  /\ Land(t) \/ UNCHANGED <<committed, highWater>>
  /\ dbLock' = NoTxn
  /\ Goto(t, "failed")
  /\ UNCHANGED <<fileVars, intentVars, truthLock, first, drainVars>>

(* _undo_drain probes the index before it takes the mutex.                 *)
UndoKeep(t) ==
  /\ pc[t] = "failed"
  /\ Probe(t) # "no"
  /\ Goto(t, "kept")
  /\ UNCHANGED <<fileVars, intentVars, truthLock, dbVars, drainVars>>

UndoNeeded(t) ==
  /\ pc[t] = "failed"
  /\ Probe(t) = "no"
  /\ Goto(t, "undoWait")
  /\ UNCHANGED <<fileVars, intentVars, truthLock, dbVars, drainVars>>

(* A file is undone only at exactly the size the drain left it.            *)
UndoableOld(t, f) == exists[f] /\ Len(log[f]) = post[t][f] /\ base[t][f] # Absent
                                  \* mutant: a file the batch created is kept
UndoableGrown(t, f) == exists[f] /\ Len(log[f]) >= post[t][f]
                                  \* mutant: rolled back although others appended
Undoable(t, f) == exists[f] /\ Len(log[f]) = post[t][f]

UndoFile(t, f) ==
  /\ pc[t] = "undo"
  /\ f \in FilesOf(t)
  /\ Undoable(t, f)
  /\ RollbackFile(ProcOf[t], t, f)
  /\ UNCHANGED <<pc, intentVars, truthLock, dbVars, drainVars>>

UndoDone(t) ==
  /\ pc[t] = "undo"
  /\ \A f \in FilesOf(t) : ~Undoable(t, f)
  /\ ReleaseLocks(t)
  /\ Goto(t, "aborted")
  /\ UNCHANGED <<fileVars, intentVars, committed, highWater, first, drainVars>>
-----------------------------------------------------------------------------
(* The environment.                                                        *)

Live(t) == pc[t] \notin Final

(* SIGKILL of process p: its sessions are gone, their locks are free, what *)
(* they wrote is in the page cache; a write cut short leaves a torn line.  *)
KillTorn(p, t) ==
  /\ KillTears
  /\ ProcOf[t] = p
  /\ pc[t] = "append"
  /\ pos[t] < Len(Batch[t])
  /\ log' = [log EXCEPT ![Batch[t][pos[t] + 1].file] = Append(@, TornRecord(t))]

Kill(p) ==
  /\ \E t \in Txn : ProcOf[t] = p /\ Live(t)
  /\ pc' = [t \in Txn |-> IF ProcOf[t] = p /\ Live(t) THEN "dead" ELSE pc[t]]
  /\ truthLock' = IF \E t \in Txn : ProcOf[t] = p /\ truthLock = t
                  THEN NoTxn ELSE truthLock
  /\ dbLock' = IF \E t \in Txn : ProcOf[t] = p /\ dbLock = t THEN NoTxn ELSE dbLock
  /\ handles' = [handles EXCEPT ![p] = {}]
  /\ UNCHANGED log \/ \E t \in Txn : KillTorn(p, t)
  /\ UNCHANGED <<exists, synced, intentVars, committed, highWater, first, drainVars>>

(* Power loss: every process is gone; a file keeps its durable lines, any  *)
(* number of the later ones, and perhaps a torn piece of the next; the     *)
(* intent is what it was or what was last fsynced.                         *)
Survivor(f, n, torn) ==
  IF torn /\ n < Len(log[f])
  THEN Append(SubSeq(log[f], 1, n), TornRecord(log[f][n + 1].txn))
  ELSE SubSeq(log[f], 1, n)

PowerLoss ==
  /\ \E cut \in [File -> UNION {synced[f] .. Len(log[f]) : f \in File}],
        torn \in [File -> BOOLEAN] :
       /\ \A f \in File : cut[f] \in synced[f] .. Len(log[f])
       /\ log' = [f \in File |-> Survivor(f, cut[f], torn[f])]
  /\ synced' = [f \in File |-> Len(log'[f])]
  /\ handles' = [p \in Proc |-> {}]
  /\ intent' \in {intent, intentOnDisk}
  /\ intentOnDisk' = intent'
  /\ pc' = [t \in Txn |-> IF Live(t) THEN "dead" ELSE pc[t]]
  /\ truthLock' = NoTxn
  /\ dbLock' = NoTxn
  /\ UNCHANGED <<exists, committed, highWater, first, drainVars>>
-----------------------------------------------------------------------------
Recover(t) ==
  \/ RecoverNothing(t) \/ RecoverKeep(t) \/ RecoverUncommitted(t)
  \/ \E f \in File : RecoverFile(t, f)
  \/ RecoverDone(t)

Drain(t) ==
  \/ \E f \in File : OpenHandle(t, f)
  \/ WriteIntent(t) \/ SyncIntent(t) \/ AppendRow(t)
  \/ \E f \in File : FsyncFile(t, f)
  \/ ClearIntent(t) \/ ClearIntentFails(t)

Unwind(t) == (\E f \in File : UnwindFile(t, f)) \/ UnwindDone(t)

Undo(t) ==
  \/ UndoKeep(t) \/ UndoNeeded(t)
  \/ \E f \in File : UndoFile(t, f)
  \/ UndoDone(t)

Fault(t) == FrameFails(t) \/ AppendFails(t) \/ CommitRaises(t)

(* What a session does by itself, once it holds what it waits for.         *)
Progress(t) ==
  Acquire(t) \/ Recover(t) \/ Drain(t) \/ Unwind(t) \/ Commit(t) \/ Undo(t)

Next ==
  \/ \E t \in Txn : Stage(t) \/ Progress(t) \/ Fault(t)
  \/ \E p \in Proc : Kill(p)
  \/ PowerLoss

Spec == Init /\ [][Next]_vars

(* A process that is alive is scheduled; nothing is assumed of faults.     *)
FairSpec == Spec /\ \A t \in Txn : WF_vars(Progress(t))
-----------------------------------------------------------------------------
TypeOK ==
  /\ pc \in [Txn -> PCs]
  /\ log \in [File -> Seq(Record)]
  /\ exists \in [File -> BOOLEAN]
  /\ synced \in [File -> Nat]
  /\ handles \in [Proc -> SUBSET File]
  /\ intent \in Txn \cup {Empty, Torn}
  /\ intentOnDisk \in Txn \cup {Empty, Torn}
  /\ truthLock \in Txn \cup {NoTxn}
  /\ dbLock \in Txn \cup {NoTxn}
  /\ committed \in SUBSET Txn
  /\ highWater \in Nat
  /\ first \in [Txn -> Nat]
  /\ base \in [Txn -> [File -> Nat \cup {Absent, Unset}]]
  /\ post \in [Txn -> [File -> Nat \cup {Unset}]]
  /\ pos \in [Txn -> Nat]

(* JSONL contains SQLite: every row of every committed transaction is a    *)
(* readable line in the durable part of the file it belongs to, whatever   *)
(* crash comes next (drain.py: "anything the projection has must already   *)
(* be in the truth, never the reverse").                                   *)
Covered(t, i) ==
  LET f == Batch[t][i].file
  IN \E p \in 1 .. synced[f] : log[f][p] = Rec(t, i) /\ Readable(f, p)
FullyLogged(t) == \A i \in DOMAIN Batch[t] : Covered(t, i)
TruthCoversIndex == \A t \in committed : FullyLogged(t)

AtRest == truthLock = NoTxn /\ intent = Empty

(* A batch that carried events and died or failed inside its drain leaves  *)
(* nothing in the truth once its intent is resolved: the drain is          *)
(* all-or-nothing under SIGKILL, power loss and I/O errors alike.          *)
RowsOf(t, f) == {p \in DOMAIN log[f] : log[f][p].txn = t}
CrashedDrainLeavesNothing ==
  AtRest => \A t \in Txn :
     HasInserts(t) /\ pc[t] \in {"dead", "aborted"} /\ ~Drained(t)
        => \A f \in File : RowsOf(t, f) = {}

(* A framed intent seen by whoever does not own it belongs to a session    *)
(* that is over: recovery never rolls back a batch still on its way to     *)
(* COMMIT (drain.py: "a live drain's intent never outlives its lock hold").*)
FrameOwnerIsGone == intent \in Txn => truthLock = intent \/ pc[intent] \in Final

(* When the undo of a rejected COMMIT ends, a row of the batch is still in *)
(* a file only if another writer appended after it: the undo never gives   *)
(* up a file it could have restored, and never cuts another writer's rows. *)
UndoLeavesOnlyBuriedRows ==
  [][\A t \in Txn : pc[t] = "undo" /\ pc'[t] = "aborted" =>
        \A f \in FilesOf(t) : \A p \in RowsOf(t, f) : p <= post[t][f] /\ post[t][f] < Len(log[f])]_vars

(* A line a transaction other than t wrote is removed only if that         *)
(* transaction is not committed: no rollback of one batch ever cuts a      *)
(* committed line of another, at any position of any file.                 *)
NoCommittedLineCut ==
  [][\A f \in File : \A p \in DOMAIN log[f] :
        log[f][p].txn \in committed \cup {NoTxn}
          => p \in DOMAIN log'[f] /\ log'[f][p] = log[f][p]]_vars

(* Every session that started ends: the SQLite lock, the mutex and the     *)
(* recovery each acquisition runs never leave it waiting for ever.         *)
SessionsEnd == \A t \in Txn : Live(t) ~> ~Live(t)

(* The hypotheses of the theorems: _clear_intent works, and SIGKILL does   *)
(* not cut the write of one line short (power loss still may).             *)
Benign == ~ClearCanFail /\ ~KillTears

Store == INSTANCE TruthStore
           WITH logged <- {t \in Txn : FullyLogged(t)}, indexed <- committed
(* The append path implements TruthStore: a batch is durable in the truth  *)
(* before COMMIT indexes it, and an indexed one never ceases to be.        *)
StoreSpec == Store!Spec
=============================================================================
