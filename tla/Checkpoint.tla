------------------------------ MODULE Checkpoint ------------------------------
(***************************************************************************)
(* The checkpoint (_truth/maintenance.py): the shard sweep, the backstop   *)
(* for thread metadata and the manifest's watermark, next to sessions that *)
(* restate a thread's metadata (_importers/_state.py) and drain the record *)
(* to the thread's file (_truth/drain.py, whose inside is TruthDrain).     *)
(*                                                                         *)
(* A writer w is one transaction that makes one change to the metadata of  *)
(* ThreadOf[w]; a metadata record is the set of changes it includes, so a  *)
(* record that lacks a change of the index's row is a stale one.  A file   *)
(* is the set of its records and which of them is last: a rebuild takes    *)
(* the last (latest wins), and duplicates change nothing.                  *)
(*                                                                         *)
(* A process does one thing at a time: a transaction or a checkpoint.      *)
(* A writer reads the clock later than every reading before it.  No reindex*)
(* runs: the ingest lock, shared by everyone here, never blocks.           *)
(***************************************************************************)
EXTENDS Integers, FiniteSets

CONSTANTS
  Thread,
  Preexisting,  \* threads with a flat file and a row at the start
  Writer,
  ThreadOf,     \* writer -> the thread it changes (or creates)
  Proc,
  ProcOf,       \* writer -> its process
  Nobody,
  FlatMax,      \* files the flat layout may hold
  Stamped,      \* has a checkpoint run before?
  MaxTime,      \* bound: checkpoints tell readings of the clock apart up to here
  MaxKills      \* bound: processes killed

ASSUME CheckpointThreads == /\ Preexisting \subseteq Thread
                            /\ ThreadOf \in [Writer -> Thread]
                            /\ ProcOf \in [Writer -> Proc]
ASSUME OneCreator == \A v, w \in Writer :
  ThreadOf[v] = ThreadOf[w] /\ ThreadOf[v] \notin Preexisting => v = w
ASSUME CheckpointActors == Nobody \notin Writer \cup Proc /\ Writer \cap Proc = {}
ASSUME CheckpointBounds ==
  FlatMax \in Nat /\ MaxTime \in Nat /\ MaxKills \in Nat /\ Stamped \in BOOLEAN

VARIABLES
  file,       \* thread -> depth -> the file's records and its last one
  depth,      \* manifest.json: shard_depth
  watermark,  \* manifest.json: last_checkpoint_at, or Never
  row,        \* thread -> the changes in the index's row, and its updated_at
  clock,
  truthLock,  \* the truth-write mutex
  sweepLock,  \* the rebalance lock
  dbLock,     \* SQLite's write lock
  wpc,        \* where each writer is
  loaded,     \* writer -> the changes of the row as its session loaded it
  stamp,      \* writer -> the updated_at it assigns
  at,         \* writer -> the depth its drain read under the mutex
  cpc,        \* where each process's checkpoint is
  swept,      \* process -> has it swept within its interval, or at all
  cdepth,     \* process -> the checkpoint's depth
  want,       \* process -> the depth its count of the files asks for
  moves,      \* process -> the misplaced files still to move
  source,     \* process -> the file it has merged and not yet removed
  since,      \* process -> the watermark the backstop queries above
  started,    \* process -> checkpoint_started_at
  found,      \* process -> thread -> the changes of a row the query returned
  kills

store == <<row, dbLock>>
manifest == <<depth, watermark>>
writing == <<wpc, loaded, stamp, at>>
sweeping == <<want, moves, source>>
backing == <<since, started, found>>
vars == <<file, manifest, store, clock, truthLock, sweepLock, writing,
          cpc, swept, cdepth, sweeping, backing, kills>>
-----------------------------------------------------------------------------
(* _depth_for; a second level would take 256 * FlatMax files.              *)
Depth == 0 .. 1
DepthFor(n) == IF n <= FlatMax THEN 0 ELSE 1
Max2(m, n) == IF m < n THEN n ELSE m

Never == -1
NotFound == {Nobody}
Answer == (SUBSET Writer) \cup {NotFound}
NoFile == [recs |-> {}, last |-> {}]
Exists(th, d) == file[th][d].recs # {}
AppendTo(f, r) == [recs |-> f.recs \cup {r}, last |-> r]
NoSource == <<>>
Files == {p \in Thread \X Depth : Exists(p[1], p[2])}

WriterFinal == {"idle", "done", "failed", "dead"}
Writing(w) == wpc[w] \notin WriterFinal
Free(p) == cpc[p] = "idle" /\ \A w \in Writer : ProcOf[w] = p => ~Writing(w)

(* thread_file_load_order: the canonical file is loaded last, and the last *)
(* thread record wins.                                                     *)
Rebuilt(th) == IF Exists(th, depth) THEN file[th][depth].last
               ELSE file[th][1 - depth].last

Init ==
  /\ file = [th \in Thread |-> [d \in Depth |->
               IF th \in Preexisting /\ d = 0 THEN [recs |-> {{}}, last |-> {}]
               ELSE NoFile]]
  /\ depth = 0 /\ watermark = IF Stamped THEN 0 ELSE Never
  /\ row = [th \in Thread |-> [has |-> {}, at |-> 0]]
  /\ clock = 0
  /\ truthLock = Nobody /\ sweepLock = Nobody /\ dbLock = Nobody
  /\ wpc = [w \in Writer |-> "idle"]
  /\ loaded = [w \in Writer |-> {}]
  /\ stamp = [w \in Writer |-> 0]
  /\ at = [w \in Writer |-> 0]
  /\ cpc = [p \in Proc |-> "idle"]
  /\ swept = [p \in Proc |-> FALSE]
  /\ cdepth = [p \in Proc |-> 0]
  /\ want = [p \in Proc |-> 0]
  /\ moves = [p \in Proc |-> {}]
  /\ source = [p \in Proc |-> NoSource]
  /\ since = [p \in Proc |-> Never]
  /\ started = [p \in Proc |-> 0]
  /\ found = [p \in Proc |-> [th \in Thread |-> NotFound]]
  /\ kills = 0
-----------------------------------------------------------------------------
(* A session that restates metadata.                                       *)

WriterTo(w, l) == wpc' = [wpc EXCEPT ![w] = l]

(* It may have inserted events first, and then holds SQLite's write lock.  *)
InsertEvents(w) ==
  /\ wpc[w] = "idle" /\ Free(ProcOf[w])
  /\ dbLock = Nobody
  /\ dbLock' = w
  /\ WriterTo(w, "inserted")
  /\ UNCHANGED <<file, manifest, row, clock, truthLock, sweepLock, loaded, stamp, at,
                 cpc, swept, cdepth, sweeping, backing, kills>>

(* session.get loads the row, and _restage_thread reads the clock ...      *)
Touch(w) ==
  /\ wpc[w] = "inserted" \/ (wpc[w] = "idle" /\ Free(ProcOf[w]))
  /\ loaded' = [loaded EXCEPT ![w] = row[ThreadOf[w]].has]
  /\ clock' = clock + 1
  /\ stamp' = [stamp EXCEPT ![w] = clock + 1]
  /\ WriterTo(w, "touched")
  /\ UNCHANGED <<file, manifest, store, truthLock, sweepLock, at,
                 cpc, swept, cdepth, sweeping, backing, kills>>

(* ... and flushes, for which it needs the write lock.                     *)
Flush(w) ==
  /\ wpc[w] = "touched"
  /\ dbLock \in {Nobody, w}
  /\ dbLock' = w
  /\ WriterTo(w, "flushed")
  /\ UNCHANGED <<file, manifest, row, clock, truthLock, sweepLock, loaded, stamp, at,
                 cpc, swept, cdepth, sweeping, backing, kills>>

(* The drain reads the depth under the mutex, then appends the record: the *)
(* row as the session holds it.                                            *)
DepthOnce(w) == at' = [at EXCEPT ![w] = 0]  \* mutant: the depth known at the start is used
ReadDepth(w) == at' = [at EXCEPT ![w] = depth]

EnterDrain(w) ==
  /\ wpc[w] = "flushed"
  /\ truthLock = Nobody
  /\ truthLock' = w
  /\ ReadDepth(w)
  /\ WriterTo(w, "draining")
  /\ UNCHANGED <<file, manifest, store, clock, sweepLock, loaded, stamp,
                 cpc, swept, cdepth, sweeping, backing, kills>>

RecordOf(w) == loaded[w] \cup {w}

Drain(w) ==
  /\ wpc[w] = "draining"
  /\ file' = [file EXCEPT ![ThreadOf[w]][at[w]] = AppendTo(@, RecordOf(w))]
  /\ truthLock' = Nobody
  /\ loaded' = [loaded EXCEPT ![w] = {}] /\ at' = [at EXCEPT ![w] = 0]
  /\ WriterTo(w, "drained")
  /\ UNCHANGED <<manifest, store, clock, sweepLock, stamp,
                 cpc, swept, cdepth, sweeping, backing, kills>>

Commit(w) ==
  /\ wpc[w] = "drained"
  /\ row' = [row EXCEPT ![ThreadOf[w]] = [has |-> @.has \cup {w}, at |-> stamp[w]]]
  /\ dbLock' = Nobody
  /\ stamp' = [stamp EXCEPT ![w] = 0]
  /\ WriterTo(w, "done")
  /\ UNCHANGED <<file, manifest, clock, truthLock, sweepLock, loaded, at,
                 cpc, swept, cdepth, sweeping, backing, kills>>

(* COMMIT is rejected; a metadata-only batch cannot be decided and stays.  *)
CommitFails(w) ==
  /\ wpc[w] = "drained"
  /\ dbLock' = Nobody
  /\ stamp' = [stamp EXCEPT ![w] = 0]
  /\ WriterTo(w, "failed")
  /\ UNCHANGED <<file, manifest, row, clock, truthLock, sweepLock, loaded, at,
                 cpc, swept, cdepth, sweeping, backing, kills>>
-----------------------------------------------------------------------------
(* _checkpoint_locked.                                                     *)

CheckTo(p, l) == cpc' = [cpc EXCEPT ![p] = l]

(* The manifest is read; a sweep is due when the process never swept or    *)
(* its interval has passed.                                                *)
StartSweep(p) ==
  /\ Free(p)
  /\ cdepth' = [cdepth EXCEPT ![p] = depth]
  /\ swept' = [swept EXCEPT ![p] = TRUE]
  /\ CheckTo(p, "count")
  /\ UNCHANGED <<file, manifest, store, clock, truthLock, sweepLock, writing,
                 sweeping, backing, kills>>

StartPlain(p) ==
  /\ Free(p) /\ swept[p]
  /\ cdepth' = [cdepth EXCEPT ![p] = depth]
  /\ CheckTo(p, "reread")
  /\ UNCHANGED <<file, manifest, store, clock, truthLock, sweepLock, writing,
                 swept, sweeping, backing, kills>>

(* _maybe_rebalance counts the files, twins included, without a lock; flat *)
(* and staying flat it returns.                                            *)
Count(p) ==
  /\ cpc[p] = "count"
  /\ want' = [want EXCEPT ![p] = DepthFor(Cardinality(Files))]
  /\ CheckTo(p, IF Max2(cdepth[p], want'[p]) = 0 THEN "reread" ELSE "trylock")
  /\ UNCHANGED <<file, manifest, store, clock, truthLock, sweepLock, writing,
                 swept, cdepth, moves, source, backing, kills>>

(* The loser of the rebalance lock skips the sweep.                        *)
SkipSweep(p) ==
  /\ cpc[p] = "trylock"
  /\ sweepLock # Nobody
  /\ CheckTo(p, "reread")
  /\ UNCHANGED <<file, manifest, store, clock, truthLock, sweepLock, writing,
                 swept, cdepth, sweeping, backing, kills>>

(* Manifest first: the new depth is durable before any file moves.         *)
TakeDepth(p) ==
  /\ cpc[p] = "trylock"
  /\ sweepLock = Nobody
  /\ sweepLock' = p
  /\ depth' = Max2(depth, want[p])
  /\ cdepth' = [cdepth EXCEPT ![p] = depth']
  /\ CheckTo(p, "list")
  /\ UNCHANGED <<file, watermark, store, clock, truthLock, writing,
                 swept, sweeping, backing, kills>>

EveryFile(d) == Files             \* mutant: files in place are moved too
TooDeep(d) == {f \in Files : f[2] > d}  \* mutant: only files below their level are listed
Misplaced(d) == {f \in Files : f[2] # d}

ListFiles(p) ==
  /\ cpc[p] = "list"
  /\ moves' = [moves EXCEPT ![p] = Misplaced(cdepth[p])]
  /\ IF moves'[p] = {} THEN sweepLock' = Nobody /\ CheckTo(p, "reread")
     ELSE UNCHANGED sweepLock /\ CheckTo(p, "wait")
  /\ UNCHANGED <<file, manifest, store, clock, truthLock, writing,
                 swept, cdepth, want, source, backing, kills>>

EnterMoves(p) ==
  /\ cpc[p] = "wait"
  /\ truthLock = Nobody
  /\ truthLock' = p
  /\ CheckTo(p, "move")
  /\ UNCHANGED <<file, manifest, store, clock, sweepLock, writing,
                 swept, cdepth, sweeping, backing, kills>>

(* os.replace onto a free name.                                            *)
Relocate(p, f) ==
  file' = [file EXCEPT ![f[1]] = [d \in Depth |-> IF d = cdepth[p] THEN @[f[2]] ELSE NoFile]]

RenameAny(p, f) ==                \* mutant: the rename replaces an existing twin
  /\ cpc[p] = "move"
  /\ f \in moves[p]
  /\ Relocate(p, f)
  /\ moves' = [moves EXCEPT ![p] = @ \ {f}]
  /\ UNCHANGED <<manifest, store, clock, truthLock, sweepLock, writing,
                 cpc, swept, cdepth, want, source, backing, kills>>
Rename(p, f) ==
  /\ cpc[p] = "move"
  /\ f \in moves[p]
  /\ ~Exists(f[1], cdepth[p])
  /\ Relocate(p, f)
  /\ moves' = [moves EXCEPT ![p] = @ \ {f}]
  /\ UNCHANGED <<manifest, store, clock, truthLock, sweepLock, writing,
                 cpc, swept, cdepth, want, source, backing, kills>>

(* _merge_file_into: append the lines, fsync ...                           *)
MergeCopy(p, f) ==
  /\ cpc[p] = "move"
  /\ f \in moves[p]
  /\ Exists(f[1], cdepth[p])
  /\ file' = [file EXCEPT ![f[1]][cdepth[p]] =
                [recs |-> @.recs \cup file[f[1]][f[2]].recs, last |-> file[f[1]][f[2]].last]]
  /\ source' = [source EXCEPT ![p] = f]
  /\ CheckTo(p, "copied")
  /\ UNCHANGED <<manifest, store, clock, truthLock, sweepLock, writing,
                 swept, cdepth, want, moves, backing, kills>>

(* ... and remove the source.                                              *)
MergeUnlink(p) ==
  /\ cpc[p] = "copied"
  /\ file' = [file EXCEPT ![source[p][1]][source[p][2]] = NoFile]
  /\ moves' = [moves EXCEPT ![p] = @ \ {source[p]}]
  /\ source' = [source EXCEPT ![p] = NoSource]
  /\ CheckTo(p, "move")
  /\ UNCHANGED <<manifest, store, clock, truthLock, sweepLock, writing,
                 swept, cdepth, want, backing, kills>>

EndSweep(p) ==
  /\ cpc[p] = "move"
  /\ moves[p] = {}
  /\ truthLock' = Nobody /\ sweepLock' = Nobody
  /\ CheckTo(p, "reread")
  /\ UNCHANGED <<file, manifest, store, clock, writing,
                 swept, cdepth, sweeping, backing, kills>>

(* The manifest is read again: the depth for the backstop's paths, and the *)
(* watermark it queries above.                                             *)
Reread(p) ==
  /\ cpc[p] = "reread"
  /\ cdepth' = [cdepth EXCEPT ![p] = Max2(@, depth)]
  /\ since' = [since EXCEPT ![p] = watermark]
  /\ CheckTo(p, "begin")
  /\ UNCHANGED <<file, manifest, store, clock, truthLock, sweepLock, writing,
                 swept, sweeping, started, found, kills>>

(* checkpoint_started_at, before the query.                                *)
Begin(p) ==
  /\ cpc[p] = "begin"
  /\ clock' = IF clock < MaxTime THEN clock + 1 ELSE clock
  /\ started' = [started EXCEPT ![p] = clock']
  /\ CheckTo(p, IF since[p] = Never THEN "stamp" ELSE "query")
  /\ UNCHANGED <<file, manifest, store, truthLock, sweepLock, writing,
                 swept, cdepth, sweeping, since, found, kills>>

(* checkpoint_changed_threads queries before it waits for the mutex.       *)
ChangedLate(p, th) == row[th].at > started[p]  \* mutant: the new watermark is used
Changed(p, th) == row[th].at > since[p]

Query(p) ==
  /\ cpc[p] = "query"
  /\ found' = [found EXCEPT ![p] =
                 [th \in Thread |-> IF Changed(p, th) THEN row[th].has ELSE NotFound]]
  /\ CheckTo(p, "backwait")
  /\ UNCHANGED <<file, manifest, store, clock, truthLock, sweepLock, writing,
                 swept, cdepth, sweeping, since, started, kills>>

EnterBackstop(p) ==
  /\ cpc[p] = "backwait"
  /\ truthLock = Nobody
  /\ truthLock' = p
  /\ CheckTo(p, "back")
  /\ UNCHANGED <<file, manifest, store, clock, sweepLock, writing,
                 swept, cdepth, sweeping, backing, kills>>

Backstop(p, th) ==
  /\ cpc[p] = "back"
  /\ found[p][th] # NotFound
  /\ file' = [file EXCEPT ![th][cdepth[p]] = AppendTo(@, found[p][th])]
  /\ found' = [found EXCEPT ![p][th] = NotFound]
  /\ UNCHANGED <<manifest, store, clock, truthLock, sweepLock, writing,
                 cpc, swept, cdepth, sweeping, since, started, kills>>

EndBackstop(p) ==
  /\ cpc[p] = "back"
  /\ \A th \in Thread : found[p][th] = NotFound
  /\ truthLock' = Nobody
  /\ CheckTo(p, "stamp")
  /\ UNCHANGED <<file, manifest, store, clock, sweepLock, writing,
                 swept, cdepth, sweeping, backing, kills>>

(* The checkpoint's locals are gone when it returns.                       *)
Return(p) ==
  /\ CheckTo(p, "idle")
  /\ cdepth' = [cdepth EXCEPT ![p] = 0]
  /\ want' = [want EXCEPT ![p] = 0]
  /\ since' = [since EXCEPT ![p] = Never]
  /\ started' = [started EXCEPT ![p] = 0]

(* update_manifest, under its own lock: the depth never goes back, the     *)
(* watermark is this checkpoint's start.                                   *)
StampOwnDepth(p) == depth' = cdepth[p]  \* mutant: a stale depth is written back
StampDepth(p) == depth' = Max2(cdepth[p], depth)

Stamp(p) ==
  /\ cpc[p] = "stamp"
  /\ StampDepth(p)
  /\ watermark' = started[p]
  /\ Return(p)
  /\ UNCHANGED <<file, store, clock, truthLock, sweepLock, writing,
                 swept, moves, source, found, kills>>
-----------------------------------------------------------------------------
(* SIGKILL, between any two steps: the locks are free, the files stay, and *)
(* the process that replaces it owes a sweep.                              *)
Kill(p) ==
  /\ kills < MaxKills
  /\ ~Free(p)
  /\ kills' = kills + 1
  /\ wpc' = [w \in Writer |-> IF ProcOf[w] = p /\ Writing(w) THEN "dead" ELSE wpc[w]]
  /\ LET Clear(g, v) == [w \in Writer |-> IF ProcOf[w] = p THEN v ELSE g[w]]
     IN loaded' = Clear(loaded, {}) /\ stamp' = Clear(stamp, 0) /\ at' = Clear(at, 0)
  /\ Return(p)
  /\ swept' = [swept EXCEPT ![p] = FALSE]
  /\ moves' = [moves EXCEPT ![p] = {}]
  /\ source' = [source EXCEPT ![p] = NoSource]
  /\ found' = [found EXCEPT ![p] = [th \in Thread |-> NotFound]]
  /\ LET mine == {p} \cup {w \in Writer : ProcOf[w] = p}
     IN /\ truthLock' = IF truthLock \in mine THEN Nobody ELSE truthLock
        /\ sweepLock' = IF sweepLock \in mine THEN Nobody ELSE sweepLock
        /\ dbLock' = IF dbLock \in mine THEN Nobody ELSE dbLock
  /\ UNCHANGED <<file, manifest, row, clock>>
-----------------------------------------------------------------------------
Write(w) == \/ Touch(w) \/ Flush(w) \/ EnterDrain(w) \/ Drain(w) \/ Commit(w)

Move(p) == \/ \E f \in Files : Rename(p, f) \/ MergeCopy(p, f)
           \/ MergeUnlink(p) \/ EndSweep(p)

Sweep(p) == Count(p) \/ SkipSweep(p) \/ TakeDepth(p) \/ ListFiles(p)
            \/ EnterMoves(p) \/ Move(p)

Check(p) ==
  \/ Reread(p) \/ Begin(p) \/ Query(p) \/ EnterBackstop(p)
  \/ \E th \in Thread : Backstop(p, th)
  \/ EndBackstop(p) \/ Stamp(p)

Next ==
  \/ \E w \in Writer : InsertEvents(w) \/ Write(w) \/ CommitFails(w)
  \/ \E p \in Proc : StartSweep(p) \/ StartPlain(p) \/ Sweep(p) \/ Check(p) \/ Kill(p)

Spec == Init /\ [][Next]_vars

(* What was begun is carried on, and each process sweeps again and again:  *)
(* the daemon's loop calls checkpoint for ever and its interval passes.  A *)
(* holder of the mutex keeps it for one batch and its loop sleeps between  *)
(* passes, so a process blocked on it gets it in the end.                  *)
FairSpec ==
  /\ Spec
  /\ \A w \in Writer : WF_vars(Writing(w) /\ Write(w))
  /\ \A p \in Proc : /\ WF_vars(Sweep(p) \/ Check(p)) /\ SF_vars(StartSweep(p))
                      /\ SF_vars(EnterMoves(p)) /\ SF_vars(EnterBackstop(p))
-----------------------------------------------------------------------------
TypeOK ==
  /\ file \in [Thread -> [Depth -> [recs : SUBSET (SUBSET Writer), last : SUBSET Writer]]]
  /\ depth \in Depth
  /\ watermark \in Nat \cup {Never}
  /\ row \in [Thread -> [has : SUBSET Writer, at : Nat]]
  /\ clock \in Nat
  /\ {truthLock, dbLock} \subseteq Writer \cup Proc \cup {Nobody}
  /\ sweepLock \in Proc \cup {Nobody}
  /\ wpc \in [Writer -> WriterFinal \cup {"inserted", "touched", "flushed", "draining", "drained"}]
  /\ loaded \in [Writer -> SUBSET Writer]
  /\ stamp \in [Writer -> Nat]
  /\ at \in [Writer -> Depth]
  /\ cpc \in [Proc -> {"idle", "count", "trylock", "list", "wait", "move", "copied",
                       "reread", "begin", "query", "backwait", "back", "stamp"}]
  /\ swept \in [Proc -> BOOLEAN]
  /\ cdepth \in [Proc -> Depth]
  /\ want \in [Proc -> Depth]
  /\ moves \in [Proc -> SUBSET (Thread \X Depth)]
  /\ source \in [Proc -> (Thread \X Depth) \cup {NoSource}]
  /\ since \in [Proc -> Nat \cup {Never}]
  /\ started \in [Proc -> Nat]
  /\ found \in [Proc -> [Thread -> Answer]]
  /\ kills \in Nat

(* What a rebuild would make of the thread includes the index's row.       *)
Fresh(th) == row[th].has \subseteq Rebuilt(th)

(* The next backstop will see the row.                                     *)
Owed(th) == watermark # Never /\ row[th].at > watermark

(* Some record of some file of the thread includes the change.             *)
Logged(w) == \E d \in Depth : \E r \in file[ThreadOf[w]][d].recs : w \in r

(* No sweep or backstop, however interleaved or killed, loses a committed  *)
(* change.                                                                 *)
CommittedIsLogged == \A w \in Writer : wpc[w] = "done" => Logged(w)

(* Why: files grow, move and go only under the mutex, ...                  *)
MutexHeld ==
  /\ \A w \in Writer : wpc[w] = "draining" => truthLock = w
  /\ \A p \in Proc : cpc[p] \in {"move", "copied", "back"} => truthLock = p

(* ... a sweep moves away from other depths than its own only, ...         *)
MovesMisplaced ==
  \A p \in Proc : cpc[p] \in {"wait", "move", "copied"} =>
    \A f \in moves[p] : f[2] # cdepth[p]

(* ... and what it is about to remove is in the file it has merged it into.*)
SourceCopied ==
  \A p \in Proc : cpc[p] = "copied" =>
    /\ source[p] \in moves[p]
    /\ file[source[p][1]][source[p][2]].recs \subseteq file[source[p][1]][cdepth[p]].recs

(* The drain comes before the COMMIT.                                      *)
DrainedIsLogged == \A w \in Writer : wpc[w] \in {"drained", "done"} => Logged(w)

(* The manifest is first: no file and no path is deeper than it says, ...  *)
NothingDeeper ==
  /\ \A th \in Thread, d \in Depth : Exists(th, d) => d <= depth
  /\ \A w \in Writer : at[w] <= depth
  /\ \A p \in Proc : cdepth[p] <= depth

(* ... so that a drain, which read it under the mutex, has no file deeper  *)
(* than its path.                                                          *)
DrainPath ==
  \A w \in Writer : wpc[w] = "draining" =>
    \A d \in Depth : d > at[w] => ~Exists(ThreadOf[w], d)

(* The inductive invariant of the proofs: no sweep ever removes the only   *)
(* copy of a record, and no drain writes behind a sweep.                   *)
SweepInv == /\ TypeOK /\ MutexHeld /\ MovesMisplaced /\ SourceCopied /\ DrainedIsLogged
            /\ NothingDeeper /\ DrainPath

(* With one process, whatever a rebuild would get wrong is still above the *)
(* watermark when no checkpoint is under way: the next one repairs it.     *)
StaleIsOwed ==
  (\A p \in Proc : Free(p)) => \A th \in Thread : Fresh(th) \/ Owed(th)

(* A drain never starts a second file, at a shallower depth, for a thread  *)
(* the sweep has moved (drain.py 490: the depth is read under the mutex).  *)
DrainNeverMakesTwin ==
  [][\A w \in Writer : wpc[w] = "draining" /\ wpc'[w] = "drained" =>
       LET th == ThreadOf[w]
       IN Exists(th, at[w]) \/ \A d \in Depth : d > at[w] => ~Exists(th, d)]_vars

(* The manifest's depth never goes back, whoever stamps it.                *)
DepthNeverShrinks == [][depth <= depth']_vars

(* A misplaced file is home in the end, through kills and lost races.      *)
AllHome == \A th \in Thread, d \in Depth : Exists(th, d) => d = depth
StragglersGoHome == ~AllHome ~> AllHome
-----------------------------------------------------------------------------
BackstopOf(p, th) == /\ cpc[p] = "back" /\ cpc'[p] = "back"
                     /\ found[p][th] # NotFound /\ found'[p][th] = NotFound

(* What the backstop appends is at worst a duplicate (maintenance.py 233:  *)
(* "the worst case is a harmless re-appended thread record"): it reverts   *)
(* no change that the next checkpoint will not see.                        *)
BackstopIsHarmless ==
  [][\A p \in Proc, th \in Thread :
       BackstopOf(p, th) /\ Fresh(th) => Fresh(th)' \/ row[th].at > started[p]]_vars
=============================================================================
