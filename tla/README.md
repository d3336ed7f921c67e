# thread_archive: a verification development

thread_archive keeps a local archive of AI conversations.  Its *truth* is a
directory of append-only JSONL files (one per thread, plus `kg_events.jsonl` and
some snapshots); its *index* is a SQLite database, a projection that can be
rebuilt from the truth.  Everything stated here turns on the two halves of that
sentence: the truth must contain whatever the index holds, and a rebuild from
the truth must give back what the index held.

Paths are relative to `src/src/thread_archive/` unless they start with `docs/`
or `tests/`.

## 1. Inventory

| part | state it keeps | operations | who it meets |
|---|---|---|---|
| truth append path (`_truth/drain.py`, `_truth/locks.py`) | `session.info` buffers, the JSONL files, each process's LRU of append handles, `.drain.intent`, the truth-write mutex | `write_events`, `record_thread`, the `before_commit` drain, crash recovery at every acquisition, the undo of a rejected COMMIT | every importer, the topic graph; the backstop and the sweep take the same mutex |
| checkpoint (`_truth/maintenance.py`) | `manifest.json` (`shard_depth`, `last_checkpoint_at`), snapshot files, per-process cadence | `checkpoint`: snapshots, sweep, metadata backstop, watermark stamp | watcher maintenance, `import_path`, backup, CLI; live commits |
| shard sweep (`_truth/maintenance.py`, `_truth/layout.py`) | where each thread file is, the rebalance lock | count, manifest first, list, rename or merge | live commits, other sweeps, backup, a reindex that reads |
| reindex and truth rebuild (`_truth/rebuild.py`, `_store/_base.py`) | `index.db`, the build file, `-wal`/`-shm`, each process's engine | `reindex` (build, gates, carry of the cursors, swap), `rebuild_truth_from_store`, `reconnect_if_swapped` | everything that holds the ingest lock shared |
| truth repair, format migration (`_truth/repair.py`, `_truth/migrate_v2.py`) | rewritten truth files, side copies | `repair_truth`, `migrate` | run under the exclusive ingest lock |
| blob store (`_truth/blobs.py`) | content-addressed files | `store_bytes` | importers, backup |
| importers (`_importers/`) | `import_state` rows (one cursor per source), dedup keys, the skip ledger | import a source, adopt, continue, discard | the append path, the watcher |
| watcher (`_watcher/`) | fingerprints, dirty flag, embed flags, the ingest-owner lock | `poll_once`, `maintain`, `run`, lazy catch-up | importers, checkpoint, retrieval's vectors |
| lock protocol (`_truth/locks.py`, `_watcher/lazy.py`) | flock files: ingest, rebalance, truth-write, manifest, ingest-owner | shared/exclusive, blocking/non-blocking | everything |
| backup, restore, verify, nightly (`_ops/`) | mirror, hard-link generations, recovery bundle, notices | `backup`, `restore`, `restore_drill`, `verify` | reads the truth while it is written |
| store (`_store/`) | SQLite tables | ORM | external: write lock, AUTOINCREMENT, atomic COMMIT |
| provider parsers, retrieval, operator surface, service, setup, web, MCP | none that interleaves | conversion, ranking, presentation | |

How they interact.  A *writer* (watcher daemon, `import` command, MCP server)
holds the ingest lock shared, opens an ORM session, inserts rows (SQLite's write
lock) and stages them; `session.commit()` fires the drain, which takes the
truth-write mutex, appends and fsyncs, and only then lets SQLite COMMIT.  A
*checkpoint* runs in any of those processes, concurrently with the writers of
the others, and takes the same mutex to move files and to append metadata.  A
*reindex* holds the ingest lock exclusive.  A *backup* checkpoints, verifies and
mirrors while writers go on.

What is hard: the truth and the index are two stores with no common commit; any
process may be killed and the machine may lose power between any two steps; a
COMMIT may raise although it landed; locks are flocks of several files taken in
different orders; state is read before a lock is waited for and used after it;
"latest record wins" makes order, not only content, part of the truth.

What makes each part correct:

- append path: the truth contains the index, always and durably; a batch that
  dies in its drain leaves nothing; undoing one batch never touches another;
  every session ends.
- checkpoint and sweep: no committed record is lost by a move; the last record
  of a thread is its row in the index, or the next checkpoint will make it so;
  every file gets home; the manifest's depth never goes back.
- reindex: the new index holds every committed row of the old; no commit goes
  to a swapped-out file; a crash leaves the old index or the new one.
- importers: every source line is imported exactly once, or its skip is on the
  ledger; a cursor never passes what was not committed.
- watcher: one process ingests; a change is imported in the end.
- locks: no cycle of waits.
- backup: the mirror is a truth that rebuilds; a damaged source never destroys
  the last good copy; a restore is all or nothing.

## 2. How the project is laid out

| module | models | abstract specification | proofs |
|---|---|---|---|
| `TruthDrain` (+ `TruthDrainInv`) | the append path: drain, recovery, undo | `TruthStore` | `TruthDrainProofs`, `TruthDrainRowProofs` |
| `Checkpoint` | metadata backstop, watermark, shard sweep | | `CheckpointProofs` |
| `Reindex` | index rebuild, swap, pools of connections, truth repair, the ingest lock | `IndexStore` | `ReindexProofs` |
| `SourceImport` | the incremental import of a session file, its cursor, fingerprints, skip ledger, re-import | | `SourceImportProofs` |
| `Watcher` | the daemon's loop, ingest ownership, lazy passes, what an import owes | | `WatcherProofs` |
| `Backup` | mirror, generations, retention, restore | | `BackupProofs` |
| `Migrate` | the migration of the truth to ULIDs | | `MigrateProofs` |

The modules meet at what one promises and the next assumes.  `TruthDrain` shows
that a batch is in the truth, durably and whole, before its COMMIT; `Reindex`,
`SourceImport` and `Backup` take that as one step (a line that is drained, a
frame that the next holder of the mutex resolves).  `SourceImport` shows that an
item is imported exactly once, whatever the file does; `Watcher` takes an import
as one step and follows what is owed after it.  `Checkpoint` moves files one
rename at a time; `Backup` lets the same sweep run beside a mirror.  `Reindex`
shows that a rebuild is one atomic replacement of the index by the image of the
truth; `SourceImport`'s `Rebuild` and `Migrate`'s `Reindex` are that step.

What would come next: the snapshot files and their shared tmp name, the load of
`INSERT OR REPLACE` with two rows under one id, continuations (a compacted
session merged into its parent), the sources that scan a provider's database,
and an order of all the locks in one module.

## 3. The modules and the code

### TruthDrain (`_truth/drain.py`, `_truth/locks.py`)

A transaction `t` is one session that commits one batch; `Batch[t]` is its
pending list, each entry a file and what the row is (`nth = 0` a metadata
record, `nth = n` the n-th event).  A record is its kind, its id and the
transaction that wrote it (its payload).

| variable | code |
|---|---|
| `log`, `exists`, `synced` | the files as the OS shows them, and the prefix that is durable |
| `handles` | `_handles`, the per-process cache of append handles |
| `intent`, `intentOnDisk` | `.drain.intent`, in the page cache and on the disk |
| `truthLock`, `dbLock` | the flock of `_truth_write_lock`; SQLite's write lock |
| `committed`, `highWater`, `first` | the index; `sqlite_sequence`; the ids a flush hands out |
| `base`, `post` | the baselines of the frame; `session.info[_DRAINED]` |
| `pc`, `pos` | how far each session is |

| actions | code |
|---|---|
| `Stage` | `write_events` (flush) and `_stage` |
| `Acquire`, `Recover*` | `_truth_write_lock` and `_recover_crashed_drain` with `_intent_committed` (`Probe`), `_tail_is_intent_only`, `_rollback_file` |
| `OpenHandle`, `WriteIntent`, `SyncIntent`, `AppendRow`, `FsyncFile`, `ClearIntent` | the drain, in its order: handles and torn-tail repair, frame, appends, one fsync per file, emptying the intent |
| `FrameFails`, `AppendFails`, `Unwind*` | an OSError before and after the frame is durable |
| `Commit`, `CommitRaises` | COMMIT; a COMMIT that raises, landed or not |
| `UndoKeep`, `UndoNeeded`, `UndoFile`, `UndoDone` | `_compensate_failed_commit` and `_undo_drain` |
| `Kill`, `PowerLoss` | SIGKILL (page cache stays) and power loss (durable prefix, any number of later lines, perhaps a torn piece of the next) |

`TruthStore` is the promise: a batch is durable in the truth (`logged`), then
indexed in one step; an indexed batch never ceases to be logged.  `StoreSpec`
maps `logged` to the transactions all of whose rows are readable, durable lines.

Abstractions: the probe looks at every id of the batch (the code caps it at 32,
enough because ids of one flush land together); an unreadable index at the
probe, which keeps the batch, is left out; the LRU never evicts (an evicted
handle is a file opened again, which `OpenHandle` covers by processes that
start without one); truncate and fsync of a rollback, and the creation of a file
and the fsync of its directory, are one step each; an OSError during a rollback
(logged by the code) is left out; `unstage_thread` edits a buffer no one else
sees.  Sweeps do not run in this module.

### Checkpoint (`_truth/maintenance.py`, with `layout.py`, `_importers/_state.py`)

A writer is a transaction that makes one change to one thread's metadata.  A
record is the set of changes it includes, a row of the index likewise, so a
*stale* truth is one whose last record lacks a change the row has.  A file is
the set of its records and the last of them; duplicates are not told apart.

| variable | code |
|---|---|
| `file` | `threads/**/<id>.jsonl` at depth 0 (flat) and 1 (sharded) |
| `depth`, `watermark` | `shard_depth`, `last_checkpoint_at` of the manifest |
| `row`, `dbLock` | the `threads` row (`has`, `updated_at`) and SQLite's write lock |
| `truthLock`, `sweepLock` | `_truth_write_lock`, `_try_rebalance_lock` |
| `loaded`, `stamp`, `at` | what `session.get` returned, the `updated_at` of `_restage_thread`, the depth the drain read |
| `swept`, `cdepth`, `want`, `moves`, `source`, `since`, `started`, `found` | `_due` and the locals of `_checkpoint_locked`, `_maybe_rebalance`, `_merge_file_into` and `checkpoint_changed_threads` |

`StartSweep`/`StartPlain` begin a checkpoint with or without a due sweep;
`Count`, `SkipSweep`, `TakeDepth`, `ListFiles`, `EnterMoves`, `Rename`,
`MergeCopy`, `MergeUnlink`, `EndSweep` are `_maybe_rebalance` in order;
`Reread`, `Begin`, `Query`, `EnterBackstop`, `Backstop`, `EndBackstop`, `Stamp`
are the rest of `_checkpoint_locked`.  `InsertEvents`, `Touch`, `Flush`,
`EnterDrain`, `Drain`, `Commit`, `CommitFails` are a session that restates
metadata; its drain is two steps (depth read under the mutex, append), its
inside being TruthDrain's subject.  `Kill` ends everything a process does.
`Rebuilt` is what `load_thread_files` would make of the thread.

Abstractions: two levels (a third takes 256 times `flat_max()` files); the
manifest is always readable; the rebalance lock and the manifest update under it
are one step; a rejected COMMIT leaves its record (the undo is TruthDrain's);
readings of the clock never go backwards; no reindex, so the ingest lock never
blocks; OSErrors of a sweep and power loss during it are left out (a kill at
each of its steps is in); the snapshot files are not here.

### Reindex (`_truth/rebuild.py`, `_truth/repair.py`, `_truth/locks.py`, `_store/_base.py`, `_lifecycle.py`)

An index file is an inode with its events and its import cursors.  A process
holds the ingest lock shared for a pass and keeps a pool that is connected to
the inode it opened; a rebuild, or a repair of the truth, holds the lock
exclusive.

| variable | code |
|---|---|
| `truth`, `bare`, `partial` | readable event lines; threads whose record outlived their damaged event line; the line of an unfinished drain, framed by the intent |
| `snapshot` | `import_state.jsonl` |
| `file`, `index`, `walOf` | inodes, the one named `index.db`, the one whose log is named `index.db-wal` |
| `shared`, `exclusive`, `mutex` | the ingest lock, the truth-write mutex |
| `conn`, `ident` | each process's pool and `index_ident` |
| `pc`, `todo`; `rpc`, `build` | passes and repairs; rebuilds and `index.db.rebuild` |
| `committed`, `dropped` | history: what COMMITs made visible, what `--salvage` gave up and no import has brought back |
| `stray` | history: the index whose log a rebuild that died in its swap left under the name of another's |

| actions | code |
|---|---|
| `Open`, `InitDb` | `open_archive`: the look for a swap, then a connection, with other processes in between |
| `Acquire`, `FirstUse`, `Release` | `shared_ingest_lock` / `try_shared_ingest_lock` with `reconnect_if_swapped` under the lock; SQLAlchemy connects at the first use |
| `Stage`, `StartDrain`, `FinishDrain`, `Commit`, `CommitFails` | an import of one line: dedup, drain, rows and cursor in one COMMIT |
| `Checkpoint` | the snapshot of the cursors |
| `Start` ... `UnlinkWal` | `reindex` in order: lock, intent resolved, load, cursors carried, gate (`Regressed`), rename, unlink of the old log; `Refuse` is any gate or exception, `Salvage` the `--salvage` way past the first one |
| `LockRepair`, `Scan`, `Restore`, `EndRepair` | `repair_truth`: the rows of the index no readable line has are appended again |
| `Kill`, `KillRebuild` | SIGKILL anywhere |
| `Rot`, `LoseFile` | a line damaged on the disk; a thread file lost |

`IndexStore` is the promise: a row is indexed only when it is durable, and a
rebuild replaces the index by the image of the truth in one step.

Abstractions: one line is one row; the content of a load, full-text and vector
phases and the reconciliation of citations are left out; a repair's quarantine
and rewrite are not told apart from its restore; an archive whose `index.db` was
removed by hand is not modelled.  `_hold_reindex_lock` looks for no swap, so a
repair that waited while an index was swapped in restores from the old inode;
the invariant says so (`RepairKnown` speaks of `conn[p] = index`).

### SourceImport (`_importers/`, `_watcher/base.py`, `sources.py`, `fingerprints.py`, `_repair/reimport.py`)

One session file that a provider appends to, tears (a line of two halves) and
rewrites, and two importers of it: the daemon and a repair.  A digest is the
bytes; an event is the content of its line.

| variable | code |
|---|---|
| `file`, `mtime` | the file and its mtime |
| `blind` | the lines the parser does not understand until it is fixed |
| `index`, `thread`, `mark` | rows, thread row, `import_state` row (count, size, digest) |
| `truth`, `record` | the thread's truth file |
| `ledger` | open records of `capture-skips.jsonl` |
| `seen`, `saved` | the watcher's fingerprint, `watch-fingerprints.json` |
| `job` | what an importer holds between its read and its COMMIT |
| `missed`, `adopted` | history: what a cursor passed and why |

`Probe`, `Read`, then one of `StampDigest`, `CarryForward`, `Adopt`, `Import`,
`Discard`, then `Commit` or `Fail` are `fingerprint_poll` around
`import_line_stream_session`; `StartRepair`, `ResetWatermark`, `ForgetAndRead`,
`CloseRecords` are `reimport_source`.  `Written` is the ORM's UPDATE, which
writes only the columns that differ from what was loaded.  `Rebuild` is a
reindex between passes.

Abstractions: one thread and one file; the merge of a continuation, title and
description, drift snapshots and database sources are left out.  A rewrite to
the same size within one mtime is invisible to the fingerprint and not in the
model (`mtime` is new at every write).  `SkipLedgered` is TRUE, as in
`claude_code.py`; `_line_stream.py:133-137` discards a new thread without a
record, and `SkipsAreLedgered` fails there with FALSE.

### Watcher (`_watcher/daemon.py`, `_watcher/lazy.py`)

Items are changes of sources; an import of one is a step that moves a watermark
and, unless the item is `Quiet`, adds an event without a vector.

| variable | code |
|---|---|
| `moves`, `snap` | what `_import_state_stamp` tells apart, and what the snapshot on disk has |
| `bare` | events without a vector |
| `owner`, `shared`, `rebuilding` | `.ingest-owner.lock`, the ingest lock |
| `dirty`, `stamp`, `last_stamp`, `embed_more`, `backlog` | the loop's locals and `_embed_more`, `_embed_backlog` |
| `upkeep_due`, `embed_due` | the two intervals on the clock |
| `spc`, `swept` | lazy passes; `_due` of a second checkpoint in a process |
| `forgotten`, `unasked` | history: what the code gives up (below) |

`Start` ... `EmbedFails` are `run` from top to bottom; `LazyOwn` ... `LazyDone`
are `lazy_pass`.  Not modelled: the backoff after a pass that raises as a whole,
the schema check, health and timing ledgers, the code axis, export drops.

Abstractions: `moves` counts exactly, where the stamp is `(count,
max(last_import_at))`: the model takes that pair to differ after every move,
which a clock that is set back could break.  `Maintain` always writes the
snapshot: of the parts of a checkpoint that `_due` gates, it follows that one
alone, the daemon calls `checkpoint` nowhere else, and its interval (300 s) is
longer than the gate's (30 s).  A poll that raises forgets what it had counted
(`ImportFails`): the events it imported before are in `unasked`.

### Backup (`_ops/backup.py`, `_ops/verify.py`)

A directory maps a path (a thread at a shard depth) to a file: one line per
batch, an mtime.  `Drain`, `Commit`, `Die` are sessions, `StartSweep` ...
`KillSweep` the sweep, `Truncate`, `Corrupt`, `Lose`, `Reinstall`, `Restore` and
`Repair` what happens to a directory.  `Verify`, `Snapshot`, `TryRebalance`,
`Enter`, `Copy`, `CopyManifest`, `PlanDeletes`, `Delete`, `Unlock`, `Report` are
`backup` in its order, one step per file; `Pruned` is the retention of the
generations, `Unchanged`, `Shrunk`, `Doomed`, `Rehomed`, `Limit` the rules of
`mirror_dir`.  History variables date what a run takes out of the mirror
(`gone`), remember what a finished run left in it (`kept`) and what was damaged
since it was verified (`hurt`).

Abstractions: a restore is one step (staging, rebuild, two renames); the
recovery bundle, the drill, `--allow-shrink`, the twins of the ULID migration
and the deep and hash tiers of verify are left out; a backup ends on the day it
began; the undo of a rejected COMMIT does not run here (see section 6).

### Migrate (`_truth/migrate_v2.py`, `_api.migrate`)

A file is the set of thread ids it names: the tree by its file names, an overlay
by its references.  `Begin`, `Rewrite`, `PersistMapping`, `MakeBackup`,
`SwapOut`, `SwapIn`, `SwapNone`, `SwapFails`, `Finish` are `_migrate_locked`,
`Reindex` the rebuild after it (or one an operator runs), `Kill` a death
anywhere, `SetAside` the operator who moves `pre-ulid-backup` away, as the
refusal asks, to try again.  The archive may mix integer ids with ULIDs a newer
writer gave before there was a format guard (`Native`), threads only the truth
knows (`Unindexed`) and threads that have no file (`Unfiled`).

Abstractions: `migrate` holds the ingest lock and the truth mutex until the
manifest is written, and `require_current_format` keeps writers off an older
manifest; it then lets go, and `_api.migrate` takes the ingest lock again for the
rebuild.  A pass that was waiting may come in between, on a version-2 manifest
and an index of integer ids: that pass is not modelled, and nothing here says
what it writes.  Overlays are taken in any order.

## 4. The runs

Every passing run explores its whole instance.

| run | instance | shows |
|---|---|---|
| `TruthDrain_safety` | three sessions in two processes, two files | `TypeOK`; `TruthCoversIndex` (JSONL contains SQLite, durably and readably); `FrameOwnerIsGone` (recovery never meets a batch on its way to COMMIT); `DrainInv`, the invariant of the proofs; `NoCommittedLineCut`, `UndoLeavesOnlyBuriedRows`; `StoreSpec`: the drain implements `TruthStore` |
| `TruthDrain_torn` | the same, and a kill may cut a line short, `_clear_intent` may fail | `CrashedDrainLeavesNothing` (the drain is all or nothing), `SessionsEnd` (no session waits for ever) |
| `Checkpoint_two` | two processes, two threads, two writers, a kill | `CommittedIsLogged`, `SweepInv` (the invariant of the proofs, `TypeOK` included), `DrainNeverMakesTwin`, `DepthNeverShrinks` |
| `Checkpoint_alone` | one process, two threads, three writers, a kill | `StaleIsOwed` (whatever a rebuild would get wrong is above the watermark), `StragglersGoHome` |
| `Reindex_swap` | two events, a daemon and a command, a rebuild, two index files, a kill anywhere, a damaged line or a lost file | `SwapInv` (the invariant of the proofs; with it, the log next to the index is its own), `PassesUseTheIndex`, `IndexHoldsCommitted`, `CursorsMatch`, `SwapsAtomically` (refines `IndexStore`), `RebuildEnds` |
| `SourceImport_file` | a line the parser knows and one it learns, a file of two lines, three writes, one fault | `TypeOK`, `CursorSkipsNothing`, `SeenIsImported`, `NoGhostThread`, `SkipsAreLedgered`, `ClosedIsRecovered`, `EventuallyImported` |
| `Watcher_loop` | two events and a quiet move, one MCP server, a budget of two for deaths, failures, rebuilds and lazy passes | `WatcherInv` (the invariant of the proofs, `TypeOK` included: locks, and flags that tell what is owed), `SnapshotCatchesUp`, `BacklogDrains`, `DaemonOwns` |
| `Backup_mirror` | two threads, a batch of both and one of one, three backups on two days, one harm | `TypeOK`, `DestroyedIsRecoverable`, `DeletesKeepTheLiving`, `OkIsWhole`, `NoPartOfABatch` |
| `Migrate_swap` | two threads with integer ids (one unknown to the index), one with a ULID, one without a file, three overlays (one absent), three attempts, two deaths | `MigrateInv` (the invariant of the proofs), `NothingDestroyed`, `FirstSwapIsWhole` |

Three runs show that the code does not do what it says:

- `TruthDrain_clear_lost`: `_clear_intent` swallows an OSError; the session
  commits with its frame still in place, and the next holder rolls it back.
  The index then holds what the truth does not.
- `Checkpoint_revert`: the backstop appends a row it read before it waited for
  the mutex; a newer record is no longer the last, and the watermark hides it.
- `SourceImport_race`: a repair takes neither the ingest lock nor the
  ingest-owner lock.  A daemon in the middle of an import commits its old
  cursor over the rewound one, and the repair closes its record over lines it
  never parsed.

### Bounds

`TruthDrain`: `t1` (a one-shot command) imports a new thread and amends an old
one in one batch, `t2` and `t3` (the daemon) append an event to the old file and
restate its metadata: batches of one and several files, created and existing,
with and without ids, in one and in two processes; every fault may strike any
number of times, since a session runs once.  178 000 states, 302 000 with the two further
faults.

`Checkpoint`: `FlatMax` is 0 or 1, so that the threshold is crossed at the first
sweep or when the second thread is created.  `MaxTime` only bounds how many
readings by checkpoints are told apart; a writer's reading is always later than
all before it.  1.2 million states in the larger run.  `Checkpoint_alone` has one process: a lost race for the rebalance lock, or a
commit of another process that races the manifest bump, is not in it, and section
6 says what they cost.  Checkpoints may run for
ever, so deadlock is checked; so it is in `Reindex_swap`.  The other runs end
when their bounds are used up, and say `CHECK_DEADLOCK FALSE`.

`Reindex_swap`: two inodes are one swap, and a process can sleep through it,
wait through it or commit before it; two events are one that is in the index
when the rebuild begins and one on its way.  The damage may strike a line, which
leaves the thread's record, or the whole file, which does not: a salvage keeps
the cursor of the first and prunes that of the second.  The kill may strike the
rebuild anywhere, between its rename and its unlink too (`stray`).  902 000
states.

`SourceImport_file`: two lines give an append, a torn line that is completed and
one that is replaced, a truncation and a rewrite of the same size; three writes
are an import, a change during the next one, and one after it.  `OneAtATime` is
TRUE; FALSE is `SourceImport_race`.

`Backup_mirror`: one harm per behaviour.  With two, a verify that compares
counts can be deceived (a lost row and a row of a session that died before its
COMMIT cancel out), so a property of what is lost after it would be about verify
and not about the mirror.  Three runs on two days, with `KeepDays = 1`,
`KeepMonths = 1` and months of two days, make a generation that is pruned and
one that is kept; `DeleteFloor = 1` puts both sides of the cap within two files.

`Migrate_swap`: the second attempt may follow an interruption anywhere, the
third one a refusal.  34 000 states.

`Watcher_loop`: `Batch = 1` makes two events a backlog.  478 000 states.

### Fairness

`TruthDrain`: weak fairness of everything a live session does by itself
(`Progress`): a live process is scheduled, and a lock that stays free is
granted.  Nothing is assumed of kills, power losses and errors.

`Checkpoint`: weak fairness of the steps of a checkpoint and a session that have
begun; strong fairness of `StartSweep`, because the daemon's loop calls
`checkpoint` for ever and the interval of `_due` passes; strong fairness of the
two waits for the mutex, because a holder keeps it for one bounded batch and its
loop sleeps between passes.  Kills are bounded by `MaxKills`: an archive whose
every sweep is killed never gets its files home.

`Reindex`: weak fairness of a rebuild that has begun, strong fairness of its
wait for the exclusive lock.  flock prefers nobody: shared holders may come
while a rebuild waits, so `RebuildEnds` has the premise that the lock is free
again and again, which the pause between two passes gives for one process and
nothing gives for several that overlap.

`SourceImport`: the daemon polls for ever, and a repair that began runs on.
`Watcher`: the operating system runs each process, launchd restarts the daemon
(KeepAlive), the clock passes the intervals, a rebuild ends.  Nothing is assumed
of failures; they are bounded by `MaxOdd`.

`Backup` and `Migrate` state no liveness: one is run by a schedule, the other by
an operator.

## 5. The theorems

`TruthDrainProofs` and `TruthDrainRowProofs` prove, for every number of sessions, processes, files and
rows, from the named assumptions on the constants and from
`Benign == ~ClearCanFail /\ ~KillTears` (the two faults for which the runs above
show the property to fail):

- `Inductive`: `Spec => []IInv`;
- `TypeCorrect`: `Spec => []TypeOK`;
- `Containment`: `Spec => []TruthCoversIndex`;
- `FrameOwnership`: `Spec => []FrameOwnerIsGone`;
- `Refinement`: `Spec => StoreSpec`;
- `DrainInductive`: `Spec => []DrainInv`;
- `AllOrNothing`: `Spec => []CrashedDrainLeavesNothing`;
- `UndoIsExact`: `Spec => UndoLeavesOnlyBuriedRows`;
- `CommittedLinesStay`: `Spec => NoCommittedLineCut`.

Kills between any two steps, power loss with torn lines, I/O errors and COMMITs
that raise are all in the specification the theorems are about.

The argument.  `TruthCoversIndex` is not inductive: a rollback truncates files,
and nothing in it says that what is cut is not someone else's.  The invariant
(`TruthDrainInv`) adds that past a batch's baseline a file holds lines of that
batch alone (`OwnTail`) from the moment the baseline is taken until the batch is
decided; that this is so because only the holder of the mutex appends
(`LockInv`) and because a frame, in the page cache or on the disk, always
describes the last batch that appended (`FrameInv`); that a drained file keeps
that batch's lines up to its post-drain size whoever appends later (`OwnSpan`),
which is what the undo relies on; that a frame's owner is inside its drain or
over (`OwnerInv`); that a rollback is only under way for a batch not in the
index (`RollbackInv`); and that a torn line is last in its file and no process
holds a handle on it (`TornLast`), so that no record is ever glued.

The proof has one lemma per action (`...Keeps`).  Actions that move only the
control go through `QuietStep`; those that make files grow through
`GrowthKeeps`, `GrowthStep`, `AppendStep`; the three that truncate through
`RollStep`; `PowerLoss` through `SurvivorFacts`.  `Refinement` adds that only a
COMMIT changes `committed`, and that it finds its batch fully logged.

`IInv` says nothing of rows once the intent is empty, so `AllOrNothing` needs
more.  `DrainInv` adds which ids the index has: a batch that is before its COMMIT
holds SQLite's write lock and its ids are above all the index has (`IdsInv`), so
the probe of a batch that died says "no".  It adds that who is past recovery
found the intent empty (`ResolvedInv`), so no frame is ever overwritten while its
batch has rows; that the rows of a batch are past its baselines and, once it is
drained, durable and whole (`PlacedInv`, `OldInv`, `CommittedDrained`), so that
no later rollback, torn-tail repair or power loss reaches a committed line; and
that a batch with ids that has rows and no footprint is framed, on the disk too,
with nothing past its baselines that `_tail_is_intent_only` would refuse
(`FramedInv`), so that the frame can only be emptied when its rows are gone.
Most steps keep every row they leave (`RowsStay`); `StayStep` lists the three
that do not, and each conjunct has its own lemma of a step (`IdsStep`,
`ResolvedStep`, `PlacedStep`, `OldStep`, `CommittedStep`, `FramedStep`).

`CheckpointProofs` proves, for every number of threads, writers, processes and
kills, from the assumptions on the constants alone:

- `SweepInductive`: `Spec => []SweepInv`;
- `CheckpointTypes`: `Spec => []TypeOK`;
- `NothingLost`: `Spec => []CommittedIsLogged`;
- `DepthMonotone`: `Spec => DepthNeverShrinks`;
- `DrainFollowsSweep`: `Spec => DrainNeverMakesTwin`;
- `StaleIsRepaired`: with one process and on an archive that was checkpointed
  before (`OneProcess`, `Stamped`: the premises of `Checkpoint_alone`, section 6
  says what happens without), `Spec => []StaleIsOwed`.

`CommittedIsLogged` is not inductive: the unlink of a merged file removes
records, and only the history says that they were copied.  `SweepInv` adds that
whoever writes, moves or removes holds the mutex (`MutexHeld`), so that nobody
changes a file between the copy and the unlink; that what is on a sweep's list
is not where the sweep moves it (`MovesMisplaced`), so that a file is never
merged into itself and removed; that the destination holds what is about to be
removed (`SourceCopied`); and that the record is written before the COMMIT
(`DrainedIsLogged`).  For the drain's path it adds that the manifest is first:
no file and no path is deeper than it says (`NothingDeeper`), so that a drain
that read it under the mutex has no file deeper than its path until it is done
(`DrainPath`).  One lemma per conjunct (`TypeStep`, `MutexStep`, `MovesStep`,
`CopiedStep`, `LoggedStep`, `DeeperStep`, `PathStep`), one step per group of
actions under each.  That
the moves need the mutex is thereby shown, and that the count and the list taken
without it do no harm.

`StaleIsOwed` speaks of moments when no checkpoint is under way, so `OwedInv`
follows what is owed through one: a process does one thing at a time
(`OneThing`); the watermark is not ahead of the clock, and what a session will
stamp is above it (`Clocks`); a row has what was committed and a session loads
all of it (`RowsAreCommitted`); the depth that was read is the manifest's, since
no one else raises it (`DepthKnown`); a file at another depth is on the list of
the sweep under way, or was left by a killed one, and its process sweeps before
it stamps a watermark (`Tidy`); and a row that some file of its thread does not
end with is above the watermark, and once the backstop has queried it is in hand
until it is appended (`Backed`).

`ReindexProofs` proves, for every number of events, processes, rebuilds, index
files, kills (of a rebuild between its rename and its unlink, too) and damages to
the truth, from the assumptions on the constants alone:

- `SwapInvariant`: `Spec => []SwapInv`;
- `NoCommitAstray`: `Spec => []PassesUseTheIndex`;
- `NothingCommittedLost`: `Spec => []IndexHoldsCommitted`;
- `CursorsSound`: `Spec => []CursorsMatch`;
- `SwapRefinement`: `Spec => SwapsAtomically`.

What is said of rows, cursors and logs is said while `Clean`: until a rebuild
that dies between its rename and its unlink leaves another index's log under the
name of the new one's.  What SQLite then makes of the log is not modelled, so
nothing is claimed of the rows from there on; locks and pools (`LocksHeld`,
`PoolsKnown`, `PassesUseTheIndex`) are claimed without that condition.  `stray`
is a history variable that only `KillRebuild` sets, and only when the log is
there and foreign.

`CursorsMatch` follows the carry of `_carry_import_state`: the snapshot's cursors
overlaid by the index's, less those whose thread the build has not
(`rebuild.py:331-335`).  A thread a salvage lost whole is therefore imported
again.  The prune is by thread, so a thread whose record is still readable keeps
its cursor although a salvage dropped its line: that is the exemption
`dropped \cap bare`, and the only one.  `committed \ dropped` is all the index
keeps, and all of it keeps its cursor.

`IndexHoldsCommitted` speaks of the file that is `index.db` now, and a swap
replaces it by one that was built from a reading of the truth some time ago.
`SwapInv` adds why that reading is still good: the lock keeps passes and
rebuilds apart (`LocksHeld`), so what was loaded stays what the truth is until
the rename (`BuildKnown`).  It adds why a row that was committed since is not
elsewhere: whoever is in a pass looked for a swap under the lock, and a pool is
as old as the last look (`PoolsKnown`).  And it adds why a row the index has is
in the truth, or was and has rotted: a line is complete before its COMMIT, one
writer at a time (`RowsKnown`); a repair restores what the index has and the
truth lacks, if it reads the index that is in use (`RepairKnown`).  One lemma
per action; the refinement maps a rebuild's rename to the one step of
`IndexStore` and everything else to a drain, a COMMIT, a loss or a stutter.

`MigrateProofs` proves, for every set of threads and overlays, every number of
attempts and of deaths, from the assumptions on the constants alone:

- `MigrateInvariant`: `Spec => []MigrateInv`;
- `MigrationDestroysNothing`: `Spec => []NothingDestroyed`;
- `VersionTwoIsWhole`: `Spec => []FirstSwapIsWhole`.

`CopyInv` has what the two renames need to destroy nothing: a run that swaps
found no backup, and a file it still has to swap has no copy there yet.  `RunInv`
has what a version-2 manifest needs to be true: the files that were built carry
the ULIDs of this attempt, or those a newer writer had given, the mapping names
those of this attempt, and the files swapped so far are the built ones.  It holds until an operator sets the backup of an
interrupted swap aside and tries again, and not after: the second attempt mints
new ULIDs for files that already refer to those of the first.

`SourceImportProofs` proves, for every set of lines, every behaviour of the
provider and the parser, and every number of writes, deaths and failures, under
`OneAtATime` (the instance of `SourceImport_file`; without it the model's truth,
a set of contents, does not tell one import's line from the other's):

- `ImportTypesHold`: `Spec => []TypeOK` (without the premise);
- `NoGhost`: `Spec => []NoGhostThread`, whether or not the source records skips;
- `SkipsOnLedger`: with `SkipLedgered`, `Spec => SkipsAreLedgered`;
- `CursorIsSound`: `Spec => []CursorSkipsNothing`;
- `FingerprintIsSound`: `Spec => []SeenIsImported`;
- `ClosingIsSound`: `Spec => ClosedIsRecovered`.

`GhostInv` says that one importer is between its first look and its COMMIT
(`Exclusion`), that a thread and its record are exactly where their events are
(`Inhabited`), and that the truth has what the index has and what a COMMIT is
about to add (`TruthHolds`): so the undo of a failed import cannot empty a truth
the index still stands on.  `LedgerHolds` adds that the lines a discarded import
is about to pass over are open on the ledger, and that a repair that is about to
close records saw that one was written since its stamp.

What the cursor passes is a question about the file as it is now, which has
changed since the mark was written, and the mark may be that of a digest, of a
size or of nothing.  `ImportInv` therefore speaks of the file the mark was made
of (its digest): all lines of that file are accounted for (`CursorInv`), and so
are those of the file of the mark an importer is about to COMMIT; when the
cursor resumes in the file of today, its first bytes are that file, and the lines
up to the count are the same (`PassedCovered`).  `Rank` and `Count` are
cardinalities of sets of positions, so that this step is about sets and needs no
induction.  A fingerprint is remembered only of bytes that were read after it
was taken (`PrintInv`: a file that still has that fingerprint is the one that
was read).  From the rewind of a repair to the closing of its records the
parser is fixed and no cursor moves past what is not in the index (`ClosedInv`).

`BackupProofs` proves, for every set of threads and batches, every retention and
every number of runs, days, faults and kills, from the assumptions on the
constants alone:

- `BackupTypesHold`: `Spec => []TypeOK`;
- `NothingDestroyedForGood`: `Spec => []DestroyedIsRecoverable`;
- `BatchesAreWhole`: `Spec => NoPartOfABatch`;
- `UndamagedIsWhole`: `Spec /\ [](faults = 0) => OkIsWhole`;
- `UndamagedDeletes`: `Spec /\ [](faults = 0) => DeletesKeepTheLiving`.

For `DestroyedIsRecoverable`, `MirrorInv` follows a row through a run.  After the
generation is made, each row of the mirror that a finished run left is in a
generation of today, or the run has put it there itself, in a file it has copied
and will not touch again (`GenInv`); so what a run takes out is in a generation
of the day it is dated (`ChangeIsSafe`), which a run that could not make one is
excused from.  The retention then keeps a generation of a row until `KeepDays`
newer days have one: fewer than `KeepDays` days are newer than the last of the
row's generations, so that one is `Recent` (`PruneIsSafe`), and what is pruned
for being old leaves the `KeepDays` newest days, by induction on nothing but the
greatest element of a finite set (`TopDays`).  `Labelled` says that a run that
reaches its end has copied the manifest, so the next one will make a generation.

For batches, `BatchInv` says, while no fault has struck: the truth has exactly
what was drained, whole (`Truthful`); what the mirror has of a file is a
beginning of it, a file the truth no longer has was moved to a depth it cannot
come back from, and in a run the files that are done are equal (`Mirroring`).
The rule that skips a file of equal size is sound because a beginning of equal
length is the whole; the shrink guard never fires.  At the end of a run the
mirror then has what was drained (`EndHasAll`), and `KeepsStill` is where the
mutex matters: nothing is drained or moved while files are copied.  `Repair`
restores in the order of the ids by a recursive function (`Picked`); that it is
a sequence (`PickedType`) needs an induction, done here by the least length at
which it would fail.

`OkIsWhole` and `DeletesKeepTheLiving` are proved while nothing damages the
truth, nothing is restored over it and every generation can be made
(`faults = 0`; kills are free), and checked for one harm of any kind
(`Backup_mirror`); with two they fail in the
model as in the code, because verify compares counts (section 4, bounds).

`WatcherProofs` proves, for every set of items and servers, every batch size and
every number of deaths, failures, rebuilds and lazy passes:

- `WatcherInvariant`: `Spec => []WatcherInv`.

It is the safety half of `SnapshotCatchesUp` and `BacklogDrains`: a running
daemon whose snapshot is old has a stamp that differs, and one with missing
vectors has `embed_more` or is in the poll that found them, unless a failure or
another process took the debt (`OwedIsRemembered`); that the debt is then paid
needs fairness and stays with TLC.  `LocksHeld` has what the release at the end
of a lazy pass assumes: the owner is the one that lets go.

Only model-checked: liveness (`SessionsEnd`, `StragglersGoHome`, `RebuildEnds`,
`EventuallyImported`, `SnapshotCatchesUp`, `BacklogDrains`, `DaemonOwns`), which
is out of the prover's reach, as is ENABLED; the instances of `TruthDrain` with
`KillTears` or `ClearCanFail`; and `OkIsWhole` and `DeletesKeepTheLiving` with a
fault.

## 6. What is not modelled, and what the code does that no run shows

Not modelled, and worth modelling: the snapshot files, whose tmp name two
checkpoints share (`maintenance.py:108`); the rebuild of the truth from the
store (`rebuild.py` from 1149 on); the merge of a continuation into its parent;
the resync of metadata; the replay of drift snapshots; the sources that scan a
provider's database; export drops; the blob store, a set of names that grows.

Not modelled for good: the provider parsers (data conversion, covered by golden
tests), retrieval and ranking (read-only, numeric and textual), the operator
surface, service, setup, update, MCP and web layers (I/O and presentation), the
deep tiers of verify and the nightly report, SQLite itself (external: its write
lock, AUTOINCREMENT and atomic COMMIT are in `TruthDrain`), clocks that jump.
Measured in lines most of the repository is of this second kind; the modules
here cover the part that keeps state two processes share.

While the code was translated, more of its behaviour turned out to differ from
what it says or intends than the three runs of section 4 show.  These are
readings of the code; the ones marked with a constant can be checked by giving
it the other value.

Append path.
- A handle in the LRU skips the torn-tail repair (`drain.py:90`): a metadata-only
  batch that a kill cut within a line is undecidable and kept, and a long-lived
  process glues its next record to it (`KillTears`).
- An id whose transaction never committed is handed out again
  (`models.py:198` says it is not): `sqlite_sequence` is rolled back with its
  transaction.  Two rows of the truth then have one id, the load keeps the one
  of the group of columns that is flushed last (`rebuild.py:160-177`), and the
  probe of an undo can take another session's row for its own.
- A thread file created before the frame is durable survives a crash, empty.
- A sweep that moves a file between a rejected COMMIT and its undo makes the undo
  keep the rejected rows.

Checkpoint.
- With two processes that write and checkpoint, `StaleIsOwed` fails in three ways
  besides `Checkpoint_revert`: the backstop's depth may be stale when it is used,
  and it starts a flat file again for a thread that was moved; a merge puts the
  old file's records after newer ones, and another checkpoint's watermark hides
  it; a change commits below a watermark that was taken while it was invisible.
  None of them loses a record; each can leave the wrong one last.
- The first checkpoint of an archive sets the watermark without a query
  (`maintenance.py:127`): `Stamped = FALSE`.

Reindex and repair.
- A rebuild that dies between its rename and the unlink of the old `-wal` leaves
  the new index beside the old one's log (`rebuild.py:898-900`), although
  `rebuild.py:650-651` says that a rebuild killed at any point leaves the old
  index intact and `893-895` that a stale log must never be replayed.  The step is in `Reindex` (`KillRebuild` at "swapped", recorded in
  `stray`); with `WalIsTheIndexs`, which has no condition, among the INVARIANTs
  of `Reindex_swap`, TLC ends with it in 15 steps.
- A repair holds the exclusive lock and looks for no swap, so one that queued
  behind a rebuild restores from the inode that was swapped out.
- `rm index.db && index rebuild` beside a live daemon: the look for a swap takes
  a missing file for no swap, and the daemon commits to the deleted inode.
- A first drain that died leaves a line; the next import of that source and a
  rebuild in between adopt it and pass over what was appended meanwhile.

Importers.
- `_line_stream.py:133-137` discards a new thread without a skip record
  (`SkipLedgered`).
- `verified_at` of a fingerprint is renewed by every save, so an old entry never
  looks old; a rewrite to the same size within one mtime is invisible.

Watcher.
- A short embed pass clears `_embed_more`, and no idle probe follows until the
  daemon's own next import, although a comment (`daemon.py:692-695`) speaks of a
  slow probe: events another process imported beside the daemon, or those of an
  embed that failed, wait for the next change (`unasked`).
- A maintenance that raises still clears `dirty` and moves `last_stamp`
  (`forgotten`), and `last_stamp` is read when the loop starts, so a restart
  forgets a move no snapshot has.

Backup.
- The mirror skips a file of equal size that is not newer.  An append that was
  undone, after it was mirrored, and a file that a sweep then moved can have the
  size of the copy (`backup.py:221`, `312-316`, `340`).
- Two backups at once delete each other's `.tmp` generation; a first backup killed
  before the manifest is copied leaves no generation.
- A restore that dies between its two renames leaves no home; the damaged copy
  and the staging directory are both beside it.

Migration.
- `index migrate` refuses its own rebuild on an index of the full schema:
  `_committed_regression` compares integer ids with ULIDs and reports every
  thread as lost, and `_api.migrate` does not pass `salvage`.  The tests pass
  because their index is removed or lacks `dedup_key`.  In `Migrate`, `Reindex` by
  the run may be refused and the operator's follows.
- A retry after an interrupted swap breaks references and the mapping (the
  premise of `FirstSwapIsWhole`); if the tree was moved out and not in, every
  retry ends in FileNotFoundError (`SwapFails`); a run that died after the
  manifest and before the rebuild answers "nothing to do" when it is run again; a
  dry run after an interrupted swap overwrites `ulid-mapping.json`, which is
  written in place.
