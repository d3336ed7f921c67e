-------------------------------- MODULE Backup --------------------------------
(***************************************************************************)
(* The mirror of the truth directory (_ops/backup.py) and its generations, *)
(* next to the sessions that append to the truth, the sweep that moves its *)
(* files to another shard depth, and what can happen to a directory: lines *)
(* lost, lines damaged, files removed, an empty home in its place.         *)
(*                                                                         *)
(* A directory maps the paths it has to files.  A thread has one path per  *)
(* shard depth, a file one line per batch that touched the thread; its     *)
(* size is its number of lines.  Every write is a second of its own.  The  *)
(* drain and the sweep are TruthDrain's and Checkpoint's subjects; here    *)
(* they hold the mutex for one step, or one step per file.                 *)
(***************************************************************************)
EXTENDS Integers, FiniteSets, Sequences, Functions, SequencesExt, FiniteSetsExt

CONSTANTS
  Thread,
  Batch,       \* the transactions of the sessions
  Touches,     \* batch -> the threads it has rows of
  Damaged,     \* a line that does not parse
  NoBatch, NoManifest, Nobody, Sweep, Mirror,
  DeleteFloor, \* MIRROR_DELETE_FLOOR
  KeepDays,    \* _GEN_KEEP_RECENT
  KeepMonths,  \* _GEN_KEEP_MONTHS
  MonthDays,   \* bound: days of a month
  MaxDay,      \* bound: days
  MaxRuns,     \* bound: backups
  MaxHarm      \* bound: faults of the directories, and processes killed

ASSUME BackupBatches == /\ NoManifest \notin {0, 1}
                        /\ Touches \in [Batch -> SUBSET Thread]
                        /\ Damaged \notin Batch /\ NoBatch \notin Batch
ASSUME BackupActors == Nobody # Sweep /\ Nobody # Mirror /\ Sweep # Mirror
ASSUME BackupBounds ==
  /\ DeleteFloor \in Nat /\ KeepDays \in Nat \ {0} /\ KeepMonths \in Nat
  /\ MonthDays \in Nat \ {0} /\ MaxDay \in Nat /\ MaxRuns \in Nat
  /\ MaxHarm \in Nat

VARIABLES
  src,        \* the truth directory
  depth,      \* the shard depth of its manifest
  index,      \* the rows of index.db
  session,    \* the batch between its drain and its COMMIT, or NoBatch
  drained,    \* the batches drained so far, in the order of their ids
  now,        \* the clock of the mtimes
  mutex, rebalance,  \* the truth-write mutex, the rebalance lock
  sweep,      \* where the sweep is
  dst,        \* the mirror
  manifest,   \* the shard depth in the mirror's manifest.json, or NoManifest
  gens,       \* its generations
  pc, job,    \* where the backup is, what it holds
  day, runs, faults, kills,
  kept,       \* history: the rows a finished mirror run left in the mirror
  gone,       \* history: row -> the day of the run that took it out
  hurt        \* history: the rows damaged since a backup verified them

truths == <<src, depth, index, session, drained, now, sweep, hurt>>
locks == <<mutex, rebalance>>
mirror == <<dst, manifest, gone, kept>>
bounds == <<day, runs, faults, kills>>
vars == <<truths, locks, mirror, gens, pc, job, bounds>>
-----------------------------------------------------------------------------
Depth == {0, 1}
Path == Thread \X Depth
Row == Batch \X Thread

Empty == << >>                    \* the directory without a file

LinesOf(dir, p) == IF p \in DOMAIN dir THEN dir[p].lines ELSE << >>
Size(dir, p) == Len(LinesOf(dir, p))

(* The rows a rebuild would read.                                          *)
Readable(dir) ==
  UNION {{<<b, p[1]>> : b \in ToSet(dir[p].lines) \ {Damaged}} : p \in DOMAIN dir}
RowsOf(b) == {b} \X Touches[b]

With(dir, p, lines, t) == [q \in DOMAIN dir \cup {p} |->
                             IF q = p THEN [lines |-> lines, mtime |-> t] ELSE dir[q]]
Without(dir, P) == Restrict(dir, DOMAIN dir \ P)

(* What a sequence has of a set, in its order.                             *)
Picked(s, S) ==
  LET pick[n \in 0 .. Len(s)] == IF n = 0 THEN << >>
                                 ELSE IF s[n] \in S THEN Append(pick[n - 1], s[n])
                                 ELSE pick[n - 1]
  IN  pick[Len(s)]

NoJob == [verified |-> FALSE, held |-> FALSE, todo |-> {}, copied |-> FALSE, doomed |-> {},
          skipped |-> FALSE, blind |-> FALSE, owed |-> {}]

Init ==
  /\ src = Empty /\ depth = 0 /\ index = {} /\ session = NoBatch /\ drained = << >> /\ now = 0
  /\ mutex = Nobody /\ rebalance = Nobody /\ sweep = "idle"
  /\ dst = Empty /\ manifest = NoManifest /\ gens = {}
  /\ pc = "idle" /\ job = NoJob
  /\ day = 0 /\ runs = 0 /\ faults = 0 /\ kills = 0
  /\ kept = {} /\ gone = [r \in Row |-> 0] /\ hurt = {}

Tick == now' = now + 1
-----------------------------------------------------------------------------
(* The sessions: a batch is appended under the mutex, then committed.      *)
DrainUnlocked(b) ==               \* mutant: an append beside the mirror's traversal
  /\ session = NoBatch /\ b \notin ToSet(drained)
  /\ Tick
  /\ src' = [p \in DOMAIN src \cup (Touches[b] \X {depth}) |->
               IF p \in Touches[b] \X {depth}
               THEN [lines |-> Append(LinesOf(src, p), b), mtime |-> now'] ELSE src[p]]
  /\ session' = b
  /\ drained' = Append(drained, b)
  /\ UNCHANGED <<depth, index, sweep, hurt, locks, mirror, gens, pc, job, bounds>>
Drain(b) ==
  /\ session = NoBatch /\ b \notin ToSet(drained)
  /\ mutex = Nobody
  /\ Tick
  /\ src' = [p \in DOMAIN src \cup (Touches[b] \X {depth}) |->
               IF p \in Touches[b] \X {depth}
               THEN [lines |-> Append(LinesOf(src, p), b), mtime |-> now'] ELSE src[p]]
  /\ session' = b
  /\ drained' = Append(drained, b)
  /\ UNCHANGED <<depth, index, sweep, hurt, locks, mirror, gens, pc, job, bounds>>

Commit ==
  /\ session # NoBatch
  /\ index' = index \cup RowsOf(session)
  /\ session' = NoBatch
  /\ UNCHANGED <<src, depth, drained, now, sweep, hurt, locks, mirror, gens, pc, job, bounds>>

(* A session that dies leaves its lines.  The undo of a rejected COMMIT     *)
(* (drain.py 578-625) is not modelled.                                      *)
Die ==
  /\ session # NoBatch
  /\ faults + kills < MaxHarm /\ kills' = kills + 1
  /\ session' = NoBatch
  /\ UNCHANGED <<src, depth, index, drained, now, sweep, hurt, locks, mirror, gens, pc, job,
                 day, runs, faults>>
-----------------------------------------------------------------------------
(* The sweep.                                                              *)
Flat == {p \in DOMAIN src : p[2] < depth}

StartSweep ==
  /\ sweep = "idle"
  /\ depth = 0 \/ Flat # {}
  /\ rebalance = Nobody /\ rebalance' = Sweep
  /\ depth' = 1
  /\ sweep' = "bumped"
  /\ UNCHANGED <<src, index, session, drained, now, hurt, mutex, mirror, gens, pc, job, bounds>>

EnterMoves ==
  /\ sweep = "bumped"
  /\ mutex = Nobody /\ mutex' = Sweep
  /\ sweep' = "moving"
  /\ UNCHANGED <<src, depth, index, session, drained, now, hurt, rebalance, mirror, gens,
                 pc, job, bounds>>

(* A rename, which keeps the mtime, or an append to the twin.              *)
Move(p) ==
  /\ sweep = "moving"
  /\ p \in Flat
  /\ LET q == <<p[1], depth>>
     IN  IF q \in DOMAIN src
         THEN /\ Tick
              /\ src' = Without(With(src, q, src[q].lines \o src[p].lines, now'), {p})
         ELSE /\ UNCHANGED now
              /\ src' = Without(With(src, q, src[p].lines, src[p].mtime), {p})
  /\ UNCHANGED <<depth, index, session, drained, sweep, hurt, locks, mirror, gens, pc, job, bounds>>

LeaveSweep ==
  /\ sweep' = "idle"
  /\ rebalance' = Nobody
  /\ mutex' = IF mutex = Sweep THEN Nobody ELSE mutex
  /\ UNCHANGED <<src, depth, index, session, drained, now, hurt, mirror, gens, pc, job>>

EndSweep == sweep = "moving" /\ Flat = {} /\ LeaveSweep /\ UNCHANGED bounds

KillSweep ==
  /\ sweep # "idle"
  /\ faults + kills < MaxHarm /\ kills' = kills + 1
  /\ LeaveSweep
  /\ UNCHANGED <<day, runs, faults>>
-----------------------------------------------------------------------------
(* What happens to a truth directory.                                      *)
Fault ==
  /\ faults + kills < MaxHarm /\ faults' = faults + 1
  /\ mutex = Nobody
  /\ Tick
  /\ UNCHANGED <<locks, mirror, gens, pc, job, day, runs, kills>>

Hurts(dir) == hurt' = hurt \cup (Readable(src) \ Readable(dir))

Truncate(p) ==
  /\ Fault
  /\ Size(src, p) > 0
  /\ src' = With(src, p, Front(src[p].lines), now')
  /\ Hurts(src')
  /\ UNCHANGED <<depth, index, session, drained, sweep>>

(* ... of the same size, whether or not the mtime tells.                   *)
Corrupt(p) ==
  /\ Fault
  /\ \E i \in DOMAIN LinesOf(src, p), t \in {now', src[p].mtime} :
       src' = With(src, p, [src[p].lines EXCEPT ![i] = Damaged], t)
  /\ Hurts(src')
  /\ UNCHANGED <<depth, index, session, drained, sweep>>

Lose(p) ==
  /\ Fault
  /\ src' = Without(src, {p})
  /\ Hurts(src')
  /\ UNCHANGED <<depth, index, session, drained, sweep>>

Quiet == session = NoBatch /\ sweep = "idle" /\ pc = "idle"

(* A new, empty home is backed up to the old destination.                  *)
Reinstall ==
  /\ Fault
  /\ Quiet
  /\ src' = Empty /\ depth' = 0 /\ index' = {}
  /\ Hurts(src')
  /\ UNCHANGED <<session, drained, sweep>>

(* `index repair`: damaged lines go, committed rows come back by their ids. *)
Repair ==
  /\ Quiet
  /\ ~(index \subseteq Readable(src)) \/ \E p \in DOMAIN src : Damaged \in ToSet(src[p].lines)
  /\ Tick
  /\ LET missing(t) == {r[1] : r \in {r \in index \ Readable(src) : r[2] = t}}
         lines(p) == Picked(LinesOf(src, p), Batch)
                     \o (IF p[2] = depth THEN Picked(drained, missing(p[1])) ELSE << >>)
         changed == {p \in Path : lines(p) # LinesOf(src, p)}
     IN  src' = [p \in DOMAIN src \cup changed |->
                   IF p \in changed THEN [lines |-> lines(p), mtime |-> now'] ELSE src[p]]
  /\ UNCHANGED <<depth, index, session, drained, sweep, hurt, locks, mirror, gens, pc, job, bounds>>

(* `backup restore` of the mirror or of a generation that parses, with the *)
(* depth its manifest names; an index is built from it and published with  *)
(* it.                                                                     *)
Restore(dir, d) ==
  /\ Quiet
  /\ faults + kills < MaxHarm /\ faults' = faults + 1
  /\ dir # Empty /\ d # NoManifest
  /\ \A p \in DOMAIN dir : Damaged \notin ToSet(dir[p].lines)
  /\ Tick
  /\ src' = [p \in DOMAIN dir |-> [dir[p] EXCEPT !.mtime = now']]
  /\ depth' = d
  /\ index' = Readable(dir)
  /\ UNCHANGED <<session, drained, sweep, hurt, locks, mirror, gens, pc, job, day, runs, kills>>

(* A backup ends on the day it began.                                      *)
NextDay ==
  /\ pc = "idle"
  /\ day < MaxDay /\ day' = day + 1
  /\ UNCHANGED <<truths, locks, mirror, gens, pc, job, runs, faults, kills>>
-----------------------------------------------------------------------------
(* The generations.                                                        *)
Days(G) == {g.day : g \in G}
MonthOf(g) == g.day \div MonthDays
Newest(G) == CHOOSE g \in G : \A h \in G : h.nr <= g.nr

(* Everything of the newest days, and the newest of each month before.     *)
Recent(G) == {g \in G : Cardinality({d \in Days(G) : d > g.day}) < KeepDays}
Monthly(G) ==
  LET covered == {MonthOf(g) : g \in Recent(G)}
      older == {g \in G : MonthOf(g) \notin covered}
      newer(g) == {MonthOf(h) : h \in {h \in older : MonthOf(h) > MonthOf(g)}}
  IN  {g \in older : /\ Cardinality(covered) + Cardinality(newer(g)) < KeepMonths
                     /\ g = Newest({h \in older : MonthOf(h) = MonthOf(g)})}
PrunedToOneADay(G) ==             \* mutant: one generation per day
  {g \in Recent(G) : g = Newest({h \in G : h.day = g.day})} \cup Monthly(G)
Pruned(G) == Recent(G) \cup Monthly(G)
-----------------------------------------------------------------------------
(* The backup.                                                             *)
Goto(l) == pc' = l

(* What verify finds: no line is damaged, and up to the newest id of the   *)
(* index the truth has as many rows as the index.                          *)
Nr(b) == SelectInSeq(drained, LAMBDA c : c = b)
Counted == IF index = {} THEN Readable(src)
           ELSE {r \in Readable(src) : \E c \in index : Nr(r[1]) <= Nr(c[1])}
Clean == /\ \A p \in DOMAIN src : Damaged \notin ToSet(src[p].lines)
         /\ Cardinality(index) = Cardinality(Counted)

Verify ==
  /\ pc = "idle"
  /\ runs < MaxRuns /\ runs' = runs + 1
  /\ job' = [NoJob EXCEPT !.verified = Clean]
  /\ hurt' = hurt \ index
  /\ Goto("snapshot")
  /\ UNCHANGED <<src, depth, index, session, drained, now, sweep, locks, mirror, gens,
                 day, faults, kills>>

(* Before the mirror is touched; a first run has nothing to preserve, and  *)
(* a failure is reported and does not stop the run.                        *)
Snapshot ==
  /\ pc = "snapshot"
  /\ \/ /\ manifest # NoManifest
        /\ gens' = Pruned(gens \cup {[nr |-> runs, day |-> day, dir |-> dst,
                                      depth |-> manifest]})
        /\ UNCHANGED <<job, faults>>
     \/ /\ manifest # NoManifest
        /\ faults + kills < MaxHarm /\ faults' = faults + 1
        /\ job' = [job EXCEPT !.blind = TRUE]
        /\ UNCHANGED gens
     \/ manifest = NoManifest /\ UNCHANGED <<gens, job, faults>>
  /\ Goto("lock")
  /\ UNCHANGED <<truths, locks, mirror, day, runs, kills>>

(* The rebalance lock if it is free; then the mutex.                       *)
TryRebalance ==
  /\ pc = "lock"
  /\ job' = [job EXCEPT !.held = (rebalance = Nobody)]
  /\ rebalance' = IF rebalance = Nobody THEN Mirror ELSE rebalance
  /\ Goto("enter")
  /\ UNCHANGED <<truths, mutex, mirror, gens, bounds>>

EnterWithout ==                   \* mutant: the traversal does not hold the mutex
  /\ pc = "enter"
  /\ job' = [job EXCEPT !.todo = DOMAIN src, !.owed = index]
  /\ Goto("copy")
  /\ UNCHANGED <<truths, locks, mirror, gens, bounds>>
Enter ==
  /\ pc = "enter"
  /\ mutex = Nobody /\ mutex' = Mirror
  /\ job' = [job EXCEPT !.todo = DOMAIN src, !.owed = index]
  /\ Goto("copy")
  /\ UNCHANGED <<truths, rebalance, mirror, gens, bounds>>

(* What a change of the mirror takes out of it is dated.                   *)
Change(dir) ==
  LET out == Readable(dst) \ Readable(dir)
  IN  /\ dst' = dir
      /\ gone' = [r \in Row |-> IF r \in out THEN day ELSE gone[r]]
      /\ kept' = IF job.blind THEN kept \ out ELSE kept

SameSize(p) ==                    \* mutant: the size alone decides
  p \in DOMAIN dst /\ Size(src, p) = Size(dst, p)
Unchanged(p) ==
  /\ p \in DOMAIN dst
  /\ Size(src, p) = Size(dst, p)
  /\ src[p].mtime <= dst[p].mtime \/ src[p].lines = dst[p].lines

Shrunk(p) == p \in DOMAIN dst /\ Size(src, p) < Size(dst, p)

Copy(p) ==
  /\ pc = "copy"
  /\ p \in job.todo
  /\ IF Unchanged(p) \/ Shrunk(p) THEN UNCHANGED <<dst, gone, kept>>
     ELSE Change(With(dst, p, src[p].lines, src[p].mtime))
  /\ job' = [job EXCEPT !.todo = @ \ {p}]
  /\ UNCHANGED <<truths, locks, manifest, gens, pc, bounds>>

CopyManifest ==
  /\ pc = "copy"
  /\ manifest' = depth
  /\ job' = [job EXCEPT !.copied = TRUE]
  /\ ~job.copied
  /\ UNCHANGED <<truths, locks, dst, gone, kept, gens, pc, bounds>>

(* What the source lacks.  The old copy of a file that was moved goes in   *)
(* any case, if the copy at its new path is no smaller; the rest only if   *)
(* they are few.                                                           *)
OtherLayout ==                    \* mutant: all of another depth is left over
  {p \in DOMAIN dst : p \notin DOMAIN src \/ p[2] # depth}
Doomed == DOMAIN dst \ DOMAIN src
Rehomed(p) ==
  LET q == <<p[1], depth>>
  IN  p # q /\ q \in DOMAIN src /\ q \in DOMAIN dst /\ Size(dst, q) >= Size(dst, p)
Limit ==
  LET quarter == Cardinality(DOMAIN dst) \div 4
  IN  IF quarter > DeleteFloor THEN quarter ELSE DeleteFloor

PlanDeletes ==
  /\ pc = "copy"
  /\ job.todo = {} /\ job.copied
  /\ LET twins == {p \in Doomed : Rehomed(p)}
         few == Cardinality(Doomed \ twins) <= Limit
         delete == job.verified /\ job.held
     IN  job' = [job EXCEPT !.doomed = IF ~delete THEN {} ELSE IF few THEN Doomed ELSE twins,
                            !.skipped = delete /\ ~few]
  /\ Goto("delete")
  /\ UNCHANGED <<truths, locks, mirror, gens, bounds>>

Delete(p) ==
  /\ pc = "delete"
  /\ p \in job.doomed
  /\ Change(Without(dst, {p}))
  /\ job' = [job EXCEPT !.doomed = @ \ {p}]
  /\ UNCHANGED <<truths, locks, manifest, gens, pc, bounds>>

ReleaseLocks ==
  /\ mutex' = IF mutex = Mirror THEN Nobody ELSE mutex
  /\ rebalance' = IF rebalance = Mirror THEN Nobody ELSE rebalance

Unlock ==
  /\ pc = "delete"
  /\ job.doomed = {}
  /\ ReleaseLocks
  /\ kept' = kept \cup Readable(dst)
  /\ Goto("check")
  /\ UNCHANGED <<truths, dst, manifest, gone, gens, job, bounds>>

(* Every file of the source is there, and none is larger than its source.  *)
Complete == \A p \in DOMAIN src : p \in DOMAIN dst /\ Size(dst, p) <= Size(src, p)
Ok == job.verified /\ Complete /\ ~job.skipped

Report ==
  /\ pc = "check"
  /\ job' = NoJob
  /\ Goto("idle")
  /\ UNCHANGED <<truths, locks, mirror, gens, bounds>>

(* A death, or an OSError: every file of the mirror is whole.              *)
KillBackup ==
  /\ pc # "idle"
  /\ faults + kills < MaxHarm /\ kills' = kills + 1
  /\ ReleaseLocks
  /\ job' = NoJob
  /\ Goto("idle")
  /\ UNCHANGED <<truths, mirror, gens, day, runs, faults>>
-----------------------------------------------------------------------------
Session == (\E b \in Batch : Drain(b)) \/ Commit \/ Die
SweepStep == StartSweep \/ EnterMoves \/ (\E p \in Path : Move(p)) \/ EndSweep
Harm ==
  \/ \E p \in DOMAIN src : Truncate(p) \/ Corrupt(p) \/ Lose(p)
  \/ Reinstall
  \/ Restore(dst, manifest)
  \/ \E g \in gens : Restore(g.dir, g.depth)
MirrorStep ==
  \/ Snapshot \/ TryRebalance \/ Enter \/ CopyManifest \/ PlanDeletes \/ Unlock \/ Report
  \/ \E p \in Path : Copy(p) \/ Delete(p)

Next == Session \/ SweepStep \/ KillSweep \/ Harm \/ Repair \/ NextDay
        \/ Verify \/ MirrorStep \/ KillBackup

Spec == Init /\ [][Next]_vars
-----------------------------------------------------------------------------
IsDir(dir) ==
  /\ DOMAIN dir \subseteq Path
  /\ \A p \in DOMAIN dir : dir[p] \in [lines : Seq(Batch \cup {Damaged}), mtime : Nat]

TypeOK ==
  /\ IsDir(src) /\ IsDir(dst)
  /\ depth \in Depth
  /\ index \in SUBSET Row
  /\ session \in Batch \cup {NoBatch} /\ drained \in Seq(Batch)
  /\ mutex \in {Nobody, Sweep, Mirror} /\ rebalance \in {Nobody, Sweep, Mirror}
  /\ sweep \in {"idle", "bumped", "moving"}
  /\ manifest \in Depth \cup {NoManifest}
  /\ \A g \in gens : /\ g.nr \in 1 .. MaxRuns /\ g.day \in 0 .. MaxDay
                      /\ g.depth \in Depth /\ IsDir(g.dir)
  /\ pc \in {"idle", "snapshot", "lock", "enter", "copy", "delete", "check"}
  /\ pc \in {"copy", "delete"} <=> mutex = Mirror
  /\ sweep = "moving" <=> mutex = Sweep
  /\ kept \in SUBSET Row /\ gone \in [Row -> 0 .. MaxDay] /\ hurt \in SUBSET Row

(* A file the mirror deletes never holds the mirror's only copy of a       *)
(* committed row that the source still has: where a file moved, one of its *)
(* layouts is there, at every step and wherever the run is killed.         *)
DeletesKeepTheLiving ==
  [][pc = "delete" /\ hurt = {}
       => index \cap Readable(dst) \cap Readable(src) \subseteq Readable(dst')]_vars

(* A backup that reports ok restores to every row that was committed when  *)
(* it began to copy, unless the source was damaged after verify read it.   *)
OkIsWhole ==
  [][pc = "check" /\ pc' = "idle" /\ kills' = kills /\ Ok /\ hurt = {}
       => job.owed \subseteq Readable(dst)]_vars

(* A run that ends mirrors no part of a batch without the rest, unless a   *)
(* line was lost (backup.py 642-650).                                      *)
NoPartOfABatch ==
  [][pc = "delete" /\ pc' = "check" /\ faults = 0
       => \A b \in Batch : RowsOf(b) \subseteq Readable(dst)
                           \/ RowsOf(b) \cap Readable(dst) = {}]_vars

(* What a finished run left in the mirror and a later one took out - lines *)
(* damaged in place, a gutted source, a restored past - is in a generation *)
(* until KeepDays days of generations are newer, unless that run could not *)
(* make one.                                                               *)
DestroyedIsRecoverable ==
  \A r \in kept \ Readable(dst) :
    \/ \E g \in gens : r \in Readable(g.dir)
    \/ Cardinality({d \in Days(gens) : d > gone[r]}) >= KeepDays
=============================================================================
