--------------------------- MODULE CheckpointProofs ---------------------------
(***************************************************************************)
(* Theorems about Checkpoint, for any number of threads, writers,          *)
(* processes and kills.                                                    *)
(***************************************************************************)
EXTENDS Checkpoint, TLAPS

(* Every step keeps the types.                                             *)
LEMMA TypeStep ==
  ASSUME TypeOK, [Next]_vars
  PROVE  TypeOK'
<1> USE CheckpointThreads, CheckpointBounds, CheckpointActors DEF TypeOK, Depth, Never, NoFile,
       NoSource, WriterFinal, WriterTo, CheckTo, manifest, store, writing, sweeping, backing
<1>1. ASSUME NEW w \in Writer, InsertEvents(w) PROVE TypeOK'
  BY <1>1 DEF InsertEvents, Free
<1>2. ASSUME NEW w \in Writer, Touch(w) PROVE TypeOK'
  <2>1. loaded' \in [Writer -> SUBSET Writer]
    BY <1>2 DEF Touch
  <2>2. /\ stamp' \in [Writer -> Nat] /\ clock' \in Nat
        /\ wpc' \in [Writer -> WriterFinal \cup {"inserted", "touched", "flushed", "draining", "drained"}]
    BY <1>2 DEF Touch
  <2>3. UNCHANGED <<file, manifest, store, truthLock, sweepLock, at,
                    cpc, swept, cdepth, sweeping, backing, kills>>
    BY <1>2 DEF Touch
  <2> QED BY <2>1, <2>2, <2>3
<1>3. ASSUME NEW w \in Writer, Flush(w) PROVE TypeOK'
  BY <1>3 DEF Flush
<1>4. ASSUME NEW w \in Writer, EnterDrain(w) PROVE TypeOK'
  BY <1>4 DEF EnterDrain, ReadDepth
<1>5. ASSUME NEW w \in Writer, Drain(w) PROVE TypeOK'
  BY <1>5 DEF Drain, AppendTo, RecordOf
<1>6. ASSUME NEW w \in Writer, Commit(w) PROVE TypeOK'
  BY <1>6 DEF Commit
<1>7. ASSUME NEW w \in Writer, CommitFails(w) PROVE TypeOK'
  BY <1>7 DEF CommitFails
<1>8. ASSUME NEW p \in Proc, StartSweep(p) PROVE TypeOK'
  BY <1>8 DEF StartSweep, Free
<1>9. ASSUME NEW p \in Proc, StartPlain(p) PROVE TypeOK'
  BY <1>9 DEF StartPlain, Free
<1>10. ASSUME NEW p \in Proc, Count(p) PROVE TypeOK'
  BY <1>10 DEF Count, DepthFor, Max2
<1>11. ASSUME NEW p \in Proc, SkipSweep(p) PROVE TypeOK'
  BY <1>11 DEF SkipSweep
<1>12. ASSUME NEW p \in Proc, TakeDepth(p) PROVE TypeOK'
  BY <1>12 DEF TakeDepth, Max2
<1>13. ASSUME NEW p \in Proc, ListFiles(p) PROVE TypeOK'
  <2>1. Misplaced(cdepth[p]) \in SUBSET (Thread \X Depth)
    <3>1. Files \in SUBSET (Thread \X Depth)
      BY DEF Files
    <3>2. Misplaced(cdepth[p]) \subseteq Files
      BY DEF Misplaced
    <3> QED BY <3>1, <3>2
  <2>2. moves' \in [Proc -> SUBSET (Thread \X Depth)]
    BY <1>13, <2>1 DEF ListFiles
  <2>3. sweepLock' \in Proc \cup {Nobody}
    BY <1>13 DEF ListFiles
  <2>4. cpc' \in [Proc -> {"idle", "count", "trylock", "list", "wait", "move", "copied",
                       "reread", "begin", "query", "backwait", "back", "stamp"}]
    <3>1. cpc' = [cpc EXCEPT ![p] = "reread"] \/ cpc' = [cpc EXCEPT ![p] = "wait"]
      BY <1>13 DEF ListFiles
    <3>2. cpc \in [Proc -> {"idle", "count", "trylock", "list", "wait", "move", "copied",
                            "reread", "begin", "query", "backwait", "back", "stamp"}]
      OBVIOUS
    <3> HIDE DEF TypeOK
    <3> QED BY <3>1, <3>2
  <2>5. UNCHANGED <<file, manifest, store, clock, truthLock, writing,
                    swept, cdepth, want, source, backing, kills>>
    BY <1>13 DEF ListFiles
  <2> QED BY <2>2, <2>3, <2>4, <2>5
<1>14. ASSUME NEW p \in Proc, EnterMoves(p) PROVE TypeOK'
  BY <1>14 DEF EnterMoves
<1>15. ASSUME NEW p \in Proc, MergeUnlink(p) PROVE TypeOK'
  BY <1>15 DEF MergeUnlink
<1>16. ASSUME NEW p \in Proc, EndSweep(p) PROVE TypeOK'
  BY <1>16 DEF EndSweep
<1>17. ASSUME NEW p \in Proc, Reread(p) PROVE TypeOK'
  BY <1>17 DEF Reread, Max2
<1>18. ASSUME NEW p \in Proc, Begin(p) PROVE TypeOK'
  BY <1>18 DEF Begin
<1>19. ASSUME NEW p \in Proc, Query(p) PROVE TypeOK'
  <2>1. \A th \in Thread : (IF Changed(p, th) THEN row[th].has ELSE NotFound) \in Answer
    BY DEF Answer
  <2>2. [th \in Thread |-> IF Changed(p, th) THEN row[th].has ELSE NotFound] \in [Thread -> Answer]
    BY <2>1
  <2>3. found' \in [Proc -> [Thread -> Answer]]
    BY <1>19, <2>2 DEF Query
  <2> QED BY <1>19, <2>3 DEF Query
<1>20. ASSUME NEW p \in Proc, EnterBackstop(p) PROVE TypeOK'
  BY <1>20 DEF EnterBackstop
<1>21. ASSUME NEW p \in Proc, EndBackstop(p) PROVE TypeOK'
  BY <1>21 DEF EndBackstop
<1>22. ASSUME NEW p \in Proc, Stamp(p) PROVE TypeOK'
  BY <1>22 DEF Stamp, StampDepth, Return, Max2
<1>23. ASSUME NEW p \in Proc, Kill(p) PROVE TypeOK'
  <2>1. wpc' \in [Writer -> WriterFinal \cup {"inserted", "touched", "flushed", "draining", "drained"}]
    BY <1>23 DEF Kill, Writing
  <2>2. /\ loaded' \in [Writer -> SUBSET Writer]
        /\ stamp' \in [Writer -> Nat]
        /\ at' \in [Writer -> Depth]
    BY <1>23 DEF Kill
  <2>3. /\ truthLock' \in Writer \cup Proc \cup {Nobody}
        /\ sweepLock' \in Proc \cup {Nobody}
        /\ dbLock' \in Writer \cup Proc \cup {Nobody}
    BY <1>23 DEF Kill
  <2>4. /\ cpc' = [cpc EXCEPT ![p] = "idle"]
        /\ cdepth' = [cdepth EXCEPT ![p] = 0]
        /\ want' = [want EXCEPT ![p] = 0]
        /\ since' = [since EXCEPT ![p] = Never]
        /\ started' = [started EXCEPT ![p] = 0]
        /\ swept' = [swept EXCEPT ![p] = FALSE]
        /\ moves' = [moves EXCEPT ![p] = {}]
        /\ source' = [source EXCEPT ![p] = NoSource]
        /\ found' = [found EXCEPT ![p] = [th \in Thread |-> NotFound]]
        /\ kills' = kills + 1
        /\ UNCHANGED <<file, depth, watermark, row, clock>>
    BY <1>23 DEF Kill, Return
  <2>5. found' \in [Proc -> [Thread -> Answer]]
    BY <2>4 DEF Answer
  <2>6. /\ cpc' \in [Proc -> {"idle", "count", "trylock", "list", "wait", "move", "copied",
                       "reread", "begin", "query", "backwait", "back", "stamp"}]
        /\ cdepth' \in [Proc -> Depth] /\ want' \in [Proc -> Depth]
    BY <2>4
  <2>7. /\ since' \in [Proc -> Nat \cup {Never}] /\ started' \in [Proc -> Nat]
        /\ swept' \in [Proc -> BOOLEAN]
        /\ moves' \in [Proc -> SUBSET (Thread \X Depth)]
        /\ source' \in [Proc -> (Thread \X Depth) \cup {NoSource}]
        /\ kills' \in Nat
    BY <2>4
  <2>8. UNCHANGED <<file, depth, watermark, row, clock>>
    BY <2>4
  <2> QED BY <2>1, <2>2, <2>3, <2>5, <2>6, <2>7, <2>8
<1>24. ASSUME NEW p \in Proc, NEW f \in Files, Rename(p, f) PROVE TypeOK'
  BY <1>24 DEF Rename, Files, Relocate
<1>25. ASSUME NEW p \in Proc, NEW f \in Files, MergeCopy(p, f) PROVE TypeOK'
  BY <1>25 DEF MergeCopy, Files
<1>26. ASSUME NEW p \in Proc, NEW th \in Thread, Backstop(p, th) PROVE TypeOK'
  <2>1. NotFound \in Answer /\ found[p][th] \in SUBSET Writer
    BY <1>26 DEF Backstop, Answer
  <2>2. found' \in [Proc -> [Thread -> Answer]]
    BY <1>26, <2>1 DEF Backstop
  <2>3. file' \in [Thread -> [Depth -> [recs : SUBSET (SUBSET Writer), last : SUBSET Writer]]]
    BY <1>26, <2>1 DEF Backstop, AppendTo
  <2> QED BY <1>26, <2>2, <2>3 DEF Backstop
<1>27. CASE UNCHANGED vars
  BY <1>27 DEF vars
<1> QED
  BY <1>1, <1>2, <1>3, <1>4, <1>5, <1>6, <1>7, <1>8, <1>9, <1>10, <1>11, <1>12, <1>13, <1>14,
         <1>15, <1>16, <1>17, <1>18, <1>19, <1>20, <1>21, <1>22, <1>23, <1>24, <1>25, <1>26,
         <1>27 DEF Next, Write, Sweep, Move, Check

-----------------------------------------------------------------------------
(* The mutex belongs to whoever writes, moves or removes.                  *)
LEMMA MutexStep ==
  ASSUME TypeOK, MutexHeld, [Next]_vars
  PROVE  MutexHeld'
<1> USE CheckpointThreads, CheckpointActors DEF TypeOK, MutexHeld, manifest, store, writing,
       sweeping, backing
<1>1. ASSUME NEW w \in Writer, InsertEvents(w) \/ Write(w) \/ CommitFails(w)
      PROVE  MutexHeld'
  BY <1>1 DEF InsertEvents, Write, Touch, Flush, EnterDrain, Drain, Commit, CommitFails,
         WriterTo, ReadDepth
<1>2. ASSUME NEW p \in Proc, StartSweep(p) \/ StartPlain(p) PROVE MutexHeld'
  BY <1>2 DEF StartSweep, StartPlain, CheckTo
<1>3. ASSUME NEW p \in Proc, Count(p) \/ SkipSweep(p) \/ TakeDepth(p) \/ ListFiles(p)
      PROVE  MutexHeld'
  BY <1>3 DEF Count, SkipSweep, TakeDepth, ListFiles, CheckTo
<1>4. ASSUME NEW p \in Proc, EnterMoves(p) PROVE MutexHeld'
  BY <1>4 DEF EnterMoves, CheckTo
<1>5. ASSUME NEW p \in Proc, Move(p) PROVE MutexHeld'
  <2>1. ASSUME NEW f \in Files, Rename(p, f) PROVE MutexHeld'
    BY <2>1 DEF Rename
  <2>2. ASSUME NEW f \in Files, MergeCopy(p, f) PROVE MutexHeld'
    BY <2>2 DEF MergeCopy, CheckTo
  <2>3. CASE MergeUnlink(p)
    BY <2>3 DEF MergeUnlink, CheckTo
  <2>4. CASE EndSweep(p)
    BY <2>4 DEF EndSweep, CheckTo
  <2> QED BY <1>5, <2>1, <2>2, <2>3, <2>4 DEF Move
<1>6. ASSUME NEW p \in Proc, Check(p) PROVE MutexHeld'
  <2>1. CASE Reread(p) \/ Begin(p) \/ Query(p)
    BY <2>1 DEF Reread, Begin, Query, CheckTo
  <2>2. CASE EnterBackstop(p)
    BY <2>2 DEF EnterBackstop, CheckTo
  <2>3. ASSUME NEW th \in Thread, Backstop(p, th) PROVE MutexHeld'
    BY <2>3 DEF Backstop
  <2>4. CASE EndBackstop(p)
    BY <2>4 DEF EndBackstop, CheckTo
  <2>5. CASE Stamp(p)
    BY <2>5 DEF Stamp, Return, CheckTo
  <2> QED BY <1>6, <2>1, <2>2, <2>3, <2>4, <2>5 DEF Check
<1>7. ASSUME NEW p \in Proc, Kill(p) PROVE MutexHeld'
  BY <1>7 DEF Kill, Return, CheckTo, Writing, WriterFinal
<1>8. CASE UNCHANGED vars
  BY <1>8 DEF vars
<1> QED BY <1>1, <1>2, <1>3, <1>4, <1>5, <1>6, <1>7, <1>8 DEF Next, Sweep

(* What a sweep has on its list is not where the sweep moves it.           *)
LEMMA MovesStep ==
  ASSUME TypeOK, MovesMisplaced, [Next]_vars
  PROVE  MovesMisplaced'
<1> USE DEF TypeOK, MovesMisplaced, manifest, store, writing, sweeping, backing
<1>1. ASSUME NEW w \in Writer, InsertEvents(w) \/ Write(w) \/ CommitFails(w)
      PROVE  MovesMisplaced'
  BY <1>1 DEF InsertEvents, Write, Touch, Flush, EnterDrain, Drain, Commit, CommitFails, WriterTo
<1>2. ASSUME NEW p \in Proc, StartSweep(p) \/ StartPlain(p) PROVE MovesMisplaced'
  BY <1>2, SMTT(30) DEF StartSweep, StartPlain, CheckTo
<1>3. ASSUME NEW p \in Proc, Count(p) \/ SkipSweep(p) \/ TakeDepth(p) PROVE MovesMisplaced'
  BY <1>3 DEF Count, SkipSweep, TakeDepth, CheckTo
<1>4. ASSUME NEW p \in Proc, ListFiles(p) PROVE MovesMisplaced'
  BY <1>4 DEF ListFiles, Misplaced, CheckTo
<1>5. ASSUME NEW p \in Proc, EnterMoves(p) PROVE MovesMisplaced'
  BY <1>5 DEF EnterMoves, CheckTo
<1>6. ASSUME NEW p \in Proc, Move(p) PROVE MovesMisplaced'
  <2>1. ASSUME NEW f \in Files, Rename(p, f) PROVE MovesMisplaced'
    BY <2>1 DEF Rename
  <2>2. ASSUME NEW f \in Files, MergeCopy(p, f) PROVE MovesMisplaced'
    BY <2>2 DEF MergeCopy, CheckTo
  <2>3. CASE MergeUnlink(p)
    BY <2>3 DEF MergeUnlink, CheckTo
  <2>4. CASE EndSweep(p)
    BY <2>4 DEF EndSweep, CheckTo
  <2> QED BY <1>6, <2>1, <2>2, <2>3, <2>4 DEF Move
<1>7. ASSUME NEW p \in Proc, Check(p) PROVE MovesMisplaced'
  BY <1>7 DEF Check, Reread, Begin, Query, EnterBackstop, Backstop, EndBackstop, Stamp,
              Return, CheckTo
<1>8. ASSUME NEW p \in Proc, Kill(p) PROVE MovesMisplaced'
  BY <1>8 DEF Kill, Return, CheckTo
<1>9. CASE UNCHANGED vars
  BY <1>9 DEF vars
<1> QED BY <1>1, <1>2, <1>3, <1>4, <1>5, <1>6, <1>7, <1>8, <1>9 DEF Next, Sweep

(* What is merged stays in the destination until the source is removed:    *)
(* nobody else removes or moves a file meanwhile.                          *)
LEMMA CopiedStep ==
  ASSUME TypeOK, MutexHeld, SourceCopied, [Next]_vars
  PROVE  SourceCopied'
<1> USE CheckpointThreads, CheckpointActors DEF TypeOK, SourceCopied, manifest, store, writing,
       sweeping, backing
<1>1. ASSUME NEW w \in Writer, InsertEvents(w) \/ Write(w) \/ CommitFails(w)
      PROVE  SourceCopied'
  <2>1. CASE Drain(w)
    <3>1. \A p \in Proc : cpc[p] # "copied"
      BY <2>1 DEF Drain, MutexHeld
    <3> QED BY <2>1, <3>1 DEF Drain
  <2> QED BY <1>1, <2>1 DEF InsertEvents, Write, Touch, Flush, EnterDrain, Drain, Commit,
         CommitFails, WriterTo
<1>2. ASSUME NEW p \in Proc, StartSweep(p) \/ StartPlain(p) PROVE SourceCopied'
  BY <1>2 DEF StartSweep, StartPlain, CheckTo, Free
<1>3. ASSUME NEW p \in Proc, Count(p) \/ SkipSweep(p) \/ TakeDepth(p) \/ ListFiles(p)
      PROVE  SourceCopied'
  BY <1>3 DEF Count, SkipSweep, TakeDepth, ListFiles, CheckTo
<1>4. ASSUME NEW p \in Proc, EnterMoves(p) PROVE SourceCopied'
  BY <1>4 DEF EnterMoves, CheckTo
<1>5. ASSUME NEW p \in Proc, Move(p) PROVE SourceCopied'
  <2>1. \A q \in Proc : cpc[q] = "copied" => q = p
    BY <1>5 DEF Move, Rename, MergeCopy, MergeUnlink, EndSweep, MutexHeld
  <2>2. ASSUME NEW f \in Files, MergeCopy(p, f) PROVE SourceCopied'
    BY <2>1, <2>2 DEF MergeCopy, CheckTo, Files, Depth
  <2>3. ASSUME NEW f \in Files, Rename(p, f) PROVE SourceCopied'
    BY <2>1, <2>3 DEF Rename
  <2>4. CASE MergeUnlink(p) \/ EndSweep(p)
    BY <2>1, <2>4 DEF MergeUnlink, EndSweep, CheckTo
  <2> QED BY <1>5, <2>2, <2>3, <2>4 DEF Move
<1>6. ASSUME NEW p \in Proc, Check(p) PROVE SourceCopied'
  <2>1. ASSUME NEW th \in Thread, Backstop(p, th) PROVE SourceCopied'
    <3>1. \A q \in Proc : cpc[q] # "copied"
      BY <2>1 DEF Backstop, MutexHeld
    <3> QED BY <2>1, <3>1 DEF Backstop
  <2>2. CASE Reread(p) \/ Begin(p) \/ Query(p)
    BY <2>2 DEF Reread, Begin, Query, CheckTo
  <2>3. CASE EnterBackstop(p) \/ EndBackstop(p)
    BY <2>3 DEF EnterBackstop, EndBackstop, CheckTo
  <2>4. CASE Stamp(p)
    BY <2>4 DEF Stamp, Return, CheckTo
  <2> QED BY <1>6, <2>1, <2>2, <2>3, <2>4 DEF Check
<1>7. ASSUME NEW p \in Proc, Kill(p) PROVE SourceCopied'
  BY <1>7 DEF Kill, Return, CheckTo
<1>8. CASE UNCHANGED vars
  BY <1>8 DEF vars
<1> QED BY <1>1, <1>2, <1>3, <1>4, <1>5, <1>6, <1>7, <1>8 DEF Next, Sweep

(* No step takes a drained change out of the files.                        *)
LEMMA LoggedStep ==
  ASSUME TypeOK, MutexHeld, MovesMisplaced, SourceCopied, DrainedIsLogged, [Next]_vars
  PROVE  DrainedIsLogged'
<1> USE CheckpointThreads, CheckpointActors DEF TypeOK, manifest, store, writing, sweeping, backing
<1>a. ASSUME UNCHANGED file,
             \A v \in Writer : wpc'[v] \in {"drained", "done"} => wpc[v] \in {"drained", "done"}
      PROVE  DrainedIsLogged'
  BY <1>a DEF DrainedIsLogged, Logged
<1>b. ASSUME UNCHANGED wpc,
             \A th \in Thread : \A d \in Depth : \A r \in file[th][d].recs :
                 \E e \in Depth : r \in file'[th][e].recs
      PROVE  DrainedIsLogged'
  BY <1>b DEF DrainedIsLogged, Logged
<1>1. ASSUME NEW w \in Writer,
             InsertEvents(w) \/ Touch(w) \/ Flush(w) \/ EnterDrain(w) \/ Commit(w) \/ CommitFails(w)
      PROVE  DrainedIsLogged'
  BY <1>1, <1>a DEF InsertEvents, Touch, Flush, EnterDrain, Commit, CommitFails, WriterTo
<1>2. ASSUME NEW w \in Writer, Drain(w) PROVE DrainedIsLogged'
  <2>1. at[w] \in Depth /\ ThreadOf[w] \in Thread
    OBVIOUS
  <2>2. /\ RecordOf(w) \in file'[ThreadOf[w]][at[w]].recs
        /\ \A th \in Thread, d \in Depth : file[th][d].recs \subseteq file'[th][d].recs
    BY <1>2, <2>1 DEF Drain, AppendTo
  <2>3. Logged(w)'
    BY <2>1, <2>2 DEF Logged, RecordOf
  <2>4. \A v \in Writer \ {w} : wpc'[v] = wpc[v]
    BY <1>2 DEF Drain, WriterTo
  <2>5. \A v \in Writer : Logged(v) => Logged(v)'
    BY <2>2 DEF Logged
  <2> QED BY <2>3, <2>4, <2>5 DEF DrainedIsLogged
<1>3. ASSUME NEW p \in Proc,
             \/ StartSweep(p) \/ StartPlain(p) \/ Count(p) \/ SkipSweep(p) \/ TakeDepth(p)
             \/ ListFiles(p) \/ EnterMoves(p) \/ EndSweep(p) \/ Reread(p) \/ Begin(p)
             \/ Query(p) \/ EnterBackstop(p) \/ EndBackstop(p) \/ Stamp(p)
      PROVE  DrainedIsLogged'
  BY <1>3, <1>a DEF StartSweep, StartPlain, Count, SkipSweep, TakeDepth, ListFiles, EnterMoves,
       EndSweep, Reread, Begin, Query, EnterBackstop, EndBackstop, Stamp
<1>4. ASSUME NEW p \in Proc, NEW f \in Files, Rename(p, f) PROVE DrainedIsLogged'
  (* The other depth is free, so nothing is replaced.                      *)
  <2>1. f \in Thread \X Depth /\ cdepth[p] \in Depth /\ Exists(f[1], f[2])
    BY DEF Files
  <2>2. file[f[1]][cdepth[p]].recs = {} /\ f[2] # cdepth[p]
    BY <1>4, <2>1 DEF Rename, Exists
  <2>3. file'[f[1]][cdepth[p]] = file[f[1]][f[2]]
        /\ \A th \in Thread \ {f[1]} : file'[th] = file[th]
    BY <1>4, <2>1 DEF Rename, Relocate
  <2>4. \A d \in Depth : d = cdepth[p] \/ d = f[2]
    BY <2>1, <2>2 DEF Depth
  <2>5. \A th \in Thread : \A d \in Depth : \A r \in file[th][d].recs :
           \E e \in Depth : r \in file'[th][e].recs
    BY <2>1, <2>2, <2>3, <2>4
  <2> QED BY <1>4, <1>b, <2>5 DEF Rename
<1>5. ASSUME NEW p \in Proc, NEW f \in Files, MergeCopy(p, f) PROVE DrainedIsLogged'
  <2>1. \A th \in Thread, d \in Depth : file[th][d].recs \subseteq file'[th][d].recs
    BY <1>5 DEF MergeCopy, Files
  <2> QED BY <1>5, <1>b, <2>1 DEF MergeCopy
<1>6. ASSUME NEW p \in Proc, MergeUnlink(p) PROVE DrainedIsLogged'
  (* What is removed has been copied.                                      *)
  <2>1. /\ source[p] \in Thread \X Depth /\ cdepth[p] \in Depth /\ source[p][2] # cdepth[p]
        /\ file[source[p][1]][source[p][2]].recs \subseteq file[source[p][1]][cdepth[p]].recs
    BY <1>6 DEF MergeUnlink, SourceCopied, MovesMisplaced
  <2>2. file' = [file EXCEPT ![source[p][1]][source[p][2]] = NoFile]
    BY <1>6 DEF MergeUnlink
  <2>3. \A th \in Thread : \A d \in Depth :
           file'[th][d] = file[th][d] \/ (th = source[p][1] /\ d = source[p][2])
    BY <2>1, <2>2
  <2>4. file'[source[p][1]][cdepth[p]] = file[source[p][1]][cdepth[p]]
    BY <2>1, <2>2
  <2>5. \A th \in Thread : \A d \in Depth : \A r \in file[th][d].recs :
           \E e \in Depth : r \in file'[th][e].recs
    <3>1. SUFFICES ASSUME NEW th \in Thread, NEW d \in Depth, NEW r \in file[th][d].recs
                   PROVE  \E e \in Depth : r \in file'[th][e].recs
      OBVIOUS
    <3>2. CASE th = source[p][1] /\ d = source[p][2]
      <4>1. r \in file'[th][cdepth[p]].recs
        BY <2>1, <2>4, <3>2
      <4> QED BY <2>1, <4>1
    <3>3. CASE file'[th][d] = file[th][d]
      BY <3>3
    <3> QED BY <2>3, <3>2, <3>3
  <2> QED BY <1>6, <1>b, <2>5 DEF MergeUnlink
<1>7. ASSUME NEW p \in Proc, NEW th \in Thread, Backstop(p, th) PROVE DrainedIsLogged'
  <2>1. \A t \in Thread, d \in Depth : file[t][d].recs \subseteq file'[t][d].recs
    BY <1>7 DEF Backstop, AppendTo
  <2> QED BY <1>7, <1>b, <2>1 DEF Backstop
<1>8. ASSUME NEW p \in Proc, Kill(p) PROVE DrainedIsLogged'
  BY <1>8, <1>a DEF Kill
<1>9. CASE UNCHANGED vars
  BY <1>9, <1>a DEF vars
<1> QED BY <1>1, <1>2, <1>3, <1>4, <1>5, <1>6, <1>7, <1>8, <1>9
        DEF Next, Write, Sweep, Move, Check

(* The depth never goes back.                                              *)
LEMMA DepthGrows ==
  ASSUME TypeOK, [Next]_vars
  PROVE  depth <= depth'
<1> USE DEF TypeOK, Depth, manifest
<1>1. ASSUME NEW p \in Proc, TakeDepth(p) PROVE depth <= depth'
  BY <1>1 DEF TakeDepth, Max2
<1>2. ASSUME NEW p \in Proc, Stamp(p) PROVE depth <= depth'
  BY <1>2 DEF Stamp, StampDepth, Max2
<1>3. ASSUME UNCHANGED depth PROVE depth <= depth'
  BY <1>3
<1> QED BY <1>1, <1>2, <1>3 DEF Next, Write, Sweep, Move, Check, vars,
      InsertEvents, Touch, Flush, EnterDrain, Drain, Commit, CommitFails, StartSweep, StartPlain,
      Count, SkipSweep, ListFiles, EnterMoves, Rename, MergeCopy, MergeUnlink, EndSweep,
      Reread, Begin, Query, EnterBackstop, Backstop, EndBackstop, Kill

(* A file that is kept or removed is no new file.                          *)
LEMMA GoneFile ==
  ASSUME NEW th \in Thread, NEW d \in Depth,
         file'[th][d] = file[th][d] \/ file'[th][d] = NoFile
  PROVE  Exists(th, d)' => Exists(th, d)
<1>1. CASE file'[th][d] = NoFile
  <2>1. file'[th][d].recs = {}
    BY <1>1 DEF NoFile
  <2> QED BY <2>1 DEF Exists
<1>2. CASE file'[th][d] = file[th][d]
  BY <1>2 DEF Exists
<1> QED BY <1>1, <1>2

(* No step makes a file or a path deeper than the manifest says.           *)
LEMMA DeeperStep ==
  ASSUME TypeOK, NothingDeeper, [Next]_vars
  PROVE  NothingDeeper'
<1> USE CheckpointThreads, DepthGrows DEF TypeOK, Depth, manifest, writing
<1>a. ASSUME \A th \in Thread, d \in Depth : Exists(th, d)' => Exists(th, d) \/ d <= depth',
             \A w \in Writer : at'[w] = at[w] \/ at'[w] <= depth',
             \A p \in Proc : cdepth'[p] = cdepth[p] \/ cdepth'[p] <= depth'
      PROVE  NothingDeeper'
  <2>1. depth' \in Depth /\ depth <= depth'
    BY TypeStep
  <2>2. \A w \in Writer : at'[w] <= depth'
    <3> SUFFICES ASSUME NEW w \in Writer PROVE at'[w] <= depth'
      OBVIOUS
    <3>1. at[w] <= depth /\ at[w] \in Depth /\ depth \in Depth
      BY DEF NothingDeeper
    <3> QED BY <1>a, <2>1, <3>1
  <2>3. \A p \in Proc : cdepth'[p] <= depth'
    <3> SUFFICES ASSUME NEW p \in Proc PROVE cdepth'[p] <= depth'
      OBVIOUS
    <3>1. cdepth[p] <= depth /\ cdepth[p] \in Depth /\ depth \in Depth
      BY DEF NothingDeeper
    <3> QED BY <1>a, <2>1, <3>1
  <2>4. \A th \in Thread, d \in Depth : Exists(th, d)' => d <= depth'
    <3> SUFFICES ASSUME NEW th \in Thread, NEW d \in Depth, Exists(th, d)' PROVE d <= depth'
      OBVIOUS
    <3>1. Exists(th, d) => d <= depth
      BY DEF NothingDeeper
    <3> QED BY <1>a, <2>1, <3>1
  <2> QED BY <2>2, <2>3, <2>4 DEF NothingDeeper
<1>1. ASSUME NEW w \in Writer,
             InsertEvents(w) \/ Touch(w) \/ Flush(w) \/ Commit(w) \/ CommitFails(w)
      PROVE  NothingDeeper'
  BY <1>1, <1>a DEF InsertEvents, Touch, Flush, Commit, CommitFails, Exists
<1>2. ASSUME NEW w \in Writer, EnterDrain(w) PROVE NothingDeeper'
  BY <1>2, <1>a DEF EnterDrain, ReadDepth, Exists
<1>3. ASSUME NEW w \in Writer, Drain(w) PROVE NothingDeeper'
  <2>1. at[w] <= depth
    BY DEF NothingDeeper
  <2>2. \A th \in Thread, d \in Depth : d = at[w] \/ file'[th][d] = file[th][d]
    BY <1>3 DEF Drain
  <2> QED BY <1>3, <1>a, <2>1, <2>2 DEF Drain, Exists
<1>4. ASSUME NEW p \in Proc,
             StartSweep(p) \/ StartPlain(p) \/ TakeDepth(p) \/ Reread(p)
      PROVE  NothingDeeper'
  <2>1. UNCHANGED <<file, at>> /\ depth' \in Depth
    BY <1>4, TypeStep DEF StartSweep, StartPlain, TakeDepth, Reread
  <2>2. cdepth[p] <= depth
    BY DEF NothingDeeper
  <2>3. \A q \in Proc : cdepth'[q] = cdepth[q] \/ cdepth'[q] <= depth'
    BY <1>4, <2>2 DEF StartSweep, StartPlain, TakeDepth, Reread, Max2
  <2> QED BY <1>a, <2>1, <2>3 DEF Exists
<1>5. ASSUME NEW p \in Proc,
             \/ Count(p) \/ SkipSweep(p) \/ ListFiles(p) \/ EnterMoves(p) \/ EndSweep(p)
             \/ Begin(p) \/ Query(p) \/ EnterBackstop(p) \/ EndBackstop(p)
      PROVE  NothingDeeper'
  BY <1>5, <1>a DEF Count, SkipSweep, ListFiles, EnterMoves, EndSweep, Begin, Query, EnterBackstop,
       EndBackstop, Exists
<1>6. ASSUME NEW p \in Proc, Stamp(p) \/ Kill(p) PROVE NothingDeeper'
  <2>1. UNCHANGED file /\ \A w \in Writer : at'[w] = at[w] \/ at'[w] = 0
    BY <1>6 DEF Stamp, Kill
  <2>2. cdepth' = [cdepth EXCEPT ![p] = 0]
    BY <1>6 DEF Stamp, Kill, Return
  <2>3. depth' \in Depth
    BY TypeStep
  <2> QED BY <1>a, <2>1, <2>2, <2>3 DEF Exists
<1>7. ASSUME NEW p \in Proc, NEW f \in Files, Rename(p, f) \/ MergeCopy(p, f)
      PROVE  NothingDeeper'
  <2>1. cdepth[p] <= depth /\ f \in Thread \X Depth
    BY DEF NothingDeeper, Files
  <2>2. \A th \in Thread, d \in Depth :
           d = cdepth[p] \/ file'[th][d] = file[th][d] \/ file'[th][d] = NoFile
    <3>1. CASE Rename(p, f)
      BY <2>1, <3>1 DEF Rename, Relocate
    <3>2. CASE MergeCopy(p, f)
      BY <2>1, <3>2 DEF MergeCopy
    <3> QED BY <1>7, <3>1, <3>2
  <2>3. UNCHANGED <<at, cdepth, depth>>
    BY <1>7 DEF Rename, MergeCopy
  <2>4. \A th \in Thread, d \in Depth : Exists(th, d)' => Exists(th, d) \/ d = cdepth[p]
    BY <2>2, GoneFile
  <2> QED BY <1>a, <2>1, <2>3, <2>4
<1>8. ASSUME NEW p \in Proc, MergeUnlink(p) PROVE NothingDeeper'
  <2>1. \A th \in Thread, d \in Depth : file'[th][d] = file[th][d] \/ file'[th][d] = NoFile
    BY <1>8 DEF MergeUnlink
  <2>2. UNCHANGED <<at, cdepth, depth>>
    BY <1>8 DEF MergeUnlink
  <2>3. \A th \in Thread, d \in Depth : Exists(th, d)' => Exists(th, d)
    BY <2>1, GoneFile
  <2> QED BY <1>a, <2>2, <2>3
<1>9. ASSUME NEW p \in Proc, NEW th \in Thread, Backstop(p, th) PROVE NothingDeeper'
  <2>1. cdepth[p] <= depth
    BY DEF NothingDeeper
  <2>2. \A t \in Thread, d \in Depth : d = cdepth[p] \/ file'[t][d] = file[t][d]
    BY <1>9 DEF Backstop
  <2> QED BY <1>9, <1>a, <2>1, <2>2 DEF Backstop, Exists
<1>10. CASE UNCHANGED vars
  BY <1>10, <1>a DEF vars, Exists
<1> QED BY <1>1, <1>2, <1>3, <1>4, <1>5, <1>6, <1>7, <1>8, <1>9, <1>10
        DEF Next, Write, Sweep, Move, Check

(* While a drain is under way nobody else touches the files.               *)
LEMMA PathStep ==
  ASSUME TypeOK, MutexHeld, NothingDeeper, DrainPath, [Next]_vars
  PROVE  DrainPath'
<1> USE CheckpointThreads, CheckpointActors DEF TypeOK, Depth, manifest, writing
<1>a. ASSUME UNCHANGED file,
             \A w \in Writer : wpc'[w] = "draining" => wpc[w] = "draining" /\ at'[w] = at[w]
      PROVE  DrainPath'
  BY <1>a DEF DrainPath, Exists
<1>b. ASSUME \A w \in Writer : wpc'[w] # "draining"
      PROVE  DrainPath'
  BY <1>b DEF DrainPath
<1>1. ASSUME NEW w \in Writer,
             InsertEvents(w) \/ Touch(w) \/ Flush(w) \/ Commit(w) \/ CommitFails(w)
      PROVE  DrainPath'
  BY <1>1, <1>a DEF InsertEvents, Touch, Flush, Commit, CommitFails, WriterTo
<1>2. ASSUME NEW w \in Writer, EnterDrain(w) PROVE DrainPath'
  <2>1. /\ UNCHANGED file /\ at'[w] = depth
        /\ \A v \in Writer \ {w} : wpc'[v] = wpc[v] /\ at'[v] = at[v]
    BY <1>2 DEF EnterDrain, ReadDepth, WriterTo
  <2>2. \A d \in Depth : d > depth => ~Exists(ThreadOf[w], d)
    <3> SUFFICES ASSUME NEW d \in Depth, d > depth PROVE ~Exists(ThreadOf[w], d)
      OBVIOUS
    <3>1. Exists(ThreadOf[w], d) => d <= depth
      BY DEF NothingDeeper
    <3> QED BY <3>1
  <2>3. ASSUME NEW v \in Writer, wpc'[v] = "draining", NEW d \in Depth, d > at'[v]
        PROVE  ~Exists(ThreadOf[v], d)
    <3>1. CASE v = w
      BY <2>1, <2>2, <2>3, <3>1
    <3>2. CASE v # w
      BY <2>1, <2>3, <3>2 DEF DrainPath
    <3> QED BY <3>1, <3>2
  <2> QED BY <2>1, <2>3 DEF DrainPath, Exists
<1>3. ASSUME NEW w \in Writer, Drain(w) PROVE DrainPath'
  BY <1>3, <1>b DEF Drain, WriterTo, MutexHeld
<1>4. ASSUME NEW p \in Proc,
             \/ StartSweep(p) \/ StartPlain(p) \/ Count(p) \/ SkipSweep(p) \/ TakeDepth(p)
             \/ ListFiles(p) \/ EnterMoves(p) \/ EndSweep(p) \/ Reread(p) \/ Begin(p)
             \/ Query(p) \/ EnterBackstop(p) \/ EndBackstop(p) \/ Stamp(p)
      PROVE  DrainPath'
  BY <1>4, <1>a DEF StartSweep, StartPlain, Count, SkipSweep, TakeDepth, ListFiles, EnterMoves,
       EndSweep, Reread, Begin, Query, EnterBackstop, EndBackstop, Stamp
<1>5. ASSUME NEW p \in Proc, NEW f \in Files, Rename(p, f) \/ MergeCopy(p, f)
      PROVE  DrainPath'
  BY <1>5, <1>b DEF Rename, MergeCopy, MutexHeld
<1>6. ASSUME NEW p \in Proc, MergeUnlink(p) PROVE DrainPath'
  BY <1>6, <1>b DEF MergeUnlink, MutexHeld
<1>7. ASSUME NEW p \in Proc, NEW th \in Thread, Backstop(p, th) PROVE DrainPath'
  BY <1>7, <1>b DEF Backstop, MutexHeld
<1>8. ASSUME NEW p \in Proc, Kill(p) PROVE DrainPath'
  <2>1. UNCHANGED file
    BY <1>8 DEF Kill
  <2>2. ASSUME NEW w \in Writer, wpc'[w] = "draining"
        PROVE  wpc[w] = "draining" /\ at'[w] = at[w]
    <3>1. wpc'[w] = IF ProcOf[w] = p /\ Writing(w) THEN "dead" ELSE wpc[w]
      BY <1>8 DEF Kill
    <3>2. wpc[w] = "draining" /\ ProcOf[w] # p
      BY <2>2, <3>1 DEF Writing, WriterFinal
    <3>3. at'[w] = IF ProcOf[w] = p THEN 0 ELSE at[w]
      BY <1>8 DEF Kill
    <3> QED BY <3>2, <3>3
  <2> QED BY <1>a, <2>1, <2>2
<1>9. CASE UNCHANGED vars
  BY <1>9, <1>a DEF vars
<1> QED BY <1>1, <1>2, <1>3, <1>4, <1>5, <1>6, <1>7, <1>8, <1>9
        DEF Next, Write, Sweep, Move, Check

LEMMA InitSweepInv == ASSUME Init PROVE SweepInv
<1> USE CheckpointThreads, CheckpointBounds, CheckpointActors DEF Init
<1>1. TypeOK
  <2>1. NotFound \in Answer
    BY DEF Answer
  <2>2. file \in [Thread -> [Depth -> [recs : SUBSET (SUBSET Writer), last : SUBSET Writer]]]
    <3>1. NoFile \in [recs : SUBSET (SUBSET Writer), last : SUBSET Writer]
      BY DEF NoFile
    <3>2. [recs |-> {{}}, last |-> {}] \in [recs : SUBSET (SUBSET Writer), last : SUBSET Writer]
      OBVIOUS
    <3> QED BY <3>1, <3>2
  <2> QED BY <2>1, <2>2 DEF TypeOK, Depth, Never, WriterFinal
<1>2. MutexHeld /\ MovesMisplaced /\ SourceCopied /\ DrainedIsLogged /\ DrainPath
  BY DEF MutexHeld, MovesMisplaced, SourceCopied, DrainedIsLogged, DrainPath
<1>3. NothingDeeper
  <2>1. \A th \in Thread, d \in Depth : d = 0 \/ ~Exists(th, d)
    BY DEF Exists, NoFile
  <2> QED BY <2>1 DEF NothingDeeper
<1> QED BY <1>1, <1>2, <1>3 DEF SweepInv

(* The invariant of the sweep (maintenance.py 284): only the holder of the *)
(* mutex changes a file, and a source is removed after it was copied.      *)
THEOREM SweepInductive == Spec => []SweepInv
<1>1. Init => SweepInv
  BY InitSweepInv
<1>2. SweepInv /\ [Next]_vars => SweepInv'
  BY TypeStep, MutexStep, MovesStep, CopiedStep, LoggedStep, DeeperStep, PathStep DEF SweepInv
<1> QED BY <1>1, <1>2, PTL DEF Spec

(* Type correctness of the checkpoint and the sweep: the manifest and the  *)
(* moves only name depths the layout has (layout.py 141).                  *)
THEOREM CheckpointTypes == Spec => []TypeOK
<1>1. SweepInv => TypeOK
  BY DEF SweepInv
<1> QED BY <1>1, SweepInductive, PTL

(* No committed change is lost by a sweep, a backstop or a kill.           *)
THEOREM NothingLost == Spec => []CommittedIsLogged
<1>1. SweepInv => CommittedIsLogged
  BY DEF SweepInv, DrainedIsLogged, CommittedIsLogged
<1> QED BY <1>1, SweepInductive, PTL

(* The manifest's depth never goes back, whoever stamps it (maintenance.py *)
(* 247), so that a path computed at a deeper depth is never forgotten.     *)
THEOREM DepthMonotone == Spec => DepthNeverShrinks
<1>1. SweepInv => TypeOK
  BY DEF SweepInv
<1> QED BY <1>1, DepthGrows, SweepInductive, PTL DEF Spec, DepthNeverShrinks

(* A drain never starts a second file behind a sweep (drain.py 490).       *)
THEOREM DrainFollowsSweep == Spec => DrainNeverMakesTwin
<1>1. ASSUME SweepInv, NEW w \in Writer, wpc[w] = "draining"
      PROVE  \A d \in Depth : d > at[w] => ~Exists(ThreadOf[w], d)
  BY <1>1 DEF SweepInv, DrainPath
<1>2. SweepInv => \A w \in Writer : wpc[w] = "draining" /\ wpc'[w] = "drained" =>
        LET th == ThreadOf[w]
        IN Exists(th, at[w]) \/ \A d \in Depth : d > at[w] => ~Exists(th, d)
  BY <1>1
<1> QED BY <1>2, SweepInductive, PTL DEF Spec, DrainNeverMakesTwin
-----------------------------------------------------------------------------
(* With one process: why what a rebuild would get wrong is still above the *)
(* watermark.                                                              *)

OneProcess == \A p, q \in Proc : p = q

InSweep == {"count", "trylock", "list", "wait", "move", "copied"}
Stamping == {"touched", "flushed", "draining", "drained"}

(* A process does one thing at a time.                                     *)
OneThing ==
  /\ \A v, w \in Writer : Writing(v) /\ Writing(w) => v = w
  /\ \A p \in Proc, w \in Writer : cpc[p] # "idle" => ~Writing(w)

(* What a writer will stamp is above the watermark, which is never ahead   *)
(* of the clock.                                                           *)
Clocks ==
  /\ watermark \in Nat /\ watermark <= clock
  /\ \A p \in Proc : started[p] <= clock
  /\ \A w \in Writer : wpc[w] \in Stamping => stamp[w] > watermark

(* A row has what was committed, and a writer the whole of it.             *)
RowsAreCommitted ==
  /\ \A th \in Thread : \A w \in row[th].has : wpc[w] = "done" /\ ThreadOf[w] = th
  /\ \A w \in Writer : wpc[w] \in {"touched", "flushed", "draining"} =>
       loaded[w] = row[ThreadOf[w]].has

(* Everybody knows the depth.                                              *)
DepthKnown ==
  /\ \A p \in Proc : cpc[p] # "idle" => cdepth[p] = depth /\ swept[p]
  /\ \A w \in Writer : wpc[w] = "draining" => at[w] = depth

(* A process that swept left no file behind: only a killed one did, and    *)
(* the one that replaces it sweeps before it stamps a watermark.           *)
Leftover(p, f) ==
  \/ cpc[p] \in {"wait", "move", "copied"} /\ f \in moves[p]
  \/ cpc[p] \in {"count", "trylock", "list"}
  \/ cpc[p] \notin InSweep /\ ~swept[p]

Tidy ==
  /\ sweepLock # Nobody => cpc[sweepLock] \in {"list", "wait", "move", "copied"}
  /\ \A p \in Proc, th \in Thread, d \in Depth :
       Exists(th, d) => d = depth \/ Leftover(p, <<th, d>>)

(* Wherever a rebuild would look, it finds the row.                        *)
AllFresh(th) == \A d \in Depth : Exists(th, d) => row[th].has \subseteq file[th][d].last

(* The backstop has in hand what is stale, until it has appended it.       *)
Backed ==
  /\ \A th \in Thread : Owed(th) \/ AllFresh(th)
  /\ \A p \in Proc : cpc[p] \in {"begin", "query", "backwait", "back"} => since[p] = watermark
  /\ \A p \in Proc, th \in Thread :
       /\ cpc[p] \in {"backwait", "back"} => \/ found[p][th] = row[th].has
                                             \/ found[p][th] = NotFound /\ AllFresh(th)
       /\ cpc[p] = "stamp" => AllFresh(th)

OwedInv == OneThing /\ Clocks /\ RowsAreCommitted /\ DepthKnown /\ Tidy /\ Backed

LEMMA OwedInit ==
  ASSUME Stamped, Init PROVE OwedInv
<1> USE CheckpointThreads, CheckpointBounds, CheckpointActors DEF Init
<1>1. OneThing /\ Clocks /\ RowsAreCommitted /\ DepthKnown
  BY DEF OneThing, Clocks, RowsAreCommitted, DepthKnown, Writing, WriterFinal, Stamping
<1>2. Tidy
  <2>1. \A th \in Thread, d \in Depth : Exists(th, d) => d = 0
    BY DEF Exists, Depth, NoFile
  <2> QED BY <2>1 DEF Tidy
<1>3. Backed
  BY DEF Backed, AllFresh, Exists
<1> QED BY <1>1, <1>2, <1>3 DEF OwedInv

LEMMA OneThingStep ==
  ASSUME OneProcess, TypeOK, OneThing, [Next]_vars
  PROVE  OneThing'
<1>0. DOMAIN wpc = Writer /\ DOMAIN cpc = Proc
  BY DEF TypeOK
<1> USE <1>0, CheckpointThreads DEF OneProcess, OneThing, Writing, WriterFinal, WriterTo, CheckTo,
       manifest, store, writing, sweeping, backing
<1>1. ASSUME NEW w \in Writer, InsertEvents(w) \/ Touch(w) PROVE OneThing'
  <2>1. ASSUME NEW l, wpc' = [wpc EXCEPT ![w] = l], cpc' = cpc, Free(ProcOf[w])
        PROVE  OneThing'
    <3>1. \A v \in Writer : ~Writing(v)
      BY <2>1 DEF Free
    <3>2. \A p \in Proc : cpc[p] = "idle"
      BY <2>1 DEF Free
    <3> QED BY <2>1, <3>1, <3>2
  <2>2. ASSUME wpc[w] = "inserted", Touch(w) PROVE OneThing'
    BY <2>2 DEF Touch
  <2> QED BY <1>1, <2>1, <2>2 DEF InsertEvents, Touch
<1>2. ASSUME NEW w \in Writer,
             Flush(w) \/ EnterDrain(w) \/ Drain(w) \/ Commit(w) \/ CommitFails(w)
      PROVE  OneThing'
  BY <1>2 DEF Flush, EnterDrain, Drain, Commit, CommitFails
<1>3. ASSUME NEW p \in Proc, StartSweep(p) \/ StartPlain(p) PROVE OneThing'
  BY <1>3 DEF StartSweep, StartPlain, Free
<1>4. ASSUME NEW p \in Proc, Sweep(p) PROVE OneThing'
  <2>1. cpc[p] # "idle" /\ wpc' = wpc /\ \A q \in Proc : q # p => cpc'[q] = cpc[q]
    BY <1>4 DEF Sweep, Count, SkipSweep, TakeDepth, ListFiles, EnterMoves, Move, Rename,
                MergeCopy, MergeUnlink, EndSweep
  <2> QED BY <2>1
<1>5. ASSUME NEW p \in Proc, Check(p) PROVE OneThing'
  <2>1. cpc[p] # "idle" /\ wpc' = wpc /\ \A q \in Proc : q # p => cpc'[q] = cpc[q]
    BY <1>5 DEF Check, Reread, Begin, Query, EnterBackstop, Backstop, EndBackstop, Stamp, Return
  <2> QED BY <2>1
<1>6. ASSUME NEW p \in Proc, Kill(p) PROVE OneThing'
  BY <1>6 DEF Kill, Return
<1>7. CASE UNCHANGED vars
  BY <1>7 DEF vars
<1> QED BY <1>1, <1>2, <1>3, <1>4, <1>5, <1>6, <1>7 DEF Next, Write

LEMMA ClocksStep ==
  ASSUME OneProcess, TypeOK, OneThing, Clocks, [Next]_vars
  PROVE  Clocks'
<1>0. /\ DOMAIN wpc = Writer /\ DOMAIN cpc = Proc /\ stamp \in [Writer -> Nat]
      /\ started \in [Proc -> Nat] /\ clock \in Nat
  BY DEF TypeOK
<1> USE <1>0, CheckpointThreads, CheckpointBounds DEF Clocks, Stamping, WriterTo, CheckTo,
       manifest, store, writing, sweeping, backing
<1>1. ASSUME NEW w \in Writer, InsertEvents(w) \/ Flush(w) \/ EnterDrain(w) \/ Drain(w)
      PROVE  Clocks'
  BY <1>1 DEF InsertEvents, Flush, EnterDrain, Drain
<1>2. ASSUME NEW w \in Writer, Touch(w) PROVE Clocks'
  BY <1>2 DEF Touch
<1>3. ASSUME NEW w \in Writer, Commit(w) \/ CommitFails(w) PROVE Clocks'
  BY <1>3 DEF Commit, CommitFails
<1>4. ASSUME NEW p \in Proc, StartSweep(p) \/ StartPlain(p) \/ Sweep(p) PROVE Clocks'
  <2>1. UNCHANGED <<watermark, clock, started, wpc, stamp>>
    BY <1>4 DEF StartSweep, StartPlain, Sweep, Count, SkipSweep, TakeDepth, ListFiles, EnterMoves,
                Move, Rename, MergeCopy, MergeUnlink, EndSweep
  <2> QED BY <2>1
<1>5. ASSUME NEW p \in Proc, Begin(p) PROVE Clocks'
  BY <1>5 DEF Begin
<1>6. ASSUME NEW p \in Proc, Stamp(p) PROVE Clocks'
  <2>1. \A w \in Writer : wpc[w] \notin Stamping
    BY <1>6 DEF Stamp, OneThing, Writing, WriterFinal
  <2> QED BY <1>6, <2>1 DEF Stamp, Return
<1>7. ASSUME NEW p \in Proc, Check(p), ~Begin(p), ~Stamp(p) PROVE Clocks'
  <2>1. UNCHANGED <<watermark, clock, started, wpc, stamp>>
    BY <1>7 DEF Check, Reread, Query, EnterBackstop, Backstop, EndBackstop
  <2> QED BY <2>1
<1>8. ASSUME NEW p \in Proc, Kill(p) PROVE Clocks'
  BY <1>8 DEF Kill, Return, Writing, WriterFinal
<1>9. CASE UNCHANGED vars
  BY <1>9 DEF vars
<1> QED BY <1>1, <1>2, <1>3, <1>4, <1>5, <1>6, <1>7, <1>8, <1>9 DEF Next, Write

LEMMA RowsStep ==
  ASSUME OneProcess, TypeOK, OneThing, RowsAreCommitted, [Next]_vars
  PROVE  RowsAreCommitted'
<1>0. /\ DOMAIN wpc = Writer /\ DOMAIN loaded = Writer
      /\ row \in [Thread -> [has : SUBSET Writer, at : Nat]]
  BY DEF TypeOK
<1> USE <1>0, CheckpointThreads DEF RowsAreCommitted, WriterTo, CheckTo,
       manifest, store, writing, sweeping, backing
<1>1. ASSUME NEW w \in Writer, InsertEvents(w) \/ Touch(w) \/ Flush(w) \/ EnterDrain(w)
                               \/ Drain(w) \/ CommitFails(w)
      PROVE  RowsAreCommitted'
  BY <1>1 DEF InsertEvents, Touch, Flush, EnterDrain, Drain, CommitFails
<1>2. ASSUME NEW w \in Writer, Commit(w) PROVE RowsAreCommitted'
  <2>1. \A v \in Writer : v # w => wpc[v] \notin {"touched", "flushed", "draining"}
    BY <1>2 DEF Commit, OneThing, Writing, WriterFinal
  <2>2. wpc' = [wpc EXCEPT ![w] = "done"] /\ loaded' = loaded
    BY <1>2 DEF Commit
  <2>3. /\ row'[ThreadOf[w]].has = row[ThreadOf[w]].has \cup {w}
        /\ \A th \in Thread : th # ThreadOf[w] => row'[th] = row[th]
    BY <1>2 DEF Commit
  <2>4. ASSUME NEW th \in Thread, NEW v \in row'[th].has
        PROVE  wpc'[v] = "done" /\ ThreadOf[v] = th
    <3>1. CASE v \in row[th].has
      <4>1. v \in Writer /\ wpc[v] = "done" /\ ThreadOf[v] = th
        BY <3>1
      <4> QED BY <2>2, <4>1
    <3>2. CASE v \notin row[th].has
      <4>1. v = w /\ th = ThreadOf[w]
        BY <2>3, <2>4, <3>2
      <4> QED BY <2>2, <4>1
    <3> QED BY <3>1, <3>2
  <2>5. \A v \in Writer : wpc'[v] \notin {"touched", "flushed", "draining"}
    BY <2>1, <2>2
  <2> QED BY <2>4, <2>5
<1>3. ASSUME NEW p \in Proc, StartSweep(p) \/ StartPlain(p) \/ Sweep(p) \/ Check(p)
      PROVE  RowsAreCommitted'
  <2>1. UNCHANGED <<row, wpc, loaded>>
    BY <1>3 DEF StartSweep, StartPlain, Sweep, Count, SkipSweep, TakeDepth, ListFiles, EnterMoves,
                Move, Rename, MergeCopy, MergeUnlink, EndSweep,
                Check, Reread, Begin, Query, EnterBackstop, Backstop, EndBackstop, Stamp
  <2> QED BY <2>1
<1>4. ASSUME NEW p \in Proc, Kill(p) PROVE RowsAreCommitted'
  BY <1>4 DEF Kill, Writing, WriterFinal
<1>5. CASE UNCHANGED vars
  BY <1>5 DEF vars
<1> QED BY <1>1, <1>2, <1>3, <1>4, <1>5 DEF Next, Write

LEMMA DepthKnownStep ==
  ASSUME OneProcess, TypeOK, NothingDeeper, OneThing, DepthKnown, [Next]_vars
  PROVE  DepthKnown'
<1>0. /\ DOMAIN wpc = Writer /\ DOMAIN cpc = Proc /\ DOMAIN at = Writer /\ DOMAIN swept = Proc
      /\ cdepth \in [Proc -> Depth] /\ want \in [Proc -> Depth] /\ depth \in Depth
  BY DEF TypeOK
<1> USE <1>0, CheckpointThreads DEF OneProcess, DepthKnown, WriterTo, CheckTo, Max2, Depth,
       manifest, store, writing, sweeping, backing
<1>1. ASSUME NEW w \in Writer, InsertEvents(w) \/ Touch(w) \/ Flush(w) \/ EnterDrain(w)
                               \/ Drain(w) \/ Commit(w) \/ CommitFails(w)
      PROVE  DepthKnown'
  BY <1>1 DEF InsertEvents, Touch, Flush, EnterDrain, ReadDepth, Drain, Commit, CommitFails
<1>2. ASSUME NEW p \in Proc, StartSweep(p) \/ StartPlain(p) PROVE DepthKnown'
  BY <1>2 DEF StartSweep, StartPlain
<1>3. ASSUME NEW p \in Proc, Sweep(p) PROVE DepthKnown'
  <2>1. \A w \in Writer : wpc[w] # "draining"
    BY <1>3 DEF OneThing, Writing, WriterFinal, Sweep, Count, SkipSweep, TakeDepth, ListFiles,
                EnterMoves, Move, Rename, MergeCopy, MergeUnlink, EndSweep
  <2>2. CASE TakeDepth(p)
    BY <2>1, <2>2 DEF TakeDepth
  <2>3. CASE ~TakeDepth(p)
    <3>1. cpc[p] # "idle" /\ UNCHANGED <<depth, cdepth, swept, wpc>>
      BY <1>3, <2>3 DEF Sweep, Count, SkipSweep, ListFiles, EnterMoves, Move, Rename,
                  MergeCopy, MergeUnlink, EndSweep
    <3> QED BY <2>1, <3>1
  <2> QED BY <2>2, <2>3
<1>4. ASSUME NEW p \in Proc, Check(p) PROVE DepthKnown'
  <2>1. \A w \in Writer : wpc[w] # "draining"
    BY <1>4 DEF OneThing, Writing, WriterFinal, Check, Reread, Begin, Query, EnterBackstop,
                Backstop, EndBackstop, Stamp
  <2>2. CASE Reread(p)
    BY <2>1, <2>2 DEF Reread
  <2>3. CASE Stamp(p)
    BY <2>1, <2>3 DEF Stamp, StampDepth, Return
  <2>4. CASE ~Reread(p) /\ ~Stamp(p)
    <3>1. cpc[p] # "idle" /\ UNCHANGED <<depth, cdepth, swept, wpc>>
      BY <1>4, <2>4 DEF Check, Begin, Query, EnterBackstop, Backstop, EndBackstop
    <3> QED BY <2>1, <3>1
  <2> QED BY <2>2, <2>3, <2>4
<1>5. ASSUME NEW p \in Proc, Kill(p) PROVE DepthKnown'
  BY <1>5 DEF Kill, Return, Writing, WriterFinal
<1>6. CASE UNCHANGED vars
  BY <1>6 DEF vars
<1> QED BY <1>1, <1>2, <1>3, <1>4, <1>5, <1>6 DEF Next, Write

(* Who changes neither the files, the depth nor the control of a sweep.    *)
LEMMA TidyQuiet ==
  ASSUME Tidy, UNCHANGED <<file, depth, cpc, swept, moves, sweepLock>>
  PROVE  Tidy'
BY DEF Tidy, Leftover, Exists

(* Where what is new was appended at the manifest's depth.                 *)
LEMMA TidyAppend ==
  ASSUME Tidy, UNCHANGED <<depth, cpc, swept, moves, sweepLock>>,
         \A th \in Thread, d \in Depth : Exists(th, d)' => Exists(th, d) \/ d = depth
  PROVE  Tidy'
<1>1. \A f : \A p \in Proc : Leftover(p, f) => Leftover(p, f)'
  BY DEF Leftover
<1> QED BY <1>1 DEF Tidy

LEMMA TidyStep ==
  ASSUME OneProcess, SweepInv, OneThing, DepthKnown, Tidy, [Next]_vars
  PROVE  Tidy'
<1>0. /\ DOMAIN cpc = Proc /\ DOMAIN swept = Proc /\ DOMAIN moves = Proc
      /\ sweepLock \in Proc \cup {Nobody} /\ Nobody \notin Proc /\ depth \in Depth
      /\ want \in [Proc -> Depth]
      /\ source \in [Proc -> (Thread \X Depth) \cup {NoSource}]
      /\ file \in [Thread -> [Depth -> [recs : SUBSET (SUBSET Writer), last : SUBSET Writer]]]
  BY CheckpointActors DEF SweepInv, TypeOK
<1> USE <1>0 DEF manifest, store, writing, sweeping, backing, CheckTo
<1>1. ASSUME NEW w \in Writer, InsertEvents(w) \/ Touch(w) \/ Flush(w) \/ EnterDrain(w)
                               \/ Commit(w) \/ CommitFails(w)
      PROVE  Tidy'
  BY <1>1, TidyQuiet DEF InsertEvents, Touch, Flush, EnterDrain, Commit, CommitFails
<1>2. ASSUME NEW w \in Writer, Drain(w) PROVE Tidy'
  <2>1. /\ at[w] = depth /\ ThreadOf[w] \in Thread
        /\ UNCHANGED <<depth, cpc, swept, moves, sweepLock>>
        /\ file' = [file EXCEPT ![ThreadOf[w]][at[w]] = AppendTo(@, RecordOf(w))]
    BY <1>2, CheckpointThreads DEF Drain, DepthKnown
  <2>2. \A th \in Thread, d \in Depth : Exists(th, d)' => Exists(th, d) \/ d = depth
    BY <2>1 DEF Exists
  <2> QED BY <2>1, <2>2, TidyAppend
<1>3. ASSUME NEW p \in Proc, StartSweep(p) PROVE Tidy'
  BY <1>3 DEF StartSweep, Free, Tidy, Leftover, OneProcess
<1>4. ASSUME NEW p \in Proc, StartPlain(p) PROVE Tidy'
  <2>1. /\ cpc[p] = "idle" /\ swept[p] /\ cpc' = [cpc EXCEPT ![p] = "reread"]
        /\ UNCHANGED <<file, depth, swept, moves, sweepLock>>
    BY <1>4 DEF StartPlain, Free
  <2>2. \A f : ~Leftover(p, f)
    BY <2>1 DEF Leftover
  <2> QED BY <2>1, <2>2 DEF Tidy, OneProcess, Exists
<1>5. ASSUME NEW p \in Proc, Count(p) PROVE Tidy'
  <2>1. /\ cpc[p] = "count" /\ cdepth[p] = depth
        /\ UNCHANGED <<file, depth, swept, moves, sweepLock>>
        /\ cpc' = [cpc EXCEPT ![p] = IF Max2(cdepth[p], want'[p]) = 0 THEN "reread" ELSE "trylock"]
        /\ want'[p] \in Depth
    <3>1. cpc[p] = "count" /\ cdepth[p] = depth
      BY <1>5 DEF Count, DepthKnown
    <3>2. want'[p] = DepthFor(Cardinality(Files))
      BY <1>5 DEF Count
    <3>3. want'[p] \in Depth
      BY <3>2 DEF DepthFor, Depth
    <3> QED BY <1>5, <3>1, <3>3 DEF Count
  <2>2. CASE Max2(cdepth[p], want'[p]) = 0
    <3>1. depth = 0
      BY <2>1, <2>2 DEF Max2, Depth
    <3>2. \A th \in Thread, d \in Depth : Exists(th, d) => d = depth
      BY <3>1 DEF SweepInv, NothingDeeper, Depth
    <3>3. \A th \in Thread, d \in Depth : Exists(th, d)' => d = depth'
      BY <2>1, <3>2 DEF Exists
    <3> QED BY <2>1, <3>3 DEF Tidy, OneProcess
  <2>3. CASE Max2(cdepth[p], want'[p]) # 0
    BY <2>1, <2>3 DEF Tidy, Leftover, OneProcess
  <2> QED BY <2>2, <2>3
<1>6. ASSUME NEW p \in Proc, SkipSweep(p) PROVE Tidy'
  BY <1>6 DEF SkipSweep, Tidy, OneProcess
<1>7. ASSUME NEW p \in Proc, TakeDepth(p) PROVE Tidy'
  BY <1>7 DEF TakeDepth, Tidy, Leftover, OneProcess
<1>8. ASSUME NEW p \in Proc, ListFiles(p) PROVE Tidy'
  <2>1. cpc[p] = "list" /\ cdepth[p] = depth /\ UNCHANGED <<file, depth, swept>>
    BY <1>8 DEF ListFiles, DepthKnown
  <2>2. moves'[p] = Misplaced(depth)
    BY <1>8, <2>1 DEF ListFiles
  <2>3. \A th \in Thread, d \in Depth : Exists(th, d)' => d = depth' \/ <<th, d>> \in moves'[p]
    BY <2>1, <2>2 DEF Misplaced, Files, Exists
  <2>4. CASE moves'[p] = {}
    <3>1. sweepLock' = Nobody /\ cpc' = [cpc EXCEPT ![p] = "reread"]
      BY <1>8, <2>4 DEF ListFiles
    <3> QED BY <2>3, <2>4, <3>1 DEF Tidy
  <2>5. CASE moves'[p] # {}
    <3>1. sweepLock' = sweepLock /\ cpc' = [cpc EXCEPT ![p] = "wait"]
      BY <1>8, <2>5 DEF ListFiles
    <3> QED BY <2>3, <3>1 DEF Tidy, Leftover, OneProcess
  <2> QED BY <2>4, <2>5
<1>9. ASSUME NEW p \in Proc, EnterMoves(p) PROVE Tidy'
  <2>1. /\ cpc[p] = "wait" /\ cpc' = [cpc EXCEPT ![p] = "move"]
        /\ UNCHANGED <<file, depth, swept, moves, sweepLock>>
    BY <1>9 DEF EnterMoves
  <2>2. \A f : Leftover(p, f) => Leftover(p, f)'
    BY <2>1 DEF Leftover, InSweep
  <2> QED BY <2>1, <2>2 DEF Tidy, OneProcess, Exists
<1>10. ASSUME NEW p \in Proc, NEW f \in Files, Rename(p, f) PROVE Tidy'
  <2>1. /\ cpc[p] = "move" /\ cdepth[p] = depth /\ f \in Thread \X Depth
        /\ UNCHANGED <<depth, cpc, swept, sweepLock>>
        /\ moves' = [moves EXCEPT ![p] = @ \ {f}]
        /\ file' = [file EXCEPT ![f[1]] = [d \in Depth |-> IF d = cdepth[p] THEN @[f[2]] ELSE NoFile]]
    BY <1>10 DEF Rename, Relocate, DepthKnown, Files
  <2>2. \A th \in Thread, d \in Depth :
          Exists(th, d)' => d = depth \/ (Exists(th, d) /\ th # f[1])
    BY <2>1 DEF Exists, NoFile
  <2>3. \A th \in Thread, d \in Depth : Exists(th, d)' => d = depth' \/ <<th, d>> \in moves'[p]
    <3>1. \A th \in Thread, d \in Depth : Exists(th, d) => d = depth \/ <<th, d>> \in moves[p]
      BY <2>1 DEF Tidy, Leftover, InSweep
    <3> QED BY <2>1, <2>2, <3>1
  <2> QED BY <2>1, <2>3 DEF Tidy, Leftover, OneProcess
<1>11. ASSUME NEW p \in Proc, NEW f \in Files, MergeCopy(p, f) PROVE Tidy'
  <2>1. /\ cpc[p] = "move" /\ cdepth[p] = depth /\ f \in Thread \X Depth
        /\ UNCHANGED <<depth, moves, swept, sweepLock>>
        /\ cpc' = [cpc EXCEPT ![p] = "copied"]
        /\ file' = [file EXCEPT ![f[1]][cdepth[p]] =
                      [recs |-> @.recs \cup file[f[1]][f[2]].recs, last |-> file[f[1]][f[2]].last]]
    BY <1>11 DEF MergeCopy, DepthKnown, Files
  <2>2. \A th \in Thread, d \in Depth : Exists(th, d)' => d = depth \/ Exists(th, d)
    BY <2>1 DEF Exists
  <2>3. \A th \in Thread, d \in Depth : Exists(th, d) => d = depth \/ <<th, d>> \in moves[p]
    BY <2>1 DEF Tidy, Leftover, InSweep
  <2> QED BY <2>1, <2>2, <2>3 DEF Tidy, Leftover, OneProcess
<1>12. ASSUME NEW p \in Proc, MergeUnlink(p) PROVE Tidy'
  <2>1. /\ cpc[p] = "copied" /\ UNCHANGED <<depth, swept, sweepLock>>
        /\ cpc' = [cpc EXCEPT ![p] = "move"]
        /\ moves' = [moves EXCEPT ![p] = @ \ {source[p]}]
        /\ file' = [file EXCEPT ![source[p][1]][source[p][2]] = NoFile]
    BY <1>12 DEF MergeUnlink
  <2>2. source[p] \in Thread \X Depth
    BY <2>1 DEF SweepInv, SourceCopied, TypeOK
  <2>3. \A th \in Thread, d \in Depth : Exists(th, d)' => Exists(th, d) /\ <<th, d>> # source[p]
    BY <2>1, <2>2 DEF Exists, NoFile
  <2>4. \A th \in Thread, d \in Depth : Exists(th, d) => d = depth \/ <<th, d>> \in moves[p]
    BY <2>1 DEF Tidy, Leftover, InSweep
  <2> QED BY <2>1, <2>3, <2>4 DEF Tidy, Leftover, OneProcess
<1>13. ASSUME NEW p \in Proc, EndSweep(p) PROVE Tidy'
  <2>1. /\ cpc[p] = "move" /\ moves[p] = {} /\ UNCHANGED <<file, depth>>
        /\ sweepLock' = Nobody
    BY <1>13 DEF EndSweep
  <2>2. \A th \in Thread, d \in Depth : Exists(th, d)' => d = depth'
    BY <2>1 DEF Tidy, Leftover, InSweep, Exists
  <2> QED BY <2>1, <2>2 DEF Tidy
<1>14. ASSUME NEW p \in Proc, Reread(p) \/ Begin(p) \/ Query(p) \/ EnterBackstop(p) \/ EndBackstop(p)
       PROVE  Tidy'
  <2>1. /\ cpc[p] \notin InSweep \cup {"idle"} /\ cpc'[p] \notin InSweep /\ cpc' = [cpc EXCEPT ![p] = cpc'[p]]
        /\ UNCHANGED <<file, depth, swept, moves, sweepLock>>
    BY <1>14 DEF Reread, Begin, Query, EnterBackstop, EndBackstop, InSweep
  <2>2. \A f : Leftover(p, f) => Leftover(p, f)'
    BY <2>1 DEF Leftover, InSweep
  <2>3. sweepLock = Nobody
    BY <2>1 DEF Tidy, OneProcess, InSweep
  <2> QED BY <2>1, <2>2, <2>3 DEF Tidy, OneProcess, Exists
<1>15. ASSUME NEW p \in Proc, NEW th \in Thread, Backstop(p, th) PROVE Tidy'
  <2>1. /\ cdepth[p] = depth /\ UNCHANGED <<depth, cpc, swept, moves, sweepLock>>
        /\ file' = [file EXCEPT ![th][cdepth[p]] = AppendTo(@, found[p][th])]
    BY <1>15 DEF Backstop, DepthKnown
  <2>2. \A t \in Thread, d \in Depth : Exists(t, d)' => Exists(t, d) \/ d = depth
    BY <2>1 DEF Exists
  <2> QED BY <2>1, <2>2, TidyAppend
<1>16. ASSUME NEW p \in Proc, Stamp(p) PROVE Tidy'
  <2>1. /\ cpc[p] = "stamp" /\ cdepth[p] = depth /\ cpc' = [cpc EXCEPT ![p] = "idle"]
        /\ UNCHANGED <<file, swept, moves, sweepLock>>
        /\ depth' = Max2(cdepth[p], depth)
    BY <1>16 DEF Stamp, StampDepth, Return, DepthKnown
  <2>2. depth' = depth
    BY <2>1 DEF Max2
  <2>3. \A f : Leftover(p, f) => Leftover(p, f)'
    BY <2>1 DEF Leftover, InSweep
  <2>4. sweepLock = Nobody
    BY <2>1 DEF Tidy, OneProcess
  <2> QED BY <2>1, <2>2, <2>3, <2>4 DEF Tidy, OneProcess, Exists
<1>17. ASSUME NEW p \in Proc, Kill(p) PROVE Tidy'
  <2>1. /\ cpc'[p] = "idle" /\ ~swept'[p] /\ sweepLock' = Nobody
    <3>1. cpc' = [cpc EXCEPT ![p] = "idle"] /\ swept' = [swept EXCEPT ![p] = FALSE]
      BY <1>17 DEF Kill, Return
    <3>2. sweepLock' = Nobody
      BY <1>17 DEF Kill, OneProcess
    <3> QED BY <3>1, <3>2
  <2> QED BY <2>1 DEF Tidy, Leftover, InSweep, OneProcess
<1>18. CASE UNCHANGED vars
  BY <1>18, TidyQuiet DEF vars
<1> QED BY <1>1, <1>2, <1>3, <1>4, <1>5, <1>6, <1>7, <1>8, <1>9, <1>10, <1>11, <1>12, <1>13,
           <1>14, <1>15, <1>16, <1>17, <1>18 DEF Next, Write, Sweep, Move, Check

(* Who only carries records and files that are fresh, and is not, or no    *)
(* longer, in the backstop.                                                *)
LEMMA BackedCarry ==
  ASSUME OneProcess, Backed, UNCHANGED <<row, watermark>>,
         \A p \in Proc : cpc'[p] \notin {"begin", "query", "backwait", "back", "stamp"},
         \A th \in Thread : AllFresh(th) => AllFresh(th)'
  PROVE  Backed'
BY DEF Backed, Owed

LEMMA BackedQuiet ==
  ASSUME Backed, UNCHANGED <<file, row, watermark, since, found, cpc>>
  PROVE  Backed'
BY DEF Backed, Owed, AllFresh, Exists

(* Who changes neither files nor rows.                                     *)
LEMMA BackedControl ==
  ASSUME Backed, UNCHANGED <<file, row, watermark>>,
         \A p \in Proc : cpc'[p] \in {"begin", "query", "backwait", "back"} => since'[p] = watermark,
         \A p \in Proc, th \in Thread :
           /\ cpc'[p] \in {"backwait", "back"} => \/ found'[p][th] = row[th].has
                                                  \/ found'[p][th] = NotFound /\ AllFresh(th)
           /\ cpc'[p] = "stamp" => AllFresh(th)
  PROVE  Backed'
<1>1. \A th \in Thread : (Owed(th) <=> Owed(th)') /\ (AllFresh(th) <=> AllFresh(th)')
  BY DEF Owed, AllFresh, Exists
<1> QED BY <1>1 DEF Backed

LEMMA BackedStep ==
  ASSUME OneProcess, SweepInv, OwedInv, [Next]_vars
  PROVE  Backed'
<1>0. /\ DOMAIN cpc = Proc /\ DOMAIN since = Proc /\ DOMAIN found = Proc /\ DOMAIN moves = Proc
      /\ depth \in Depth /\ watermark \in Nat /\ started \in [Proc -> Nat]
      /\ row \in [Thread -> [has : SUBSET Writer, at : Nat]]
      /\ found \in [Proc -> [Thread -> Answer]]
      /\ file \in [Thread -> [Depth -> [recs : SUBSET (SUBSET Writer), last : SUBSET Writer]]]
  BY DEF SweepInv, TypeOK, OwedInv, Clocks
<1>00. OneThing /\ Clocks /\ RowsAreCommitted /\ DepthKnown /\ Tidy /\ Backed
  BY DEF OwedInv
<1> USE <1>0, <1>00, CheckpointThreads, CheckpointActors
    DEF manifest, store, writing, sweeping, backing, CheckTo, Depth
<1>1. ASSUME NEW w \in Writer, InsertEvents(w) \/ Touch(w) \/ Flush(w) \/ EnterDrain(w)
                               \/ CommitFails(w)
      PROVE  Backed'
  BY <1>1, BackedQuiet DEF InsertEvents, Touch, Flush, EnterDrain, CommitFails
<1>2. ASSUME NEW w \in Writer, Drain(w) PROVE Backed'
  <2> DEFINE th == ThreadOf[w]
  <2>1. /\ at[w] = depth /\ th \in Thread /\ loaded[w] = row[th].has
        /\ UNCHANGED <<row, watermark, cpc>>
        /\ file' = [file EXCEPT ![th][at[w]] = AppendTo(@, RecordOf(w))]
    BY <1>2 DEF Drain, DepthKnown, RowsAreCommitted
  <2>2. \A p \in Proc : cpc'[p] = "idle"
    BY <1>2, <2>1 DEF Drain, OneThing, Writing, WriterFinal
  <2>3. \A t \in Thread : t # th => file'[t] = file[t]
    BY <2>1
  <2>4. file'[th][depth].last = row[th].has \cup {w} /\ \A d \in Depth : d # depth => file'[th][d] = file[th][d]
    BY <2>1 DEF AppendTo, RecordOf
  <2>5. \A t \in Thread : AllFresh(t) => AllFresh(t)'
    BY <2>1, <2>3, <2>4 DEF AllFresh, Exists
  <2> QED BY <2>1, <2>2, <2>5, BackedCarry
<1>3. ASSUME NEW w \in Writer, Commit(w) PROVE Backed'
  <2> DEFINE th == ThreadOf[w]
  <2>1. th \in Thread /\ stamp[w] > watermark /\ UNCHANGED <<file, watermark, cpc>>
    BY <1>3 DEF Commit, Clocks, Stamping
  <2>2. /\ row'[th].at = stamp[w]
        /\ \A t \in Thread : t # th => row'[t] = row[t]
    BY <1>3 DEF Commit
  <2>3. \A p \in Proc : cpc'[p] = "idle"
    BY <1>3, <2>1 DEF Commit, OneThing, Writing, WriterFinal
  <2>4. Owed(th)'
    BY <2>1, <2>2 DEF Owed, Never
  <2>5. \A t \in Thread : t # th => (Owed(t) <=> Owed(t)') /\ (AllFresh(t) <=> AllFresh(t)')
    BY <2>1, <2>2 DEF Owed, AllFresh, Exists
  <2> QED BY <2>3, <2>4, <2>5 DEF Backed
<1>4. ASSUME NEW p \in Proc,
             StartSweep(p) \/ StartPlain(p) \/ Count(p) \/ SkipSweep(p) \/ TakeDepth(p)
             \/ ListFiles(p) \/ EnterMoves(p) \/ EndSweep(p) \/ Stamp(p) \/ Kill(p)
      PROVE  Backed'
  <2>1. CASE Stamp(p)
    <3>1. \A th \in Thread : AllFresh(th)
      BY <2>1 DEF Stamp, Backed
    <3>2. UNCHANGED <<file, row>> /\ \A q \in Proc : cpc'[q] = "idle"
      BY <2>1 DEF Stamp, Return, OneProcess
    <3> QED BY <3>1, <3>2 DEF Backed, AllFresh, Exists
  <2>2. CASE ~Stamp(p)
    <3>1. UNCHANGED <<file, row, watermark>>
      BY <1>4, <2>2 DEF StartSweep, StartPlain, Count, SkipSweep, TakeDepth, ListFiles,
                        EnterMoves, EndSweep, Kill
    <3>2. cpc'[p] \notin {"begin", "query", "backwait", "back", "stamp"}
      BY <1>4, <2>2 DEF StartSweep, StartPlain, Count, SkipSweep, TakeDepth, ListFiles,
                        EnterMoves, EndSweep, Kill, Return
    <3> QED BY <3>1, <3>2, BackedCarry DEF OneProcess, AllFresh, Exists
  <2> QED BY <2>1, <2>2
<1>5. ASSUME NEW p \in Proc, NEW f \in Files, Rename(p, f) PROVE Backed'
  <2>1. /\ cpc[p] = "move" /\ f \in Thread \X Depth /\ Exists(f[1], f[2])
        /\ UNCHANGED <<row, watermark, cpc>>
        /\ file' = [file EXCEPT ![f[1]] = [d \in Depth |-> IF d = cdepth[p] THEN @[f[2]] ELSE NoFile]]
    BY <1>5 DEF Rename, Relocate, Files
  <2>2. \A t \in Thread : t # f[1] => file'[t] = file[t]
    BY <2>1
  <2>3. \A d \in Depth : file'[f[1]][d] \in {file[f[1]][f[2]], NoFile}
    BY <2>1
  <2>4. \A t \in Thread : AllFresh(t) => AllFresh(t)'
    BY <2>1, <2>2, <2>3 DEF AllFresh, Exists, NoFile
  <2> QED BY <2>1, <2>4, BackedCarry DEF OneProcess
<1>6. ASSUME NEW p \in Proc, NEW f \in Files, MergeCopy(p, f) PROVE Backed'
  <2>1. /\ cpc' = [cpc EXCEPT ![p] = "copied"] /\ f \in Thread \X Depth /\ Exists(f[1], f[2])
        /\ UNCHANGED <<row, watermark>>
        /\ file' = [file EXCEPT ![f[1]][cdepth[p]] =
                      [recs |-> @.recs \cup file[f[1]][f[2]].recs, last |-> file[f[1]][f[2]].last]]
    BY <1>6 DEF MergeCopy, Files
  <2>2. \A t \in Thread : t # f[1] => file'[t] = file[t]
    BY <2>1
  <2>3. \A d \in Depth : \/ file'[f[1]][d].last = file[f[1]][f[2]].last
                         \/ file'[f[1]][d] = file[f[1]][d]
    BY <2>1
  <2>4. \A t \in Thread : AllFresh(t) => AllFresh(t)'
    BY <2>1, <2>2, <2>3 DEF AllFresh, Exists
  <2> QED BY <2>1, <2>4, BackedCarry DEF OneProcess
<1>7. ASSUME NEW p \in Proc, MergeUnlink(p) PROVE Backed'
  <2>1. /\ cpc' = [cpc EXCEPT ![p] = "move"] /\ UNCHANGED <<row, watermark>>
        /\ file' = [file EXCEPT ![source[p][1]][source[p][2]] = NoFile]
    BY <1>7 DEF MergeUnlink
  <2>2. \A t \in Thread, d \in Depth : file'[t][d] \in {file[t][d], NoFile}
    BY <2>1
  <2>3. \A t \in Thread : AllFresh(t) => AllFresh(t)'
    BY <2>1, <2>2 DEF AllFresh, Exists, NoFile
  <2> QED BY <2>1, <2>3, BackedCarry DEF OneProcess
<1>8. ASSUME NEW p \in Proc, Reread(p) PROVE Backed'
  <2>1. /\ cpc'[p] = "begin" /\ since'[p] = watermark
        /\ UNCHANGED <<file, row, watermark>>
    BY <1>8 DEF Reread
  <2> QED BY <2>1, BackedControl DEF OneProcess
<1>9. ASSUME NEW p \in Proc, Begin(p) PROVE Backed'
  <2>1. cpc[p] = "begin" /\ since[p] = watermark /\ UNCHANGED <<file, row, watermark, since>>
    BY <1>9 DEF Begin, Backed
  <2>2. since[p] # Never
    BY <2>1 DEF Never
  <2>3. cpc'[p] = "query"
    BY <1>9, <2>2 DEF Begin
  <2> QED BY <2>1, <2>3, BackedControl DEF OneProcess
<1>10. ASSUME NEW p \in Proc, Query(p) PROVE Backed'
  <2>1. /\ cpc[p] = "query" /\ since[p] = watermark
        /\ cpc' = [cpc EXCEPT ![p] = "backwait"]
        /\ UNCHANGED <<file, row, watermark, since>>
    BY <1>10 DEF Query, Backed
  <2>2. \A th \in Thread : found'[p][th] = IF Owed(th) THEN row[th].has ELSE NotFound
    BY <1>10, <2>1 DEF Query, Changed, Owed, Never
  <2>3. \A th \in Thread : \/ found'[p][th] = row[th].has
                           \/ found'[p][th] = NotFound /\ AllFresh(th)
    BY <2>2 DEF Backed
  <2> QED BY <2>1, <2>3, BackedControl DEF OneProcess
<1>11. ASSUME NEW p \in Proc, EnterBackstop(p) PROVE Backed'
  <2>1. /\ cpc[p] = "backwait" /\ cpc'[p] = "back"
        /\ UNCHANGED <<file, row, watermark, since, found>>
    BY <1>11 DEF EnterBackstop
  <2>2. since[p] = watermark /\ \A th \in Thread : \/ found[p][th] = row[th].has
                                                   \/ found[p][th] = NotFound /\ AllFresh(th)
    BY <2>1 DEF Backed
  <2> QED BY <2>1, <2>2, BackedControl DEF OneProcess
<1>12. ASSUME NEW p \in Proc, NEW th \in Thread, Backstop(p, th) PROVE Backed'
  <2>1. /\ cpc[p] = "back" /\ cdepth[p] = depth /\ swept[p] /\ found[p][th] = row[th].has
        /\ UNCHANGED <<row, watermark, cpc, since>>
    BY <1>12 DEF Backstop, DepthKnown, Backed
  <2>2. /\ found' = [found EXCEPT ![p][th] = NotFound]
        /\ file' = [file EXCEPT ![th][depth] = AppendTo(@, row[th].has)]
    BY <1>12, <2>1 DEF Backstop
  <2>3. \A t \in Thread, d \in Depth : Exists(t, d) => d = depth
    BY <2>1 DEF Tidy, Leftover, InSweep
  <2>4. \A t \in Thread : t # th => file'[t] = file[t]
    BY <2>2
  <2>5. file'[th][depth].last = row[th].has /\ \A d \in Depth : d # depth => file'[th][d] = file[th][d]
    BY <2>2 DEF AppendTo
  <2>6. AllFresh(th)'
    BY <2>1, <2>3, <2>5 DEF AllFresh, Exists
  <2>7. \A t \in Thread : t # th => (AllFresh(t) <=> AllFresh(t)') /\ found'[p][t] = found[p][t]
    BY <2>1, <2>2, <2>4 DEF AllFresh, Exists
  <2>8. found'[p][th] = NotFound
    BY <2>2
  <2>9. \A t \in Thread : Owed(t) <=> Owed(t)'
    BY <2>1 DEF Owed
  <2> QED BY <2>1, <2>6, <2>7, <2>8, <2>9 DEF Backed, OneProcess
<1>13. ASSUME NEW p \in Proc, EndBackstop(p) PROVE Backed'
  <2>1. /\ cpc[p] = "back" /\ \A th \in Thread : found[p][th] = NotFound
        /\ cpc' = [cpc EXCEPT ![p] = "stamp"] /\ UNCHANGED <<file, row, watermark>>
    BY <1>13 DEF EndBackstop
  <2>2. \A th \in Thread : row[th].has # NotFound
    BY DEF NotFound
  <2>3. \A th \in Thread : AllFresh(th)
    BY <2>1, <2>2 DEF Backed
  <2>4. \A th \in Thread : AllFresh(th)'
    BY <2>1, <2>3 DEF AllFresh, Exists
  <2> QED BY <2>1, <2>4 DEF Backed, OneProcess
<1>14. CASE UNCHANGED vars
  BY <1>14, BackedQuiet DEF vars
<1> QED BY <1>1, <1>2, <1>3, <1>4, <1>5, <1>6, <1>7, <1>8, <1>9, <1>10, <1>11, <1>12, <1>13,
           <1>14 DEF Next, Write, Sweep, Move, Check

LEMMA OwedStep ==
  ASSUME OneProcess, SweepInv, OwedInv, [Next]_vars
  PROVE  OwedInv'
<1>1. /\ TypeOK /\ NothingDeeper
      /\ OneThing /\ Clocks /\ RowsAreCommitted /\ DepthKnown /\ Tidy
  BY DEF SweepInv, OwedInv
<1> QED BY <1>1, OneThingStep, ClocksStep, RowsStep, DepthKnownStep, TidyStep, BackedStep
        DEF OwedInv

(* When nothing is under way what is stale is owed: a row with a change    *)
(* has a file, for it was drained before it was committed.                 *)
LEMMA OwedIsEnough ==
  ASSUME SweepInv, OwedInv
  PROVE  StaleIsOwed
<1>1. SUFFICES ASSUME NEW th \in Thread, AllFresh(th) PROVE Fresh(th)
  BY DEF StaleIsOwed, OwedInv, Backed
<1>2. depth \in Depth /\ 1 - depth \in Depth /\ \A d \in Depth : d = depth \/ d = 1 - depth
  BY DEF SweepInv, TypeOK, Depth
<1>3. CASE row[th].has = {}
  BY <1>3 DEF Fresh
<1>4. CASE row[th].has # {}
  <2>1. PICK w \in row[th].has : w \in Writer /\ wpc[w] = "done" /\ ThreadOf[w] = th
    BY <1>4 DEF OwedInv, RowsAreCommitted, SweepInv, TypeOK
  <2>2. PICK d \in Depth : Exists(th, d)
    BY <2>1 DEF SweepInv, DrainedIsLogged, Logged, Exists
  <2>3. Exists(th, depth) \/ Exists(th, 1 - depth)
    BY <1>2, <2>2
  <2> QED BY <1>1, <1>2, <2>3 DEF AllFresh, Fresh, Rebuilt
<1> QED BY <1>3, <1>4

(* With one process, once a checkpoint has been stamped: whatever a        *)
(* rebuild would get wrong when nothing is under way (a record whose       *)
(* COMMIT was rejected, a drain that a kill cut off from its COMMIT) is    *)
(* above the watermark, and the next backstop repairs it                   *)
(* (maintenance.py 211-240).                                               *)
THEOREM StaleIsRepaired ==
  ASSUME OneProcess, Stamped PROVE Spec => []StaleIsOwed
<1>1. Init => OwedInv
  BY OwedInit
<1>2. SweepInv /\ OwedInv /\ [Next]_vars => OwedInv'
  BY OwedStep
<1>3. SweepInv /\ OwedInv => StaleIsOwed
  BY OwedIsEnough
<1> QED BY <1>1, <1>2, <1>3, SweepInductive, PTL DEF Spec
=============================================================================
