----------------------------- MODULE MigrateProofs -----------------------------
(***************************************************************************)
(* Whatever the threads and the overlays, and however often the migration  *)
(* dies, is set aside and is tried again, each file the archive had is in  *)
(* the truth or in a backup.                                               *)
(***************************************************************************)
EXTENDS Migrate, TLAPS

LEMMA NoFileIsContent == NoFile \in Content
BY DEF Content

LEMMA NoFilesTyped == NoFiles \in [File -> Content] /\ \A f \in File : NoFiles[f] = NoFile
BY NoFileIsContent DEF NoFiles

LEMMA TreeIsFile == Tree \in File
BY DEF File

(* What the archive starts with.                                           *)
LEMMA OriginalTyped == \A f \in File : Original(f) \in Content
<1> SUFFICES ASSUME NEW f \in File PROVE Original(f) \in Content
  OBVIOUS
<1>1. CASE Named(f) = NoFile
  BY <1>1, NoFileIsContent DEF Original
<1>2. CASE Named(f) # NoFile
  <2>1. Named(f) \subseteq Thread
    BY <1>2, MigrateFiles DEF Named, File
  <2>2. \A t \in Thread : First(t) \in Id
    BY MigrateBounds DEF First, Id
  <2>3. {First(t) : t \in Named(f)} \subseteq Id
    BY <2>1, <2>2
  <2> QED BY <1>2, <2>3 DEF Original, Content
<1> QED BY <1>1, <1>2

(* Minting in an attempt within the bound yields identifiers.              *)
LEMMA MappedTyped ==
  ASSUME attempt \in 0 .. MaxAttempts, NEW ids \in Content, ids # NoFile
  PROVE  Mapped(ids) \in Content
<1>1. ids \subseteq Id
  BY DEF Content
<1>2. \A id \in ids : (IF IsLegacy(id) THEN <<id[1], attempt>> ELSE id) \in Id
  BY <1>1 DEF Id
<1>3. Mapped(ids) \subseteq Id
  BY <1>2 DEF Mapped
<1> QED BY <1>3 DEF Content

LEMMA LoadedTyped == ASSUME TypeOK PROVE Loaded \subseteq Id
<1>1. live[Tree] \in Content
  BY TreeIsFile DEF TypeOK
<1> QED BY <1>1 DEF Loaded, Content
-----------------------------------------------------------------------------
LEMMA CopyInit == Init => CopyInv
<1> SUFFICES ASSUME Init PROVE CopyInv
  OBVIOUS
<1>1. TypeOK
  <2>1. live \in [File -> Content]
    BY OriginalTyped DEF Init
  <2>2. index \subseteq Id
    BY MigrateBounds DEF Init, First, Id
  <2>3. mapping \in [Thread -> 0 .. MaxAttempts] /\ attempt \in 0 .. MaxAttempts /\ kills \in 0 .. MaxKills
    BY MigrateBounds DEF Init
  <2> QED BY <2>1, <2>2, <2>3, NoFilesTyped, TreeIsFile DEF Init, TypeOK
<1>2. NothingDestroyed
  BY DEF Init, NothingDestroyed
<1>3. NoBackupBefore /\ AtMostOneCopy
  BY DEF Init, NoBackupBefore, AtMostOneCopy
<1> QED BY <1>1, <1>2, <1>3 DEF CopyInv

(* A step that moves no file keeps what is said of the files.              *)
LEMMA FilesUntouched ==
  ASSUME NothingDestroyed, UNCHANGED <<live, backup>>, aside \subseteq aside'
  PROVE  NothingDestroyed'
BY DEF NothingDestroyed, Original, Named, First, File

LEMMA BeginKeeps == ASSUME CopyInv, NEW d \in BOOLEAN, Begin(d) PROVE CopyInv'
<1> USE DEF CopyInv
<1>1. TypeOK'
  <2>1. attempt' \in 0 .. MaxAttempts
    BY MigrateBounds DEF TypeOK, Begin
  <2> QED BY <2>1 DEF TypeOK, Begin, files
<1>2. NothingDestroyed'
  BY FilesUntouched DEF Begin, files
<1>3. NoBackupBefore' /\ AtMostOneCopy'
  BY DEF Begin, files, NoBackupBefore, AtMostOneCopy
<1> QED BY <1>1, <1>2, <1>3

LEMMA RewriteKeeps == ASSUME CopyInv, NEW f \in File, Rewrite(f) PROVE CopyInv'
<1> USE DEF CopyInv
<1>1. TypeOK'
  <2> DEFINE kept == IF f = Tree THEN NoFile ELSE fresh[f]
             new == IF live[f] = NoFile THEN kept ELSE Mapped(live[f])
  <2>1. kept \in Content
    BY NoFileIsContent DEF TypeOK
  <2>2. live[f] \in Content /\ attempt \in 0 .. MaxAttempts
    BY DEF TypeOK
  <2>3. new \in Content
    BY <2>1, <2>2, MappedTyped
  <2>4. fresh' = [fresh EXCEPT ![f] = new]
    BY DEF Rewrite
  <2> HIDE DEF new
  <2>5. fresh' \in [File -> Content]
    BY <2>3, <2>4 DEF TypeOK
  <2> QED BY <2>5 DEF TypeOK, Rewrite
<1>2. NothingDestroyed'
  BY FilesUntouched DEF Rewrite
<1>3. NoBackupBefore' /\ AtMostOneCopy'
  BY DEF Rewrite, NoBackupBefore, AtMostOneCopy
<1> QED BY <1>1, <1>2, <1>3

LEMMA PersistKeeps == ASSUME CopyInv, PersistMapping PROVE CopyInv'
<1> USE DEF CopyInv
<1>1. TypeOK'
  <2>1. mapping' \in [Thread -> 0 .. MaxAttempts]
    BY MigrateBounds DEF TypeOK, PersistMapping
  <2> QED BY <2>1 DEF TypeOK, PersistMapping, files
<1>2. NothingDestroyed'
  BY FilesUntouched DEF PersistMapping, files
<1>3. NoBackupBefore' /\ AtMostOneCopy'
  BY DEF PersistMapping, files, NoBackupBefore, AtMostOneCopy
<1> QED BY <1>1, <1>2, <1>3

(* The directory is new, so nothing in it can be overwritten.              *)
LEMMA MakeBackupKeeps == ASSUME CopyInv, MakeBackup PROVE CopyInv'
<1> USE DEF CopyInv
<1>1. TypeOK'
  BY DEF TypeOK, MakeBackup
<1>2. NothingDestroyed'
  BY FilesUntouched DEF MakeBackup
<1>3. NoBackupBefore'
  BY DEF MakeBackup, NoBackupBefore
<1>4. AtMostOneCopy'
  <2>1. backup = NoFiles
    BY DEF MakeBackup, NoBackupBefore
  <2> QED BY <2>1, NoFilesTyped DEF MakeBackup, AtMostOneCopy
<1> QED BY <1>1, <1>2, <1>3, <1>4

(* The file that is moved leaves one copy, in a place that was free.       *)
LEMMA SwapOutKeeps == ASSUME CopyInv, NEW f \in File, SwapOut(f) PROVE CopyInv'
<1> USE DEF CopyInv
<1>1. TypeOK'
  <2>1. live' \in [File -> Content] /\ backup' \in [File -> Content]
    BY NoFileIsContent DEF TypeOK, SwapOut
  <2> QED BY <2>1 DEF TypeOK, SwapOut
<1>2. NothingDestroyed'
  <2> SUFFICES ASSUME NEW g \in File
               PROVE  \/ Original(g) = NoFile \/ live'[g] = Original(g) \/ backup'[g] = Original(g)
                      \/ \E b \in aside' : b[g] = Original(g)
    BY DEF NothingDestroyed, Original, Named, First, File
  <2>1. \/ Original(g) = NoFile \/ live[g] = Original(g) \/ backup[g] = Original(g)
        \/ \E b \in aside : b[g] = Original(g)
    BY DEF NothingDestroyed
  <2>2. aside' = aside
    BY DEF SwapOut
  <2>3. CASE g # f
    <3>1. live'[g] = live[g] /\ backup'[g] = backup[g]
      BY <2>3 DEF SwapOut, TypeOK
    <3> QED BY <2>1, <2>2, <3>1
  <2>4. CASE g = f
    <3>1. backup'[g] = live[g]
      BY <2>4 DEF SwapOut, TypeOK
    <3>2. backup[g] = NoFile
      BY <2>4 DEF SwapOut, AtMostOneCopy, Due
    <3> QED BY <2>1, <2>2, <3>1, <3>2
  <2> QED BY <2>3, <2>4
<1>3. NoBackupBefore'
  BY DEF SwapOut, NoBackupBefore, AtMostOneCopy
<1>4. AtMostOneCopy'
  <2>1. made' /\ live'[cur'] = NoFile
    BY DEF SwapOut, AtMostOneCopy, TypeOK
  <2>2. \A g \in todo' : backup'[g] = NoFile
    BY DEF SwapOut, AtMostOneCopy, TypeOK
  <2> QED BY <2>1, <2>2 DEF SwapOut, AtMostOneCopy
<1> QED BY <1>1, <1>2, <1>3, <1>4

(* Only the place the old file left is filled.                             *)
LEMMA SwapInKeeps == ASSUME CopyInv, SwapIn PROVE CopyInv'
<1> USE DEF CopyInv
<1>1. TypeOK'
  <2>1. live' \in [File -> Content] /\ fresh' \in [File -> Content]
    BY NoFileIsContent DEF TypeOK, SwapIn
  <2> QED BY <2>1 DEF TypeOK, SwapIn
<1>2. NothingDestroyed'
  <2> SUFFICES ASSUME NEW g \in File, Original(g) # NoFile
               PROVE  \/ live'[g] = Original(g) \/ backup'[g] = Original(g)
                      \/ \E b \in aside' : b[g] = Original(g)
    BY DEF NothingDestroyed, Original, Named, First, File
  <2>1. live[g] = Original(g) \/ backup[g] = Original(g) \/ \E b \in aside : b[g] = Original(g)
    BY DEF NothingDestroyed
  <2>2. live[g] = Original(g) => g # cur
    BY DEF SwapIn, AtMostOneCopy
  <2>3. g # cur => live'[g] = live[g]
    BY DEF SwapIn, TypeOK
  <2> QED BY <2>1, <2>2, <2>3 DEF SwapIn
<1>3. NoBackupBefore' /\ AtMostOneCopy'
  BY DEF SwapIn, NoBackupBefore, AtMostOneCopy
<1> QED BY <1>1, <1>2, <1>3

LEMMA SwapRestKeeps ==
  ASSUME CopyInv, (\E f \in File : SwapNone(f) \/ SwapFails(f)) \/ Finish PROVE CopyInv'
<1> USE DEF CopyInv
<1>1. TypeOK'
  BY DEF TypeOK, SwapNone, SwapFails, Finish, files
<1>2. NothingDestroyed'
  BY FilesUntouched DEF SwapNone, SwapFails, Finish, files
<1>3. NoBackupBefore' /\ AtMostOneCopy'
  BY DEF SwapNone, SwapFails, Finish, files, NoBackupBefore, AtMostOneCopy
<1> QED BY <1>1, <1>2, <1>3

LEMMA ReindexKeeps == ASSUME CopyInv, NEW s \in BOOLEAN, Reindex(s) PROVE CopyInv'
<1> USE DEF CopyInv
<1>1. TypeOK'
  <2>1. index' \subseteq Id
    BY LoadedTyped DEF Reindex, TypeOK
  <2> QED BY <2>1 DEF TypeOK, Reindex, files
<1>2. NothingDestroyed'
  BY FilesUntouched DEF Reindex, files
<1>3. NoBackupBefore' /\ AtMostOneCopy'
  BY DEF Reindex, files, NoBackupBefore, AtMostOneCopy
<1> QED BY <1>1, <1>2, <1>3

LEMMA KillKeeps == ASSUME CopyInv, Kill PROVE CopyInv'
<1> USE DEF CopyInv
<1>1. TypeOK'
  <2>1. kills' \in 0 .. MaxKills
    BY MigrateBounds DEF TypeOK, Kill
  <2> QED BY <2>1 DEF TypeOK, Kill, files
<1>2. NothingDestroyed'
  BY FilesUntouched DEF Kill, files
<1>3. NoBackupBefore' /\ AtMostOneCopy'
  BY DEF Kill, files, NoBackupBefore, AtMostOneCopy
<1> QED BY <1>1, <1>2, <1>3

(* What was in the backup is in the one that is set aside.                 *)
LEMMA SetAsideKeeps == ASSUME CopyInv, SetAside PROVE CopyInv'
<1> USE DEF CopyInv
<1>1. TypeOK'
  BY NoFilesTyped DEF TypeOK, SetAside
<1>2. NothingDestroyed'
  <2> SUFFICES ASSUME NEW g \in File, Original(g) # NoFile
               PROVE  live'[g] = Original(g) \/ \E b \in aside' : b[g] = Original(g)
    BY DEF NothingDestroyed, Original, Named, First, File
  <2>1. live[g] = Original(g) \/ backup[g] = Original(g) \/ \E b \in aside : b[g] = Original(g)
    BY DEF NothingDestroyed
  <2> QED BY <2>1 DEF SetAside
<1>3. NoBackupBefore' /\ AtMostOneCopy'
  BY DEF SetAside, NoBackupBefore, AtMostOneCopy, NoFiles, File
<1> QED BY <1>1, <1>2, <1>3

LEMMA CopyStep == CopyInv /\ [Next]_vars => CopyInv'
<1> SUFFICES ASSUME CopyInv, [Next]_vars PROVE CopyInv'
  OBVIOUS
<1>1. CASE UNCHANGED vars
  <2>1. TypeOK'
    BY <1>1 DEF CopyInv, TypeOK, vars, files
  <2>2. NothingDestroyed'
    BY <1>1, FilesUntouched DEF CopyInv, vars, files
  <2>3. NoBackupBefore' /\ AtMostOneCopy'
    BY <1>1 DEF CopyInv, NoBackupBefore, AtMostOneCopy, vars, files
  <2> QED BY <2>1, <2>2, <2>3 DEF CopyInv
<1>2. CASE \E b \in BOOLEAN : Begin(b) \/ Reindex(b)
  BY <1>2, BeginKeeps, ReindexKeeps
<1>3. CASE \E f \in File : Files(f)
  BY <1>3, RewriteKeeps, SwapOutKeeps, SwapRestKeeps DEF Files
<1>4. CASE PersistMapping \/ MakeBackup \/ SwapIn \/ Finish \/ Kill \/ SetAside
  BY <1>4, PersistKeeps, MakeBackupKeeps, SwapInKeeps, SwapRestKeeps, KillKeeps, SetAsideKeeps
<1> QED BY <1>1, <1>2, <1>3, <1>4 DEF Next
-----------------------------------------------------------------------------
(* Until a swap is interrupted, a run knows what it has built and swapped. *)

LEMMA NewIsFile ==
  ASSUME TypeOK, NEW f \in File, Exists(f)
  PROVE  /\ Named(f) \subseteq Thread
         /\ New(f) \subseteq Id /\ New(f) # NoFile
         /\ Original(f) = {First(t) : t \in Named(f)}
<1>1. Named(f) # NoFile
  BY DEF Exists, Original
<1>2. Named(f) \subseteq Thread
  BY <1>1, MigrateFiles DEF Named, File
<1>3. New(f) \subseteq Id
  BY <1>2, MigrateBounds DEF New, First, Id, TypeOK
<1> QED BY <1>1, <1>2, <1>3, NoFileIsNone DEF Id, Original

LEMMA TreeExists == Exists(Tree) /\ Named(Tree) = Thread \ Unfiled
<1>1. Named(Tree) = Thread \ Unfiled
  BY DEF Named
<1>2. {First(t) : t \in Thread \ Unfiled} \subseteq Id
  BY MigrateBounds DEF First, Id
<1>3. {First(t) : t \in Thread \ Unfiled} # NoFile
  BY <1>2, NoFileIsNone DEF Id
<1>4. Thread \ Unfiled # NoFile
  BY NoFileIsNone
<1> QED BY <1>1, <1>3, <1>4 DEF Exists, Original

LEMMA MappedIsNew ==
  ASSUME TypeOK, NEW f \in File, Exists(f)
  PROVE  Mapped(Original(f)) = New(f)
<1>1. Original(f) = {First(t) : t \in Named(f)}
  BY NewIsFile
<1> DEFINE image(id) == IF IsLegacy(id) THEN <<id[1], attempt>> ELSE id
<1>2. \A t \in Named(f) : image(First(t)) = IF t \in Native THEN First(t) ELSE <<t, attempt>>
  BY DEF IsLegacy, First
<1> HIDE DEF image
<1>3. {image(id) : id \in {First(t) : t \in Named(f)}}
        = {IF t \in Native THEN First(t) ELSE <<t, attempt>> : t \in Named(f)}
  BY <1>2
<1>4. Mapped(Original(f)) = {image(id) : id \in Original(f)}
  BY DEF Mapped, image
<1> QED BY <1>1, <1>3, <1>4 DEF New

LEMMA RunInit == Init => RunInv
<1> SUFFICES ASSUME Init PROVE RunInv
  OBVIOUS
<1> QED BY DEF Init, RunInv

(* A step that is of a run no longer, or of none yet, and moves no file.   *)
LEMMA RunUntouched ==
  ASSUME RunInv, UNCHANGED <<live, backup, version>>,
         pc' = "idle" \/ (pc' = pc /\ UNCHANGED <<fresh, mapping, dry, todo, cur, attempt>>),
         version = 2 => UNCHANGED mapping
  PROVE  RunInv'
<1>1. (version = 2 => Whole)'
  BY DEF RunInv, Whole, Original, Named, First, File, IsLegacy
<1>2. (version = 1 /\ backup = NoFiles => \A f \in File : live[f] = Original(f))'
  BY DEF RunInv, Original, Named, First, File, NoFiles
<1>3. CASE pc' = "idle"
  BY <1>1, <1>2, <1>3 DEF RunInv
<1>4. CASE pc' = pc /\ UNCHANGED <<fresh, mapping, dry, todo, cur, attempt>>
  <2>1. (pc \in {"build", "backup"} /\ ~dry => Built)'
    BY <1>4 DEF RunInv, Built, Exists, New, Original, Named, First, File
  <2>2. (pc \in {"out", "in"} => Swapping)'
    <3>1. \A f \in File : (Exists(f)' <=> Exists(f)) /\ Original(f)' = Original(f) /\ New(f)' = New(f)
      BY <1>4 DEF Exists, New, Original, Named, First, File
    <3>2. ASSUME pc \in {"out", "in"}, NEW f \in File, Exists(f)
          PROVE  /\ f \in todo => live[f] = Original(f) /\ fresh[f] = New(f)
                 /\ f \notin todo => IF pc = "in" /\ f = cur THEN fresh[f] = New(f) ELSE live[f] = New(f)
      BY <3>2 DEF RunInv, Swapping
    <3> QED BY <1>4, <3>1, <3>2 DEF Swapping, File
  <2>3. (pc \in {"backup", "out", "in"} =>
           \A f \in File : Exists(f) => \A t \in Named(f) \ Native : mapping[t] = attempt)'
    BY <1>4 DEF RunInv, Exists, Original, Named, First, File
  <2> QED BY <1>1, <1>2, <1>4, <2>1, <2>2, <2>3 DEF RunInv
<1> QED BY <1>3, <1>4

LEMMA BeginRuns ==
  ASSUME CopyInv, RunInv, NEW d \in BOOLEAN, Begin(d) PROVE RunInv'
<1>1. attempt' > 0
  BY DEF Begin, CopyInv, TypeOK
<1>2. (version = 1 /\ backup = NoFiles => \A f \in File : live[f] = Original(f))'
  BY DEF RunInv, Original, Named, First, File, NoFiles, Begin, files
<1>3. Built'
  BY DEF Begin, Built, File
<1> QED BY <1>1, <1>2, <1>3 DEF Begin, RunInv

LEMMA RewriteRuns ==
  ASSUME CopyInv, RunInv, NEW f \in File, Rewrite(f) PROVE RunInv'
<1> USE DEF CopyInv
<1>1. (version = 1 /\ backup = NoFiles => \A g \in File : live[g] = Original(g))'
  BY DEF RunInv, Original, Named, First, File, NoFiles, Rewrite
<1>2. ASSUME ~dry PROVE Built'
  <2>1. backup = NoFiles /\ version = 1
    BY <1>2 DEF Rewrite, NoBackupBefore, RunInv, TypeOK
  <2>2. ASSUME NEW g \in File \ todo', Exists(g) PROVE fresh'[g] = New(g)
    <3>1. CASE g = f
      <4>1. live[f] = Original(f) /\ live[f] # NoFile
        BY <2>1, <2>2, <3>1 DEF RunInv, Exists
      <4>2. fresh'[f] = Mapped(live[f])
        BY <4>1 DEF Rewrite, TypeOK
      <4> QED BY <2>2, <3>1, <4>1, <4>2, MappedIsNew
    <3>2. CASE g # f
      BY <1>2, <2>2, <3>2 DEF Rewrite, TypeOK, RunInv, Built
    <3> QED BY <3>1, <3>2
  <2> QED BY <2>2 DEF Built, Exists, New, Original, Named, First, File, Rewrite
<1> QED BY <1>1, <1>2 DEF Rewrite, RunInv

LEMMA PersistRuns == ASSUME CopyInv, RunInv, PersistMapping PROVE RunInv'
<1> USE DEF CopyInv
<1>1. CASE dry
  <2>1. pc' = "idle" /\ UNCHANGED <<live, backup, version>> /\ version # 2
    BY <1>1 DEF PersistMapping, files, RunInv
  <2> QED BY <2>1, RunUntouched
<1>2. CASE ~dry
  <2>1. backup = NoFiles /\ version = 1
    BY <1>2 DEF PersistMapping, NoBackupBefore, RunInv, TypeOK
  <2>2. \A f \in File : live[f] = Original(f)
    BY <2>1 DEF RunInv
  <2>3. ASSUME NEW f \in File, Exists(f), NEW t \in Named(f) \ Native
        PROVE  mapping'[t] = attempt'
    <3>1. t \in Thread /\ live[f] # NoFile /\ First(t) \in live[f]
      BY <2>2, <2>3, NewIsFile DEF Exists
    <3>2. t \in Minted
      BY <2>3, <3>1 DEF Minted
    <3> QED BY <3>1, <3>2 DEF PersistMapping
  <2>4. (\A f \in File : Exists(f) => \A t \in Named(f) \ Native : mapping[t] = attempt)'
    BY <2>3 DEF Exists, Original, Named, First, File
  <2>5. Built'
    BY <1>2 DEF PersistMapping, RunInv, Built, Exists, New, Original, Named, First, File, files
  <2>6. (version = 1 /\ backup = NoFiles => \A g \in File : live[g] = Original(g))'
    BY DEF RunInv, Original, Named, First, File, NoFiles, PersistMapping, files
  <2> QED BY <1>2, <2>1, <2>4, <2>5, <2>6 DEF PersistMapping, RunInv
<1> QED BY <1>1, <1>2

LEMMA MakeBackupRuns == ASSUME CopyInv, RunInv, MakeBackup PROVE RunInv'
<1> USE DEF CopyInv
<1>1. backup = NoFiles /\ version = 1 /\ ~dry /\ todo = {}
  BY DEF MakeBackup, NoBackupBefore, RunInv, TypeOK
<1>2. (version = 1 /\ backup = NoFiles => \A g \in File : live[g] = Original(g))'
  BY DEF RunInv, Original, Named, First, File, NoFiles, MakeBackup
<1>3. Swapping'
  BY <1>1 DEF MakeBackup, RunInv, Built, Swapping, Exists, New, Original, Named, First, File
<1> QED BY <1>1, <1>2, <1>3 DEF MakeBackup, RunInv

LEMMA SwapOutRuns ==
  ASSUME CopyInv, RunInv, NEW f \in File, SwapOut(f) PROVE RunInv'
<1> USE DEF CopyInv
<1>1. backup' # NoFiles
  BY DEF SwapOut, NoFiles, TypeOK
<1>2. Swapping'
  <2> SUFFICES ASSUME NEW g \in File, Exists(g)
               PROVE  /\ g \in todo' => live'[g] = Original(g) /\ fresh'[g] = New(g)
                      /\ g \notin todo' => IF g = f THEN fresh'[g] = New(g) ELSE live'[g] = New(g)
    BY DEF Swapping, Exists, New, Original, Named, First, File, SwapOut
  <2>1. /\ g \in todo => live[g] = Original(g) /\ fresh[g] = New(g)
        /\ g \notin todo => live[g] = New(g)
    BY DEF RunInv, Swapping, SwapOut
  <2>2. g # f => live'[g] = live[g]
    BY DEF SwapOut, TypeOK
  <2> QED BY <2>1, <2>2 DEF SwapOut, Due
<1> QED BY <1>1, <1>2 DEF SwapOut, RunInv

LEMMA SwapInRuns == ASSUME CopyInv, RunInv, SwapIn PROVE RunInv'
<1> USE DEF CopyInv
<1>1. ASSUME NEW g \in File, Exists(g)
      PROVE  /\ g \in todo' => live'[g] = Original(g) /\ fresh'[g] = New(g)
             /\ g \notin todo' => live'[g] = New(g)
  <2>1. /\ g \in todo => live[g] = Original(g) /\ fresh[g] = New(g)
        /\ g \notin todo => IF g = cur THEN fresh[g] = New(g) ELSE live[g] = New(g)
    BY <1>1 DEF RunInv, Swapping, SwapIn
  <2>2. g # cur => live'[g] = live[g] /\ fresh'[g] = fresh[g]
    BY DEF SwapIn, TypeOK
  <2>3. live[cur] = NoFile
    BY DEF SwapIn, AtMostOneCopy
  <2>4. g = cur => g \notin todo /\ live'[g] = fresh[g]
    BY <1>1, <2>1, <2>3 DEF SwapIn, TypeOK, Exists
  <2> QED BY <2>1, <2>2, <2>4 DEF SwapIn
<1>2. Swapping'
  BY <1>1 DEF Swapping, Exists, New, Original, Named, First, File, SwapIn
<1>3. (version = 1 /\ backup = NoFiles => \A g \in File : live[g] = Original(g))'
  BY DEF SwapIn, RunInv
<1> QED BY <1>2, <1>3 DEF SwapIn, RunInv

LEMMA SwapNoneRuns ==
  ASSUME CopyInv, RunInv, NEW f \in File, SwapNone(f) PROVE RunInv'
<1> USE DEF CopyInv
<1>1. ~Exists(f)
  BY NewIsFile DEF SwapNone, Due, RunInv, Swapping
<1>2. Swapping'
  <2> SUFFICES ASSUME NEW g \in File, Exists(g)
               PROVE  /\ g \in todo' => live[g] = Original(g) /\ fresh[g] = New(g)
                      /\ g \notin todo' => live[g] = New(g)
    BY DEF Swapping, Exists, New, Original, Named, First, File, SwapNone, files
  <2> QED BY <1>1 DEF SwapNone, RunInv, Swapping
<1>3. (version = 1 /\ backup = NoFiles => \A g \in File : live[g] = Original(g))'
  BY DEF RunInv, Original, Named, First, File, NoFiles, SwapNone, files
<1> QED BY <1>2, <1>3 DEF SwapNone, files, RunInv

(* The manifest comes last, over files that are all swapped.               *)
LEMMA FinishRuns == ASSUME CopyInv, RunInv, Finish PROVE RunInv'
<1> USE DEF CopyInv
<1>1. /\ attempt > 0
      /\ \A f \in File : Exists(f) => \A t \in Named(f) \ Native : mapping[t] = attempt
  BY DEF Finish, RunInv
<1>2. \A f \in File : Exists(f) => live[f] = New(f)
  BY DEF Finish, RunInv, Swapping
<1> DEFINE id(t) == IF t \in Native THEN First(t) ELSE <<t, attempt>>
<1>3. live[Tree] = {id(t) : t \in Thread \ Unfiled}
  BY <1>2, TreeExists, TreeIsFile DEF New
<1>4. ASSUME NEW f \in File, Exists(f)
      PROVE  /\ live[f] # NoFile
             /\ \A i \in live[f] :
                  /\ ~IsLegacy(i)
                  /\ i[1] \notin Native => i[2] = mapping[i[1]]
                  /\ i[1] \notin Unfiled => i \in live[Tree]
  <2>1. live[f] = New(f) /\ New(f) # NoFile
    BY <1>2, <1>4, NewIsFile
  <2>2. ASSUME NEW t \in Named(f)
        PROVE  /\ ~IsLegacy(id(t)) /\ id(t)[1] = t
               /\ t \notin Native => id(t)[2] = mapping[t]
               /\ t \notin Unfiled => id(t) \in live[Tree]
    <3>1. t \in Thread
      BY <1>4, NewIsFile
    <3>2. attempt \in Nat /\ attempt # 0
      BY <1>1, MigrateBounds DEF TypeOK
    <3>3. ~IsLegacy(id(t)) /\ id(t)[1] = t
      BY <3>2 DEF IsLegacy, First
    <3>4. t \notin Native => id(t)[2] = mapping[t]
      BY <1>1, <1>4
    <3>5. t \notin Unfiled => id(t) \in live[Tree]
      BY <1>3, <3>1
    <3> QED BY <3>3, <3>4, <3>5
  <2>3. live[f] = {id(t) : t \in Named(f)}
    BY <2>1 DEF New
  <2> HIDE DEF id
  <2> QED BY <2>1, <2>2, <2>3
<1>5. ASSUME NEW t \in Thread \ (Native \cup Unfiled) PROVE <<t, mapping[t]>> \in live[Tree]
  <2>1. t \in Named(Tree) /\ mapping[t] = attempt
    BY <1>1, <1>5, TreeExists, TreeIsFile
  <2> QED BY <1>3, <1>5, <2>1
<1>6. Whole'
  BY <1>4, <1>5 DEF Whole, Exists, Original, Named, First, File, IsLegacy, Finish, files
<1> QED BY <1>1, <1>6 DEF Finish, files, RunInv

LEMMA SetAsideRuns ==
  ASSUME CopyInv, Uninterrupted => RunInv, SetAside PROVE Uninterrupted' => RunInv'
<1> SUFFICES ASSUME Uninterrupted' PROVE RunInv'
  OBVIOUS
<1>1. backup = NoFiles /\ RunInv
  BY DEF Uninterrupted, SetAside, NoFiles, File
<1>2. (version = 1 /\ backup = NoFiles => \A g \in File : live[g] = Original(g))'
  BY <1>1 DEF RunInv, Original, Named, First, File, NoFiles, SetAside
<1> QED BY <1>1, <1>2 DEF SetAside, RunInv

LEMMA RunStep == CopyInv /\ (Uninterrupted => RunInv) /\ [Next]_vars => (Uninterrupted' => RunInv')
<1> SUFFICES ASSUME CopyInv, Uninterrupted => RunInv, [Next]_vars PROVE Uninterrupted' => RunInv'
  OBVIOUS
<1>1. CASE SetAside
  BY <1>1, SetAsideRuns
<1>2. CASE ~SetAside
  <2> SUFFICES ASSUME RunInv PROVE RunInv'
    BY <1>2 DEF Next, vars, Uninterrupted, Files, Begin, Reindex, Rewrite, SwapOut, SwapNone,
                SwapFails, PersistMapping, MakeBackup, SwapIn, Finish, Kill, NoFiles, File
  <2>1. CASE UNCHANGED vars
    BY <2>1, RunUntouched DEF vars, files
  <2>2. CASE \E b \in BOOLEAN : Begin(b)
    BY <2>2, BeginRuns
  <2>3. CASE Kill \/ (\E b \in BOOLEAN : Reindex(b)) \/ \E f \in File : SwapFails(f)
    BY <2>3, RunUntouched DEF Kill, Reindex, SwapFails, files
  <2>4. CASE \E f \in File : Rewrite(f) \/ SwapOut(f) \/ SwapNone(f)
    BY <2>4, RewriteRuns, SwapOutRuns, SwapNoneRuns
  <2>5. CASE PersistMapping \/ MakeBackup \/ SwapIn \/ Finish
    BY <2>5, PersistRuns, MakeBackupRuns, SwapInRuns, FinishRuns
  <2> QED BY <1>2, <2>1, <2>2, <2>3, <2>4, <2>5 DEF Next, Files
<1> QED BY <1>1, <1>2
-----------------------------------------------------------------------------
(* The inductive invariant: what a run still has to swap has no copy in the *)
(* backup that it would overwrite, and until a swap is interrupted, each   *)
(* file is what it was or what the run made of it (_migrate_locked,        *)
(* migrate_v2.py:284-345).                                                 *)
THEOREM MigrateInvariant == Spec => []MigrateInv
<1>1. Init => MigrateInv
  BY CopyInit, RunInit DEF MigrateInv
<1>2. MigrateInv /\ [Next]_vars => MigrateInv'
  BY CopyStep, RunStep DEF MigrateInv
<1> QED BY <1>1, <1>2, PTL DEF Spec

(* Each file the archive had is in the truth or in a backup, after any     *)
(* number of deaths and retries (the safety model of migrate_v2.py:12-20). *)
THEOREM MigrationDestroysNothing == Spec => []NothingDestroyed
<1>1. MigrateInv => NothingDestroyed
  BY DEF MigrateInv, CopyInv
<1> QED BY <1>1, MigrateInvariant, PTL

(* The manifest says version 2 only when every file is migrated, every     *)
(* reference resolves and the mapping names the ULIDs that were minted     *)
(* (migrate_v2.py:340-345), unless a retry followed an interrupted swap.   *)
THEOREM VersionTwoIsWhole == Spec => []FirstSwapIsWhole
<1>1. MigrateInv => FirstSwapIsWhole
  BY DEF MigrateInv, RunInv, FirstSwapIsWhole, MigratedIsWhole
<1> QED BY <1>1, MigrateInvariant, PTL
===============================================================================
