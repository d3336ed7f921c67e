------------------------------- MODULE Migrate -------------------------------
(***************************************************************************)
(* The one-shot migration of the truth from integer thread ids to ULIDs    *)
(* (_truth/migrate_v2.py, _api.migrate): the new files are built next to   *)
(* the old ones, swapped in one by one, and only then does the manifest    *)
(* say version 2.  The process may die anywhere; the operator may set the  *)
(* backup aside, as the refusal asks, and try again.                       *)
(*                                                                         *)
(* A file is the set of thread ids it names: the tree by its file names,   *)
(* an overlay by its references.  A minted ULID is a value of its own in   *)
(* every attempt.  From Begin to Finish the migration holds the ingest lock *)
(* exclusive, and no writer runs on an older manifest; one that takes the   *)
(* lock between Finish and the rebuild is not modelled.  The overlays are  *)
(* taken in any order; the code has a fixed one.                           *)
(***************************************************************************)
EXTENDS Naturals

CONSTANTS
  Thread,
  Native,      \* threads a newer writer had given ULIDs already
  Unindexed,   \* threads only the truth knows
  Unfiled,     \* threads that have no file
  Tree,        \* truth/threads
  Overlay,     \* the other files of the truth that name threads
  Refs,        \* overlay -> the threads it names, or NoFile
  NoFile,
  MaxAttempts, \* bound: runs of the migration
  MaxKills     \* bound: deaths of it

ASSUME MigrateFiles == /\ Native \subseteq Thread
                       /\ Tree \notin Overlay
                       /\ Refs \in [Overlay -> (SUBSET Thread) \cup {NoFile}]
ASSUME MigrateBounds == MaxAttempts \in Nat /\ MaxKills \in Nat
ASSUME NoFileIsNone == /\ \A threads \in SUBSET Thread : NoFile # threads
                       /\ \A ids \in SUBSET (Thread \X (0 .. MaxAttempts)) : NoFile # ids

VARIABLES
  live,     \* file -> what it names in truth/, or NoFile
  fresh,    \* the .new file next to it
  made,     \* does pre-ulid-backup exist?
  backup,   \* what is in it
  aside,    \* the backups the operator set aside
  version,  \* of the manifest
  mapping,  \* ulid-mapping.json: thread -> the attempt that minted its ULID, or 0
  index,    \* the thread ids of index.db
  pc, dry,
  todo,     \* the files of the phase still to do
  cur,      \* the file between its two renames
  attempt, kills

files == <<live, fresh, made, backup>>
vars == <<files, aside, version, mapping, index, pc, dry, todo, cur, attempt, kills>>
-----------------------------------------------------------------------------
File == {Tree} \cup Overlay
Id == Thread \X (0 .. MaxAttempts)

(* A thread and the attempt that minted its ULID; the id it comes with is   *)
(* an integer unless it is native.                                         *)
First(t) == <<t, 0>>
IsLegacy(id) == id[2] = 0 /\ id[1] \notin Native
Named(f) == IF f = Tree THEN Thread \ Unfiled ELSE Refs[f]
Original(f) == IF Named(f) = NoFile THEN NoFile ELSE {First(t) : t \in Named(f)}
NoFiles == [f \in File |-> NoFile]

Init ==
  /\ live = [f \in File |-> Original(f)]
  /\ fresh = NoFiles
  /\ made = FALSE /\ backup = NoFiles /\ aside = {}
  /\ version = 1
  /\ mapping = [t \in Thread |-> 0]
  /\ index = {First(t) : t \in Thread \ Unindexed}
  /\ pc = "idle" /\ dry = FALSE /\ todo = {} /\ cur = Tree
  /\ attempt = 0 /\ kills = 0
-----------------------------------------------------------------------------
BeginAgain(d) ==                  \* mutant: an old backup does not stop it
  /\ pc = "idle"
  /\ version = 1
  /\ attempt < MaxAttempts /\ attempt' = attempt + 1
  /\ pc' = "build" /\ dry' = d /\ todo' = File
  /\ UNCHANGED <<files, aside, version, mapping, index, cur, kills>>

(* Refused while the backup of an earlier attempt is there.                *)
Begin(d) ==
  /\ pc = "idle"
  /\ version = 1
  /\ d \/ ~made
  /\ attempt < MaxAttempts /\ attempt' = attempt + 1
  /\ pc' = "build" /\ dry' = d /\ todo' = File
  /\ UNCHANGED <<files, aside, version, mapping, index, cur, kills>>

(* The tree comes first.                                                   *)
Due(f) == f \in todo /\ (Tree \in todo => f = Tree)

(* Integer ids are mapped, ULIDs are copied through.                       *)
Mapped(ids) == {IF IsLegacy(id) THEN <<id[1], attempt>> ELSE id : id \in ids}

(* An overlay that is not there is passed over, with the .new file an      *)
(* earlier attempt may have left; the tree is built from nothing.          *)
Rewrite(f) ==
  /\ pc = "build"
  /\ Due(f)
  /\ LET kept == IF f = Tree THEN NoFile ELSE fresh[f]
     IN  fresh' = [fresh EXCEPT ![f] = IF live[f] = NoFile THEN kept ELSE Mapped(live[f])]
  /\ todo' = todo \ {f}
  /\ UNCHANGED <<live, made, backup, aside, version, mapping, index, pc, dry, cur, attempt, kills>>

(* Every integer id the index or the truth named got a ULID.               *)
Minted == {t \in Thread \ Native : \/ First(t) \in index
                                   \/ \E f \in File : live[f] # NoFile /\ First(t) \in live[f]}

PersistIndexed ==                 \* mutant: what only the truth knew is left out
  /\ pc = "build"
  /\ todo = {}
  /\ mapping' = [t \in Thread |-> IF t \in Minted /\ First(t) \in index THEN attempt ELSE 0]
  /\ pc' = IF dry THEN "idle" ELSE "backup"
  /\ UNCHANGED <<files, aside, version, index, dry, todo, cur, attempt, kills>>
PersistMapping ==
  /\ pc = "build"
  /\ todo = {}
  /\ mapping' = [t \in Thread |-> IF t \in Minted THEN attempt ELSE 0]
  /\ pc' = IF dry THEN "idle" ELSE "backup"
  /\ UNCHANGED <<files, aside, version, index, dry, todo, cur, attempt, kills>>

MakeBackup ==
  /\ pc = "backup"
  /\ made' = TRUE
  /\ pc' = "out" /\ todo' = File
  /\ UNCHANGED <<live, fresh, backup, aside, version, mapping, index, dry, cur, attempt, kills>>

(* The old file goes to the backup ...                                     *)
SwapOut(f) ==
  /\ pc = "out"
  /\ Due(f)
  /\ live[f] # NoFile
  /\ f = Tree \/ fresh[f] # NoFile
  /\ backup' = [backup EXCEPT ![f] = live[f]]
  /\ live' = [live EXCEPT ![f] = NoFile]
  /\ pc' = "in" /\ todo' = todo \ {f} /\ cur' = f
  /\ UNCHANGED <<fresh, made, aside, version, mapping, index, dry, attempt, kills>>

(* ... and the new one takes its place.                                    *)
SwapIn ==
  /\ pc = "in"
  /\ live' = [live EXCEPT ![cur] = fresh[cur]]
  /\ fresh' = [fresh EXCEPT ![cur] = NoFile]
  /\ pc' = "out"
  /\ UNCHANGED <<made, backup, aside, version, mapping, index, dry, todo, cur, attempt, kills>>

(* An overlay without a new file stays.                                    *)
SwapNone(f) ==
  /\ pc = "out"
  /\ Due(f)
  /\ f # Tree /\ fresh[f] = NoFile
  /\ todo' = todo \ {f}
  /\ UNCHANGED <<files, aside, version, mapping, index, pc, dry, cur, attempt, kills>>

(* The rename of a file that is not there raises.                          *)
SwapFails(f) ==
  /\ pc = "out"
  /\ Due(f)
  /\ live[f] = NoFile
  /\ f = Tree \/ fresh[f] # NoFile
  /\ pc' = "idle"
  /\ UNCHANGED <<files, aside, version, mapping, index, dry, todo, cur, attempt, kills>>

FinishEarly ==                    \* mutant: the manifest before the overlays
  /\ pc = "out"
  /\ Tree \notin todo
  /\ version' = 2
  /\ pc' = IF todo = {} THEN "index" ELSE "out"
  /\ UNCHANGED <<files, aside, mapping, index, dry, todo, cur, attempt, kills>>
Finish ==
  /\ pc = "out"
  /\ todo = {}
  /\ version' = 2
  /\ pc' = "index"
  /\ UNCHANGED <<files, aside, mapping, index, dry, todo, cur, attempt, kills>>

(* A rebuild loads every file of the tree.  Unless it salvages, it is not   *)
(* published when a thread of the index is missing under its id, or when a *)
(* row names a thread that is not there.                                   *)
Loaded == IF live[Tree] = NoFile THEN {} ELSE live[Tree]
Lost == index \ Loaded
Orphans == UNION {live[f] : f \in {g \in Overlay : live[g] # NoFile}} \ Loaded

Reindex(salvage) ==
  /\ pc = "idle" \/ (pc = "index" /\ ~salvage)
  /\ index' = IF salvage \/ Lost \cup Orphans = {} THEN Loaded ELSE index
  /\ pc' = "idle"
  /\ UNCHANGED <<files, aside, version, mapping, dry, todo, cur, attempt, kills>>

Kill ==
  /\ pc # "idle"
  /\ kills < MaxKills /\ kills' = kills + 1
  /\ pc' = "idle"
  /\ UNCHANGED <<files, aside, version, mapping, index, dry, todo, cur, attempt>>

(* `preserve or move it before retrying'                                   *)
SetAside ==
  /\ pc = "idle"
  /\ made
  /\ version = 1
  /\ aside' = aside \cup {backup}
  /\ made' = FALSE /\ backup' = NoFiles
  /\ UNCHANGED <<live, fresh, version, mapping, index, pc, dry, todo, cur, attempt, kills>>
-----------------------------------------------------------------------------
Files(f) == Rewrite(f) \/ SwapOut(f) \/ SwapNone(f) \/ SwapFails(f)
Next == \/ \E b \in BOOLEAN : Begin(b) \/ Reindex(b)
        \/ \E f \in File : Files(f)
        \/ PersistMapping \/ MakeBackup \/ SwapIn \/ Finish
        \/ Kill \/ SetAside

Spec == Init /\ [][Next]_vars
-----------------------------------------------------------------------------
Content == (SUBSET Id) \cup {NoFile}

TypeOK ==
  /\ live \in [File -> Content] /\ fresh \in [File -> Content]
  /\ made \in BOOLEAN /\ backup \in [File -> Content] /\ aside \subseteq [File -> Content]
  /\ version \in {1, 2}
  /\ mapping \in [Thread -> 0 .. MaxAttempts]
  /\ index \subseteq Id
  /\ pc \in {"idle", "build", "backup", "out", "in", "index"}
  /\ dry \in BOOLEAN /\ todo \subseteq File /\ cur \in File
  /\ attempt \in 0 .. MaxAttempts /\ kills \in 0 .. MaxKills

(* "Nothing is destroyed until the operator says so" (migrate_v2.py:12):   *)
(* each file the archive had is in the truth or in a backup, however often *)
(* the migration dies and is tried again.                                  *)
NothingDestroyed ==
  \A f \in File : Original(f) = NoFile \/ live[f] = Original(f) \/ backup[f] = Original(f)
                  \/ \E b \in aside : b[f] = Original(f)

(* The inductive invariant: a run that swaps found no backup, and what it  *)
(* still has to swap has no copy there that it would overwrite.            *)
NoBackupBefore ==
  /\ pc \in {"build", "backup"} /\ ~dry => ~made
  /\ pc = "backup" => ~dry
  /\ ~made => backup = NoFiles
AtMostOneCopy ==
  /\ pc \in {"out", "in"} => made /\ \A f \in todo : backup[f] = NoFile
  /\ pc = "in" => live[cur] = NoFile
CopyInv == TypeOK /\ NothingDestroyed /\ NoBackupBefore /\ AtMostOneCopy

(* Under a manifest of version 2 no file names an integer id; every file   *)
(* names a thread by the ULID the mapping has, and no overlay names one the *)
(* tree lacks, unless it never had a file.                                 *)
Whole ==
  /\ \A f \in File : Original(f) # NoFile =>
       /\ live[f] # NoFile
       /\ \A id \in live[f] :
            /\ ~IsLegacy(id)
            /\ id[1] \notin Native => id[2] = mapping[id[1]]
            /\ id[1] \notin Unfiled => id \in live[Tree]
  /\ \A t \in Thread \ (Native \cup Unfiled) : <<t, mapping[t]>> \in live[Tree]
MigratedIsWhole == version = 2 => Whole

(* ... as long as no retry follows a swap that was interrupted.            *)
Uninterrupted == \A b \in aside : b = NoFiles
FirstSwapIsWhole == Uninterrupted => MigratedIsWhole

(* The inductive invariant of that: until a run swaps, the archive is what *)
(* it was; what the run has built, and then swapped in, is each file under *)
(* the ULIDs of this attempt, which the mapping names.                     *)
New(f) == {IF t \in Native THEN First(t) ELSE <<t, attempt>> : t \in Named(f)}
Exists(f) == Original(f) # NoFile
Built == \A f \in File \ todo : Exists(f) => fresh[f] = New(f)
Swapping ==
  \A f \in File : Exists(f) =>
    /\ f \in todo => live[f] = Original(f) /\ fresh[f] = New(f)
    /\ f \notin todo => IF pc = "in" /\ f = cur THEN fresh[f] = New(f) ELSE live[f] = New(f)
RunInv ==
  /\ pc # "idle" => attempt > 0
  /\ pc = "index" => version = 2
  /\ version = 2 => Whole /\ pc \in {"idle", "index"}
  /\ version = 1 /\ backup = NoFiles => \A f \in File : live[f] = Original(f)
  /\ pc \in {"build", "backup"} /\ ~dry => Built
  /\ pc = "backup" => todo = {}
  /\ pc \in {"backup", "out", "in"} =>
       \A f \in File : Exists(f) => \A t \in Named(f) \ Native : mapping[t] = attempt
  /\ pc \in {"out", "in"} => Swapping
  /\ pc = "in" => backup # NoFiles
MigrateInv == CopyInv /\ (Uninterrupted => RunInv)
===============================================================================
