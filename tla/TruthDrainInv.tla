---------------------------- MODULE TruthDrainInv ----------------------------
(***************************************************************************)
(* The inductive invariants of the append path: IInv, behind               *)
(* TruthCoversIndex, and DrainInv, which adds where the rows of each batch *)
(* are and which ids the index has.  The argument of IInv: what            *)
(* lies past a batch's baseline belongs to that batch alone, from the      *)
(* moment the baseline is taken until the batch is decided, because only   *)
(* the holder of the mutex appends and because a framed intent always      *)
(* describes the last batch that appended.  So a rollback, whoever runs    *)
(* it, removes lines of the batch it names and of no other; and it is only *)
(* run for a batch that is not in the index.                               *)
(***************************************************************************)
EXTENDS TruthDrain

InLock == {"recover", "rollback", "open", "framing", "append", "unwind", "undo"}

(* Past its baseline, a file holds lines of t only.                        *)
OwnTail(t, f) == \A p \in DOMAIN log[f] : p > Baseline(t, f) => log[f][p].txn = t

(* Between baseline and post-drain size, a file holds lines of t only.     *)
OwnSpan(t, f) ==
  \A p \in DOMAIN log[f] : p > Baseline(t, f) /\ p <= post[t][f] => log[f][p].txn = t

Mine(t, f) == base[t][f] # Unset /\ Baseline(t, f) <= Len(log[f]) /\ OwnTail(t, f)
Held(t, f) == Mine(t, f) /\ exists[f] /\ f \in handles[ProcOf[t]]

(* Row i of t has been appended, as a line of its own.                     *)
Placed(t, i) ==
  LET f == Batch[t][i].file
  IN \E p \in DOMAIN log[f] :
        p > Baseline(t, f) /\ log[f][p] = Rec(t, i) /\ Readable(f, p)

NoPost(t) == \A f \in File : post[t][f] = Unset

(* What holds of a session, by how far it is.                              *)
Fresh(t) == pos[t] = 0 /\ NoPost(t) /\ \A f \in File : base[t][f] = Unset
Opening(t) == /\ pos[t] = 0 /\ NoPost(t)
              /\ \A f \in FilesOf(t) : base[t][f] # Unset => Held(t, f)
Opened(t) == pos[t] = 0 /\ NoPost(t) /\ \A f \in FilesOf(t) : Held(t, f)
Appending(t) == /\ pos[t] <= Len(Batch[t]) /\ NoPost(t)
                /\ \A f \in FilesOf(t) : Held(t, f)
                /\ \A i \in 1 .. pos[t] : Placed(t, i)
                /\ intent = t /\ intentOnDisk = t
Unwinding(t) == /\ NoPost(t) /\ \A f \in FilesOf(t) : Mine(t, f)
                /\ intent = t /\ intentOnDisk = t
Settled(t) == \A f \in FilesOf(t) :
                 /\ base[t][f] # Unset
                 /\ Baseline(t, f) < post[t][f] /\ post[t][f] <= synced[f]
                 /\ OwnSpan(t, f)
Undoing(t) == \A f \in FilesOf(t) :
                 /\ base[t][f] # Unset
                 /\ Baseline(t, f) < post[t][f]
                 /\ Len(log[f]) = post[t][f] => OwnSpan(t, f)

SessionInv(t) ==
  /\ pc[t] \in {"idle", "staged"} => Fresh(t)
  /\ pc[t] \in {"recover", "rollback"} => Fresh(t) \/ Settled(t)
  /\ pc[t] = "open" => Opening(t)
  /\ pc[t] = "framing" => Opened(t)
  /\ pc[t] = "append" => Appending(t)
  /\ pc[t] = "unwind" => Unwinding(t)
  /\ pc[t] \in {"drained", "failed", "undoWait"} => Settled(t)
  /\ pc[t] = "undo" => Undoing(t)
  /\ pc[t] = "drained" => FullyLogged(t)
  /\ t \in committed => FullyLogged(t) /\ pc[t] \in {"done", "failed", "kept", "dead"}

(* The mutex is held by the session that is between its Acquire and its    *)
(* release.                                                                *)
LockInv == \A t \in Txn : pc[t] \in InLock <=> truthLock = t

Sizes == \A f \in File : /\ synced[f] <= Len(log[f])
                         /\ ~exists[f] => log[f] = <<>>

(* A torn line is the last one, and nobody holds a handle on its file.     *)
TornLast == \A f \in File : \A p \in DOMAIN log[f] :
  log[f][p].kind = "torn" => /\ p = Len(log[f])
                             /\ \A q \in Proc : f \notin handles[q]

(* A frame, durable or not, describes the last batch that appended.        *)
FrameInv(fr) == fr \in Txn =>
  /\ \A f \in FilesOf(fr) : base[fr][f] # Unset /\ OwnTail(fr, f)
  /\ pc[fr] \notin {"idle", "staged", "open", "framing"}

OwnerInv == intent \in Txn =>
              pc[intent] \in {"append", "unwind", "done", "aborted", "kept", "dead"}

RollbackInv == \A t \in Txn :
  pc[t] = "rollback" => intent \in Txn /\ intent \notin committed

IInv == /\ TypeOK
        /\ \A t \in Txn : SessionInv(t)
        /\ LockInv
        /\ Sizes
        /\ TornLast
        /\ FrameInv(intent) /\ FrameInv(intentOnDisk)
        /\ OwnerInv
        /\ RollbackInv
-----------------------------------------------------------------------------
(* What the crash properties need besides: where the rows of a batch are,  *)
(* and which ids the index has.                                            *)

(* Fresh ids are above all the index has: SQLite's write lock is held from *)
(* the flush to the COMMIT.                                                *)
Writing == {"staged", "open", "framing", "append", "unwind", "drained"}
BeforeCommit(t) == pc[t] \in Writing \/ (pc[t] \in {"recover", "rollback"} /\ ~Drained(t))
IdsInv == /\ \A id \in IndexIds : id <= highWater
          /\ \A t \in Txn : HasInserts(t) /\ BeforeCommit(t)
                               => dbLock = t /\ first[t] = highWater

(* Who is past recovery found the intent empty, and writes only its own.   *)
ResolvedInv == \A t \in Txn : /\ pc[t] \in {"open", "undo"} => intent = Empty
                              /\ pc[t] = "framing" => intent = Torn

(* The rows of a batch are past its baselines; after its drain they are    *)
(* durable lines up to the post-drain sizes.                               *)
PlacedInv ==
  \A t \in Txn, f \in File : \A p \in RowsOf(t, f) :
    /\ f \in FilesOf(t) /\ base[t][f] # Unset /\ p > Baseline(t, f)
    /\ Drained(t) => p <= post[t][f] /\ p <= synced[f] /\ log[f][p].kind # "torn"
    /\ pc[t] = "undo" => post[t][f] <= Len(log[f])
OldInv == \A f \in File : \A p \in RowsOf(NoTxn, f) : p <= synced[f] /\ log[f][p].kind # "torn"
CommittedDrained == \A t \in committed : Drained(t)

(* A batch with ids that has rows and no footprint is framed, on the disk  *)
(* too, its rows are recognised, and none of its ids can be in the index.  *)
Unresolved(t) == HasInserts(t) /\ ~Drained(t) /\ \E f \in File : RowsOf(t, f) # {}
Recognised(t, f, p) ==
  \/ log[f][p].kind = "torn"
  \/ \E i \in DOMAIN Batch[t] : Batch[t][i].file = f /\ log[f][p] = Rec(t, i)
FramedInv ==
  \A t \in Txn : Unresolved(t) =>
    /\ intent = t /\ intentOnDisk = t
    /\ pc[t] \in {"append", "unwind", "dead"}
    /\ \A f \in File : \A p \in RowsOf(t, f) : Recognised(t, f, p)
    /\ EventIds(t) \cap IndexIds = {}
    /\ pc[t] = "dead" => \A u \in Txn : HasInserts(u) => pc[u] # "drained"

DrainInv == /\ IInv
            /\ IdsInv /\ ResolvedInv /\ PlacedInv /\ OldInv /\ CommittedDrained /\ FramedInv
=============================================================================
