--------------------------- MODULE TruthDrainProofs ---------------------------
(***************************************************************************)
(* Theorems about TruthDrain, for any number of sessions, processes, files *)
(* and rows.                                                               *)
(***************************************************************************)
EXTENDS TruthDrainInv, TLAPS

-----------------------------------------------------------------------------
(* What a batch is made of.                                                *)

(* A row has a file, an order number and, if it is an event, an id.        *)
LEMMA BatchFacts ==
  ASSUME NEW t \in Txn
  PROVE  /\ Batch[t] \in Seq(Row) /\ Len(Batch[t]) \in Nat /\ Len(Batch[t]) > 0
         /\ \A i \in DOMAIN Batch[t] : Batch[t][i].file \in File /\ Batch[t][i].nth \in Nat
         /\ FilesOf(t) \subseteq File /\ FilesOf(t) # {}
         /\ DOMAIN Batch[t] = 1 .. Len(Batch[t])
<1>1. Batch[t] \in Seq(Row) /\ Batch[t] # <<>>
  BY BatchAssumption
<1>2. DOMAIN Batch[t] = 1 .. Len(Batch[t]) /\ Len(Batch[t]) \in Nat /\ Len(Batch[t]) > 0
  BY <1>1
<1>3. \A i \in DOMAIN Batch[t] : Batch[t][i] \in Row
  BY <1>1
<1>4. \A i \in DOMAIN Batch[t] : Batch[t][i].file \in File /\ Batch[t][i].nth \in Nat
  BY <1>3 DEF Row
<1>5. FilesOf(t) \subseteq File
  BY <1>4 DEF FilesOf
<1>6. FilesOf(t) # {}
  <2>1. 1 \in DOMAIN Batch[t]
    BY <1>2
  <2>2. Batch[t][1].file \in FilesOf(t)
    BY <2>1 DEF FilesOf
  <2> QED BY <2>2
<1> QED BY <1>1, <1>2, <1>4, <1>5, <1>6

LEMMA RecFacts ==
  ASSUME TypeOK, NEW t \in Txn, NEW i \in DOMAIN Batch[t]
  PROVE  /\ Rec(t, i) \in Record
         /\ Rec(t, i).txn = t
         /\ Rec(t, i).kind \in {"event", "thread"}
<1>1. Batch[t][i].nth \in Nat /\ first[t] \in Nat
  BY BatchFacts DEF TypeOK
<1> QED BY <1>1 DEF Rec, Record

(* Baseline is the size to truncate to.                                    *)
LEMMA BaselineFacts ==
  ASSUME TypeOK, NEW t \in Txn, NEW f \in File, base[t][f] # Unset
  PROVE  Baseline(t, f) \in Nat /\ (base[t][f] # Absent => Baseline(t, f) = base[t][f])
BY DEF TypeOK, Baseline, Absent, Unset

(* Nobody, and the marks of an empty or torn intent, are not sessions.     *)
LEMMA NotSessions == NoTxn \notin Txn /\ Empty \notin Txn /\ Torn \notin Txn
BY TxnAssumption DEF Empty, Torn

(* Init establishes the invariant.                                         *)
LEMMA InitIInv == ASSUME Init PROVE IInv
<1> USE FileAssumption, NotSessions
<1>1. TypeOK
  <2>1. \A f \in File : log[f] \in Seq(Record)
    <3>1. [kind |-> "thread", id |-> 0, txn |-> NoTxn] \in Record
      BY DEF Record
    <3>2. <<>> \in Seq(Record)
      OBVIOUS
    <3>3. <<[kind |-> "thread", id |-> 0, txn |-> NoTxn]>> \in Seq(Record)
      BY <3>1
    <3> QED BY <3>2, <3>3 DEF Init
  <2>2. log \in [File -> Seq(Record)]
    BY <2>1 DEF Init
  <2>3. pc \in [Txn -> PCs] /\ base \in [Txn -> [File -> Nat \cup {Absent, Unset}]]
        /\ post \in [Txn -> [File -> Nat \cup {Unset}]] /\ pos \in [Txn -> Nat]
        /\ first \in [Txn -> Nat]
    BY DEF Init, PCs, Final, Unset, Absent
  <2>4. exists \in [File -> BOOLEAN] /\ synced \in [File -> Nat]
        /\ handles \in [Proc -> SUBSET File]
    BY DEF Init
  <2> QED BY <2>2, <2>3, <2>4 DEF Init, TypeOK
<1>2. \A t \in Txn : SessionInv(t)
  BY DEF Init, SessionInv, Fresh, NoPost, Unset
<1>3. LockInv
  BY DEF Init, LockInv, InLock
<1>4. Sizes
  <2> SUFFICES ASSUME NEW f \in File
               PROVE  synced[f] <= Len(log[f]) /\ (~exists[f] => log[f] = <<>>)
    BY DEF Sizes
  <2>1. CASE f \in Preexisting
    <3> DEFINE r == [kind |-> "thread", id |-> 0, txn |-> NoTxn]
    <3>1. log[f] = <<r>> /\ synced[f] = 1 /\ exists[f] = TRUE
      BY <2>1 DEF Init
    <3> HIDE DEF r
    <3> QED BY <3>1
  <2>2. CASE f \notin Preexisting
    BY <2>2 DEF Init
  <2> QED BY <2>1, <2>2
<1>5. TornLast
  BY DEF Init, TornLast
<1>6. intent \notin Txn /\ intentOnDisk \notin Txn
  BY DEF Init
<1> QED BY <1>1, <1>2, <1>3, <1>4, <1>5, <1>6
        DEF IInv, FrameInv, OwnerInv, RollbackInv, Init
-----------------------------------------------------------------------------
(* A step that leaves the files, the baselines and the ids alone leaves    *)
(* everything the invariant says of them.                                  *)
LEMMA StaticFacts ==
  ASSUME UNCHANGED <<log, exists, synced, handles, base, post, pos>>,
         NEW t \in Txn, first'[t] = first[t]
  PROVE  /\ \A f : /\ Baseline(t, f)' = Baseline(t, f)
                   /\ OwnTail(t, f)' <=> OwnTail(t, f)
                   /\ OwnSpan(t, f)' <=> OwnSpan(t, f)
                   /\ Held(t, f)' <=> Held(t, f)
                   /\ Mine(t, f)' <=> Mine(t, f)
         /\ \A i : Placed(t, i)' <=> Placed(t, i)
         /\ (Fresh(t)' <=> Fresh(t)) /\ (Opening(t)' <=> Opening(t))
         /\ (Opened(t)' <=> Opened(t)) /\ (Settled(t)' <=> Settled(t))
         /\ (Undoing(t)' <=> Undoing(t)) /\ (FullyLogged(t)' <=> FullyLogged(t))
         /\ (NoPost(t)' <=> NoPost(t)) /\ (Drained(t)' <=> Drained(t))
<1>1. \A f : Baseline(t, f)' = Baseline(t, f)
  BY DEF Baseline
<1>2. \A f : (OwnTail(t, f)' <=> OwnTail(t, f)) /\ (OwnSpan(t, f)' <=> OwnSpan(t, f))
  BY DEF OwnTail, OwnSpan, Baseline
<1>3. \A f : (Mine(t, f)' <=> Mine(t, f)) /\ (Held(t, f)' <=> Held(t, f))
  BY <1>1, <1>2 DEF Held, Mine
<1>4. \A i : Rec(t, i)' = Rec(t, i)
  BY DEF Rec
<1>5. \A i : Placed(t, i)' <=> Placed(t, i)
  BY <1>1, <1>4 DEF Placed, Readable
<1>6. (NoPost(t)' <=> NoPost(t)) /\ (Drained(t)' <=> Drained(t))
  BY DEF NoPost, Drained
<1>7. (Fresh(t)' <=> Fresh(t)) /\ (Opening(t)' <=> Opening(t)) /\ (Opened(t)' <=> Opened(t))
  BY <1>3, <1>6 DEF Fresh, Opening, Opened
<1>8. (Settled(t)' <=> Settled(t)) /\ (Undoing(t)' <=> Undoing(t))
  BY <1>1, <1>2 DEF Settled, Undoing
<1>9. FullyLogged(t)' <=> FullyLogged(t)
  BY <1>4 DEF FullyLogged, Covered, Readable
<1> QED BY <1>1, <1>2, <1>3, <1>5, <1>6, <1>7, <1>8, <1>9

(* A settled session has a footprint, a fresh one has none.                *)
LEMMA FootprintFacts ==
  ASSUME TypeOK, NEW t \in Txn
  PROVE  /\ Fresh(t) => ~Drained(t)
         /\ Settled(t) => Drained(t)
         /\ Fresh(t) => Opening(t)
         /\ Settled(t) => Undoing(t)
<1>1. Fresh(t) => ~Drained(t) /\ Opening(t)
  BY BatchFacts DEF Fresh, Drained, Opening, NoPost
<1>2. Settled(t) => Drained(t)
  <2> SUFFICES ASSUME Settled(t) PROVE Drained(t)
    OBVIOUS
  <2>1. PICK f \in FilesOf(t) : TRUE
    BY BatchFacts
  <2>2. f \in File /\ base[t][f] # Unset /\ Baseline(t, f) < post[t][f]
    BY <2>1, BatchFacts DEF Settled
  <2>3. Baseline(t, f) \in Nat
    BY <2>2, BaselineFacts
  <2>4. post[t][f] # Unset
    BY <2>2, <2>3 DEF Unset, TypeOK
  <2> QED BY <2>2, <2>4 DEF Drained
<1>3. Settled(t) => Undoing(t)
  BY DEF Settled, Undoing
<1> QED BY <1>1, <1>2, <1>3

-----------------------------------------------------------------------------
Starting == {"idle", "staged", "open", "framing"}
Owning == {"append", "unwind", "done", "aborted", "kept", "dead"}

(* Steps that move one session and leave the files alone: what the other   *)
(* sessions rely on is untouched.                                          *)
LEMMA OthersKeep ==
  ASSUME IInv, NEW t \in Txn, NEW l,
         UNCHANGED <<log, exists, synced, handles, base, post, pos>>,
         \A u \in Txn \ {t} : first'[u] = first[u],
         pc' = [pc EXCEPT ![t] = l],
         committed' = committed \/ committed' = committed \cup {t},
         UNCHANGED <<intent, intentOnDisk>> \/ truthLock = t
  PROVE  \A u \in Txn \ {t} : SessionInv(u)'
<1> SUFFICES ASSUME NEW u \in Txn \ {t} PROVE SessionInv(u)'
  OBVIOUS
<1>1. pc'[u] = pc[u] /\ (u \in committed' <=> u \in committed)
  BY DEF IInv, TypeOK
<1>2. SessionInv(u)
  BY DEF IInv
<1>3. pc[u] \in {"append", "unwind"} => UNCHANGED <<intent, intentOnDisk>>
  BY DEF IInv, LockInv, InLock
<1>4. pc[u] = "append" /\ Appending(u) => Appending(u)'
  BY <1>3, StaticFacts DEF Appending
<1>5. pc[u] = "unwind" /\ Unwinding(u) => Unwinding(u)'
  BY <1>3, StaticFacts DEF Unwinding
<1> QED BY <1>1, <1>2, <1>4, <1>5, StaticFacts DEF SessionInv

(* A step of t that moves its counter to l, and does no more than take or  *)
(* release locks, empty the intent and commit.                             *)
LEMMA QuietStep ==
  ASSUME IInv, NEW t \in Txn, NEW l,
         UNCHANGED <<log, exists, synced, handles, base, post, pos, intentOnDisk>>,
         \A u \in Txn \ {t} : first'[u] = first[u],
         pc' = [pc EXCEPT ![t] = l],
         committed' = committed \/ (committed' = committed \cup {t} /\ intent # t),
         intent' = intent \/ (truthLock = t /\ intent' \notin Txn),
         truthLock' = IF l \in InLock THEN t
                      ELSE IF truthLock = t THEN NoTxn ELSE truthLock,
         l \in InLock => truthLock \in {t, NoTxn},
         l \in Starting => pc[t] \in Starting \/ Fresh(t),
         intent' = t => l \in Owning,
         l = "rollback" => intent' \in Txn /\ intent' \notin committed',
         TypeOK', SessionInv(t)'
  PROVE  IInv'
<1> USE NotSessions
<1>0. pc'[t] = l /\ \A u \in Txn \ {t} : pc'[u] = pc[u]
  BY DEF IInv, TypeOK
<1>1. \A u \in Txn : SessionInv(u)'
  BY OthersKeep
<1>2. Sizes' /\ TornLast'
  BY DEF IInv, Sizes, TornLast
<1>3. LockInv'
  BY <1>0 DEF IInv, LockInv
<1>4. FrameInv(intent)' /\ FrameInv(intentOnDisk)'
  <2>1. \A u \in Txn : FrameInv(u) /\ u = t => l \notin Starting
    <3> SUFFICES ASSUME FrameInv(t), l \in Starting PROVE FALSE
      OBVIOUS
    <3>1. pc[t] \notin Starting
      BY DEF FrameInv, Starting
    <3>2. PICK f \in FilesOf(t) : f \in File
      BY BatchFacts
    <3> QED BY <3>1, <3>2 DEF FrameInv, Fresh
  <2>2. \A u \in Txn : FrameInv(u) => FrameInv(u)'
    BY <1>0, <2>1 DEF FrameInv, OwnTail, Baseline, Starting
  <2> QED BY <2>2 DEF IInv, FrameInv
<1>5. OwnerInv'
  BY <1>0 DEF IInv, OwnerInv, Owning
<1>6. RollbackInv'
  <2> SUFFICES ASSUME NEW u \in Txn, pc'[u] = "rollback"
               PROVE  intent' \in Txn /\ intent' \notin committed'
    BY DEF RollbackInv
  <2>1. CASE u = t
    BY <1>0, <2>1
  <2>2. CASE u # t
    <3>1. pc[u] = "rollback" /\ truthLock = u
      BY <1>0, <2>2 DEF IInv, LockInv, InLock
    <3> QED BY <2>2, <3>1 DEF IInv, RollbackInv
  <2> QED BY <2>1, <2>2
<1> QED BY <1>1, <1>2, <1>3, <1>4, <1>5, <1>6 DEF IInv

(* A batch is rolled back by recovery only if it is not in the index.      *)
LEMMA ProbeFacts ==
  ASSUME NEW t \in Txn, Probe(t) = "no" PROVE t \notin committed
<1> SUFFICES ASSUME t \in committed PROVE FALSE
  OBVIOUS
<1>1. HasInserts(t) /\ EventIds(t) \cap IndexIds = {}
  BY DEF Probe
<1>2. PICK i : i \in EventRows(t)
  BY <1>1 DEF HasInserts
<1>3. first[t] + Batch[t][i].nth \in EventIds(t)
  BY <1>2 DEF EventIds
<1>4. first[t] + Batch[t][i].nth \in IndexIds
  BY <1>3 DEF IndexIds
<1> QED BY <1>1, <1>3, <1>4
-----------------------------------------------------------------------------
(* The steps that leave the files alone, one lemma each.                   *)

LEMMA AcquireKeeps == ASSUME IInv, NEW t \in Txn, Acquire(t) PROVE IInv'
<1> USE NotSessions DEF Acquire, Goto, fileVars, intentVars, dbVars, drainVars
<1>1. TypeOK'
  BY DEF IInv, TypeOK, PCs, Final
<1>3. SessionInv(t)'
  BY StaticFacts, FootprintFacts
     DEF IInv, TypeOK, SessionInv
<1> DEFINE l == "recover"
<1>4. pc' = [pc EXCEPT ![t] = l]
  OBVIOUS
<1>5. truthLock' = IF l \in InLock THEN t
                  ELSE IF truthLock = t THEN NoTxn ELSE truthLock
  BY DEF IInv, LockInv, InLock
<1>6. /\ l \in InLock => truthLock \in {t, NoTxn}
      /\ l \in Starting => pc[t] \in Starting \/ Fresh(t)
      /\ intent' = t => l \in Owning
      /\ l = "rollback" => intent' \in Txn /\ intent' \notin committed'
  BY FootprintFacts DEF IInv, LockInv, InLock, Starting, Owning, OwnerInv, SessionInv
<1> HIDE DEF l
<1> QED BY <1>1, <1>3, <1>4, <1>5, <1>6, QuietStep DEF IInv, LockInv, InLock, OwnerInv

LEMMA RecoverNothingKeeps == ASSUME IInv, NEW t \in Txn, RecoverNothing(t) PROVE IInv'
<1> USE NotSessions DEF RecoverNothing, Goto, fileVars, intentVars, dbVars, drainVars
<1>1. TypeOK'
  BY FootprintFacts DEF IInv, TypeOK, PCs, Final, AfterRecovery
<1>3. SessionInv(t)'
  BY StaticFacts, FootprintFacts
     DEF IInv, TypeOK, SessionInv, AfterRecovery
<1> DEFINE l == AfterRecovery(t)
<1>4. pc' = [pc EXCEPT ![t] = l]
  OBVIOUS
<1>5. truthLock' = IF l \in InLock THEN t
                  ELSE IF truthLock = t THEN NoTxn ELSE truthLock
  BY DEF IInv, LockInv, InLock, AfterRecovery
<1>6. /\ l \in InLock => truthLock \in {t, NoTxn}
      /\ l \in Starting => pc[t] \in Starting \/ Fresh(t)
      /\ intent' = t => l \in Owning
      /\ l = "rollback" => intent' \in Txn /\ intent' \notin committed'
  BY FootprintFacts DEF IInv, LockInv, InLock, Starting, Owning, OwnerInv, SessionInv, AfterRecovery
<1> HIDE DEF l
<1> QED BY <1>1, <1>3, <1>4, <1>5, <1>6, QuietStep DEF IInv, LockInv, InLock, OwnerInv

LEMMA RecoverKeepKeeps == ASSUME IInv, NEW t \in Txn, RecoverKeep(t) PROVE IInv'
<1> USE NotSessions DEF RecoverKeep, Goto, fileVars, intentVars, dbVars, drainVars
<1>1. TypeOK'
  BY FootprintFacts DEF IInv, TypeOK, PCs, Final, AfterRecovery
<1>3. SessionInv(t)'
  BY StaticFacts, FootprintFacts
     DEF IInv, TypeOK, SessionInv, AfterRecovery
<1> DEFINE l == AfterRecovery(t)
<1>4. pc' = [pc EXCEPT ![t] = l]
  OBVIOUS
<1>5. truthLock' = IF l \in InLock THEN t
                  ELSE IF truthLock = t THEN NoTxn ELSE truthLock
  BY DEF IInv, LockInv, InLock, AfterRecovery
<1>6. /\ l \in InLock => truthLock \in {t, NoTxn}
      /\ l \in Starting => pc[t] \in Starting \/ Fresh(t)
      /\ intent' = t => l \in Owning
      /\ l = "rollback" => intent' \in Txn /\ intent' \notin committed'
  BY FootprintFacts DEF IInv, LockInv, InLock, Starting, Owning, OwnerInv, SessionInv, AfterRecovery
<1> HIDE DEF l
<1> QED BY <1>1, <1>3, <1>4, <1>5, <1>6, QuietStep DEF IInv, LockInv, InLock, OwnerInv

LEMMA RecoverUncommittedKeeps == ASSUME IInv, NEW t \in Txn, RecoverUncommitted(t) PROVE IInv'
<1> USE NotSessions DEF RecoverUncommitted, Goto, fileVars, intentVars, dbVars, drainVars
<1>1. TypeOK'
  BY DEF IInv, TypeOK, PCs, Final
<1>3. SessionInv(t)'
  BY StaticFacts, FootprintFacts
     DEF IInv, TypeOK, SessionInv
<1> DEFINE l == "rollback"
<1>4. pc' = [pc EXCEPT ![t] = l]
  OBVIOUS
<1>5. truthLock' = IF l \in InLock THEN t
                  ELSE IF truthLock = t THEN NoTxn ELSE truthLock
  BY DEF IInv, LockInv, InLock
<1>6. /\ l \in InLock => truthLock \in {t, NoTxn}
      /\ l \in Starting => pc[t] \in Starting \/ Fresh(t)
      /\ intent' = t => l \in Owning
      /\ l = "rollback" => intent' \in Txn /\ intent' \notin committed'
  BY FootprintFacts, ProbeFacts DEF IInv, LockInv, InLock, Starting, Owning, OwnerInv, SessionInv
<1> HIDE DEF l
<1> QED BY <1>1, <1>3, <1>4, <1>5, <1>6, QuietStep DEF IInv, LockInv, InLock, OwnerInv

LEMMA RecoverDoneKeeps == ASSUME IInv, NEW t \in Txn, RecoverDone(t) PROVE IInv'
<1> USE NotSessions DEF RecoverDone, Goto, fileVars, intentVars, dbVars, drainVars
<1>1. TypeOK'
  BY FootprintFacts DEF IInv, TypeOK, PCs, Final, AfterRecovery
<1>3. SessionInv(t)'
  BY StaticFacts, FootprintFacts
     DEF IInv, TypeOK, SessionInv, AfterRecovery
<1> DEFINE l == AfterRecovery(t)
<1>4. pc' = [pc EXCEPT ![t] = l]
  OBVIOUS
<1>5. truthLock' = IF l \in InLock THEN t
                  ELSE IF truthLock = t THEN NoTxn ELSE truthLock
  BY DEF IInv, LockInv, InLock, AfterRecovery
<1>6. /\ l \in InLock => truthLock \in {t, NoTxn}
      /\ l \in Starting => pc[t] \in Starting \/ Fresh(t)
      /\ intent' = t => l \in Owning
      /\ l = "rollback" => intent' \in Txn /\ intent' \notin committed'
  BY FootprintFacts DEF IInv, LockInv, InLock, Starting, Owning, OwnerInv, SessionInv, AfterRecovery
<1> HIDE DEF l
<1> QED BY <1>1, <1>3, <1>4, <1>5, <1>6, QuietStep DEF IInv, LockInv, InLock, OwnerInv

LEMMA FrameFailsKeeps == ASSUME IInv, NEW t \in Txn, FrameFails(t) PROVE IInv'
<1> USE NotSessions DEF FrameFails, Goto, fileVars, intentVars, dbVars, drainVars
<1>1. TypeOK'
  BY DEF IInv, TypeOK, PCs, Final, ReleaseLocks
<1>3. SessionInv(t)'
  BY StaticFacts, FootprintFacts
     DEF IInv, TypeOK, SessionInv
<1> DEFINE l == "aborted"
<1>4. pc' = [pc EXCEPT ![t] = l]
  OBVIOUS
<1>5. truthLock' = IF l \in InLock THEN t
                  ELSE IF truthLock = t THEN NoTxn ELSE truthLock
  BY DEF IInv, LockInv, InLock, ReleaseLocks
<1>6. /\ l \in InLock => truthLock \in {t, NoTxn}
      /\ l \in Starting => pc[t] \in Starting \/ Fresh(t)
      /\ intent' = t => l \in Owning
      /\ l = "rollback" => intent' \in Txn /\ intent' \notin committed'
  BY FootprintFacts DEF IInv, LockInv, InLock, Starting, Owning, OwnerInv, SessionInv
<1> HIDE DEF l
<1> QED BY <1>1, <1>3, <1>4, <1>5, <1>6, QuietStep DEF IInv, LockInv, InLock, OwnerInv

LEMMA AppendFailsKeeps == ASSUME IInv, NEW t \in Txn, AppendFails(t) PROVE IInv'
<1> USE NotSessions DEF AppendFails, Goto, fileVars, intentVars, dbVars, drainVars
<1>1. TypeOK'
  BY DEF IInv, TypeOK, PCs, Final
<1>2. pc[t] = "append" /\ Appending(t) => Unwinding(t)
  BY DEF Appending, Unwinding, Held
<1>2a. Unwinding(t) => Unwinding(t)'
  BY StaticFacts DEF Unwinding
<1>3. SessionInv(t)'
  BY StaticFacts, FootprintFacts, <1>2, <1>2a
     DEF IInv, TypeOK, SessionInv
<1> DEFINE l == "unwind"
<1>4. pc' = [pc EXCEPT ![t] = l]
  OBVIOUS
<1>5. truthLock' = IF l \in InLock THEN t
                  ELSE IF truthLock = t THEN NoTxn ELSE truthLock
  BY DEF IInv, LockInv, InLock
<1>6. /\ l \in InLock => truthLock \in {t, NoTxn}
      /\ l \in Starting => pc[t] \in Starting \/ Fresh(t)
      /\ intent' = t => l \in Owning
      /\ l = "rollback" => intent' \in Txn /\ intent' \notin committed'
  BY FootprintFacts DEF IInv, LockInv, InLock, Starting, Owning, OwnerInv, SessionInv
<1> HIDE DEF l
<1> QED BY <1>1, <1>3, <1>4, <1>5, <1>6, QuietStep DEF IInv, LockInv, InLock, OwnerInv

LEMMA UnwindDoneKeeps == ASSUME IInv, NEW t \in Txn, UnwindDone(t) PROVE IInv'
<1> USE NotSessions DEF UnwindDone, Goto, fileVars, intentVars, dbVars, drainVars
<1>1. TypeOK'
  BY DEF IInv, TypeOK, PCs, Final, ReleaseLocks
<1>3. SessionInv(t)'
  BY StaticFacts, FootprintFacts
     DEF IInv, TypeOK, SessionInv
<1> DEFINE l == "aborted"
<1>4. pc' = [pc EXCEPT ![t] = l]
  OBVIOUS
<1>5. truthLock' = IF l \in InLock THEN t
                  ELSE IF truthLock = t THEN NoTxn ELSE truthLock
  BY DEF IInv, LockInv, InLock, ReleaseLocks
<1>6. /\ l \in InLock => truthLock \in {t, NoTxn}
      /\ l \in Starting => pc[t] \in Starting \/ Fresh(t)
      /\ intent' = t => l \in Owning
      /\ l = "rollback" => intent' \in Txn /\ intent' \notin committed'
  BY FootprintFacts DEF IInv, LockInv, InLock, Starting, Owning, OwnerInv, SessionInv
<1> HIDE DEF l
<1> QED BY <1>1, <1>3, <1>4, <1>5, <1>6, QuietStep DEF IInv, LockInv, InLock, OwnerInv

LEMMA UndoKeepKeeps == ASSUME IInv, NEW t \in Txn, UndoKeep(t) PROVE IInv'
<1> USE NotSessions DEF UndoKeep, Goto, fileVars, intentVars, dbVars, drainVars
<1>1. TypeOK'
  BY DEF IInv, TypeOK, PCs, Final
<1>3. SessionInv(t)'
  BY StaticFacts, FootprintFacts
     DEF IInv, TypeOK, SessionInv
<1> DEFINE l == "kept"
<1>4. pc' = [pc EXCEPT ![t] = l]
  OBVIOUS
<1>5. truthLock' = IF l \in InLock THEN t
                  ELSE IF truthLock = t THEN NoTxn ELSE truthLock
  BY DEF IInv, LockInv, InLock
<1>6. /\ l \in InLock => truthLock \in {t, NoTxn}
      /\ l \in Starting => pc[t] \in Starting \/ Fresh(t)
      /\ intent' = t => l \in Owning
      /\ l = "rollback" => intent' \in Txn /\ intent' \notin committed'
  BY FootprintFacts DEF IInv, LockInv, InLock, Starting, Owning, OwnerInv, SessionInv
<1> HIDE DEF l
<1> QED BY <1>1, <1>3, <1>4, <1>5, <1>6, QuietStep DEF IInv, LockInv, InLock, OwnerInv

LEMMA UndoNeededKeeps == ASSUME IInv, NEW t \in Txn, UndoNeeded(t) PROVE IInv'
<1> USE NotSessions DEF UndoNeeded, Goto, fileVars, intentVars, dbVars, drainVars
<1>1. TypeOK'
  BY DEF IInv, TypeOK, PCs, Final
<1>3. SessionInv(t)'
  BY StaticFacts, FootprintFacts, ProbeFacts
     DEF IInv, TypeOK, SessionInv
<1> DEFINE l == "undoWait"
<1>4. pc' = [pc EXCEPT ![t] = l]
  OBVIOUS
<1>5. truthLock' = IF l \in InLock THEN t
                  ELSE IF truthLock = t THEN NoTxn ELSE truthLock
  BY DEF IInv, LockInv, InLock
<1>6. /\ l \in InLock => truthLock \in {t, NoTxn}
      /\ l \in Starting => pc[t] \in Starting \/ Fresh(t)
      /\ intent' = t => l \in Owning
      /\ l = "rollback" => intent' \in Txn /\ intent' \notin committed'
  BY FootprintFacts DEF IInv, LockInv, InLock, Starting, Owning, OwnerInv, SessionInv
<1> HIDE DEF l
<1> QED BY <1>1, <1>3, <1>4, <1>5, <1>6, QuietStep DEF IInv, LockInv, InLock, OwnerInv

LEMMA UndoDoneKeeps == ASSUME IInv, NEW t \in Txn, UndoDone(t) PROVE IInv'
<1> USE NotSessions DEF UndoDone, Goto, fileVars, intentVars, dbVars, drainVars
<1>1. TypeOK'
  BY DEF IInv, TypeOK, PCs, Final, ReleaseLocks
<1>3. SessionInv(t)'
  BY StaticFacts, FootprintFacts
     DEF IInv, TypeOK, SessionInv
<1> DEFINE l == "aborted"
<1>4. pc' = [pc EXCEPT ![t] = l]
  OBVIOUS
<1>5. truthLock' = IF l \in InLock THEN t
                  ELSE IF truthLock = t THEN NoTxn ELSE truthLock
  BY DEF IInv, LockInv, InLock, ReleaseLocks
<1>6. /\ l \in InLock => truthLock \in {t, NoTxn}
      /\ l \in Starting => pc[t] \in Starting \/ Fresh(t)
      /\ intent' = t => l \in Owning
      /\ l = "rollback" => intent' \in Txn /\ intent' \notin committed'
  BY FootprintFacts DEF IInv, LockInv, InLock, Starting, Owning, OwnerInv, SessionInv
<1> HIDE DEF l
<1> QED BY <1>1, <1>3, <1>4, <1>5, <1>6, QuietStep DEF IInv, LockInv, InLock, OwnerInv

LEMMA WriteIntentKeeps == ASSUME IInv, NEW t \in Txn, WriteIntent(t) PROVE IInv'
<1> USE NotSessions DEF WriteIntent, Goto, fileVars, intentVars, dbVars, drainVars
<1>1. TypeOK'
  BY DEF IInv, TypeOK, PCs, Final
<1>2. pc[t] = "open" /\ Opening(t) /\ (\A f \in FilesOf(t) : base[t][f] # Unset) => Opened(t)
  BY DEF Opening, Opened
<1>3. SessionInv(t)'
  BY StaticFacts, FootprintFacts, <1>2
     DEF IInv, TypeOK, SessionInv
<1> DEFINE l == "framing"
<1>4. pc' = [pc EXCEPT ![t] = l]
  OBVIOUS
<1>5. truthLock' = IF l \in InLock THEN t
                  ELSE IF truthLock = t THEN NoTxn ELSE truthLock
  BY DEF IInv, LockInv, InLock
<1>6. /\ l \in InLock => truthLock \in {t, NoTxn}
      /\ l \in Starting => pc[t] \in Starting \/ Fresh(t)
      /\ intent' = t => l \in Owning
      /\ l = "rollback" => intent' \in Txn /\ intent' \notin committed'
  BY FootprintFacts DEF IInv, LockInv, InLock, Starting, Owning, OwnerInv, SessionInv
<1> HIDE DEF l
<1> QED BY <1>1, <1>3, <1>4, <1>5, <1>6, QuietStep DEF IInv, LockInv, InLock, OwnerInv

LEMMA StageKeeps == ASSUME IInv, NEW t \in Txn, Stage(t) PROVE IInv'
<1> USE NotSessions DEF Stage, Goto, fileVars, intentVars, dbVars, drainVars
<1>1. TypeOK'
  <2>1. first' \in [Txn -> Nat] /\ dbLock' \in Txn \cup {NoTxn}
    <3>0. first \in [Txn -> Nat] /\ highWater \in Nat
      BY DEF IInv, TypeOK
    <3>1. CASE HasInserts(t)
      <4>1. first' = [first EXCEPT ![t] = highWater] /\ dbLock' = t
        BY <3>1
      <4> QED BY <3>0, <4>1
    <3>2. CASE ~HasInserts(t)
      BY <3>2 DEF IInv, TypeOK
    <3> QED BY <3>1, <3>2
  <2>2. pc' \in [Txn -> PCs]
    BY DEF IInv, TypeOK, PCs
  <2> QED BY <2>1, <2>2 DEF IInv, TypeOK
<1>2. pc' = [pc EXCEPT ![t] = "staged"] /\ \A u \in Txn \ {t} : first'[u] = first[u]
  BY DEF IInv, TypeOK
<1>3. SessionInv(t)'
  <2>1. pc'[t] = "staged" /\ Fresh(t) /\ t \notin committed
    BY <1>2 DEF IInv, TypeOK, SessionInv
  <2>2. Fresh(t)'
    BY <2>1 DEF Fresh, NoPost
  <2> QED BY <2>1, <2>2 DEF SessionInv
<1>4. intent # t /\ truthLock # t
  BY DEF IInv, OwnerInv, LockInv, InLock
<1>5. /\ truthLock' = IF "staged" \in InLock THEN t
                      ELSE IF truthLock = t THEN NoTxn ELSE truthLock
      /\ "staged" \notin InLock
  BY <1>4 DEF InLock
<1> QED BY <1>1, <1>2, <1>3, <1>4, <1>5, QuietStep DEF Starting

(* The new high water is one of the ids of the batch.                      *)
LEMMA LandFacts ==
  ASSUME TypeOK, NEW t \in Txn, Land(t)
  PROVE  committed' = committed \cup {t} /\ highWater' \in Nat
<1>1. \A i \in EventRows(t) : first[t] + Batch[t][i].nth \in Nat
  <2>1. first[t] \in Nat
    BY DEF TypeOK
  <2>2. \A i \in EventRows(t) : Batch[t][i].nth \in Nat
    BY BatchFacts DEF EventRows
  <2> QED BY <2>1, <2>2
<1>2. EventIds(t) \subseteq Nat
  BY <1>1 DEF EventIds
<1> QED BY <1>2 DEF Land, TypeOK

LEMMA CommitKeeps == ASSUME IInv, NEW t \in Txn, Commit(t) PROVE IInv'
<1> USE NotSessions DEF Commit, CanCommit, Goto, fileVars, intentVars, drainVars
<1>0. pc[t] = "drained" /\ Settled(t) /\ FullyLogged(t) /\ truthLock # t /\ intent # t
  BY DEF IInv, SessionInv, LockInv, InLock, OwnerInv
<1>1. TypeOK'
  BY LandFacts DEF IInv, TypeOK, PCs, Final
<1>2. pc'[t] = "done"
  BY DEF IInv, TypeOK
<1>3. SessionInv(t)'
  BY <1>0, <1>2, StaticFacts DEF SessionInv
<1>4. committed' = committed \cup {t}
  BY LandFacts DEF IInv
<1>5. "done" \notin InLock /\ "done" \notin Starting /\ "done" \in Owning
  BY DEF InLock, Starting, Owning
<1> QED BY <1>0, <1>1, <1>3, <1>4, <1>5, QuietStep

LEMMA CommitRaisesKeeps == ASSUME IInv, NEW t \in Txn, CommitRaises(t) PROVE IInv'
<1> USE NotSessions DEF CommitRaises, CanCommit, Goto, fileVars, intentVars, drainVars
<1>0. pc[t] = "drained" /\ Settled(t) /\ FullyLogged(t) /\ truthLock # t /\ intent # t
  BY DEF IInv, SessionInv, LockInv, InLock, OwnerInv
<1>1. TypeOK'
  BY LandFacts DEF IInv, TypeOK, PCs, Final
<1>2. pc'[t] = "failed"
  BY DEF IInv, TypeOK
<1>3. SessionInv(t)'
  BY <1>0, <1>2, StaticFacts DEF SessionInv
<1>4. committed' = committed \/ committed' = committed \cup {t}
  BY LandFacts DEF IInv
<1>5. "failed" \notin InLock /\ "failed" \notin Starting /\ "failed" # "rollback"
  BY DEF InLock, Starting
<1> QED BY <1>0, <1>1, <1>3, <1>4, <1>5, QuietStep
-----------------------------------------------------------------------------
(* Sequences: truncation and append.                                       *)
LEMMA TruncateFacts ==
  ASSUME NEW S, NEW s \in Seq(S), NEW n \in 0 .. Len(s)
  PROVE  /\ SubSeq(s, 1, n) \in Seq(S) /\ Len(SubSeq(s, 1, n)) = n
         /\ DOMAIN SubSeq(s, 1, n) = 1 .. n
         /\ \A i \in 1 .. n : SubSeq(s, 1, n)[i] = s[i]
OBVIOUS

LEMMA AppendFacts ==
  ASSUME NEW S, NEW s \in Seq(S), NEW e \in S
  PROVE  /\ Append(s, e) \in Seq(S) /\ Len(Append(s, e)) = Len(s) + 1
         /\ DOMAIN Append(s, e) = 1 .. Len(s) + 1
         /\ \A i \in 1 .. Len(s) : Append(s, e)[i] = s[i]
         /\ Append(s, e)[Len(s) + 1] = e
OBVIOUS

LEMMA LogFacts ==
  ASSUME TypeOK, NEW f \in File
  PROVE  log[f] \in Seq(Record) /\ Len(log[f]) \in Nat /\ DOMAIN log[f] = 1 .. Len(log[f])
<1>1. log[f] \in Seq(Record)
  BY DEF TypeOK
<1> QED BY <1>1

(* Only the session that holds the mutex is between Acquire and release.   *)
LEMMA OneHolder ==
  ASSUME IInv, NEW t \in Txn, pc[t] \in InLock
  PROVE  truthLock = t /\ \A u \in Txn \ {t} : pc[u] \notin InLock
BY DEF IInv, LockInv

(* What a session outside the mutex relies on, when the holder takes a step. *)
LEMMA OutsideKeep ==
  ASSUME IInv, NEW t \in Txn, pc[t] \in InLock, NEW u \in Txn \ {t},
         pc'[u] = pc[u], UNCHANGED <<committed, first>>,
         base'[u] = base[u], post'[u] = post[u], pos'[u] = pos[u],
         pc[u] \in {"drained", "failed", "undoWait"} /\ Settled(u) => Settled(u)',
         (pc[u] = "drained" \/ u \in committed) /\ FullyLogged(u) => FullyLogged(u)'
  PROVE  SessionInv(u)'
<1>1. pc[u] \notin InLock
  BY OneHolder
<1>2. Fresh(u) => Fresh(u)'
  BY DEF Fresh, NoPost
<1>3. SessionInv(u)
  BY DEF IInv
<1> QED BY <1>1, <1>2, <1>3 DEF SessionInv, InLock

(* A step of the holder that lengthens files, or terminates a torn line.   *)
Grows ==
  \A g \in File :
     /\ synced[g] <= synced'[g]
     /\ \A p \in DOMAIN log[g] :
           /\ p \in DOMAIN log'[g]
           /\ log'[g][p].txn = log[g][p].txn
           /\ log[g][p].kind # "torn" => log'[g][p] = log[g][p]

LEMMA GrowthKeeps ==
  ASSUME IInv, Grows, TypeOK', NEW u \in Txn,
         UNCHANGED <<committed, first>>, base'[u] = base[u], post'[u] = post[u]
  PROVE  /\ Settled(u) => Settled(u)'
         /\ FullyLogged(u) => FullyLogged(u)'
<1>0. TypeOK /\ Sizes
  BY DEF IInv
<1>1. ASSUME Settled(u) PROVE Settled(u)'
  <2> SUFFICES ASSUME NEW f \in FilesOf(u)
               PROVE  /\ base[u][f] # Unset
                      /\ Baseline(u, f)' < post[u][f] /\ post[u][f] <= synced'[f]
                      /\ OwnSpan(u, f)'
    BY DEF Settled
  <2>1. f \in File
    BY BatchFacts
  <2>2. /\ base[u][f] # Unset /\ Baseline(u, f) < post[u][f]
        /\ post[u][f] <= synced[f] /\ OwnSpan(u, f)
    BY <1>1 DEF Settled
  <2>3. Baseline(u, f)' = Baseline(u, f) /\ Baseline(u, f) \in Nat
    BY <1>0, <2>1, <2>2, BaselineFacts DEF Baseline
  <2>4. post[u][f] \in Nat /\ synced[f] \in Nat /\ synced'[f] \in Nat
    BY <1>0, <2>1, <2>2, <2>3 DEF TypeOK, Unset
  <2>5. post[u][f] <= synced'[f]
    BY <2>1, <2>2, <2>4 DEF Grows
  <2>6. Len(log[f]) \in Nat /\ DOMAIN log[f] = 1 .. Len(log[f])
    BY <1>0, <2>1, LogFacts
  <2>6a. log'[f] \in Seq(Record)
    BY <2>1 DEF TypeOK
  <2>6b. DOMAIN log'[f] = 1 .. Len(log'[f]) /\ Len(log'[f]) \in Nat
    BY <2>6a
  <2>7. post[u][f] <= Len(log[f])
    BY <1>0, <2>1, <2>2, <2>4, <2>6 DEF Sizes
  <2>8. OwnSpan(u, f)'
    <3> SUFFICES ASSUME NEW p \in DOMAIN log'[f],
                        p > Baseline(u, f)', p <= post'[u][f]
                 PROVE  log'[f][p].txn = u
      BY DEF OwnSpan
    <3>1. p \in DOMAIN log[f] /\ p > Baseline(u, f) /\ p <= post[u][f]
      BY <2>3, <2>4, <2>6, <2>6b, <2>7
    <3>2. log[f][p].txn = u
      BY <2>2, <3>1 DEF OwnSpan
    <3> QED BY <2>1, <3>1, <3>2 DEF Grows
  <2> QED BY <2>2, <2>3, <2>5, <2>8
<1>2. ASSUME FullyLogged(u) PROVE FullyLogged(u)'
  <2> SUFFICES ASSUME NEW i \in DOMAIN Batch[u] PROVE Covered(u, i)'
    BY DEF FullyLogged
  <2> DEFINE f == Batch[u][i].file
  <2>1. f \in File
    BY BatchFacts
  <2>2. Covered(u, i)
    BY <1>2 DEF FullyLogged
  <2>3. PICK p \in 1 .. synced[f] : log[f][p] = Rec(u, i) /\ Readable(f, p)
    BY <2>2 DEF Covered
  <2>4. synced[f] \in Nat /\ synced'[f] \in Nat /\ synced[f] <= synced'[f]
        /\ synced[f] <= Len(log[f])
    BY <1>0, <2>1 DEF TypeOK, Grows, Sizes
  <2>5. Len(log[f]) \in Nat /\ DOMAIN log[f] = 1 .. Len(log[f])
    BY <1>0, <2>1, LogFacts
  <2>6. p \in 1 .. synced'[f] /\ p \in DOMAIN log[f]
    BY <2>3, <2>4, <2>5
  <2>7. log'[f][p] = log[f][p]
    BY <2>1, <2>3, <2>6 DEF Grows, Readable
  <2>8. p > 1 => log'[f][p - 1] = log[f][p - 1]
    <3>1. p > 1 => p - 1 \in DOMAIN log[f]
      BY <2>5, <2>6
    <3> QED BY <2>1, <2>3, <3>1 DEF Grows, Readable
  <2>9. Rec(u, i)' = Rec(u, i)
    BY DEF Rec
  <2>10. Readable(f, p)'
    BY <2>3, <2>7, <2>8 DEF Readable
  <2>11. f' = f
    OBVIOUS
  <2> HIDE DEF f
  <2>12. \E q \in 1 .. synced'[f] : log'[f][q] = Rec(u, i)' /\ Readable(f, q)'
    BY <2>3, <2>6, <2>7, <2>9, <2>10
  <2> QED BY <2>12 DEF Covered, f
<1> QED BY <1>1, <1>2
-----------------------------------------------------------------------------
(* Rolling one file of batch o back cuts lines of o and of nobody else.    *)
Rolls(o, f) ==
  /\ base[o][f] # Unset
  /\ base[o][f] = Absent \/ Baseline(o, f) < Len(log[f])
  /\ OwnTail(o, f)
  /\ UNCHANGED <<pc, intent, intentOnDisk, truthLock, dbLock, committed,
                 highWater, first, base, post, pos>>

LEMMA RollFacts ==
  ASSUME IInv, NEW t \in Txn, NEW o \in Txn, NEW f \in File,
         Rolls(o, f), RollbackFile(ProcOf[t], o, f)
  PROVE  /\ TypeOK'
         /\ Baseline(o, f) \in 0 .. Len(log[f])
         /\ Len(log'[f]) = Baseline(o, f) /\ DOMAIN log'[f] = 1 .. Baseline(o, f)
         /\ synced'[f] = Baseline(o, f)
         /\ exists'[f] = (base[o][f] # Absent)
         /\ \A p \in 1 .. Baseline(o, f) : log'[f][p] = log[f][p]
         /\ \A g \in File \ {f} : /\ log'[g] = log[g] /\ synced'[g] = synced[g]
                                  /\ exists'[g] = exists[g]
         /\ \A q \in Proc : handles'[q] \subseteq handles[q]
<1>0. TypeOK
  BY DEF IInv
<1>1. log[f] \in Seq(Record) /\ Len(log[f]) \in Nat
  BY <1>0, LogFacts
<1>2. Baseline(o, f) \in 0 .. Len(log[f])
  <2>1. Baseline(o, f) \in Nat
    BY <1>0, BaselineFacts DEF Rolls
  <2>2. base[o][f] = Absent => Baseline(o, f) = 0
    BY DEF Baseline
  <2> QED BY <1>1, <2>1, <2>2 DEF Rolls
<1> DEFINE cut == SubSeq(log[f], 1, Baseline(o, f))
<1>3. /\ cut \in Seq(Record) /\ Len(cut) = Baseline(o, f)
      /\ DOMAIN cut = 1 .. Baseline(o, f)
      /\ \A p \in 1 .. Baseline(o, f) : cut[p] = log[f][p]
  BY <1>1, <1>2, TruncateFacts
<1>4. log' = [log EXCEPT ![f] = cut]
  BY DEF RollbackFile
<1> HIDE DEF cut
<1>5. log'[f] = cut /\ \A g \in File \ {f} : log'[g] = log[g]
  BY <1>0, <1>4 DEF TypeOK
<1>6. log' \in [File -> Seq(Record)]
  BY <1>0, <1>3, <1>4 DEF TypeOK
<1>7. /\ synced' \in [File -> Nat] /\ synced'[f] = Baseline(o, f)
      /\ \A g \in File \ {f} : synced'[g] = synced[g]
  BY <1>0, <1>2 DEF TypeOK, RollbackFile
<1>8. /\ exists' \in [File -> BOOLEAN] /\ exists'[f] = (base[o][f] # Absent)
      /\ \A g \in File \ {f} : exists'[g] = exists[g]
  BY <1>0 DEF TypeOK, RollbackFile
<1>9. handles' \in [Proc -> SUBSET File] /\ \A q \in Proc : handles'[q] \subseteq handles[q]
  BY <1>0 DEF TypeOK, RollbackFile
<1>10. TypeOK'
  BY <1>0, <1>6, <1>7, <1>8, <1>9 DEF TypeOK, Rolls
<1> QED BY <1>2, <1>3, <1>5, <1>7, <1>8, <1>9, <1>10

(* The lines of a settled or logged session other than o survive.          *)
LEMMA RollOthers ==
  ASSUME IInv, NEW t \in Txn, NEW o \in Txn, NEW f \in File,
         Rolls(o, f), RollbackFile(ProcOf[t], o, f), NEW u \in Txn \ {o}
  PROVE  /\ Settled(u) => Settled(u)'
         /\ FullyLogged(u) => FullyLogged(u)'
<1>0. TypeOK /\ Sizes
  BY DEF IInv
<1>1. ASSUME Settled(u) PROVE Settled(u)'
  <2> SUFFICES ASSUME NEW g \in FilesOf(u)
               PROVE  /\ base'[u][g] # Unset
                      /\ Baseline(u, g)' < post'[u][g] /\ post'[u][g] <= synced'[g]
                      /\ OwnSpan(u, g)'
    BY DEF Settled
  <2>1. g \in File
    BY BatchFacts
  <2>2. /\ base[u][g] # Unset /\ Baseline(u, g) < post[u][g]
        /\ post[u][g] <= synced[g] /\ OwnSpan(u, g)
    BY <1>1 DEF Settled
  <2>3. Baseline(u, g)' = Baseline(u, g) /\ base'[u][g] = base[u][g] /\ post'[u][g] = post[u][g]
    BY DEF Baseline, Rolls
  <2>4. CASE g # f
    <3>1. log'[g] = log[g] /\ synced'[g] = synced[g]
      BY <2>1, <2>4, RollFacts
    <3>2. OwnSpan(u, g)'
      BY <2>2, <2>3, <3>1 DEF OwnSpan
    <3> QED BY <2>2, <2>3, <3>1, <3>2
  <2>5. CASE g = f
    <3>1. Baseline(u, f) \in Nat
      BY <1>0, <2>2, <2>5, BaselineFacts
    <3>2. post[u][f] \in Nat /\ synced[f] \in Nat
      BY <1>0, <2>2, <2>5, <3>1 DEF TypeOK, Unset
    <3>3. Len(log[f]) \in Nat /\ DOMAIN log[f] = 1 .. Len(log[f])
      BY <1>0, LogFacts
    <3>4. post[u][f] \in DOMAIN log[f]
      BY <1>0, <2>2, <2>5, <3>1, <3>2, <3>3 DEF Sizes
    <3>5. log[f][post[u][f]].txn = u
      BY <2>2, <2>5, <3>2, <3>4 DEF OwnSpan
    <3>6. post[u][f] <= Baseline(o, f)
      <4>1. ~(post[u][f] > Baseline(o, f))
        BY <3>4, <3>5 DEF Rolls, OwnTail
      <4> QED BY <4>1, <3>2, RollFacts
    <3>7. OwnSpan(u, f)'
      <4> SUFFICES ASSUME NEW p \in DOMAIN log'[f],
                          p > Baseline(u, f)', p <= post'[u][f]
                   PROVE  log'[f][p].txn = u
        BY DEF OwnSpan
      <4>1. p \in 1 .. Baseline(o, f) /\ p \in DOMAIN log[f] /\ log'[f][p] = log[f][p]
        BY <3>3, RollFacts
      <4> QED BY <2>2, <2>3, <2>5, <4>1 DEF OwnSpan
    <3>8. synced'[f] = Baseline(o, f)
      BY RollFacts
    <3> QED BY <2>2, <2>3, <2>5, <3>6, <3>7, <3>8
  <2> QED BY <2>4, <2>5
<1>2. ASSUME FullyLogged(u) PROVE FullyLogged(u)'
  <2> SUFFICES ASSUME NEW i \in DOMAIN Batch[u] PROVE Covered(u, i)'
    BY DEF FullyLogged
  <2> DEFINE g == Batch[u][i].file
  <2>1. g \in File /\ g' = g
    BY BatchFacts
  <2>2. Covered(u, i)
    BY <1>2 DEF FullyLogged
  <2>3. PICK p \in 1 .. synced[g] : log[g][p] = Rec(u, i) /\ Readable(g, p)
    BY <2>2 DEF Covered
  <2>4. Rec(u, i)' = Rec(u, i) /\ Rec(u, i).txn = u
    BY <1>0, RecFacts DEF Rec, Rolls
  <2> HIDE DEF g
  <2>5. CASE g # f
    <3>1. log'[g] = log[g] /\ synced'[g] = synced[g]
      BY <2>1, <2>5, RollFacts
    <3>2. \E q \in 1 .. synced'[g] : log'[g][q] = Rec(u, i)' /\ Readable(g, q)'
      BY <2>3, <2>4, <3>1 DEF Readable
    <3> QED BY <2>1, <3>2 DEF Covered, g
  <2>6. CASE g = f
    <3>1. synced[f] \in Nat /\ synced[f] <= Len(log[f])
          /\ Len(log[f]) \in Nat /\ DOMAIN log[f] = 1 .. Len(log[f])
      BY <1>0, LogFacts DEF TypeOK, Sizes
    <3>2. p \in DOMAIN log[f]
      BY <2>3, <2>6, <3>1
    <3>3. ~(p > Baseline(o, f))
      BY <2>3, <2>4, <2>6, <3>2 DEF Rolls, OwnTail
    <3>4. p \in 1 .. Baseline(o, f)
      BY <3>1, <3>2, <3>3, RollFacts
    <3>5. p > 1 => p - 1 \in 1 .. Baseline(o, f)
      BY <3>4, RollFacts
    <3>6. log'[f][p] = log[f][p] /\ (p > 1 => log'[f][p - 1] = log[f][p - 1])
      BY <3>4, <3>5, RollFacts
    <3>7. synced'[f] = Baseline(o, f)
      BY RollFacts
    <3>8. \E q \in 1 .. synced'[f] : log'[f][q] = Rec(u, i)' /\ Readable(f, q)'
      BY <2>3, <2>4, <2>6, <3>4, <3>6, <3>7 DEF Readable
    <3> QED BY <2>1, <2>6, <3>8 DEF Covered, g
  <2> QED BY <2>5, <2>6
<1> QED BY <1>1, <1>2

LEMMA RollStep ==
  ASSUME IInv, NEW t \in Txn, NEW o \in Txn, NEW f \in File,
         Rolls(o, f), RollbackFile(ProcOf[t], o, f),
         pc[t] \in InLock, o \notin committed,
         pc[o] \notin {"drained", "failed", "undoWait"},
         SessionInv(t)'
  PROVE  IInv'
<1> USE NotSessions
<1>0. TypeOK /\ TypeOK' /\ Sizes /\ TornLast
  BY RollFacts DEF IInv
<1>1. \A u \in Txn : SessionInv(u)'
  <2> SUFFICES ASSUME NEW u \in Txn \ {t} PROVE SessionInv(u)'
    OBVIOUS
  <2>1. UNCHANGED <<pc, committed, first, base, post, pos>>
    BY DEF Rolls
  <2>2. CASE u = o
    BY <2>1, <2>2, OutsideKeep
  <2>3. CASE u # o
    <3>1. (Settled(u) => Settled(u)') /\ (FullyLogged(u) => FullyLogged(u)')
      BY <2>3, RollOthers
    <3> QED BY <2>1, <3>1, OutsideKeep
  <2> QED BY <2>2, <2>3
<1>2. LockInv' /\ OwnerInv' /\ RollbackInv'
  BY DEF IInv, LockInv, OwnerInv, RollbackInv, Rolls
<1>3. Sizes'
  <2> SUFFICES ASSUME NEW g \in File
               PROVE  synced'[g] <= Len(log'[g]) /\ (~exists'[g] => log'[g] = <<>>)
    BY DEF Sizes
  <2>1. CASE g # f
    BY <1>0, <2>1, RollFacts DEF Sizes
  <2>2. CASE g = f
    <3>1. synced'[f] = Len(log'[f]) /\ Len(log'[f]) \in Nat /\ log'[f] \in Seq(Record)
      BY <1>0, RollFacts DEF TypeOK
    <3>2. ~exists'[f] => Len(log'[f]) = 0
      BY RollFacts DEF Baseline
    <3>3. ~exists'[f] => log'[f] = <<>>
      BY <3>1, <3>2
    <3> QED BY <2>2, <3>1, <3>3
  <2> QED BY <2>1, <2>2
<1>4. TornLast'
  <2> SUFFICES ASSUME NEW g \in File, NEW p \in DOMAIN log'[g], log'[g][p].kind = "torn"
               PROVE  p = Len(log'[g]) /\ \A q \in Proc : g \notin handles'[q]
    BY DEF TornLast
  <2>1. CASE g # f
    BY <1>0, <2>1, RollFacts DEF TornLast
  <2>2. CASE g = f
    <3>1. p \in 1 .. Baseline(o, f) /\ log[f][p].kind = "torn"
      BY <2>2, RollFacts
    <3>2. DOMAIN log[f] = 1 .. Len(log[f]) /\ Len(log[f]) \in Nat
      BY <1>0, LogFacts
    <3>3. p \in DOMAIN log[f]
      BY <3>1, <3>2, RollFacts
    <3>4. p = Len(log[f])
      BY <1>0, <3>1, <3>3 DEF TornLast
    <3>5. base[o][f] = Absent => Baseline(o, f) = 0
      BY DEF Baseline
    <3>6. FALSE
      BY <3>1, <3>2, <3>4, <3>5, RollFacts DEF Rolls
    <3> QED BY <3>6
  <2> QED BY <2>1, <2>2
<1>5. \A fr \in Txn : FrameInv(fr) => FrameInv(fr)'
  <2> SUFFICES ASSUME NEW fr \in Txn, FrameInv(fr), NEW g \in FilesOf(fr)
               PROVE  base'[fr][g] # Unset /\ OwnTail(fr, g)'
    BY DEF FrameInv, Rolls
  <2>1. g \in File /\ base'[fr][g] # Unset /\ OwnTail(fr, g)
    BY BatchFacts DEF FrameInv, Rolls
  <2>2. \A p \in DOMAIN log'[g] : p \in DOMAIN log[g] /\ log'[g][p] = log[g][p]
    <3>1. DOMAIN log[f] = 1 .. Len(log[f]) /\ Len(log[f]) \in Nat
      BY <1>0, LogFacts
    <3> QED BY <2>1, <3>1, RollFacts
  <2>3. Baseline(fr, g)' = Baseline(fr, g)
    BY DEF Baseline, Rolls
  <2> QED BY <2>1, <2>2, <2>3 DEF OwnTail
<1>6. FrameInv(intent)' /\ FrameInv(intentOnDisk)'
  <2>1. UNCHANGED <<intent, intentOnDisk>>
    BY DEF Rolls
  <2> QED BY <1>5, <2>1 DEF IInv, FrameInv
<1> QED BY <1>0, <1>1, <1>2, <1>3, <1>4, <1>6 DEF IInv

LEMMA BeyondFacts ==
  ASSUME TypeOK, NEW o \in Txn, NEW f \in File, base[o][f] # Unset, BeyondBaseline(o, f)
  PROVE  base[o][f] = Absent \/ Baseline(o, f) < Len(log[f])
BY DEF BeyondBaseline, Baseline

LEMMA RecoverFileKeeps ==
  ASSUME IInv, NEW t \in Txn, NEW f \in File, RecoverFile(t, f) PROVE IInv'
<1> USE DEF RecoverFile, intentVars, dbVars, drainVars
<1>1. /\ intent \in Txn /\ intent \notin committed /\ intent # t
      /\ pc[intent] \notin {"drained", "failed", "undoWait"}
  BY DEF IInv, RollbackInv, OwnerInv
<1>2. base[intent][f] # Unset /\ OwnTail(intent, f)
  BY <1>1 DEF IInv, FrameInv
<1>3. base[intent][f] = Absent \/ Baseline(intent, f) < Len(log[f])
  BY <1>1, <1>2, BeyondFacts DEF IInv
<1>4. Rolls(intent, f)
  BY <1>2, <1>3 DEF Rolls
<1>5. SessionInv(t)'
  <2>1. (Settled(t) => Settled(t)') /\ (FullyLogged(t) => FullyLogged(t)')
    BY <1>1, <1>4, RollOthers
  <2>2. Fresh(t) => Fresh(t)'
    BY DEF Fresh, NoPost
  <2> QED BY <2>1, <2>2 DEF IInv, SessionInv
<1>6. pc[t] \in InLock
  BY DEF InLock
<1> QED BY <1>1, <1>4, <1>5, <1>6, RollStep

LEMMA UnwindFileKeeps ==
  ASSUME IInv, NEW t \in Txn, NEW f \in File, UnwindFile(t, f) PROVE IInv'
<1> USE DEF UnwindFile, intentVars, dbVars, drainVars
<1>1. Unwinding(t) /\ t \notin committed
  BY DEF IInv, SessionInv
<1>2. base[t][f] # Unset /\ OwnTail(t, f)
  BY <1>1 DEF Unwinding, Mine
<1>3. base[t][f] = Absent \/ Baseline(t, f) < Len(log[f])
  BY <1>2, BeyondFacts DEF IInv
<1>4. Rolls(t, f)
  BY <1>2, <1>3 DEF Rolls
<1>5. SessionInv(t)'
  <2>1. ASSUME NEW g \in FilesOf(t) PROVE Mine(t, g)'
    <3>1. g \in File /\ Mine(t, g) /\ Baseline(t, g)' = Baseline(t, g)
      BY <1>1, <2>1, BatchFacts DEF Unwinding, Baseline
    <3>2. CASE g # f
      <4>1. log'[g] = log[g]
        BY <3>1, <3>2, <1>4, RollFacts
      <4> QED BY <3>1, <4>1 DEF Mine, OwnTail
    <3>3. CASE g = f
      <4>1. /\ Baseline(t, f) \in Nat /\ Len(log'[f]) = Baseline(t, f)
            /\ DOMAIN log'[f] = 1 .. Baseline(t, f)
        BY <1>4, RollFacts
      <4>2. OwnTail(t, f)'
        BY <3>1, <3>3, <4>1 DEF OwnTail
      <4> QED BY <3>1, <3>3, <4>1, <4>2 DEF Mine
    <3> QED BY <3>2, <3>3
  <2>2. Unwinding(t)'
    BY <1>1, <2>1 DEF Unwinding, NoPost
  <2> QED BY <1>1, <2>2 DEF SessionInv
<1>6. pc[t] \in InLock
  BY DEF InLock
<1> QED BY <1>1, <1>4, <1>5, <1>6, RollStep

LEMMA UndoFileKeeps ==
  ASSUME IInv, NEW t \in Txn, NEW f \in File, UndoFile(t, f) PROVE IInv'
<1> USE DEF UndoFile, intentVars, dbVars, drainVars
<1>1. Undoing(t) /\ t \notin committed /\ Len(log[f]) = post[t][f]
  BY DEF IInv, SessionInv, Undoable
<1>2. base[t][f] # Unset /\ Baseline(t, f) < Len(log[f]) /\ OwnSpan(t, f)
  BY <1>1 DEF Undoing
<1>3. OwnTail(t, f)
  <2>1. \A p \in DOMAIN log[f] : p <= post[t][f]
    BY <1>1, LogFacts DEF IInv
  <2> QED BY <1>2, <2>1 DEF OwnTail, OwnSpan
<1>4. Rolls(t, f)
  BY <1>2, <1>3 DEF Rolls
<1>5. SessionInv(t)'
  <2>1. ASSUME NEW g \in FilesOf(t)
        PROVE  /\ base'[t][g] # Unset /\ Baseline(t, g)' < post'[t][g]
               /\ Len(log'[g]) = post'[t][g] => OwnSpan(t, g)'
    <3>1. /\ g \in File /\ Baseline(t, g)' = Baseline(t, g)
          /\ base[t][g] # Unset /\ Baseline(t, g) < post[t][g]
          /\ Len(log[g]) = post[t][g] => OwnSpan(t, g)
      BY <1>1, <2>1, BatchFacts DEF Undoing, Baseline
    <3>2. CASE g # f
      <4>1. log'[g] = log[g]
        BY <3>1, <3>2, <1>4, RollFacts
      <4> QED BY <3>1, <4>1 DEF OwnSpan
    <3>3. CASE g = f
      <4>1. Len(log'[f]) = Baseline(t, f) /\ Baseline(t, f) \in Nat
        BY <1>4, RollFacts
      <4>2. post[t][f] \in Nat
        BY <1>1, LogFacts DEF IInv
      <4> QED BY <3>1, <3>3, <4>1, <4>2
    <3> QED BY <3>2, <3>3
  <2>2. Undoing(t)'
    BY <2>1 DEF Undoing
  <2> QED BY <1>1, <2>2 DEF SessionInv
<1>6. pc[t] \in InLock
  BY DEF InLock
<1> QED BY <1>1, <1>4, <1>5, <1>6, RollStep
-----------------------------------------------------------------------------
(* The steps of the holder inside its drain.                               *)

LEMMA SyncIntentKeeps == ASSUME IInv, NEW t \in Txn, SyncIntent(t) PROVE IInv'
<1> USE NotSessions DEF SyncIntent, Goto, fileVars, dbVars, drainVars
<1>0. pc[t] \in InLock /\ Opened(t) /\ t \notin committed
  BY DEF IInv, SessionInv, InLock
<1>1. TypeOK'
  BY DEF IInv, TypeOK, PCs
<1>2. pc'[t] = "append" /\ \A u \in Txn \ {t} : pc'[u] = pc[u]
  BY DEF IInv, TypeOK
<1>3. \A u \in Txn \ {t} : SessionInv(u)'
  BY <1>0, <1>2, StaticFacts, OutsideKeep
<1>4. SessionInv(t)'
  <2>1. Opened(t)'
    BY <1>0, StaticFacts
  <2>2. Len(Batch[t]) \in Nat /\ pos'[t] = 0
    BY <2>1, BatchFacts DEF Opened
  <2>3. Appending(t)'
    BY <2>1, <2>2 DEF Opened, Appending
  <2> QED BY <1>0, <1>2, <2>3 DEF SessionInv
<1>5. LockInv'
  BY <1>0, <1>2 DEF IInv, LockInv, InLock
<1>6. Sizes' /\ TornLast'
  BY DEF IInv, Sizes, TornLast
<1>7. FrameInv(t)'
  BY <1>0, <1>2 DEF FrameInv, Opened, Held, Mine, OwnTail, Baseline
<1>8. OwnerInv'
  BY <1>2 DEF OwnerInv
<1>9. RollbackInv'
  <2>1. \A u \in Txn : pc'[u] # "rollback"
    BY <1>0, <1>2, OneHolder DEF InLock
  <2> QED BY <2>1 DEF RollbackInv
<1> QED BY <1>1, <1>3, <1>4, <1>5, <1>6, <1>7, <1>8, <1>9 DEF IInv, FrameInv

(* A step of the holder that grows files keeps everybody else's part.      *)
LEMMA GrowthStep ==
  ASSUME IInv, NEW t \in Txn, pc[t] \in InLock, Grows, TypeOK',
         UNCHANGED <<pc, intent, intentOnDisk, truthLock, committed, first, post>>,
         \A u \in Txn \ {t} : base'[u] = base[u] /\ pos'[u] = pos[u],
         SessionInv(t)', Sizes', TornLast',
         FrameInv(intent)', FrameInv(intentOnDisk)'
  PROVE  IInv'
<1>1. \A u \in Txn \ {t} : SessionInv(u)'
  <2> SUFFICES ASSUME NEW u \in Txn \ {t} PROVE SessionInv(u)'
    OBVIOUS
  <2>1. (Settled(u) => Settled(u)') /\ (FullyLogged(u) => FullyLogged(u)')
    BY GrowthKeeps
  <2> QED BY <2>1, OutsideKeep
<1>2. LockInv' /\ OwnerInv' /\ RollbackInv'
  BY DEF IInv, LockInv, OwnerInv, RollbackInv
<1> QED BY <1>1, <1>2 DEF IInv

LEMMA FsyncFileKeeps ==
  ASSUME IInv, NEW t \in Txn, NEW f \in File, FsyncFile(t, f) PROVE IInv'
<1> USE DEF FsyncFile, intentVars, dbVars, drainVars
<1>0. pc[t] \in InLock /\ Appending(t) /\ t \notin committed /\ TypeOK /\ Sizes
  BY DEF IInv, SessionInv, InLock
<1>1. Len(log[f]) \in Nat /\ synced[f] \in Nat /\ synced[f] <= Len(log[f])
  BY <1>0, LogFacts DEF TypeOK, Sizes
<1>2. /\ synced' \in [File -> Nat] /\ synced'[f] = Len(log[f])
      /\ \A g \in File \ {f} : synced'[g] = synced[g]
  BY <1>0, <1>1 DEF TypeOK
<1>3. TypeOK'
  BY <1>0, <1>2 DEF TypeOK
<1>4. Grows
  <2>1. \A g \in File : synced[g] \in Nat
    BY <1>0 DEF TypeOK
  <2> QED BY <1>1, <1>2, <2>1 DEF Grows
<1>5. Sizes' /\ TornLast'
  <2>1. \A g \in File : synced'[g] <= Len(log[g])
    BY <1>0, <1>1, <1>2 DEF Sizes
  <2> QED BY <2>1 DEF IInv, Sizes, TornLast
<1>6. SessionInv(t)'
  <2>1. Rec(t, 1) = Rec(t, 1)' /\ \A i : Rec(t, i)' = Rec(t, i)
    BY DEF Rec
  <2>2. Appending(t)'
    BY <1>0, <2>1 DEF Appending, NoPost, Held, Mine, OwnTail, Baseline, Placed, Readable
  <2> QED BY <1>0, <2>2 DEF SessionInv
<1>7. FrameInv(intent)' /\ FrameInv(intentOnDisk)'
  BY DEF IInv, FrameInv, OwnTail, Baseline
<1> QED BY <1>0, <1>3, <1>4, <1>5, <1>6, <1>7, GrowthStep

(* Row i of the batch, the record r, becomes line n of file f.             *)
Appends(t, i, f, r, n) ==
  /\ pc[t] = "append" /\ i = pos[t] + 1
  /\ f = Batch[t][i].file /\ r = Rec(t, i) /\ n = Len(log[f]) + 1
  /\ pos' = [pos EXCEPT ![t] = i]
  /\ log' = [log EXCEPT ![f] = Append(log[f], r)]
  /\ UNCHANGED <<pc, exists, synced, handles, intent, intentOnDisk, truthLock,
                 dbLock, committed, highWater, first, base, post>>

LEMMA AppendsFacts ==
  ASSUME TypeOK, NEW t \in Txn, NEW i \in DOMAIN Batch[t], NEW f \in File,
         NEW r \in Record, NEW n \in Nat, Appends(t, i, f, r, n)
  PROVE  /\ log' \in [File -> Seq(Record)]
         /\ Len(log[f]) \in Nat /\ n = Len(log[f]) + 1 /\ DOMAIN log[f] = 1 .. Len(log[f])
         /\ Len(log'[f]) = n /\ DOMAIN log'[f] = 1 .. n
         /\ \A p \in DOMAIN log[f] : log'[f][p] = log[f][p]
         /\ log'[f][n] = r
         /\ \A p \in DOMAIN log'[f] : p \in DOMAIN log[f] \/ p = n
         /\ \A g \in File \ {f} : log'[g] = log[g]
<1>1. log[f] \in Seq(Record) /\ Len(log[f]) \in Nat /\ DOMAIN log[f] = 1 .. Len(log[f])
  BY LogFacts
<1>2. n = Len(log[f]) + 1
  BY DEF Appends
<1> DEFINE s == Append(log[f], r)
<1>3. /\ s \in Seq(Record) /\ Len(s) = Len(log[f]) + 1
      /\ DOMAIN s = 1 .. Len(log[f]) + 1
      /\ \A p \in 1 .. Len(log[f]) : s[p] = log[f][p]
      /\ s[Len(log[f]) + 1] = r
  BY <1>1, AppendFacts
<1>4. log' = [log EXCEPT ![f] = s]
  BY DEF Appends
<1> HIDE DEF s
<1>5. /\ log' \in [File -> Seq(Record)] /\ log'[f] = s
      /\ \A g \in File \ {f} : log'[g] = log[g]
  BY <1>3, <1>4 DEF TypeOK
<1>6. \A p \in 1 .. n : p \in 1 .. Len(log[f]) \/ p = n
  BY <1>1, <1>2
<1> QED BY <1>1, <1>2, <1>3, <1>5, <1>6

LEMMA AppendStep ==
  ASSUME IInv, NEW t \in Txn, NEW i \in DOMAIN Batch[t], NEW f \in File,
         NEW r \in Record, NEW n \in Nat, Appends(t, i, f, r, n)
  PROVE  IInv'
<1>0. pc[t] \in InLock /\ Appending(t) /\ t \notin committed /\ TypeOK /\ Sizes /\ TornLast
  BY DEF IInv, SessionInv, InLock, Appends
<1>a. pc'[t] = "append" /\ i = pos[t] + 1 /\ f = Batch[t][i].file /\ r = Rec(t, i)
  BY DEF Appends
<1>b. UNCHANGED <<pc, exists, synced, handles, intent, intentOnDisk, truthLock,
                 dbLock, committed, highWater, first, base, post>>
  BY DEF Appends
<1>1. pos[t] \in Nat /\ i \in Nat /\ i <= Len(Batch[t])
  <2>1. DOMAIN Batch[t] = 1 .. Len(Batch[t]) /\ Len(Batch[t]) \in Nat
    BY BatchFacts
  <2> QED BY <1>0, <2>1 DEF TypeOK
<1>2. f \in FilesOf(t)
  BY <1>a DEF FilesOf
<1>3. r.txn = t /\ r.kind \in {"event", "thread"}
  BY <1>0, <1>a, RecFacts
<1>4. \A j : Rec(t, j)' = Rec(t, j)
  BY <1>b DEF Rec
<1>8. log' \in [File -> Seq(Record)] /\ \A g \in File \ {f} : log'[g] = log[g]
  BY <1>0, AppendsFacts
<1>6. Len(log[f]) \in Nat /\ n = Len(log[f]) + 1 /\ DOMAIN log[f] = 1 .. Len(log[f])
  BY <1>0, AppendsFacts
<1>9. /\ Len(log'[f]) = n /\ DOMAIN log'[f] = 1 .. n
      /\ \A p \in DOMAIN log[f] : p \in DOMAIN log'[f] /\ log'[f][p] = log[f][p]
      /\ log'[f][n] = r
  <2>1. /\ Len(log'[f]) = n /\ DOMAIN log'[f] = 1 .. n /\ log'[f][n] = r
        /\ \A p \in DOMAIN log[f] : log'[f][p] = log[f][p]
    BY <1>0, AppendsFacts
  <2>2. \A p \in 1 .. Len(log[f]) : p \in 1 .. n
    BY <1>6
  <2> QED BY <1>6, <2>1, <2>2
<1>9a. n \in DOMAIN log'[f] /\ \A p \in DOMAIN log'[f] : p \in DOMAIN log[f] \/ p = n
  BY <1>0, <1>6, <1>9, AppendsFacts
<1>10. TypeOK'
  <2>1. pos' \in [Txn -> Nat]
    BY <1>0, <1>1 DEF TypeOK, Appends
  <2> QED BY <1>0, <1>b, <1>8, <2>1 DEF TypeOK
<1>11. pos'[t] = i /\ \A u \in Txn \ {t} : pos'[u] = pos[u]
  BY <1>0 DEF TypeOK, Appends
<1>12. Grows
  <2> SUFFICES ASSUME NEW g \in File
               PROVE  /\ synced[g] <= synced'[g]
                      /\ \A p \in DOMAIN log[g] : p \in DOMAIN log'[g] /\ log'[g][p] = log[g][p]
    BY DEF Grows
  <2>1. synced[g] \in Nat /\ synced'[g] = synced[g]
    BY <1>0, <1>b DEF TypeOK
  <2>2. CASE g = f
    BY <1>9, <2>1, <2>2
  <2>3. CASE g # f
    BY <1>8, <2>1, <2>3
  <2> QED BY <2>2, <2>3
<1>13. exists[f] /\ f \in handles[ProcOf[t]]
  BY <1>0, <1>2 DEF Appending, Held
<1>14. Sizes'
  <2> SUFFICES ASSUME NEW g \in File
               PROVE  synced'[g] <= Len(log'[g]) /\ (~exists'[g] => log'[g] = <<>>)
    BY DEF Sizes
  <2>1. CASE g = f
    <3>1. synced[f] \in Nat /\ synced[f] <= Len(log[f])
      BY <1>0, <1>2 DEF TypeOK, Sizes
    <3> QED BY <1>b, <1>6, <1>9, <1>13, <2>1, <3>1
  <2>2. CASE g # f
    BY <1>0, <1>b, <1>8, <2>2 DEF Sizes
  <2> QED BY <2>1, <2>2
<1>15. ProcOf[t] \in Proc
  BY ProcAssumption
<1>16. \A p \in DOMAIN log[f] : log[f][p].kind # "torn"
  BY <1>0, <1>2, <1>13, <1>15 DEF TornLast
<1>17. \A p \in DOMAIN log'[f] : log'[f][p].kind # "torn"
  BY <1>3, <1>9, <1>9a, <1>16
<1>18. TornLast'
  <2> SUFFICES ASSUME NEW g \in File, NEW p \in DOMAIN log'[g], log'[g][p].kind = "torn"
               PROVE  p = Len(log'[g]) /\ \A q \in Proc : g \notin handles'[q]
    BY DEF TornLast
  <2>1. g # f
    BY <1>17
  <2> QED BY <1>0, <1>b, <1>8, <2>1 DEF TornLast
<1>19. \A g \in FilesOf(t) : Held(t, g)'
  <2> SUFFICES ASSUME NEW g \in FilesOf(t) PROVE Held(t, g)'
    OBVIOUS
  <2>1. g \in File /\ Held(t, g) /\ Baseline(t, g)' = Baseline(t, g)
    BY <1>0, <1>b, BatchFacts DEF Appending, Baseline
  <2>2. CASE g = f
    <3>1. Baseline(t, f) <= Len(log'[f])
      <4>1. Baseline(t, f) \in Nat
        BY <1>0, <2>1, <2>2, BaselineFacts DEF Held, Mine
      <4> QED BY <1>6, <1>9, <2>1, <2>2, <4>1 DEF Held, Mine
    <3>2. OwnTail(t, f)'
      BY <1>3, <1>9, <1>9a, <2>1, <2>2 DEF Held, Mine, OwnTail
    <3> QED BY <1>b, <2>1, <2>2, <3>1, <3>2 DEF Held, Mine
  <2>3. CASE g # f
    BY <1>b, <1>8, <2>1, <2>3 DEF Held, Mine, OwnTail
  <2> QED BY <2>2, <2>3
<1>20. \A g, p : g \in File /\ p \in DOMAIN log[g] /\ Readable(g, p) => Readable(g, p)'
  <2> SUFFICES ASSUME NEW g \in File, NEW p \in DOMAIN log[g], Readable(g, p)
               PROVE  Readable(g, p)'
    OBVIOUS
  <2>1. CASE g # f
    BY <1>8, <2>1 DEF Readable
  <2>2. CASE g = f
    <3>1. p > 1 => p - 1 \in DOMAIN log[f]
      BY <1>6, <2>2
    <3> QED BY <1>9, <2>2, <3>1 DEF Readable
  <2> QED BY <2>1, <2>2
<1>21. \A j \in 1 .. pos[t] : Placed(t, j)'
  <2> SUFFICES ASSUME NEW j \in 1 .. pos[t] PROVE Placed(t, j)'
    OBVIOUS
  <2>1. j \in DOMAIN Batch[t]
    BY <1>0, <1>1, BatchFacts DEF Appending
  <2>2. Batch[t][j].file \in File
    BY <2>1, BatchFacts
  <2> DEFINE g == Batch[t][j].file
  <2>3. PICK p \in DOMAIN log[g] : p > Baseline(t, g) /\ log[g][p] = Rec(t, j) /\ Readable(g, p)
    BY <1>0 DEF Appending, Placed
  <2>4. g \in File /\ g' = g
    BY <2>2
  <2> HIDE DEF g
  <2>5. p \in DOMAIN log'[g] /\ log'[g][p] = log[g][p]
    BY <1>8, <1>9, <2>4
  <2>6. Readable(g, p)'
    BY <1>20, <2>3, <2>4
  <2>7. Baseline(t, g)' = Baseline(t, g)
    BY <1>b DEF Baseline
  <2>8. \E q \in DOMAIN log'[g] : q > Baseline(t, g)' /\ log'[g][q] = Rec(t, j)' /\ Readable(g, q)'
    BY <1>4, <2>3, <2>5, <2>6, <2>7
  <2> QED BY <2>8 DEF Placed, g
<1>22. Placed(t, i)'
  <2>1. n \in DOMAIN log'[f] /\ log'[f][n] = Rec(t, i)
    BY <1>9, <1>9a, <1>a
  <2>2. Baseline(t, f)' = Baseline(t, f) /\ Baseline(t, f) \in Nat /\ Baseline(t, f) <= Len(log[f])
    <3>1. base[t][f] # Unset /\ Baseline(t, f) <= Len(log[f])
      BY <1>0, <1>2 DEF Appending, Held, Mine
    <3> QED BY <1>0, <1>b, <3>1, BaselineFacts DEF Baseline
  <2>3. n > Baseline(t, f)'
    BY <1>6, <2>2
  <2>4. Readable(f, n)'
    <3>1. n > 1 => n - 1 \in DOMAIN log'[f]
      BY <1>6, <1>9
    <3>2. log'[f][n].kind \in {"event", "thread"}
      BY <1>3, <1>9
    <3> QED BY <1>17, <3>1, <3>2 DEF Readable
  <2>5. \E q \in DOMAIN log'[f] : q > Baseline(t, f)' /\ log'[f][q] = Rec(t, i)' /\ Readable(f, q)'
    BY <1>4, <2>1, <2>3, <2>4
  <2> QED BY <1>a, <2>5 DEF Placed
<1>23. SessionInv(t)'
  <2>1. \A j \in 1 .. i : j \in 1 .. pos[t] \/ j = i
    BY <1>1, <1>a
  <2>2. Appending(t)'
    BY <1>0, <1>b, <1>1, <1>11, <1>19, <1>21, <1>22, <2>1 DEF Appending, NoPost
  <2> QED BY <1>0, <1>a, <1>b, <2>2 DEF SessionInv
<1>24. FrameInv(t)'
  <2>1. pc'[t] \notin {"idle", "staged", "open", "framing"}
    BY <1>a
  <2> QED BY <1>19, <2>1 DEF FrameInv, Held, Mine
<1>25. FrameInv(intent)' /\ FrameInv(intentOnDisk)'
  BY <1>0, <1>b, <1>24 DEF Appending, FrameInv
<1> QED BY <1>0, <1>b, <1>10, <1>11, <1>12, <1>14, <1>18, <1>23, <1>25, GrowthStep

LEMMA AppendRowKeeps == ASSUME IInv, NEW t \in Txn, AppendRow(t) PROVE IInv'
<1> DEFINE i == pos[t] + 1
           f == Batch[t][i].file
           r == Rec(t, i)
           n == Len(log[f]) + 1
<1>0. TypeOK /\ pos[t] \in Nat /\ pos[t] < Len(Batch[t])
  BY DEF IInv, TypeOK, AppendRow
<1>1. i \in DOMAIN Batch[t]
  BY <1>0, BatchFacts
<1>2. f \in File
  BY <1>1, BatchFacts
<1>3. r \in Record
  BY <1>0, <1>1, RecFacts
<1>4. n \in Nat
  BY <1>0, <1>2, LogFacts
<1>5. /\ pc[t] = "append"
      /\ pos' = [pos EXCEPT ![t] = i]
      /\ log' = [log EXCEPT ![f] = Append(log[f], r)]
      /\ UNCHANGED <<pc, exists, synced, handles, intent, intentOnDisk, truthLock,
                     dbLock, committed, highWater, first, base, post>>
  BY DEF AppendRow, intentVars, dbVars
<1>6. Appends(t, i, f, r, n)
  BY <1>5 DEF Appends
<1> HIDE DEF i, f, r, n
<1> QED BY <1>1, <1>2, <1>3, <1>4, <1>6, AppendStep

(* What _handle does to a file: no torn line is left in it.                *)
LEMMA OpenFacts ==
  ASSUME IInv, NEW t \in Txn, NEW f \in File, OpenHandle(t, f)
  PROVE  /\ TypeOK'
         /\ Grows
         /\ \A g \in File : Len(log'[g]) = Len(log[g]) /\ DOMAIN log'[g] = DOMAIN log[g]
         /\ \A g \in File \ {f} : log'[g] = log[g] /\ synced'[g] = synced[g]
         /\ \A p \in DOMAIN log[f] : log'[f][p].kind # "torn"
         /\ synced'[f] <= Len(log[f])
<1>0. TypeOK /\ Sizes /\ TornLast /\ ProcOf[t] \in Proc
  BY ProcAssumption DEF IInv
<1>1. log[f] \in Seq(Record) /\ Len(log[f]) \in Nat /\ DOMAIN log[f] = 1 .. Len(log[f])
  BY <1>0, LogFacts
<1>2. synced[f] \in Nat /\ synced[f] <= Len(log[f])
  BY <1>0 DEF TypeOK, Sizes
<1>3. /\ base' \in [Txn -> [File -> Nat \cup {Absent, Unset}]]
      /\ handles' \in [Proc -> SUBSET File]
      /\ exists' \in [File -> BOOLEAN]
  <2>1. base' = [base EXCEPT ![t][f] = IF exists[f] THEN Len(log[f]) ELSE Absent]
    BY DEF OpenHandle
  <2>2. handles' = [handles EXCEPT ![ProcOf[t]] = @ \cup {f}] /\ exists' = [exists EXCEPT ![f] = TRUE]
    BY DEF OpenHandle
  <2> DEFINE b == IF exists[f] THEN Len(log[f]) ELSE Absent
  <2>3. b \in Nat \cup {Absent, Unset}
    BY <1>1
  <2> HIDE DEF b
  <2>4. base' = [base EXCEPT ![t] = [base[t] EXCEPT ![f] = b]]
    BY <2>1 DEF b
  <2> QED BY <1>0, <2>2, <2>3, <2>4 DEF TypeOK
<1>4. UNCHANGED <<pc, intent, intentOnDisk, truthLock, dbLock, committed, highWater,
                  first, post, pos>>
  BY DEF OpenHandle, intentVars, dbVars
<1>5. CASE UNCHANGED <<log, synced>>
             /\ (f \in handles[ProcOf[t]] \/ RepairTail(log[f]) = log[f])
  <2>1. TypeOK'
    BY <1>0, <1>3, <1>4, <1>5 DEF TypeOK
  <2>2. \A g \in File : synced[g] \in Nat
    BY <1>0 DEF TypeOK
  <2>3. Grows
    BY <1>5, <2>2 DEF Grows
  <2>4. \A p \in DOMAIN log[f] : log[f][p].kind # "torn"
    <3> SUFFICES ASSUME NEW p \in DOMAIN log[f], log[f][p].kind = "torn" PROVE FALSE
      OBVIOUS
    <3>1. p = Len(log[f]) /\ f \notin handles[ProcOf[t]]
      BY <1>0 DEF TornLast
    <3>2. log[f] # <<>>
      BY <1>1
    <3>3. log[f][Len(log[f])].kind = "torn"
      BY <3>1
    <3>4. RepairTail(log[f]) = [log[f] EXCEPT ![Len(log[f])].kind = "junk"]
      BY <3>2, <3>3 DEF RepairTail
    <3>5. log[f][p] \in Record
      BY <1>1
    <3>6. [log[f] EXCEPT ![Len(log[f])].kind = "junk"][p].kind = "junk"
      BY <1>1, <3>1, <3>5 DEF Record
    <3> QED BY <1>5, <3>1, <3>4, <3>6
  <2> QED BY <1>1, <1>2, <1>5, <2>1, <2>3, <2>4
<1>6. CASE /\ f \notin handles[ProcOf[t]] /\ RepairTail(log[f]) # log[f]
           /\ log' = [log EXCEPT ![f] = RepairTail(@)]
           /\ synced' = [synced EXCEPT ![f] = Len(log[f])]
  <2>1. log[f] # <<>> /\ log[f][Len(log[f])].kind = "torn"
    BY <1>6 DEF RepairTail
  <2> DEFINE r == [log[f] EXCEPT ![Len(log[f])].kind = "junk"]
  <2>2. log' = [log EXCEPT ![f] = r]
    BY <1>6, <2>1 DEF RepairTail
  <2>3. Len(log[f]) \in DOMAIN log[f]
    BY <1>1, <2>1
  <2>4. log[f][Len(log[f])] \in Record
    BY <1>1, <2>3
  <2> DEFINE e == [log[f][Len(log[f])] EXCEPT !.kind = "junk"]
  <2>5. e \in Record /\ e.kind = "junk" /\ e.txn = log[f][Len(log[f])].txn
    BY <2>4 DEF Record
  <2>6. r = [log[f] EXCEPT ![Len(log[f])] = e]
    OBVIOUS
  <2> HIDE DEF e
  <2>7. /\ r \in Seq(Record) /\ DOMAIN r = DOMAIN log[f] /\ Len(r) = Len(log[f])
        /\ r[Len(log[f])] = e
        /\ \A p \in DOMAIN log[f] : p # Len(log[f]) => r[p] = log[f][p]
    BY <1>1, <2>3, <2>5, <2>6
  <2> HIDE DEF r
  <2>8. /\ log' \in [File -> Seq(Record)] /\ log'[f] = r
        /\ \A g \in File \ {f} : log'[g] = log[g]
    BY <1>0, <2>2, <2>7 DEF TypeOK
  <2>9. /\ synced' \in [File -> Nat] /\ synced'[f] = Len(log[f])
        /\ \A g \in File \ {f} : synced'[g] = synced[g]
    BY <1>0, <1>1, <1>6 DEF TypeOK
  <2>10. TypeOK'
    BY <1>0, <1>3, <1>4, <2>8, <2>9 DEF TypeOK
  <2>11. \A p \in DOMAIN log[f] :
            /\ log'[f][p].txn = log[f][p].txn
            /\ log[f][p].kind # "torn" => log'[f][p] = log[f][p]
            /\ log'[f][p].kind # "torn"
    <3> SUFFICES ASSUME NEW p \in DOMAIN log[f]
                 PROVE  /\ log'[f][p].txn = log[f][p].txn
                        /\ log[f][p].kind # "torn" => log'[f][p] = log[f][p]
                        /\ log'[f][p].kind # "torn"
      OBVIOUS
    <3>1. CASE p = Len(log[f])
      BY <2>1, <2>5, <2>7, <2>8, <3>1
    <3>2. CASE p # Len(log[f])
      <4>1. log'[f][p] = log[f][p]
        BY <2>7, <2>8, <3>2
      <4>2. log[f][p].kind # "torn"
        BY <1>0, <3>2 DEF TornLast
      <4> QED BY <4>1, <4>2
    <3> QED BY <3>1, <3>2
  <2>12. Grows
    <3> SUFFICES ASSUME NEW g \in File
                 PROVE  /\ synced[g] <= synced'[g]
                        /\ \A p \in DOMAIN log[g] :
                              /\ p \in DOMAIN log'[g]
                              /\ log'[g][p].txn = log[g][p].txn
                              /\ log[g][p].kind # "torn" => log'[g][p] = log[g][p]
      BY DEF Grows
    <3>1. CASE g = f
      <4>1. synced[f] <= synced'[f]
        BY <1>2, <2>9
      <4>2. \A p \in DOMAIN log[f] : p \in DOMAIN log'[f]
        BY <2>7, <2>8
      <4> QED BY <2>11, <3>1, <4>1, <4>2, Zenon
    <3>2. CASE g # f
      <4>1. synced[g] \in Nat
        BY <1>0 DEF TypeOK
      <4> QED BY <2>8, <2>9, <3>2, <4>1
    <3> QED BY <3>1, <3>2
  <2>13. \A g \in File : Len(log'[g]) = Len(log[g]) /\ DOMAIN log'[g] = DOMAIN log[g]
    BY <2>7, <2>8
  <2>14. (\A p \in DOMAIN log[f] : log'[f][p].kind # "torn") /\ synced'[f] <= Len(log[f])
    BY <1>1, <2>9, <2>11
  <2>15. \A g \in File \ {f} : log'[g] = log[g] /\ synced'[g] = synced[g]
    BY <2>8, <2>9
  <2> QED BY <2>10, <2>12, <2>13, <2>14, <2>15, Zenon
<1> QED BY <1>5, <1>6 DEF OpenHandle

LEMMA OpenHandleKeeps ==
  ASSUME IInv, NEW t \in Txn, NEW f \in File, OpenHandle(t, f) PROVE IInv'
<1>0. /\ pc[t] = "open" /\ pc[t] \in InLock /\ Opening(t) /\ t \notin committed
      /\ TypeOK /\ Sizes /\ TornLast
  BY DEF IInv, SessionInv, InLock, OpenHandle
<1>1. UNCHANGED <<pc, intent, intentOnDisk, truthLock, committed, first, post, pos>>
  BY DEF OpenHandle, intentVars, dbVars
<1>2. TypeOK' /\ Grows
  BY OpenFacts
<1>3. \A g \in File : Len(log'[g]) = Len(log[g]) /\ DOMAIN log'[g] = DOMAIN log[g]
  BY OpenFacts
<1>4. \A g \in File \ {f} : log'[g] = log[g] /\ synced'[g] = synced[g]
  BY OpenFacts
<1>5. /\ \A u \in Txn \ {t} : base'[u] = base[u]
      /\ \A g \in File \ {f} : base'[t][g] = base[t][g]
      /\ base'[t][f] = IF exists[f] THEN Len(log[f]) ELSE Absent
  BY <1>0 DEF OpenHandle, TypeOK
<1>6. /\ exists'[f] /\ \A g \in File \ {f} : exists'[g] = exists[g]
      /\ f \in handles'[ProcOf[t]]
      /\ \A q \in Proc, g \in File \ {f} : g \in handles'[q] <=> g \in handles[q]
      /\ handles[ProcOf[t]] \subseteq handles'[ProcOf[t]]
  <2>1. ProcOf[t] \in Proc
    BY ProcAssumption
  <2> QED BY <1>0, <2>1 DEF OpenHandle, TypeOK
<1>7. Sizes'
  <2> SUFFICES ASSUME NEW g \in File
               PROVE  synced'[g] <= Len(log'[g]) /\ (~exists'[g] => log'[g] = <<>>)
    BY DEF Sizes
  <2>1. CASE g = f
    <3>1. synced'[f] <= Len(log[f])
      BY OpenFacts
    <3> QED BY <1>3, <1>6, <2>1, <3>1
  <2>2. CASE g # f
    BY <1>0, <1>4, <1>6, <2>2 DEF Sizes
  <2> QED BY <2>1, <2>2
<1>8. TornLast'
  <2> SUFFICES ASSUME NEW g \in File, NEW p \in DOMAIN log'[g], log'[g][p].kind = "torn"
               PROVE  p = Len(log'[g]) /\ \A q \in Proc : g \notin handles'[q]
    BY DEF TornLast
  <2>1. g # f
    BY <1>3, OpenFacts
  <2> QED BY <1>0, <1>4, <1>6, <2>1 DEF TornLast
<1>9. SessionInv(t)'
  <2>1. ASSUME NEW g \in FilesOf(t), base'[t][g] # Unset PROVE Held(t, g)'
    <3>1. g \in File
      BY BatchFacts
    <3>2. CASE g # f
      <4>1. Held(t, g)
        BY <1>0, <1>5, <2>1, <3>1, <3>2 DEF Opening
      <4>2. Baseline(t, g)' = Baseline(t, g)
        BY <1>5, <3>1, <3>2 DEF Baseline
      <4> QED BY <1>4, <1>5, <1>6, <3>1, <3>2, <4>1, <4>2 DEF Held, Mine, OwnTail
    <3>3. CASE g = f
      <4>1. ~exists[f] => Len(log[f]) = 0
        BY <1>0 DEF Sizes
      <4>2. Len(log[f]) \in Nat /\ DOMAIN log[f] = 1 .. Len(log[f])
        BY <1>0, LogFacts
      <4>3. Baseline(t, f)' = Len(log[f])
        BY <1>5, <4>1, <4>2 DEF Baseline, Absent
      <4>4. OwnTail(t, f)'
        BY <1>3, <4>2, <4>3 DEF OwnTail
      <4>5. Baseline(t, f)' <= Len(log'[f])
        BY <1>3, <4>2, <4>3
      <4> QED BY <1>6, <2>1, <3>3, <4>4, <4>5 DEF Held, Mine
    <3> QED BY <3>2, <3>3
  <2>2. Opening(t)'
    BY <1>0, <1>1, <2>1 DEF Opening, NoPost
  <2> QED BY <1>0, <1>1, <2>2 DEF SessionInv
<1>10. \A fr \in Txn : FrameInv(fr) => FrameInv(fr)'
  <2> SUFFICES ASSUME NEW fr \in Txn, FrameInv(fr), NEW g \in FilesOf(fr)
               PROVE  /\ base'[fr][g] # Unset /\ OwnTail(fr, g)'
                      /\ pc'[fr] \notin {"idle", "staged", "open", "framing"}
    BY BatchFacts DEF FrameInv
  <2>1. fr # t /\ g \in File
    BY <1>0, BatchFacts DEF FrameInv
  <2>2. Baseline(fr, g)' = Baseline(fr, g)
    BY <1>5, <2>1 DEF Baseline
  <2>3. OwnTail(fr, g)'
    BY <1>2, <1>3, <2>1, <2>2 DEF FrameInv, OwnTail, Grows
  <2> QED BY <1>1, <1>5, <2>1, <2>3 DEF FrameInv
<1>11. FrameInv(intent)' /\ FrameInv(intentOnDisk)'
  BY <1>1, <1>10 DEF IInv, FrameInv
<1> QED BY <1>0, <1>1, <1>2, <1>5, <1>7, <1>8, <1>9, <1>11, GrowthStep

(* The drain ends with every row of the batch durable on its own line.     *)
LEMMA ClearIntentKeeps == ASSUME IInv, NEW t \in Txn, ClearIntent(t) PROVE IInv'
<1> USE NotSessions
<1>0. /\ pc[t] = "append" /\ pc[t] \in InLock /\ Appending(t) /\ t \notin committed
      /\ TypeOK /\ Sizes /\ TornLast /\ pos[t] = Len(Batch[t]) /\ AllSynced(t)
  BY DEF IInv, SessionInv, InLock, ClearIntent, FinishDrain
<1>1. UNCHANGED <<log, exists, synced, handles, intentOnDisk, dbLock, committed,
                  highWater, first, base, pos>>
      /\ intent' = Empty /\ truthLock' = NoTxn /\ pc' = [pc EXCEPT ![t] = "drained"]
  BY DEF ClearIntent, FinishDrain, Goto, fileVars, dbVars
<1>2. pc'[t] = "drained" /\ \A u \in Txn \ {t} : pc'[u] = pc[u]
  BY <1>0, <1>1 DEF TypeOK
<1> DEFINE ps == [f \in File |-> IF f \in FilesOf(t) THEN Len(log[f]) ELSE Unset]
<1>3. post' = [post EXCEPT ![t] = ps]
  BY DEF ClearIntent, FinishDrain
<1>4. ps \in [File -> Nat \cup {Unset}]
  BY <1>0, LogFacts
<1>5. \A f \in FilesOf(t) : ps[f] = Len(log[f])
  BY BatchFacts
<1> HIDE DEF ps
<1>6. post' \in [Txn -> [File -> Nat \cup {Unset}]] /\ post'[t] = ps
      /\ \A u \in Txn \ {t} : post'[u] = post[u]
  BY <1>0, <1>3, <1>4 DEF TypeOK
<1>7. TypeOK'
  <2>1. pc' \in [Txn -> PCs]
    BY <1>0, <1>1 DEF TypeOK, PCs
  <2> QED BY <1>0, <1>1, <1>6, <2>1 DEF TypeOK
<1>8. Grows
  <2>1. \A g \in File : synced[g] \in Nat
    BY <1>0 DEF TypeOK
  <2> QED BY <1>1, <2>1 DEF Grows
<1>9. \A u \in Txn \ {t} : SessionInv(u)'
  <2> SUFFICES ASSUME NEW u \in Txn \ {t} PROVE SessionInv(u)'
    OBVIOUS
  <2>1. (Settled(u) => Settled(u)') /\ (FullyLogged(u) => FullyLogged(u)')
    BY <1>1, <1>6, <1>7, <1>8, GrowthKeeps
  <2> QED BY <1>0, <1>1, <1>2, <1>6, <2>1, OutsideKeep
<1>10. \A i \in DOMAIN Batch[t] : Placed(t, i)
  BY <1>0, BatchFacts DEF Appending
<1>11. \A i \in DOMAIN Batch[t] : \E p \in DOMAIN log[Batch[t][i].file] :
          /\ p > Baseline(t, Batch[t][i].file)
          /\ log[Batch[t][i].file][p] = Rec(t, i) /\ Readable(Batch[t][i].file, p)
  BY <1>10 DEF Placed
<1>12. Settled(t)'
  <2> SUFFICES ASSUME NEW f \in FilesOf(t)
               PROVE  /\ base'[t][f] # Unset
                      /\ Baseline(t, f)' < post'[t][f] /\ post'[t][f] <= synced'[f]
                      /\ OwnSpan(t, f)'
    BY DEF Settled
  <2>1. f \in File /\ Held(t, f) /\ synced[f] = Len(log[f]) /\ post'[t][f] = Len(log[f])
    BY <1>0, <1>5, <1>6, BatchFacts DEF Appending, AllSynced
  <2>2. Len(log[f]) \in Nat /\ DOMAIN log[f] = 1 .. Len(log[f])
    BY <1>0, <2>1, LogFacts
  <2>3. Baseline(t, f)' = Baseline(t, f) /\ Baseline(t, f) \in Nat
    BY <1>0, <1>1, <2>1, BaselineFacts DEF Baseline, Held, Mine
  <2>4. PICK i \in DOMAIN Batch[t] : Batch[t][i].file = f
    BY DEF FilesOf
  <2>5. PICK p \in DOMAIN log[f] : p > Baseline(t, f)
    BY <1>11, <2>4
  <2>6. Baseline(t, f) < Len(log[f])
    BY <2>2, <2>3, <2>5
  <2>7. OwnSpan(t, f)'
    BY <1>1, <2>1, <2>3 DEF OwnSpan, Held, Mine, OwnTail
  <2> QED BY <1>1, <2>1, <2>2, <2>3, <2>6, <2>7 DEF Held, Mine
<1>13. FullyLogged(t)'
  <2> SUFFICES ASSUME NEW i \in DOMAIN Batch[t] PROVE Covered(t, i)'
    BY DEF FullyLogged
  <2> DEFINE f == Batch[t][i].file
  <2>1. f \in File /\ f \in FilesOf(t) /\ f' = f
    BY BatchFacts DEF FilesOf
  <2>2. PICK p \in DOMAIN log[f] : log[f][p] = Rec(t, i) /\ Readable(f, p)
    BY <1>11
  <2> HIDE DEF f
  <2>3. synced[f] = Len(log[f]) /\ DOMAIN log[f] = 1 .. Len(log[f])
    BY <1>0, <2>1, LogFacts DEF AllSynced
  <2>4. Rec(t, i)' = Rec(t, i)
    BY <1>1 DEF Rec
  <2>5. Readable(f, p)'
    BY <1>1, <2>2 DEF Readable
  <2>6. \E q \in 1 .. synced'[f] : log'[f][q] = Rec(t, i)' /\ Readable(f, q)'
    BY <1>1, <2>2, <2>3, <2>4, <2>5
  <2> QED BY <2>6 DEF Covered, f
<1>14. SessionInv(t)'
  BY <1>0, <1>1, <1>2, <1>12, <1>13 DEF SessionInv
<1>15. LockInv'
  <2>1. \A u \in Txn : pc'[u] \notin InLock
    BY <1>0, <1>2, OneHolder DEF InLock
  <2> QED BY <1>1, <2>1 DEF LockInv
<1>16. Sizes' /\ TornLast'
  BY <1>0, <1>1 DEF Sizes, TornLast
<1>17. FrameInv(intent)' /\ FrameInv(intentOnDisk)' /\ OwnerInv'
  <2>1. intentOnDisk' = t
    BY <1>0, <1>1 DEF Appending
  <2>2. \A f \in FilesOf(t) : base'[t][f] # Unset /\ OwnTail(t, f)'
    BY <1>0, <1>1 DEF Appending, Held, Mine, OwnTail, Baseline
  <2> QED BY <1>1, <1>2, <2>1, <2>2 DEF FrameInv, OwnerInv
<1>18. RollbackInv'
  <2>1. \A u \in Txn : pc'[u] # "rollback"
    BY <1>0, <1>2, OneHolder DEF InLock
  <2> QED BY <2>1 DEF RollbackInv
<1> QED BY <1>7, <1>9, <1>14, <1>15, <1>16, <1>17, <1>18 DEF IInv
-----------------------------------------------------------------------------
(* The environment.                                                        *)

LEMMA KillKeeps == ASSUME Benign, IInv, NEW p \in Proc, Kill(p) PROVE IInv'
<1> USE NotSessions
<1>0. TypeOK /\ Sizes /\ TornLast
  BY DEF IInv
<1>1. /\ UNCHANGED <<log, exists, synced, intent, intentOnDisk, committed, highWater,
                     first, base, post, pos>>
      /\ pc' = [t \in Txn |-> IF ProcOf[t] = p /\ Live(t) THEN "dead" ELSE pc[t]]
      /\ handles' = [handles EXCEPT ![p] = {}]
  BY DEF Kill, KillTorn, Benign, intentVars, drainVars
<1>2. \A u \in Txn : pc'[u] = IF ProcOf[u] = p /\ pc[u] \notin Final THEN "dead" ELSE pc[u]
  BY <1>1 DEF Live
<1>3. /\ truthLock' = IF \E t \in Txn : ProcOf[t] = p /\ truthLock = t
                      THEN NoTxn ELSE truthLock
      /\ dbLock' \in Txn \cup {NoTxn}
  BY <1>0 DEF Kill, TypeOK
<1>4. \A q \in Proc : handles'[q] = IF q = p THEN {} ELSE handles[q]
  BY <1>0, <1>1 DEF TypeOK
<1>5. TypeOK'
  <2>1. pc' \in [Txn -> PCs]
    BY <1>0, <1>1 DEF TypeOK, PCs, Final
  <2>2. handles' \in [Proc -> SUBSET File]
    BY <1>0, <1>1 DEF TypeOK
  <2>3. truthLock' \in Txn \cup {NoTxn}
    BY <1>0, <1>3 DEF TypeOK
  <2> QED BY <1>0, <1>1, <1>3, <2>1, <2>2, <2>3 DEF TypeOK
<1>6. \A u \in Txn : /\ FullyLogged(u)' <=> FullyLogged(u)
                     /\ Settled(u)' <=> Settled(u)
                     /\ Undoing(u)' <=> Undoing(u)
                     /\ Fresh(u)' <=> Fresh(u)
                     /\ Unwinding(u)' <=> Unwinding(u)
                     /\ \A i : Placed(u, i)' <=> Placed(u, i)
                     /\ \A f \in File : Mine(u, f)' <=> Mine(u, f)
                     /\ \A f \in File : OwnTail(u, f)' <=> OwnTail(u, f)
                     /\ NoPost(u)' <=> NoPost(u)
  <2> SUFFICES ASSUME NEW u \in Txn
               PROVE  /\ FullyLogged(u)' <=> FullyLogged(u)
                      /\ Settled(u)' <=> Settled(u)
                      /\ Undoing(u)' <=> Undoing(u)
                      /\ Fresh(u)' <=> Fresh(u)
                      /\ Unwinding(u)' <=> Unwinding(u)
                      /\ \A i : Placed(u, i)' <=> Placed(u, i)
                      /\ \A f \in File : Mine(u, f)' <=> Mine(u, f)
                      /\ \A f \in File : OwnTail(u, f)' <=> OwnTail(u, f)
                      /\ NoPost(u)' <=> NoPost(u)
    OBVIOUS
  <2>1. \A f : Baseline(u, f)' = Baseline(u, f)
    BY <1>1 DEF Baseline
  <2>2. \A f : (OwnTail(u, f)' <=> OwnTail(u, f)) /\ (OwnSpan(u, f)' <=> OwnSpan(u, f))
    BY <1>1, <2>1 DEF OwnTail, OwnSpan
  <2>3. \A f : Mine(u, f)' <=> Mine(u, f)
    BY <1>1, <2>1, <2>2 DEF Mine
  <2>4. \A i : Rec(u, i)' = Rec(u, i)
    BY <1>1 DEF Rec
  <2>5. (\A i : Placed(u, i)' <=> Placed(u, i)) /\ (FullyLogged(u)' <=> FullyLogged(u))
    BY <1>1, <2>1, <2>4 DEF Placed, Readable, FullyLogged, Covered
  <2>6. (Settled(u)' <=> Settled(u)) /\ (Undoing(u)' <=> Undoing(u))
    BY <1>1, <2>1, <2>2 DEF Settled, Undoing
  <2>7. (NoPost(u)' <=> NoPost(u)) /\ (Fresh(u)' <=> Fresh(u))
    BY <1>1 DEF NoPost, Fresh
  <2>8. Unwinding(u)' <=> Unwinding(u)
    BY <1>1, <2>3, <2>7 DEF Unwinding
  <2> QED BY <2>2, <2>3, <2>5, <2>6, <2>7, <2>8
<1>7. \A u \in Txn : SessionInv(u)'
  <2> SUFFICES ASSUME NEW u \in Txn PROVE SessionInv(u)'
    OBVIOUS
  <2>0. SessionInv(u) /\ ProcOf[u] \in Proc
    BY ProcAssumption DEF IInv
  <2>1. CASE pc'[u] \in Final
    <3>1. pc'[u] = pc[u] \/ (pc'[u] = "dead" /\ pc[u] \notin Final)
      BY <1>2
    <3> QED BY <1>1, <1>6, <2>0, <2>1, <3>1 DEF SessionInv, Final
  <2>2. CASE pc'[u] \notin Final
    <3>1. pc'[u] = pc[u] /\ ProcOf[u] # p
      BY <1>2, <2>2 DEF Final
    <3>2. \A f \in File : Held(u, f)' <=> Held(u, f)
      BY <1>1, <1>4, <1>6, <2>0, <3>1 DEF Held
    <3>3. /\ Opening(u)' <=> Opening(u)
          /\ Opened(u)' <=> Opened(u)
          /\ Appending(u)' <=> Appending(u)
      BY <1>1, <1>6, <3>2, BatchFacts DEF Opening, Opened, Appending
    <3> QED BY <1>1, <1>6, <2>0, <3>1, <3>3 DEF SessionInv
  <2> QED BY <2>1, <2>2
<1>8. LockInv'
  <2> SUFFICES ASSUME NEW u \in Txn PROVE pc'[u] \in InLock <=> truthLock' = u
    BY DEF LockInv
  <2>1. pc[u] \in InLock <=> truthLock = u
    BY DEF IInv, LockInv
  <2>2. pc[u] \in InLock => pc[u] \notin Final
    BY DEF InLock, Final
  <2>3. "dead" \notin InLock
    BY DEF InLock
  <2> QED BY <1>2, <1>3, <2>1, <2>2, <2>3
<1>9. Sizes' /\ TornLast'
  BY <1>0, <1>1, <1>4 DEF Sizes, TornLast
<1>10. FrameInv(intent)' /\ FrameInv(intentOnDisk)'
  <2>1. \A fr \in Txn : FrameInv(fr) => FrameInv(fr)'
    BY <1>1, <1>2, <1>6, BatchFacts DEF FrameInv
  <2> QED BY <1>1, <2>1 DEF IInv, FrameInv
<1>11. OwnerInv'
  BY <1>1, <1>2 DEF IInv, OwnerInv
<1>12. RollbackInv'
  BY <1>1, <1>2 DEF IInv, RollbackInv
<1> QED BY <1>5, <1>7, <1>8, <1>9, <1>10, <1>11, <1>12 DEF IInv

(* A file after power loss: a prefix of it, and perhaps a torn line.       *)
LEMMA SurvivorFacts ==
  ASSUME TypeOK, NEW f \in File, NEW n \in synced[f] .. Len(log[f]), NEW torn
  PROVE  /\ Survivor(f, n, torn) \in Seq(Record)
         /\ Len(Survivor(f, n, torn)) \in {n, n + 1}
         /\ \A p \in 1 .. n : Survivor(f, n, torn)[p] = log[f][p]
         /\ Len(Survivor(f, n, torn)) = n + 1 =>
               /\ n + 1 \in DOMAIN log[f]
               /\ Survivor(f, n, torn)[n + 1].txn = log[f][n + 1].txn
               /\ Survivor(f, n, torn)[n + 1].kind = "torn"
<1>1. log[f] \in Seq(Record) /\ Len(log[f]) \in Nat /\ DOMAIN log[f] = 1 .. Len(log[f])
  BY LogFacts
<1>2. n \in 0 .. Len(log[f])
  BY <1>1 DEF TypeOK
<1> DEFINE s == SubSeq(log[f], 1, n)
<1>3. s \in Seq(Record) /\ Len(s) = n /\ \A p \in 1 .. n : s[p] = log[f][p]
  BY <1>1, <1>2, TruncateFacts
<1>4. CASE ~(torn /\ n < Len(log[f]))
  <2>1. Survivor(f, n, torn) = s
    BY <1>4 DEF Survivor
  <2> HIDE DEF s
  <2> QED BY <1>2, <1>3, <2>1
<1>5. CASE torn /\ n < Len(log[f])
  <2> DEFINE e == TornRecord(log[f][n + 1].txn)
  <2>1. Survivor(f, n, torn) = Append(s, e)
    BY <1>5 DEF Survivor
  <2>2. n + 1 \in DOMAIN log[f]
    BY <1>1, <1>2, <1>5
  <2>3. log[f][n + 1] \in Record
    BY <1>1, <2>2
  <2>4. e \in Record /\ e.txn = log[f][n + 1].txn /\ e.kind = "torn"
    BY <2>3 DEF Record, TornRecord
  <2> HIDE DEF s, e
  <2>5. /\ Append(s, e) \in Seq(Record) /\ Len(Append(s, e)) = Len(s) + 1
        /\ \A i \in 1 .. Len(s) : Append(s, e)[i] = s[i]
        /\ Append(s, e)[Len(s) + 1] = e
    BY <1>3, <2>4, AppendFacts
  <2> QED BY <1>2, <1>3, <2>1, <2>2, <2>4, <2>5
<1> QED BY <1>4, <1>5

LEMMA PowerLossKeeps == ASSUME IInv, PowerLoss PROVE IInv'
<1> USE NotSessions
<1>0. TypeOK /\ Sizes /\ TornLast
  BY DEF IInv
<1>1. /\ UNCHANGED <<exists, committed, highWater, first, base, post, pos>>
      /\ truthLock' = NoTxn /\ dbLock' = NoTxn
      /\ intent' \in {intent, intentOnDisk} /\ intentOnDisk' = intent'
      /\ handles' = [q \in Proc |-> {}]
      /\ pc' = [t \in Txn |-> IF Live(t) THEN "dead" ELSE pc[t]]
      /\ synced' = [f \in File |-> Len(log'[f])]
  BY DEF PowerLoss, drainVars
<1>2. PICK cut \in [File -> UNION {synced[f] .. Len(log[f]) : f \in File}],
           torn \in [File -> BOOLEAN] :
             /\ \A f \in File : cut[f] \in synced[f] .. Len(log[f])
             /\ log' = [f \in File |-> Survivor(f, cut[f], torn[f])]
  BY DEF PowerLoss
<1>3. \A f \in File : cut[f] \in synced[f] .. Len(log[f])
  BY <1>2
<1>4. \A f \in File :
        /\ log'[f] \in Seq(Record)
        /\ Len(log'[f]) \in {cut[f], cut[f] + 1}
        /\ \A p \in 1 .. cut[f] : log'[f][p] = log[f][p]
        /\ Len(log'[f]) = cut[f] + 1 =>
              /\ cut[f] + 1 \in DOMAIN log[f]
              /\ log'[f][cut[f] + 1].txn = log[f][cut[f] + 1].txn
  <2> SUFFICES ASSUME NEW f \in File
               PROVE  /\ log'[f] \in Seq(Record)
                      /\ Len(log'[f]) \in {cut[f], cut[f] + 1}
                      /\ \A p \in 1 .. cut[f] : log'[f][p] = log[f][p]
                      /\ Len(log'[f]) = cut[f] + 1 =>
                            /\ cut[f] + 1 \in DOMAIN log[f]
                            /\ log'[f][cut[f] + 1].txn = log[f][cut[f] + 1].txn
    OBVIOUS
  <2>1. log'[f] = Survivor(f, cut[f], torn[f])
    BY <1>2
  <2>2. cut[f] \in synced[f] .. Len(log[f])
    BY <1>3
  <2>3. /\ Survivor(f, cut[f], torn[f]) \in Seq(Record)
        /\ Len(Survivor(f, cut[f], torn[f])) \in {cut[f], cut[f] + 1}
        /\ \A p \in 1 .. cut[f] : Survivor(f, cut[f], torn[f])[p] = log[f][p]
        /\ Len(Survivor(f, cut[f], torn[f])) = cut[f] + 1 =>
              /\ cut[f] + 1 \in DOMAIN log[f]
              /\ Survivor(f, cut[f], torn[f])[cut[f] + 1].txn = log[f][cut[f] + 1].txn
    BY <1>0, <2>2, SurvivorFacts
  <2> QED BY <2>1, <2>3, Zenon
<1>5. log' \in [File -> Seq(Record)]
  <2>1. log' = [f \in File |-> Survivor(f, cut[f], torn[f])]
    BY <1>2
  <2>2. DOMAIN log' = File /\ log' = [f \in File |-> log'[f]]
    BY <2>1
  <2> QED BY <1>4, <2>2
<1>6. \A f \in File : /\ synced[f] \in Nat /\ cut[f] \in Nat /\ synced[f] <= cut[f]
                      /\ cut[f] <= Len(log[f]) /\ Len(log[f]) \in Nat
                      /\ DOMAIN log[f] = 1 .. Len(log[f])
                      /\ Len(log'[f]) \in Nat /\ DOMAIN log'[f] = 1 .. Len(log'[f])
                      /\ synced'[f] = Len(log'[f])
  <2> SUFFICES ASSUME NEW f \in File
               PROVE  /\ synced[f] \in Nat /\ cut[f] \in Nat /\ synced[f] <= cut[f]
                      /\ cut[f] <= Len(log[f]) /\ Len(log[f]) \in Nat
                      /\ DOMAIN log[f] = 1 .. Len(log[f])
                      /\ Len(log'[f]) \in Nat /\ DOMAIN log'[f] = 1 .. Len(log'[f])
                      /\ synced'[f] = Len(log'[f])
    OBVIOUS
  <2>1. synced[f] \in Nat
    BY <1>0 DEF TypeOK
  <2>2. Len(log[f]) \in Nat /\ DOMAIN log[f] = 1 .. Len(log[f])
    BY <1>0, LogFacts
  <2>3. log'[f] \in Seq(Record)
    BY <1>4
  <2>4. Len(log'[f]) \in Nat /\ DOMAIN log'[f] = 1 .. Len(log'[f])
    BY <2>3
  <2>5. cut[f] \in synced[f] .. Len(log[f])
    BY <1>3
  <2>6. synced'[f] = Len(log'[f])
    BY <1>1
  <2> QED BY <2>1, <2>2, <2>4, <2>5, <2>6
(* Whoever wrote a surviving line wrote it before.                         *)
<1>7. \A f \in File : \A p \in DOMAIN log'[f] :
         p \in DOMAIN log[f] /\ log'[f][p].txn = log[f][p].txn
  <2> SUFFICES ASSUME NEW f \in File, NEW p \in DOMAIN log'[f]
               PROVE  p \in DOMAIN log[f] /\ log'[f][p].txn = log[f][p].txn
    OBVIOUS
  <2>1. p \in 1 .. cut[f] \/ (p = cut[f] + 1 /\ Len(log'[f]) = cut[f] + 1)
    BY <1>4, <1>6
  <2>2. CASE p \in 1 .. cut[f]
    <3>1. log'[f][p] = log[f][p]
      BY <1>4, <2>2
    <3>2. p \in DOMAIN log[f]
      BY <1>6, <2>2
    <3> QED BY <3>1, <3>2
  <2>3. CASE p = cut[f] + 1 /\ Len(log'[f]) = cut[f] + 1
    BY <1>4, <2>3
  <2> QED BY <2>1, <2>2, <2>3
<1>8. TypeOK'
  <2>1. pc' \in [Txn -> PCs]
    BY <1>0, <1>1 DEF TypeOK, PCs, Final
  <2>2. synced' \in [File -> Nat]
    BY <1>1, <1>6
  <2>3. handles' \in [Proc -> SUBSET File]
    BY <1>1
  <2>4. intent' \in Txn \cup {Empty, Torn} /\ intentOnDisk' \in Txn \cup {Empty, Torn}
    BY <1>0, <1>1 DEF TypeOK
  <2> QED BY <1>0, <1>1, <1>5, <2>1, <2>2, <2>3, <2>4 DEF TypeOK
<1>9. \A u \in Txn : /\ pc'[u] \in Final
                     /\ pc'[u] = pc[u] \/ pc'[u] = "dead"
  BY <1>1 DEF Live, Final
<1>10. \A u \in committed : FullyLogged(u)'
  <2> SUFFICES ASSUME NEW u \in committed, NEW i \in DOMAIN Batch[u] PROVE Covered(u, i)'
    BY DEF FullyLogged
  <2> DEFINE f == Batch[u][i].file
  <2>0. u \in Txn
    BY <1>0 DEF TypeOK
  <2>1. f \in File /\ f' = f
    BY <2>0, BatchFacts
  <2>2. FullyLogged(u)
    BY <2>0 DEF IInv, SessionInv
  <2>3. PICK p \in 1 .. synced[f] : log[f][p] = Rec(u, i) /\ Readable(f, p)
    BY <2>2 DEF FullyLogged, Covered
  <2>4. Rec(u, i)' = Rec(u, i)
    BY <1>1 DEF Rec
  <2> HIDE DEF f
  <2>5. p \in 1 .. cut[f] /\ (p > 1 => p - 1 \in 1 .. cut[f])
    BY <1>6, <2>1, <2>3
  <2>6. log'[f][p] = log[f][p] /\ (p > 1 => log'[f][p - 1] = log[f][p - 1])
    BY <1>4, <2>1, <2>5
  <2>7. Readable(f, p)'
    BY <2>3, <2>6 DEF Readable
  <2>8. p \in 1 .. synced'[f]
    <3>1. Len(log'[f]) >= cut[f]
      BY <1>4, <1>6, <2>1
    <3> QED BY <1>6, <2>1, <2>5, <3>1
  <2>9. \E q \in 1 .. synced'[f] : log'[f][q] = Rec(u, i)' /\ Readable(f, q)'
    BY <2>3, <2>4, <2>6, <2>7, <2>8
  <2> QED BY <2>9 DEF Covered, f
<1>11. \A u \in Txn : SessionInv(u)'
  <2> SUFFICES ASSUME NEW u \in Txn PROVE SessionInv(u)'
    OBVIOUS
  <2>1. SessionInv(u)
    BY DEF IInv
  <2>2. Fresh(u) => Fresh(u)'
    BY <1>1 DEF Fresh, NoPost
  <2>3. pc'[u] = "idle" => Fresh(u)'
    BY <1>9, <2>1, <2>2 DEF SessionInv
  <2>4. u \in committed' => FullyLogged(u)' /\ pc'[u] \in {"done", "failed", "kept", "dead"}
    BY <1>1, <1>9, <1>10, <2>1 DEF SessionInv
  <2> QED BY <1>9, <2>3, <2>4 DEF SessionInv, Final
<1>12. LockInv'
  BY <1>1, <1>9 DEF LockInv, InLock, Final
<1>13. Sizes'
  <2> SUFFICES ASSUME NEW f \in File, ~exists[f] PROVE log'[f] = <<>>
    BY <1>1, <1>6 DEF Sizes
  <2>1. Len(log[f]) = 0
    BY <1>0 DEF Sizes
  <2>2. \A p \in DOMAIN log'[f] : FALSE
    BY <1>6, <1>7, <2>1
  <2>3. Len(log'[f]) = 0
    <3>1. Len(log'[f]) \in Nat /\ 1 \notin 1 .. Len(log'[f])
      BY <1>6, <2>2
    <3> QED BY <3>1
  <2>4. log'[f] \in Seq(Record)
    BY <1>4
  <2> QED BY <2>3, <2>4
<1>14. TornLast'
  <2> SUFFICES ASSUME NEW f \in File, NEW p \in DOMAIN log'[f], log'[f][p].kind = "torn"
               PROVE  p = Len(log'[f])
    BY <1>1 DEF TornLast
  <2>1. p \in 1 .. cut[f] \/ (p = cut[f] + 1 /\ Len(log'[f]) = cut[f] + 1)
    BY <1>4, <1>6
  <2>2. CASE p \in 1 .. cut[f]
    <3>1. log[f][p].kind = "torn" /\ p \in DOMAIN log[f]
      BY <1>4, <1>6, <2>2
    <3>2. p = Len(log[f])
      BY <1>0, <3>1 DEF TornLast
    <3>3. cut[f] = Len(log[f])
      BY <1>6, <2>2, <3>2
    <3>4. Len(log'[f]) # cut[f] + 1
      BY <1>4, <1>6, <3>3
    <3> QED BY <1>4, <3>2, <3>3, <3>4
  <2>3. CASE p = cut[f] + 1 /\ Len(log'[f]) = cut[f] + 1
    BY <2>3
  <2> QED BY <2>1, <2>2, <2>3
<1>15. \A fr \in Txn : FrameInv(fr) => FrameInv(fr)'
  <2> SUFFICES ASSUME NEW fr \in Txn, FrameInv(fr)
               PROVE  /\ \A f \in FilesOf(fr) : base'[fr][f] # Unset /\ OwnTail(fr, f)'
                      /\ pc'[fr] \notin {"idle", "staged", "open", "framing"}
    BY DEF FrameInv
  <2>1. pc'[fr] \notin {"idle", "staged", "open", "framing"}
    BY <1>9 DEF FrameInv, Final
  <2>2. ASSUME NEW f \in FilesOf(fr) PROVE base'[fr][f] # Unset /\ OwnTail(fr, f)'
    <3>1. f \in File /\ base[fr][f] # Unset /\ OwnTail(fr, f)
      BY BatchFacts DEF FrameInv
    <3>2. Baseline(fr, f)' = Baseline(fr, f)
      BY <1>1 DEF Baseline
    <3> QED BY <1>1, <1>7, <3>1, <3>2 DEF OwnTail
  <2> QED BY <2>1, <2>2
<1>16. FrameInv(intent)' /\ FrameInv(intentOnDisk)'
  BY <1>1, <1>15 DEF IInv, FrameInv
<1>17. OwnerInv'
  BY <1>1, <1>9, <1>16 DEF OwnerInv, FrameInv, Final
<1>18. RollbackInv'
  BY <1>9 DEF RollbackInv, Final
<1> QED BY <1>8, <1>11, <1>12, <1>13, <1>14, <1>16, <1>17, <1>18 DEF IInv
-----------------------------------------------------------------------------
(* Every step preserves the invariant.                                     *)
LEMMA StutterKeeps == ASSUME IInv, UNCHANGED vars PROVE IInv'
<1>1. UNCHANGED <<log, exists, synced, handles, base, post, pos, first, pc, intent,
                  intentOnDisk, truthLock, dbLock, committed, highWater>>
  BY DEF vars, fileVars, intentVars, dbVars, drainVars
<1>2. \A u \in Txn : SessionInv(u)'
  <2> SUFFICES ASSUME NEW u \in Txn PROVE SessionInv(u)'
    OBVIOUS
  <2>1. (Appending(u)' <=> Appending(u)) /\ (Unwinding(u)' <=> Unwinding(u))
    BY <1>1, StaticFacts DEF Appending, Unwinding
  <2> QED BY <1>1, <2>1, StaticFacts DEF IInv, SessionInv
<1>3. \A u \in Txn : FrameInv(u)' <=> FrameInv(u)
  BY <1>1 DEF FrameInv, OwnTail, Baseline
<1>4. FrameInv(intent)' /\ FrameInv(intentOnDisk)'
  BY <1>1, <1>3 DEF IInv, FrameInv
<1>5. TypeOK' /\ LockInv' /\ Sizes' /\ TornLast' /\ OwnerInv' /\ RollbackInv'
  BY <1>1 DEF IInv, TypeOK, LockInv, Sizes, TornLast, OwnerInv, RollbackInv
<1> QED BY <1>2, <1>4, <1>5 DEF IInv

LEMMA StepKeeps == ASSUME Benign, IInv, [Next]_vars PROVE IInv'
<1>1. ASSUME NEW t \in Txn, Recover(t) PROVE IInv'
  BY <1>1, RecoverNothingKeeps, RecoverKeepKeeps, RecoverUncommittedKeeps,
     RecoverFileKeeps, RecoverDoneKeeps DEF Recover
<1>2. ASSUME NEW t \in Txn, Drain(t) PROVE IInv'
  <2>1. ~ClearIntentFails(t)
    BY DEF ClearIntentFails, Benign
  <2> QED BY <1>2, <2>1, OpenHandleKeeps, WriteIntentKeeps, SyncIntentKeeps,
             AppendRowKeeps, FsyncFileKeeps, ClearIntentKeeps DEF Drain
<1>3. ASSUME NEW t \in Txn, Unwind(t) PROVE IInv'
  BY <1>3, UnwindFileKeeps, UnwindDoneKeeps DEF Unwind
<1>4. ASSUME NEW t \in Txn, Undo(t) PROVE IInv'
  BY <1>4, UndoKeepKeeps, UndoNeededKeeps, UndoFileKeeps, UndoDoneKeeps DEF Undo
<1>5. ASSUME NEW t \in Txn, Fault(t) PROVE IInv'
  BY <1>5, FrameFailsKeeps, AppendFailsKeeps, CommitRaisesKeeps DEF Fault
<1>6. ASSUME NEW t \in Txn, Stage(t) \/ Progress(t) \/ Fault(t) PROVE IInv'
  BY <1>1, <1>2, <1>3, <1>4, <1>5, <1>6, StageKeeps, AcquireKeeps, CommitKeeps DEF Progress
<1>7. ASSUME NEW p \in Proc, Kill(p) PROVE IInv'
  BY <1>7, KillKeeps
<1> QED BY <1>6, <1>7, PowerLossKeeps, StutterKeeps DEF Next

(* The invariant holds in every reachable state, for any number of         *)
(* sessions, processes, files and rows.                                    *)
THEOREM Inductive == ASSUME Benign PROVE Spec => []IInv
BY InitIInv, StepKeeps, PTL DEF Spec

(* Type correctness of the append path.                                    *)
THEOREM TypeCorrect == ASSUME Benign PROVE Spec => []TypeOK
<1>1. IInv => TypeOK
  BY DEF IInv
<1> QED BY <1>1, Inductive, PTL

LEMMA InvCovers == ASSUME IInv PROVE TruthCoversIndex
<1>1. committed \subseteq Txn
  BY DEF IInv, TypeOK
<1> QED BY <1>1 DEF IInv, SessionInv, TruthCoversIndex

(* The containment the archive stands on, "anything the projection has     *)
(* must already be in the truth" (drain.py), whatever the interleaving of  *)
(* sessions, kills, power losses, I/O errors and raising COMMITs.          *)
THEOREM Containment == ASSUME Benign PROVE Spec => []TruthCoversIndex
<1>1. IInv => TruthCoversIndex
  BY InvCovers
<1> QED BY <1>1, Inductive, PTL

(* Recovery never meets the frame of a session on its way to COMMIT        *)
(* (drain.py: "a live drain's intent never outlives its lock hold").       *)
THEOREM FrameOwnership == ASSUME Benign PROVE Spec => []FrameOwnerIsGone
<1>1. IInv => FrameOwnerIsGone
  <2> SUFFICES ASSUME IInv, intent \in Txn
               PROVE  truthLock = intent \/ pc[intent] \in Final
    BY DEF FrameOwnerIsGone
  <2>1. pc[intent] \in {"append", "unwind"} => truthLock = intent
    BY DEF IInv, LockInv, InLock
  <2> QED BY <2>1 DEF IInv, OwnerInv, Final
<1> QED BY <1>1, Inductive, PTL
-----------------------------------------------------------------------------
(* The append path implements the abstract store.                          *)

LEMMA StoreInit == ASSUME Init PROVE Store!Init
<1>1. \A t \in Txn : ~FullyLogged(t)
  <2> SUFFICES ASSUME NEW t \in Txn, FullyLogged(t) PROVE FALSE
    OBVIOUS
  <2>1. 1 \in DOMAIN Batch[t] /\ Batch[t][1].file \in File
    BY BatchFacts
  <2> DEFINE f == Batch[t][1].file
  <2>2. PICK p \in 1 .. synced[f] : log[f][p] = Rec(t, 1)
    BY <2>1 DEF FullyLogged, Covered
  <2>3. f \in File
    BY <2>1
  <2>4. Rec(t, 1).txn = t
    BY DEF Rec
  <2> HIDE DEF f
  <2>5. CASE f \in Preexisting
    <3> DEFINE r == [kind |-> "thread", id |-> 0, txn |-> NoTxn]
    <3>1. log[f] = <<r>> /\ synced[f] = 1
      BY <2>3, <2>5 DEF Init
    <3>2. r.txn = NoTxn
      OBVIOUS
    <3> HIDE DEF r
    <3>3. log[f][p] = r
      BY <2>2, <3>1
    <3> QED BY <2>2, <2>4, <3>2, <3>3, NotSessions
  <2>6. CASE f \notin Preexisting
    BY <2>2, <2>3, <2>6 DEF Init
  <2> QED BY <2>5, <2>6
<1> QED BY <1>1 DEF Init, Store!Init

LEMMA LandsOnly ==
  ASSUME [Next]_vars, NEW t \in Txn, Commit(t) \/ CommitRaises(t)
  PROVE  UNCHANGED <<log, synced, first>>
BY DEF Commit, CommitRaises, fileVars

(* The index changes by a COMMIT and by nothing else.                      *)
LEMMA OnlyCommits ==
  ASSUME [Next]_vars
  PROVE  UNCHANGED committed \/ \E t \in Txn : Commit(t) \/ CommitRaises(t)
<1>1. ASSUME NEW t \in Txn, Recover(t) PROVE UNCHANGED committed
  BY <1>1 DEF Recover, RecoverNothing, RecoverKeep, RecoverUncommitted, RecoverFile,
              RecoverDone, dbVars
<1>2. ASSUME NEW t \in Txn, Drain(t) PROVE UNCHANGED committed
  BY <1>2 DEF Drain, OpenHandle, WriteIntent, SyncIntent, AppendRow, FsyncFile,
              ClearIntent, ClearIntentFails, dbVars
<1>3. ASSUME NEW t \in Txn, Unwind(t) \/ Undo(t) PROVE UNCHANGED committed
  BY <1>3 DEF Unwind, UnwindFile, UnwindDone, Undo, UndoKeep, UndoNeeded, UndoFile,
              UndoDone, dbVars
<1>4. ASSUME NEW t \in Txn, Stage(t) \/ Acquire(t) \/ FrameFails(t) \/ AppendFails(t)
      PROVE  UNCHANGED committed
  BY <1>4 DEF Stage, Acquire, FrameFails, AppendFails, dbVars
<1>5. ASSUME NEW t \in Txn, Stage(t) \/ Progress(t) \/ Fault(t)
      PROVE  UNCHANGED committed \/ Commit(t) \/ CommitRaises(t)
  BY <1>1, <1>2, <1>3, <1>4, <1>5 DEF Progress, Fault
<1>6. ASSUME NEW p \in Proc, Kill(p) PROVE UNCHANGED committed
  BY <1>6 DEF Kill
<1>7. PowerLoss \/ UNCHANGED vars => UNCHANGED committed
  BY DEF PowerLoss, vars, dbVars
<1> QED BY <1>5, <1>6, <1>7 DEF Next

LEMMA StoreStep ==
  ASSUME IInv, IInv', [Next]_vars
  PROVE  [Store!Next]_<<{t \in Txn : FullyLogged(t)}, committed>>
<1>1. /\ committed \subseteq {t \in Txn : FullyLogged(t)}
      /\ committed' \subseteq {t \in Txn : FullyLogged(t)'}
  <2>1. TruthCoversIndex /\ committed \subseteq Txn /\ committed' \subseteq Txn
    BY InvCovers DEF IInv, TypeOK
  <2>2. \A t \in committed' : FullyLogged(t)'
    BY <2>1 DEF IInv, SessionInv
  <2> QED BY <2>1, <2>2 DEF TruthCoversIndex
<1>2. CASE UNCHANGED committed
  BY <1>1, <1>2 DEF Store!Next, Store!Relog
<1>3. CASE \E t \in Txn : Commit(t) \/ CommitRaises(t)
  <2>1. PICK t \in Txn : Commit(t) \/ CommitRaises(t)
    BY <1>3
  <2>2. UNCHANGED <<log, synced, first>>
    BY <2>1, LandsOnly
  <2>3. \A u \in Txn : FullyLogged(u)' <=> FullyLogged(u)
    BY <2>2 DEF FullyLogged, Covered, Readable, Rec
  <2>4. pc[t] = "drained" /\ FullyLogged(t)
    BY <2>1 DEF Commit, CommitRaises, CanCommit, IInv, SessionInv
  <2>5. committed' = committed \/ committed' = committed \cup {t}
    BY <2>1 DEF Commit, CommitRaises, Land
  <2> QED BY <1>1, <2>3, <2>4, <2>5 DEF Store!Next, Store!Relog, Store!Index
<1> QED BY <1>2, <1>3, OnlyCommits

(* Files, journal, locks and faults are invisible: the append path is an   *)
(* abstract store that logs a batch durably, then indexes it atomically.   *)
THEOREM Refinement == ASSUME Benign PROVE Spec => StoreSpec
<1>1. Init => Store!Init
  BY StoreInit
<1>2. IInv /\ IInv' /\ [Next]_vars => [Store!Next]_<<{t \in Txn : FullyLogged(t)}, committed>>
  BY StoreStep
<1> QED BY <1>1, <1>2, Inductive, PTL DEF Spec, StoreSpec, Store!Spec
=============================================================================
