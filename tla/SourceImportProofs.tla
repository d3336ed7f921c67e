-------------------------- MODULE SourceImportProofs --------------------------
(***************************************************************************)
(* While the imports of one file wait for each other, whatever the provider*)
(* writes and however often an import dies or fails: no thread is there    *)
(* without an event; no cursor and no fingerprint hides a line that is not *)
(* accounted for; what is passed for nothing is on the ledger, and a repair*)
(* closes its record only when it has been imported.                       *)
(***************************************************************************)
EXTENDS SourceImport, FiniteSetTheorems, SequenceTheorems, TLAPS

Places == {"idle", "read", "resolve", "drained", "reset", "forget", "reread"}
Busy == {"read", "resolve", "drained"}
Fields == {"bytes", "print", "loaded", "write", "batch", "passed", "adopts"}

Shape ==
  /\ pc \in [Importer -> Places]
  /\ DOMAIN job = Importer
  /\ \A p \in Importer : DOMAIN job[p] = Fields

(* One import at a time is between its first look and its COMMIT.          *)
Exclusion == \A p, q \in Importer : pc[p] \in Busy /\ pc[q] \in Busy => p = q

(* A thread and its record are where their events are.                     *)
Inhabited == (thread <=> index # {}) /\ (record <=> truth # {})

(* What the index holds, and what a COMMIT will add to it, is in the truth. *)
TruthHolds ==
  /\ index \subseteq truth
  /\ \A p \in Importer : pc[p] = "drained" => job[p].batch \subseteq truth

GhostInv == Shape /\ Exclusion /\ Inhabited /\ TruthHolds

(* What a COMMIT is about to pass over without a thread to show for it.    *)
Discards(p) == pc[p] = "drained" /\ ~job[p].adopts /\ ~thread /\ job[p].batch = {}

(* ... is on the ledger, and a repair that ends will leave it there.       *)
LedgerHolds ==
  \A p \in Importer :
    SkipLedgered /\ Discards(p) =>
                   /\ job[p].passed \subseteq Meta \cup ledger
                   /\ job[p].passed \subseteq Meta \/ pc[Repair] # "reread" \/ again
-----------------------------------------------------------------------------
LEMMA GhostInit == Init => GhostInv /\ LedgerHolds
<1> SUFFICES ASSUME Init PROVE GhostInv /\ LedgerHolds
  OBVIOUS
<1>1. Shape
  BY DEF Init, Shape, Places, Fields, NoJob
<1>2. \A p \in Importer : pc[p] = "idle"
  BY DEF Init
<1>3. Exclusion
  BY <1>2 DEF Exclusion, Busy
<1>4. Inhabited /\ TruthHolds /\ LedgerHolds
  BY <1>2 DEF Init, Inhabited, TruthHolds, LedgerHolds, Discards
<1> QED BY <1>1, <1>3, <1>4 DEF GhostInv

(* An importer that goes on to where it is not busy, or was busy before,   *)
(* or found no other there, stays alone.                                   *)
LEMMA Moves ==
  ASSUME Shape, Exclusion, NEW p \in Importer, NEW l \in Places, Goto(p, l),
         \/ l \notin Busy
         \/ pc[p] \in Busy
         \/ \A q \in Importer \ {p} : pc[q] \notin Busy
  PROVE  /\ pc' \in [Importer -> Places]
         /\ Exclusion'
         /\ pc'[p] = l
         /\ \A q \in Importer : q # p => pc'[q] = pc[q]
<1>1. /\ pc' \in [Importer -> Places]
      /\ pc'[p] = l
      /\ \A q \in Importer : q # p => pc'[q] = pc[q]
  BY DEF Shape, Goto
<1>2. Exclusion'
  BY <1>1 DEF Exclusion
<1> QED BY <1>1, <1>2

LEMMA AloneIsFree ==
  ASSUME OneAtATime, NEW p \in Importer, Alone(p)
  PROVE  \A q \in Importer \ {p} : pc[q] \notin Busy
BY DEF Alone, Busy

LEMMA JobsKeepShape ==
  ASSUME Shape, NEW p \in Importer, NEW j, DOMAIN j = Fields, job' = [job EXCEPT ![p] = j]
  PROVE  /\ DOMAIN job' = Importer
         /\ \A q \in Importer : DOMAIN job'[q] = Fields
         /\ job'[p] = j
         /\ \A q \in Importer : q # p => job'[q] = job[q]
BY DEF Shape

LEMMA NoJobFields == DOMAIN NoJob = Fields
BY DEF NoJob, Fields
-----------------------------------------------------------------------------
(* An importer that stages.                                                *)
LEMMA StageFacts ==
  ASSUME Shape, Exclusion, NEW p \in Importer, NEW write, NEW batch, NEW passed, NEW adopts,
         Stage(p, write, batch, passed, adopts)
  PROVE  /\ Shape' /\ Exclusion'
         /\ pc[p] = "resolve" /\ pc'[p] = "drained"
         /\ \A q \in Importer : q # p => pc'[q] = pc[q] /\ pc[q] \notin Busy /\ job'[q] = job[q]
         /\ job'[p].batch = batch /\ job'[p].passed = passed /\ job'[p].adopts = adopts
<1> DEFINE j == [job[p] EXCEPT !.bytes = Empty, !.loaded = mark, !.write = write,
                               !.batch = batch, !.passed = passed, !.adopts = adopts]
<1>1. job' = [job EXCEPT ![p] = j]
  BY DEF Stage
<1>2. DOMAIN job[p] = Fields
  BY DEF Shape
<1>3. DOMAIN j = Fields
  BY <1>2
<1>4. j.batch = batch /\ j.passed = passed /\ j.adopts = adopts
  BY <1>2 DEF Fields
<1> HIDE DEF j
<1>5. /\ DOMAIN job' = Importer
      /\ \A q \in Importer : DOMAIN job'[q] = Fields
      /\ job'[p] = j
      /\ \A q \in Importer : q # p => job'[q] = job[q]
  BY <1>1, <1>3, JobsKeepShape
<1>6. Goto(p, "drained") /\ pc[p] = "resolve"
  BY DEF Stage
<1>7. /\ pc' \in [Importer -> Places]
      /\ Exclusion'
      /\ pc'[p] = "drained"
      /\ \A q \in Importer : q # p => pc'[q] = pc[q]
  BY <1>6, Moves DEF Places, Busy
<1>8. \A q \in Importer : q # p => pc[q] \notin Busy
  BY <1>6 DEF Exclusion, Busy
<1> QED BY <1>4, <1>5, <1>6, <1>7, <1>8 DEF Shape

LEMMA StageGhost ==
  ASSUME GhostInv, NEW p \in Importer, NEW write, NEW batch, NEW passed, NEW adopts,
         Stage(p, write, batch, passed, adopts)
  PROVE  GhostInv'
<1>1. /\ Shape' /\ Exclusion'
      /\ pc'[p] = "drained"
      /\ \A q \in Importer : q # p => pc'[q] = pc[q] /\ pc[q] \notin Busy /\ job'[q] = job[q]
      /\ job'[p].batch = batch
  BY StageFacts DEF GhostInv
<1>2. /\ truth' = truth \cup batch /\ (record' <=> (record \/ batch # {}))
      /\ index' = index /\ thread' = thread
  BY DEF Stage, store
<1>3. Inhabited'
  BY <1>2 DEF GhostInv, Inhabited
<1>4. TruthHolds'
  BY <1>1, <1>2 DEF GhostInv, TruthHolds, Busy
<1> QED BY <1>1, <1>3, <1>4 DEF GhostInv

(* It keeps the ledger's promise if it has a thread, an event, or a record *)
(* for what it passes.                                                     *)
LEMMA StageLedger ==
  ASSUME GhostInv, LedgerHolds,
         NEW p \in Importer, NEW write, NEW batch, NEW passed, NEW adopts,
         Stage(p, write, batch, passed, adopts),
         \/ adopts \/ thread \/ batch # {}
         \/ passed \subseteq Meta
         \/ SkipLedgered => passed \subseteq Meta \cup ledger' /\ again'
  PROVE  LedgerHolds'
<1>1. /\ pc'[p] = "drained"
      /\ \A q \in Importer : q # p => pc'[q] = pc[q] /\ pc[q] \notin Busy
      /\ job'[p].batch = batch /\ job'[p].passed = passed /\ job'[p].adopts = adopts
  BY StageFacts DEF GhostInv
<1>2. thread' = thread
  BY DEF Stage, store
<1>3. ASSUME SkipLedgered, NEW q \in Importer, Discards(q)'
      PROVE  /\ job'[q].passed \subseteq Meta \cup ledger'
             /\ job'[q].passed \subseteq Meta \/ pc'[Repair] # "reread" \/ again'
  <2>1. q = p
    BY <1>1, <1>3 DEF Discards, Busy
  <2>2. ~adopts /\ ~thread /\ batch = {}
    BY <1>1, <1>2, <1>3, <2>1 DEF Discards
  <2> QED BY <1>1, <1>3, <2>1, <2>2
<1> QED BY <1>3 DEF LedgerHolds
-----------------------------------------------------------------------------
(* What an import finds to do.                                             *)
LEMMA ImportStages ==
  ASSUME GhostInv, LedgerHolds, NEW p \in Importer,
         \/ StampDigest(p) \/ CarryForward(p) \/ Adopt(p) \/ Import(p) \/ Discard(p)
  PROVE  GhostInv' /\ LedgerHolds' /\ missed' = missed
<1> USE DEF history
<1>1. CASE StampDigest(p)
  <2> DEFINE write == [mark EXCEPT !.digest = job[p].bytes]
  <2>1. Stage(p, write, {}, {}, FALSE)
    BY <1>1 DEF StampDigest
  <2> HIDE DEF write
  <2>3. GhostInv'
    BY <2>1, StageGhost
  <2>4. LedgerHolds'
    BY <2>1, StageLedger
  <2> QED BY <2>1, <2>3, <2>4 DEF Stage
<1>2. CASE CarryForward(p)
  <2> DEFINE write == IF mark = NoMark THEN NoMark ELSE MarkOf(job[p].bytes)
  <2>1. Stage(p, write, {}, {}, FALSE)
    BY <1>2 DEF CarryForward
  <2> HIDE DEF write
  <2>3. GhostInv'
    BY <2>1, StageGhost
  <2>4. LedgerHolds'
    BY <2>1, StageLedger
  <2> QED BY <2>1, <2>3, <2>4 DEF Stage
<1>3. CASE Adopt(p)
  <2> DEFINE write == MarkOf(job[p].bytes)
             passed == NewLines(p)
  <2>1. Stage(p, write, {}, passed, TRUE)
    BY <1>3 DEF Adopt
  <2> HIDE DEF write, passed
  <2>3. GhostInv'
    BY <2>1, StageGhost
  <2>4. LedgerHolds'
    BY <2>1, StageLedger
  <2> QED BY <2>1, <2>3, <2>4 DEF Stage
<1>4. CASE Import(p)
  <2> DEFINE write == MarkOf(job[p].bytes)
             passed == NewLines(p)
             batch == Understood(p) \ index
  <2>1. Stage(p, write, batch, passed, FALSE) /\ (thread \/ Understood(p) # {})
    BY <1>4 DEF Import
  <2>2. thread \/ batch # {}
    BY <2>1 DEF GhostInv, Inhabited
  <2> HIDE DEF write, passed, batch
  <2>3. GhostInv'
    BY <2>1, StageGhost
  <2>4. LedgerHolds'
    BY <2>1, <2>2, StageLedger
  <2> QED BY <2>1, <2>3, <2>4 DEF Stage
<1>5. CASE Discard(p)
  <2> DEFINE write == MarkOf(job[p].bytes)
             passed == NewLines(p)
  <2>1. /\ Stage(p, write, {}, passed, FALSE)
        /\ SkipLedgered => ledger' = ledger \cup passed /\ again'
    BY <1>5 DEF Discard
  <2> HIDE DEF write, passed
  <2>3. GhostInv'
    BY <2>1, StageGhost
  <2>4. LedgerHolds'
    BY <2>1, StageLedger
  <2> QED BY <2>1, <2>3, <2>4 DEF Stage
<1> QED BY <1>1, <1>2, <1>3, <1>4, <1>5

(* An importer that gives its job back, by a COMMIT, a failure or a death. *)
LEMMA HandsBack ==
  ASSUME Shape, Exclusion, NEW p \in Importer, NEW l \in {"idle", "reread"}, Goto(p, l),
         job' = [job EXCEPT ![p] = NoJob]
  PROVE  /\ Shape' /\ Exclusion'
         /\ pc'[p] = l
         /\ \A q \in Importer : q # p => pc'[q] = pc[q] /\ job'[q] = job[q]
<1>1. /\ pc' \in [Importer -> Places]
      /\ Exclusion'
      /\ pc'[p] = l
      /\ \A q \in Importer : q # p => pc'[q] = pc[q]
  BY Moves DEF Places, Busy
<1>2. /\ DOMAIN job' = Importer
      /\ \A q \in Importer : DOMAIN job'[q] = Fields
      /\ \A q \in Importer : q # p => job'[q] = job[q]
  BY NoJobFields, JobsKeepShape
<1> QED BY <1>1, <1>2 DEF Shape

(* Only the importer that moves can pass over lines; what the other one    *)
(* had promised stands while its thread and the ledger do.                 *)
LEMMA OthersKeepTheLedger ==
  ASSUME Shape, LedgerHolds, NEW p \in Importer, pc'[p] # "drained",
         \A q \in Importer : q # p => pc'[q] = pc[q] /\ job'[q] = job[q],
         thread => thread', ledger' = ledger, again' = again,
         p # Repair \/ pc'[p] # "reread" \/ (\A q \in Importer : q # p => pc[q] # "drained")
  PROVE  LedgerHolds'
<1>1. ASSUME SkipLedgered, NEW q \in Importer, Discards(q)'
      PROVE  /\ job'[q].passed \subseteq Meta \cup ledger'
             /\ job'[q].passed \subseteq Meta \/ pc'[Repair] # "reread" \/ again'
  <2>1. q # p
    BY <1>1 DEF Discards
  <2>2. Discards(q)
    BY <1>1, <2>1 DEF Discards
  <2>3. pc[Repair] # "reread" => pc'[Repair] # "reread"
    BY <2>1, <2>2 DEF Discards, Importer
  <2> QED BY <1>1, <2>1, <2>2, <2>3 DEF LedgerHolds
<1> QED BY <1>1 DEF LedgerHolds

LEMMA CommitKeeps ==
  ASSUME GhostInv, LedgerHolds, NEW p \in Importer, Commit(p)
  PROVE  /\ GhostInv' /\ LedgerHolds'
         /\ SkipLedgered /\ missed' \ missed # {} => thread' \/ missed' \ missed \subseteq ledger'
<1>1. /\ pc[p] = "drained" /\ Goto(p, Done(p)) /\ Done(p) \in {"idle", "reread"}
      /\ job' = [job EXCEPT ![p] = NoJob]
      /\ index' = index \cup job[p].batch
      /\ thread' = (thread \/ job[p].batch # {})
      /\ truth' = truth /\ record' = record /\ ledger' = ledger /\ again' = again
  BY DEF Commit, Done, truths
<1>2. /\ Shape' /\ Exclusion'
      /\ pc'[p] \in {"idle", "reread"}
      /\ \A q \in Importer : q # p => pc'[q] = pc[q] /\ job'[q] = job[q]
  BY <1>1, HandsBack DEF GhostInv
<1>3. \A q \in Importer : q # p => pc[q] # "drained"
  BY <1>1 DEF GhostInv, Exclusion, Busy
<1>4. Inhabited'
  BY <1>1 DEF GhostInv, Inhabited
<1>5. TruthHolds'
  BY <1>1, <1>2, <1>3 DEF GhostInv, TruthHolds
<1>6. LedgerHolds'
  BY <1>1, <1>2, <1>3, OthersKeepTheLedger DEF GhostInv
<1>7. ASSUME SkipLedgered, missed' # missed, ~thread'
      PROVE  missed' \ missed \subseteq ledger'
  <2>1. missed' = missed \cup (job[p].passed \ (Meta \cup index')) /\ ~job[p].adopts
    BY <1>7 DEF Commit
  <2>2. ~thread /\ job[p].batch = {}
    BY <1>1, <1>7
  <2>3. SkipLedgered => job[p].passed \subseteq Meta \cup ledger
    BY <1>1, <1>7, <2>1, <2>2 DEF LedgerHolds, Discards
  <2> QED BY <1>1, <1>7, <2>1, <2>3
<1> QED BY <1>2, <1>4, <1>5, <1>6, <1>7 DEF GhostInv

(* The undo of a failed import takes no event of the index out of the      *)
(* truth, and no thread its record.                                        *)
LEMMA FailKeeps ==
  ASSUME GhostInv, LedgerHolds, NEW p \in Importer, Fail(p)
  PROVE  GhostInv' /\ LedgerHolds' /\ missed' = missed
<1>1. /\ pc[p] \in {"resolve", "drained"} /\ Goto(p, "idle")
      /\ job' = [job EXCEPT ![p] = NoJob]
      /\ index' = index /\ thread' = thread /\ ledger' = ledger /\ again' = again
      /\ missed' = missed
  BY DEF Fail, store, history
<1>2. /\ Shape' /\ Exclusion'
      /\ pc'[p] = "idle"
      /\ \A q \in Importer : q # p => pc'[q] = pc[q] /\ job'[q] = job[q]
  BY <1>1, HandsBack DEF GhostInv
<1>3. \A q \in Importer : q # p => pc[q] # "drained"
  BY <1>1 DEF GhostInv, Exclusion, Busy
<1>4. \/ truth' = truth /\ record' = record
      \/ /\ truth' = truth \ (job[p].batch \ index)
         /\ record' = (record /\ (thread \/ truth' # {}))
  BY DEF Fail, truths
<1>5. Inhabited' /\ index' \subseteq truth'
  <2>1. index' \subseteq truth'
    BY <1>1, <1>4 DEF GhostInv, TruthHolds
  <2>2. thread' <=> index' # {}
    BY <1>1 DEF GhostInv, Inhabited
  <2>3. ASSUME truth' = truth /\ record' = record
        PROVE  record' <=> truth' # {}
    BY <2>3 DEF GhostInv, Inhabited
  <2>4. ASSUME /\ truth' = truth \ (job[p].batch \ index)
               /\ record' = (record /\ (thread \/ truth' # {}))
        PROVE  record' <=> truth' # {}
    <3>1. truth' # {} => truth # {}
      BY <2>4
    <3>2. thread => truth' # {}
      BY <1>1, <2>1, <2>2
    <3>3. record <=> truth # {}
      BY DEF GhostInv, Inhabited
    <3> QED BY <2>4, <3>1, <3>2, <3>3
  <2> QED BY <1>4, <2>1, <2>2, <2>3, <2>4 DEF Inhabited
<1>6. TruthHolds'
  BY <1>2, <1>3, <1>5 DEF TruthHolds
<1>7. LedgerHolds'
  BY <1>1, <1>2, OthersKeepTheLedger DEF GhostInv
<1> QED BY <1>1, <1>2, <1>5, <1>6, <1>7 DEF GhostInv

LEMMA CrashKeeps ==
  ASSUME GhostInv, LedgerHolds, NEW p \in Importer, Crash(p)
  PROVE  GhostInv' /\ LedgerHolds' /\ missed' = missed
<1>1. /\ Goto(p, "idle") /\ job' = [job EXCEPT ![p] = NoJob]
      /\ UNCHANGED <<index, thread, truth, record, ledger, again, missed>>
  BY DEF Crash, store, truths, history
<1>2. /\ Shape' /\ Exclusion'
      /\ pc'[p] = "idle"
      /\ \A q \in Importer : q # p => pc'[q] = pc[q] /\ job'[q] = job[q]
  BY <1>1, HandsBack DEF GhostInv
<1>3. Inhabited' /\ TruthHolds'
  BY <1>1, <1>2 DEF GhostInv, Inhabited, TruthHolds
<1>4. LedgerHolds'
  BY <1>1, <1>2, OthersKeepTheLedger DEF GhostInv
<1> QED BY <1>1, <1>2, <1>3, <1>4 DEF GhostInv
-----------------------------------------------------------------------------
(* An importer that moves on without a COMMIT, and holds nothing drained.  *)
LEMMA WalkKeeps ==
  ASSUME GhostInv, LedgerHolds, NEW p \in Importer, NEW l \in Places, Goto(p, l),
         l # "drained", l # "reread",
         \/ l \notin Busy
         \/ pc[p] \in Busy
         \/ \A q \in Importer \ {p} : pc[q] \notin Busy,
         \/ job' = job
         \/ \E j : DOMAIN j = Fields /\ job' = [job EXCEPT ![p] = j],
         UNCHANGED <<index, thread, truth, record>>,
         ledger' = ledger,
         (again' = again) \/ p = Repair
  PROVE  GhostInv' /\ LedgerHolds'
<1>1. /\ pc' \in [Importer -> Places]
      /\ Exclusion'
      /\ pc'[p] = l
      /\ \A q \in Importer : q # p => pc'[q] = pc[q]
  BY Moves DEF GhostInv
<1>2. /\ DOMAIN job' = Importer
      /\ \A q \in Importer : DOMAIN job'[q] = Fields
      /\ \A q \in Importer : q # p => job'[q] = job[q]
  BY JobsKeepShape DEF GhostInv, Shape
<1>3. Shape'
  BY <1>1, <1>2 DEF Shape
<1>4. Inhabited' /\ TruthHolds'
  BY <1>1, <1>2 DEF GhostInv, Inhabited, TruthHolds
<1>5. CASE again' = again
  <2>1. LedgerHolds'
    BY <1>1, <1>2, <1>5, OthersKeepTheLedger DEF GhostInv
  <2> QED BY <2>1, <1>1, <1>3, <1>4 DEF GhostInv
<1>6. CASE p = Repair
  <2>1. \A q \in Importer : Discards(q)' => Discards(q) /\ job'[q] = job[q]
    BY <1>1, <1>2 DEF Discards
  <2>2. LedgerHolds'
    BY <1>1, <1>6, <2>1 DEF LedgerHolds
  <2> QED BY <2>2, <1>1, <1>3, <1>4 DEF GhostInv
<1> QED BY <1>5, <1>6
-----------------------------------------------------------------------------
(* Whatever step is taken: the invariant again, and the ledger's promise.  *)
LEMMA ImportNext ==
  ASSUME OneAtATime, GhostInv, LedgerHolds, [Next]_vars
  PROVE  /\ GhostInv' /\ LedgerHolds'
         /\ SkipLedgered /\ missed' \ missed # {} => thread' \/ missed' \ missed \subseteq ledger'
<1> DEFINE Here == <<index, thread, truth, record, ledger, again, pc, job, missed>>
<1>1. CASE UNCHANGED Here
  <2>1. Shape' /\ Exclusion'
    BY <1>1 DEF GhostInv, Shape, Exclusion
  <2>2. Inhabited' /\ TruthHolds'
    BY <1>1 DEF GhostInv, Inhabited, TruthHolds
  <2>3. LedgerHolds'
    BY <1>1 DEF LedgerHolds, Discards
  <2> QED BY <1>1, <2>1, <2>2, <2>3 DEF GhostInv
<1>2. CASE UNCHANGED vars
  BY <1>1, <1>2 DEF vars, store, truths, history
<1>3. CASE Provider
  BY <1>1, <1>3 DEF Provider, AppendLine, AppendTorn, Rewrite, WriteFile, store, truths, history
<1>4. CASE FixParser
  BY <1>1, <1>4 DEF FixParser, store, truths, history
<1>5. CASE Probe
  <2>1. /\ Goto(Daemon, "read") /\ Alone(Daemon)
        /\ UNCHANGED <<index, thread, truth, record, ledger, again, missed>>
    BY <1>5 DEF Probe, store, truths, history
  <2>2. job' = [job EXCEPT ![Daemon] = [job[Daemon] EXCEPT !.print = Fingerprint]]
    BY <1>5 DEF Probe
  <2>3. DOMAIN [job[Daemon] EXCEPT !.print = Fingerprint] = Fields
    BY DEF GhostInv, Shape, Importer
  <2>4. Daemon \in Importer
    BY DEF Importer
  <2>5. \A q \in Importer \ {Daemon} : pc[q] \notin Busy
    BY <2>1, <2>4, AloneIsFree
  <2>6. GhostInv' /\ LedgerHolds'
    BY <2>1, <2>2, <2>3, <2>4, <2>5, WalkKeeps DEF Places
  <2> QED BY <2>1, <2>6
<1>6. CASE Read
  <2>1. /\ Goto(Daemon, "resolve") /\ pc[Daemon] = "read"
        /\ UNCHANGED <<index, thread, truth, record, ledger, again, missed>>
    BY <1>6 DEF Read, store, truths, history
  <2>2. job' = [job EXCEPT ![Daemon] = [job[Daemon] EXCEPT !.bytes = file]]
    BY <1>6 DEF Read
  <2>3. DOMAIN [job[Daemon] EXCEPT !.bytes = file] = Fields
    BY DEF GhostInv, Shape, Importer
  <2>4. Daemon \in Importer
    BY DEF Importer
  <2>6. GhostInv' /\ LedgerHolds'
    BY <2>1, <2>2, <2>3, <2>4, WalkKeeps DEF Places, Busy
  <2> QED BY <2>1, <2>6
<1>7. ASSUME NEW p \in Importer, ImportStep(p) \/ Fail(p) \/ Crash(p)
      PROVE  /\ GhostInv' /\ LedgerHolds'
             /\ SkipLedgered /\ missed' \ missed # {} => thread' \/ missed' \ missed \subseteq ledger'
  <2>1. CASE Commit(p)
    BY <2>1, CommitKeeps
  <2>2. CASE StampDigest(p) \/ CarryForward(p) \/ Adopt(p) \/ Import(p) \/ Discard(p)
    BY <2>2, ImportStages
  <2>3. CASE Fail(p)
    BY <2>3, FailKeeps
  <2>4. CASE Crash(p)
    BY <2>4, CrashKeeps
  <2> QED BY <1>7, <2>1, <2>2, <2>3, <2>4 DEF ImportStep
<1>8. CASE Rebuild
  <2>1. /\ \A p \in Importer : pc[p] = "idle"
        /\ index' = truth /\ (thread' <=> record)
        /\ UNCHANGED <<truth, record, ledger, again, pc, job, missed>>
    BY <1>8 DEF Rebuild, truths, history
  <2>2. Shape' /\ Exclusion'
    BY <2>1 DEF GhostInv, Shape, Exclusion
  <2>3. Inhabited' /\ TruthHolds'
    BY <2>1 DEF GhostInv, Inhabited, TruthHolds
  <2>4. LedgerHolds'
    BY <2>1 DEF LedgerHolds, Discards
  <2> QED BY <2>1, <2>2, <2>3, <2>4 DEF GhostInv
<1>9. CASE StartRepair \/ ResetWatermark
  <2>1. /\ Goto(Repair, "reset") \/ Goto(Repair, "forget")
        /\ UNCHANGED <<index, thread, truth, record, ledger, job, missed>>
    BY <1>9 DEF StartRepair, ResetWatermark, store, truths, history
  <2>2. Repair \in Importer
    BY DEF Importer
  <2>3. GhostInv' /\ LedgerHolds'
    BY <2>1, <2>2, WalkKeeps DEF Places, Busy
  <2> QED BY <2>1, <2>3
<1>10. CASE ForgetAndRead
  <2>1. /\ Goto(Repair, "resolve") /\ Alone(Repair)
        /\ UNCHANGED <<index, thread, truth, record, ledger, again, missed>>
    BY <1>10 DEF ForgetAndRead, store, truths, history
  <2>2. job' = [job EXCEPT ![Repair] = [job[Repair] EXCEPT !.bytes = file]]
    BY <1>10 DEF ForgetAndRead
  <2>3. DOMAIN [job[Repair] EXCEPT !.bytes = file] = Fields
    BY DEF GhostInv, Shape, Importer
  <2>4. Repair \in Importer
    BY DEF Importer
  <2>5. \A q \in Importer \ {Repair} : pc[q] \notin Busy
    BY <2>1, <2>4, AloneIsFree
  <2>6. GhostInv' /\ LedgerHolds'
    BY <2>1, <2>2, <2>3, <2>4, <2>5, WalkKeeps DEF Places
  <2> QED BY <2>1, <2>6
<1>11. CASE CloseRecords
  <2>1. /\ pc[Repair] = "reread" /\ Goto(Repair, "idle")
        /\ UNCHANGED <<index, thread, truth, record, job, missed, again>>
        /\ ledger' = IF again THEN ledger ELSE {}
    BY <1>11 DEF CloseRecords, store, truths, history
  <2>2. Repair \in Importer
    BY DEF Importer
  <2>3. /\ pc' \in [Importer -> Places] /\ Exclusion'
        /\ pc'[Repair] = "idle"
        /\ \A q \in Importer : q # Repair => pc'[q] = pc[q]
    BY <2>1, <2>2, Moves DEF GhostInv, Places, Busy
  <2>4. Shape' /\ Inhabited' /\ TruthHolds'
    BY <2>1, <2>3 DEF GhostInv, Shape, Inhabited, TruthHolds
  <2>5. ASSUME SkipLedgered, NEW q \in Importer, Discards(q)'
        PROVE  /\ job'[q].passed \subseteq Meta \cup ledger'
               /\ job'[q].passed \subseteq Meta \/ pc'[Repair] # "reread" \/ again'
    <3>1. Discards(q) /\ job'[q] = job[q]
      BY <2>1, <2>3, <2>5 DEF Discards
    <3>2. job[q].passed \subseteq Meta \/ again
      BY <2>1, <2>5, <3>1 DEF LedgerHolds
    <3> QED BY <2>1, <2>5, <2>3, <3>1, <3>2 DEF LedgerHolds
  <2>6. LedgerHolds'
    BY <2>5 DEF LedgerHolds
  <2> QED BY <2>1, <2>3, <2>4, <2>6 DEF GhostInv
<1> QED BY <1>2, <1>3, <1>4, <1>5, <1>6, <1>7, <1>8, <1>9, <1>10, <1>11 DEF Next, RepairStep

LEMMA ImportInductive ==
  ASSUME OneAtATime
  PROVE  Spec => [](GhostInv /\ LedgerHolds)
<1>1. GhostInv /\ LedgerHolds /\ [Next]_vars => (GhostInv /\ LedgerHolds)'
  BY ImportNext
<1> QED BY GhostInit, <1>1, PTL DEF Spec
-----------------------------------------------------------------------------
(* No ghost: neither a discarded thread, nor a failed or killed import, nor *)
(* a rebuild leaves a thread row, or a thread record in the truth, without *)
(* an event (discard_new_thread, _state.py 132-144).                       *)
THEOREM NoGhost ==
  ASSUME OneAtATime
  PROVE  Spec => []NoGhostThread
<1>1. GhostInv /\ LedgerHolds => NoGhostThread
  BY DEF GhostInv, Inhabited, NoGhostThread
<1> QED BY ImportInductive, <1>1, PTL

(* Nothing is passed over for good in a thread that does not exist without *)
(* an open record in the ledger, a repair that closes records at the same  *)
(* time included (_skip_ledger.py 1-22, reimport.py 19-31).                *)
THEOREM SkipsOnLedger ==
  ASSUME OneAtATime, SkipLedgered
  PROVE  Spec => SkipsAreLedgered
<1>1. GhostInv /\ LedgerHolds /\ [Next]_vars
        => [missed' \ missed # {} => thread' \/ missed' \ missed \subseteq ledger']_vars
  BY ImportNext
<1> QED BY ImportInductive, <1>1, PTL DEF Spec, SkipsAreLedgered
-----------------------------------------------------------------------------
(* The lines of a file, counted.                                           *)

Lines == SeqOf(Line \cup {Malformed}, MaxLen)

LEMMA LinesAreSeqs ==
  \A s : s \in Lines <=> s \in Seq(Line \cup {Malformed}) /\ Len(s) <= MaxLen
<1>1. MaxLen \in Nat
  BY SourceBounds
<1>2. ASSUME NEW s \in Lines
      PROVE  s \in Seq(Line \cup {Malformed}) /\ Len(s) <= MaxLen
  <2>1. PICK m \in 0 .. MaxLen : s \in [1 .. m -> Line \cup {Malformed}]
    BY DEF Lines, SeqOf
  <2>2. s \in Seq(Line \cup {Malformed})
    BY <1>1, <2>1, SeqDef
  <2>3. Len(s) = m
    BY <2>1, <2>2, LenProperties
  <2> QED BY <1>1, <2>2, <2>3
<1>3. ASSUME NEW s \in Seq(Line \cup {Malformed}), Len(s) <= MaxLen
      PROVE  s \in Lines
  <2>1. Len(s) \in 0 .. MaxLen /\ s \in [1 .. Len(s) -> Line \cup {Malformed}]
    BY <1>1, <1>3, LenProperties
  <2> QED BY <2>1 DEF Lines, SeqOf
<1> QED BY <1>2, <1>3

LEMMA FileShape ==
  ASSUME NEW f \in Files
  PROVE  /\ f.lines \in Seq(Line \cup {Malformed})
         /\ Len(f.lines) \in 0 .. MaxLen
         /\ f.torn \in BOOLEAN
         /\ \A i \in 1 .. Len(f.lines) : f.lines[i] \in Line \cup {Malformed}
<1>1. f.lines \in Lines /\ f.torn \in BOOLEAN
  BY DEF Files, Lines
<1>2. f.lines \in Seq(Line \cup {Malformed}) /\ Len(f.lines) <= MaxLen
  BY <1>1, LinesAreSeqs
<1> QED BY <1>1, <1>2, LenProperties, ElementOfSeq, SourceBounds

LEMMA FilesFrom ==
  ASSUME NEW s \in Seq(Line \cup {Malformed}), Len(s) <= MaxLen, NEW t \in BOOLEAN
  PROVE  [lines |-> s, torn |-> t] \in Files
BY LinesAreSeqs DEF Files, Lines

LEMMA EmptyIsFile == Empty \in Files
<1>1. <<>> \in Seq(Line \cup {Malformed}) /\ Len(<<>>) <= MaxLen
  BY EmptySeq, SourceBounds
<1> QED BY <1>1, FilesFrom DEF Empty

LEMMA ParsedFinite ==
  ASSUME NEW f \in Files
  PROVE  /\ IsFiniteSet(Parsed(f)) /\ Parsed(f) \subseteq 1 .. Len(f.lines)
         /\ Count(f) \in 0 .. MaxLen
<1>1. Len(f.lines) \in Nat /\ Len(f.lines) <= MaxLen /\ MaxLen \in Nat
  BY FileShape, SourceBounds
<1>2. IsFiniteSet(1 .. Len(f.lines)) /\ Cardinality(1 .. Len(f.lines)) = Len(f.lines)
  BY <1>1, FS_Interval
<1>3. Parsed(f) \in SUBSET (1 .. Len(f.lines))
  BY DEF Parsed
<1>4. IsFiniteSet(Parsed(f)) /\ Cardinality(Parsed(f)) <= Len(f.lines)
  BY <1>2, <1>3, FS_Subset
<1>5. Cardinality(Parsed(f)) \in Nat
  BY <1>4, FS_CardinalityType
<1> QED BY <1>1, <1>3, <1>4, <1>5 DEF Count

LEMMA RankBounds ==
  ASSUME NEW f \in Files, NEW i \in Parsed(f)
  PROVE  Rank(f, i) \in 1 .. Count(f)
<1> DEFINE R == {j \in Parsed(f) : j <= i}
<1>1. IsFiniteSet(Parsed(f)) /\ R \in SUBSET Parsed(f)
  BY ParsedFinite
<1>2. IsFiniteSet(R) /\ Cardinality(R) <= Cardinality(Parsed(f))
  BY <1>1, FS_Subset
<1>3. i \in R
  BY ParsedFinite
<1>4. Cardinality(R) \in Nat /\ Cardinality(R) # 0
  BY <1>2, <1>3, FS_CardinalityType, FS_EmptySet
<1>5. Count(f) \in Nat
  BY <1>1, FS_CardinalityType DEF Count
<1> QED BY <1>2, <1>4, <1>5 DEF Rank, Count

LEMMA ContentsAreLines ==
  ASSUME NEW f \in Files
  PROVE  Contents(f) \subseteq Line /\ \A n : After(f, n) \subseteq Contents(f)
BY FileShape DEF Contents, After, Parsed, IsLine

(* Nothing is before the first line, all is up to the last, and what is    *)
(* not up to a line is after it.                                           *)
LEMMA Halves ==
  ASSUME NEW f \in Files, NEW n \in Int
  PROVE  /\ n <= 0 => UpTo(f, n) = {}
         /\ n >= Count(f) => UpTo(f, n) = Contents(f)
         /\ Contents(f) = UpTo(f, n) \cup After(f, n)
<1>1. \A i \in Parsed(f) : Rank(f, i) \in Int /\ Rank(f, i) >= 1 /\ Rank(f, i) <= Count(f)
  BY RankBounds, ParsedFinite
<1>2. Count(f) \in Int
  BY ParsedFinite
<1> QED BY <1>1, <1>2 DEF UpTo, After, Contents

(* A cursor that was left after the whole of g, where g is a prefix of f:  *)
(* what it has passed in f is what is in g.                                *)
LEMMA PrefixPassed ==
  ASSUME NEW f \in Files, NEW g \in Files, Size(g) <= Size(f), g = Prefix(f, Size(g))
  PROVE  UpTo(f, Count(g)) \subseteq Contents(g)
<1> DEFINE k == Len(g.lines)
<1>1. k \in Nat /\ Len(f.lines) \in Nat /\ g.torn \in BOOLEAN /\ f.torn \in BOOLEAN
  BY FileShape, SourceBounds
<1>2. Size(g) \div 2 = k /\ k <= Len(f.lines)
  <2>1. \A n \in Nat : (2 * n) \div 2 = n /\ (2 * n + 1) \div 2 = n
    BY SMT
  <2>2. PICK t \in {0, 1} : Size(g) = 2 * k + t
    BY DEF Size
  <2>3. PICK u \in {0, 1} : Size(f) = 2 * Len(f.lines) + u
    BY DEF Size
  <2>4. k <= Len(f.lines)
    <3> DEFINE m == Len(f.lines)
    <3>1. 2 * k + t <= 2 * m + u /\ k \in Nat /\ m \in Nat
      BY <1>1, <2>2, <2>3
    <3>2. t \in 0 .. 1 /\ u \in 0 .. 1
      BY <2>2, <2>3
    <3> HIDE DEF k, m
    <3>3. k <= m
      BY <3>1, <3>2
    <3> QED BY <3>3 DEF m
  <2>5. Size(g) \div 2 = k
    <3>1. k \in Nat
      BY <1>1
    <3>2. Size(g) \in {2 * k, 2 * k + 1}
      BY <2>2, <3>1
    <3> HIDE DEF k
    <3> QED BY <2>1, <3>1, <3>2
  <2> QED BY <2>4, <2>5
<1>3. g.lines = SubSeq(f.lines, 1, k)
  BY <1>2 DEF Prefix
<1>4. \A i \in 1 .. k : g.lines[i] = f.lines[i]
  <2>1. \A i \in 1 .. k : f.lines[i] \in Line \cup {Malformed}
    BY <1>1, <1>2, FileShape
  <2>2. \A i \in 1 .. k - 1 + 1 : SubSeq(f.lines, 1, k)[i] = f.lines[1 + i - 1]
    BY <1>1, <2>1, SubSeqProperties
  <2> QED BY <1>1, <1>3, <2>2
<1>5. Parsed(g) = {j \in Parsed(f) : j <= k}
  BY <1>1, <1>2, <1>4 DEF Parsed
<1>6. ASSUME NEW i \in Parsed(f), Rank(f, i) <= Count(g) PROVE i \in Parsed(g)
  <2> DEFINE R == {j \in Parsed(f) : j <= i}
  <2>1. SUFFICES ASSUME i > k PROVE FALSE
    BY <1>1, <1>5, ParsedFinite
  <2>2. Parsed(g) \in SUBSET R /\ i \in R /\ i \notin Parsed(g)
    BY <1>1, <1>5, <2>1, ParsedFinite
  <2>3. IsFiniteSet(R)
    BY ParsedFinite, FS_Subset
  <2>4. Cardinality(Parsed(g)) <= Cardinality(R) /\ Cardinality(Parsed(g)) # Cardinality(R)
    BY <2>2, <2>3, FS_Subset
  <2>5. Cardinality(R) \in Nat /\ Cardinality(Parsed(g)) \in Nat
    BY <2>3, ParsedFinite, FS_CardinalityType
  <2> QED BY <1>6, <2>4, <2>5 DEF Rank, Count
<1>7. \A i \in Parsed(g) : f.lines[i] = g.lines[i]
  BY <1>4 DEF Parsed
<1> QED BY <1>6, <1>7 DEF UpTo, Contents
-----------------------------------------------------------------------------
(* Types.                                                                  *)

LEMMA SizeBound ==
  ASSUME NEW f \in Files
  PROVE  Size(f) \in 0 .. 2 * MaxLen + 1
<1>1. Len(f.lines) \in Nat /\ Len(f.lines) <= MaxLen /\ MaxLen \in Nat
  BY FileShape, SourceBounds
<1>2. PICK t \in {0, 1} : Size(f) = 2 * Len(f.lines) + t
  BY DEF Size
<1> QED BY <1>1, <1>2

LEMMA MarkTypes ==
  /\ NoMark \in Marks /\ Rewound \in Marks
  /\ \A f \in Files : MarkOf(f) \in Marks
<1>1. MaxLen \in Nat
  BY SourceBounds
<1>2. NoMark \in Marks /\ Rewound \in Marks
  <2>1. -1 \in -1 .. MaxLen /\ 0 \in -1 .. MaxLen
    BY <1>1
  <2>2. -1 \in -1 .. 2 * MaxLen + 1 /\ 0 \in -1 .. 2 * MaxLen + 1
    BY <1>1
  <2> QED BY <2>1, <2>2, Zenon DEF NoMark, Rewound, Marks
<1>3. ASSUME NEW f \in Files PROVE MarkOf(f) \in Marks
  <2>1. Count(f) \in -1 .. MaxLen /\ Size(f) \in -1 .. 2 * MaxLen + 1
    BY <1>1, SizeBound, ParsedFinite
  <2> QED BY <2>1, Zenon DEF MarkOf, Marks
<1> QED BY <1>2, <1>3

LEMMA NoJobType == NoJob \in Jobs
BY MarkTypes, EmptyIsFile DEF NoJob, Jobs, Prints

LEMMA StageTypes ==
  ASSUME TypeOK, NEW p \in Importer,
         NEW write \in Marks, NEW batch \in SUBSET Line, NEW passed \in SUBSET Line,
         NEW adopts \in BOOLEAN, Stage(p, write, batch, passed, adopts),
         ledger' \in SUBSET Line, again' \in BOOLEAN
  PROVE  TypeOK'
<1> DEFINE j == [job[p] EXCEPT !.bytes = Empty, !.loaded = mark, !.write = write,
                               !.batch = batch, !.passed = passed, !.adopts = adopts]
<1>1. job[p] \in Jobs /\ mark \in Marks
  BY DEF TypeOK
<1>2. j \in Jobs
  BY <1>1, EmptyIsFile DEF Jobs
<1>3. job' = [job EXCEPT ![p] = j] /\ pc' = [pc EXCEPT ![p] = "drained"]
  BY DEF Stage, Goto
<1> HIDE DEF j
<1>4. job' \in [Importer -> Jobs]
  BY <1>2, <1>3 DEF TypeOK
<1>5. pc' \in [Importer -> {"idle", "read", "resolve", "drained", "reset", "forget", "reread"}]
  BY <1>3 DEF TypeOK
<1>6. truth' \in SUBSET Line
  BY DEF Stage, TypeOK
<1>7. record' \in BOOLEAN
  BY DEF Stage, TypeOK
<1>8. UNCHANGED <<file, mtime, blind, index, thread, mark, seen, saved, missed, adopted, faults>>
  BY DEF Stage, source, store, prints, history
<1> QED BY <1>4, <1>5, <1>6, <1>7, <1>8 DEF TypeOK

LEMMA NewLinesType ==
  ASSUME TypeOK, NEW p \in Importer
  PROVE  /\ job[p].bytes \in Files
         /\ NewLines(p) \in SUBSET Line /\ NewLines(p) \subseteq Contents(job[p].bytes)
         /\ Understood(p) \in SUBSET Line
         /\ StartLine(job[p].bytes) \in Int
<1>1. job[p].bytes \in Files
  BY DEF TypeOK, Jobs
<1>2. StartLine(job[p].bytes) \in Int
  BY SourceBounds DEF TypeOK, Marks, StartLine
<1>3. NewLines(p) \in SUBSET Line /\ NewLines(p) \subseteq Contents(job[p].bytes)
  BY <1>1, ContentsAreLines DEF NewLines
<1> QED BY <1>1, <1>2, <1>3 DEF Understood

LEMMA ImportTypes ==
  ASSUME TypeOK, NEW p \in Importer,
         StampDigest(p) \/ CarryForward(p) \/ Adopt(p) \/ Import(p) \/ Discard(p)
  PROVE  TypeOK'
<1>0. /\ job[p].bytes \in Files /\ MarkOf(job[p].bytes) \in Marks
      /\ NewLines(p) \in SUBSET Line /\ Understood(p) \in SUBSET Line
      /\ ledger \in SUBSET Line /\ again \in BOOLEAN /\ mark \in Marks
      /\ {} \in SUBSET Line /\ TRUE \in BOOLEAN /\ FALSE \in BOOLEAN
  BY NewLinesType, MarkTypes DEF TypeOK
<1>1. CASE StampDigest(p)
  <2>1. [mark EXCEPT !.digest = job[p].bytes] \in Marks
    BY <1>0 DEF Marks
  <2> HIDE DEF Marks
  <2> QED BY <1>0, <1>1, <2>1, StageTypes DEF StampDigest
<1>2. CASE CarryForward(p)
  <2>1. (IF mark = NoMark THEN NoMark ELSE MarkOf(job[p].bytes)) \in Marks
    BY <1>0, MarkTypes
  <2> QED BY <1>0, <1>2, <2>1, StageTypes DEF CarryForward
<1>3. CASE Adopt(p)
  BY <1>0, <1>3, StageTypes DEF Adopt
<1>4. CASE Import(p)
  <2>1. Understood(p) \ index \in SUBSET Line
    BY <1>0
  <2> QED BY <1>0, <1>4, <2>1, StageTypes DEF Import
<1>5. CASE Discard(p)
  <2>1. ledger' \in SUBSET Line /\ again' \in BOOLEAN
    BY <1>0, <1>5 DEF Discard
  <2> QED BY <1>0, <1>5, <2>1, StageTypes DEF Discard
<1> QED BY <1>1, <1>2, <1>3, <1>4, <1>5

(* A COMMIT writes a watermark whatever the row is by then.                *)
LEMMA CommitTypes ==
  ASSUME TypeOK, NEW p \in Importer, Commit(p)
  PROVE  TypeOK'
<1>0. /\ job[p] \in Jobs /\ mark \in Marks /\ index \in SUBSET Line
      /\ missed \in SUBSET Line /\ adopted \in SUBSET Line
  BY DEF TypeOK
<1>1. job[p].write \in Marks /\ job[p].loaded \in Marks /\ job[p].print \in Prints
      /\ job[p].batch \in SUBSET Line /\ job[p].passed \in SUBSET Line
  BY <1>0 DEF Jobs
<1>2. mark' \in Marks
  <2>1. Written(p) \in Marks
    BY <1>0, <1>1 DEF Written, Column, Marks
  <2> QED BY <2>1 DEF Commit
<1>3. job' \in [Importer -> Jobs]
  BY NoJobType DEF Commit, TypeOK
<1>4. pc' \in [Importer -> {"idle", "read", "resolve", "drained", "reset", "forget", "reread"}]
  BY DEF Commit, Goto, Done, TypeOK
<1>5. index' \in SUBSET Line /\ thread' \in BOOLEAN
  BY <1>0, <1>1 DEF Commit, TypeOK
<1>6. missed' \in SUBSET Line /\ adopted' \in SUBSET Line
  BY <1>0, <1>1 DEF Commit
<1>7. seen' \in Prints /\ saved' \in Prints
  BY <1>1 DEF Commit, PrintOf, prints, TypeOK
<1>8. UNCHANGED <<file, mtime, blind, truth, record, ledger, again, faults>>
  BY DEF Commit, source, truths
<1> QED BY <1>2, <1>3, <1>4, <1>5, <1>6, <1>7, <1>8 DEF TypeOK

(* The provider's files are no longer than the bound.                      *)
LEMMA ProviderTypes ==
  ASSUME TypeOK, Provider
  PROVE  file' \in Files
<1>1. file \in Files
  BY DEF TypeOK
<1>2. ASSUME NEW c \in Line \cup {Malformed}, AppendLine(c) PROVE file' \in Files
  <2>1. file.lines \in Seq(Line \cup {Malformed}) /\ Len(file.lines) < MaxLen
        /\ Len(file.lines) \in Nat /\ MaxLen \in Nat
    BY <1>1, <1>2, FileShape, SourceBounds DEF AppendLine
  <2>2. Append(file.lines, c) \in Seq(Line \cup {Malformed})
        /\ Len(Append(file.lines, c)) = Len(file.lines) + 1
    BY <2>1, AppendProperties
  <2>3. Len(Append(file.lines, c)) <= MaxLen
    BY <2>1, <2>2
  <2>4. [lines |-> Append(file.lines, c), torn |-> FALSE] \in Files
    BY <2>2, <2>3, FilesFrom
  <2> QED BY <1>2, <2>4 DEF AppendLine, WriteFile
<1>3. CASE AppendTorn
  BY <1>1, <1>3 DEF AppendTorn, WriteFile, Files
<1>4. CASE Rewrite
  BY <1>4 DEF Rewrite, WriteFile
<1> QED BY <1>2, <1>3, <1>4 DEF Provider

LEMMA ImportTypeStep ==
  ASSUME TypeOK, [Next]_vars
  PROVE  TypeOK'
<1> DEFINE At == [Importer -> {"idle", "read", "resolve", "drained", "reset", "forget", "reread"}]
<1>0. /\ file \in Files /\ mtime \in 0 .. MaxWrites /\ faults \in 0 .. MaxFaults
      /\ job \in [Importer -> Jobs] /\ pc \in At /\ seen \in Prints /\ saved \in Prints
      /\ NoPrint \in Prints /\ MaxWrites \in Nat /\ MaxFaults \in Nat
      /\ Daemon \in Importer /\ Repair \in Importer
  BY SourceBounds DEF TypeOK, Prints, Importer
<1>1. CASE UNCHANGED vars
  BY <1>1 DEF vars, source, store, truths, prints, history, TypeOK
<1>2. CASE Provider
  <2>1. mtime' \in 0 .. MaxWrites
    BY <1>0, <1>2 DEF Provider, AppendLine, AppendTorn, Rewrite, WriteFile
  <2>2. UNCHANGED <<blind, index, thread, mark, truth, record, ledger, seen, saved, pc, job, again,
                    missed, adopted, faults>>
    BY <1>2 DEF Provider, AppendLine, AppendTorn, Rewrite, WriteFile, store, truths, prints, history
  <2> QED BY <1>2, <2>1, <2>2, ProviderTypes DEF TypeOK
<1>3. CASE FixParser
  BY <1>3 DEF FixParser, store, truths, prints, history, TypeOK
<1>4. CASE Probe \/ Read \/ ForgetAndRead
  <2>1. Fingerprint \in Prints
    BY <1>0, SizeBound DEF Fingerprint, Prints
  <2>2. job[Daemon] \in Jobs /\ job[Repair] \in Jobs
    BY <1>0
  <2>3. /\ [job[Daemon] EXCEPT !.print = Fingerprint] \in Jobs
        /\ [job[Daemon] EXCEPT !.bytes = file] \in Jobs
        /\ [job[Repair] EXCEPT !.bytes = file] \in Jobs
    BY <1>0, <2>1, <2>2 DEF Jobs
  <2>4. job' \in [Importer -> Jobs]
    BY <1>0, <1>4, <2>3 DEF Probe, Read, ForgetAndRead
  <2>5. pc' \in At
    BY <1>0, <1>4 DEF Probe, Read, ForgetAndRead, Goto
  <2>6. saved' \in Prints
    BY <1>0, <1>4 DEF Probe, Read, ForgetAndRead, prints
  <2>7. UNCHANGED <<file, mtime, blind, index, thread, mark, truth, record, ledger, seen, again,
                    missed, adopted, faults>>
    BY <1>4 DEF Probe, Read, ForgetAndRead, source, store, truths, prints, history
  <2> QED BY <2>4, <2>5, <2>6, <2>7 DEF TypeOK
<1>5. ASSUME NEW p \in Importer, ImportStep(p) PROVE TypeOK'
  BY <1>5, ImportTypes, CommitTypes DEF ImportStep
<1>6. ASSUME NEW p \in Importer, Fail(p) \/ Crash(p) PROVE TypeOK'
  <2>1. job' \in [Importer -> Jobs] /\ pc' \in At
    BY <1>0, <1>6, NoJobType DEF Fail, Crash, Goto
  <2>2. faults' \in 0 .. MaxFaults
    BY <1>0, <1>6 DEF Fail, Crash
  <2>3. seen' \in Prints /\ saved' \in Prints
    BY <1>0, <1>6 DEF Fail, Crash, prints
  <2>4. truth' \in SUBSET Line /\ record' \in BOOLEAN
    BY <1>6 DEF Fail, Crash, truths, TypeOK
  <2>5. UNCHANGED <<file, mtime, blind, index, thread, mark, ledger, again, missed, adopted>>
    BY <1>6 DEF Fail, Crash, source, store, history
  <2> QED BY <2>1, <2>2, <2>3, <2>4, <2>5 DEF TypeOK
<1>7. CASE Rebuild
  <2>1. index' \in SUBSET Line /\ thread' \in BOOLEAN
    BY <1>7 DEF Rebuild, TypeOK
  <2>2. UNCHANGED <<file, mtime, blind, mark, truth, record, ledger, seen, saved, pc, job, again,
                    missed, adopted, faults>>
    BY <1>7 DEF Rebuild, source, truths, prints, history
  <2> QED BY <2>1, <2>2 DEF TypeOK
<1>8. CASE StartRepair \/ ResetWatermark \/ CloseRecords
  <2>1. pc' \in At
    BY <1>0, <1>8 DEF StartRepair, ResetWatermark, CloseRecords, Goto
  <2>2. mark' \in Marks
    BY <1>8, MarkTypes DEF StartRepair, ResetWatermark, CloseRecords, store, TypeOK
  <2>3. ledger' \in SUBSET Line /\ again' \in BOOLEAN
    BY <1>8 DEF StartRepair, ResetWatermark, CloseRecords, TypeOK
  <2>4. UNCHANGED <<file, mtime, blind, index, thread, truth, record, seen, saved, job,
                    missed, adopted, faults>>
    BY <1>8 DEF StartRepair, ResetWatermark, CloseRecords, source, store, truths, prints, history
  <2> QED BY <2>1, <2>2, <2>3, <2>4 DEF TypeOK
<1> QED BY <1>1, <1>2, <1>3, <1>4, <1>5, <1>6, <1>7, <1>8 DEF Next, RepairStep

LEMMA ImportTypeInit == Init => TypeOK
<1> SUFFICES ASSUME Init PROVE TypeOK
  OBVIOUS
<1>1. MaxWrites \in Nat /\ MaxFaults \in Nat
  BY SourceBounds
<1>2. pc = [p \in Importer |-> "idle"] /\ job = [p \in Importer |-> NoJob]
  BY DEF Init
<1>3. job \in [Importer -> Jobs]
  BY <1>2, NoJobType
<1>4. seen \in Prints /\ saved \in Prints
  BY DEF Init, Prints
<1>5. mtime \in 0 .. MaxWrites /\ faults \in 0 .. MaxFaults
  BY <1>1 DEF Init
<1> QED BY <1>2, <1>3, <1>4, <1>5, EmptyIsFile, MarkTypes, SourceLines DEF Init, TypeOK

(* Whatever a provider writes and however imports meet, the watermark      *)
(* counts no more lines than a file has.                                   *)
THEOREM ImportTypesHold == Spec => []TypeOK
<1>1. TypeOK /\ [Next]_vars => TypeOK'
  BY ImportTypeStep
<1> QED BY ImportTypeInit, <1>1, PTL DEF Spec
-----------------------------------------------------------------------------
(* What the cursor, the fingerprints and the repair rely on.               *)

(* The watermark is none, a rewound one, or that of a whole file ...       *)
Known(w) == w \in {NoMark, Rewound} \/ \E f \in Files : w = MarkOf(f)

(* ... whose lines are in A.                                               *)
Covers(w, A) == \A f \in Files : w = MarkOf(f) => Contents(f) \subseteq A

CursorInv ==
  /\ Known(mark) /\ Covers(mark, Accounted)
  /\ \A p \in Importer : pc[p] = "drained" =>
       /\ job[p].loaded = mark
       /\ Known(job[p].write) /\ Covers(job[p].write, Accounted \cup job[p].passed)

(* No fingerprint is from the future; one of the file as it is was taken   *)
(* before the bytes the daemon holds were read.                            *)
PrintInv ==
  /\ seen[1] <= mtime /\ saved[1] <= mtime /\ job[Daemon].print[1] <= mtime
  /\ SeenIsImported
  /\ job[Daemon].print = Fingerprint =>
       /\ pc[Daemon] = "resolve" => job[Daemon].bytes = file
       /\ pc[Daemon] = "drained" => Contents(file) \subseteq Accounted \cup job[Daemon].passed

(* From the rewind to the closing of the records nothing is passed over    *)
(* that is not in the index: the parser is fixed, and no adoption can      *)
(* happen where lines were missed.                                         *)
Reimporting == pc[Repair] \in {"forget", "resolve", "drained", "reread"}

ClosedInv ==
  /\ ledger \subseteq Meta \cup Drifted
  /\ blind # Drifted => missed # {}
  /\ missed # {} => mark # NoMark
  /\ \A p \in Importer : pc[p] = "drained" /\ job[p].passed # {} => job[p].write # NoMark
  /\ pc[Repair] = "reset" \/ Reimporting => blind = {}
  /\ Reimporting /\ Drifted # {} =>
       /\ Covers(mark, index \cup Meta)
       /\ \A p \in Importer :
            pc[p] = "drained" => Covers(job[p].write, index \cup job[p].batch \cup Meta)
-----------------------------------------------------------------------------
LEMMA DistinctMarks ==
  /\ NoMark # Rewound
  /\ \A f \in Files : f # Undigested /\ MarkOf(f) # NoMark /\ MarkOf(f) # Rewound
  /\ \A f, g \in Files : MarkOf(f) = MarkOf(g) => f = g
<1>1. NoMark # Rewound
  <2>1. NoMark.count = -1 /\ Rewound.count = 0
    BY DEF NoMark, Rewound
  <2> QED BY <2>1
<1>2. ASSUME NEW f \in Files PROVE f # Undigested
  <2>1. Len(f.lines) \in 0 .. MaxLen /\ DOMAIN f.lines = 1 .. Len(f.lines) /\ MaxLen \in Nat
    BY FileShape, LenProperties, SourceBounds
  <2>2. DOMAIN Undigested.lines = 1 .. MaxLen + 1
    BY DEF Undigested
  <2>3. MaxLen + 1 \in 1 .. MaxLen + 1 /\ MaxLen + 1 \notin 1 .. Len(f.lines)
    BY <2>1
  <2> QED BY <2>1, <2>2, <2>3
<1>3. ASSUME NEW f \in Files
      PROVE  MarkOf(f) # NoMark /\ MarkOf(f) # Rewound /\ MarkOf(f).digest = f
  <2>1. MarkOf(f).count = Count(f) /\ MarkOf(f).digest = f
    BY DEF MarkOf
  <2>2. Count(f) # -1
    BY ParsedFinite
  <2>3. NoMark.count = -1 /\ Rewound.digest = Undigested
    BY DEF NoMark, Rewound
  <2> QED BY <1>2, <2>1, <2>2, <2>3
<1> QED BY <1>1, <1>2, <1>3

LEMMA CoversFile ==
  ASSUME NEW A
  PROVE  /\ Covers(NoMark, A) /\ Covers(Rewound, A)
         /\ \A f \in Files : Known(MarkOf(f)) /\ (Covers(MarkOf(f), A) <=> Contents(f) \subseteq A)
         /\ \A w, B : Covers(w, A) /\ A \subseteq B => Covers(w, B)
BY DistinctMarks DEF Covers, Known

(* Where an import resumes, all that is before is in A.                    *)
LEMMA PassedCovered ==
  ASSUME NEW A, NEW f \in Files, Known(mark), Covers(mark, A)
  PROVE  UpTo(f, StartLine(f)) \subseteq A
<1>1. CASE ~Appended(mark, f) \/ mark = Rewound
  <2>1. StartLine(f) = 0
    BY <1>1 DEF StartLine, Rewound
  <2> QED BY <2>1, Halves
<1>2. CASE Appended(mark, f) /\ mark # Rewound
  <2>1. PICK g \in Files : mark = MarkOf(g)
    BY <1>2 DEF Known, Appended
  <2>2. mark.count = Count(g) /\ mark.size = Size(g) /\ mark.digest = g
    BY <2>1 DEF MarkOf
  <2>3. Size(g) <= Size(f) /\ g = Prefix(f, Size(g))
    BY <1>2, <2>2, DistinctMarks DEF Appended
  <2>4. StartLine(f) = Count(g)
    BY <1>2, <2>2 DEF StartLine
  <2>5. Contents(g) \subseteq A
    BY <2>1 DEF Covers
  <2> QED BY <2>3, <2>4, <2>5, PrefixPassed
<1> QED BY <1>1, <1>2

(* A watermark that says "unchanged" is the one of the file.               *)
LEMMA UnchangedMark ==
  ASSUME NEW A, NEW f \in Files, Known(mark), Covers(mark, A), Unchanged(mark, f)
  PROVE  [mark EXCEPT !.digest = f] = MarkOf(f) /\ Contents(f) \subseteq A
<1>1. mark # NoMark /\ mark.size = Size(f) /\ mark.digest \in {Undigested, f}
  BY DEF Unchanged
<1>2. CASE mark = Rewound
  <2>1. Size(f) = 0
    BY <1>1, <1>2 DEF Rewound
  <2>2. Len(f.lines) = 0
    <3>1. Len(f.lines) \in Nat
      BY FileShape, SourceBounds
    <3>2. PICK t \in {0, 1} : Size(f) = 2 * Len(f.lines) + t
      BY DEF Size
    <3> QED BY <2>1, <3>1, <3>2
  <2>3. Parsed(f) = {}
    BY <2>2 DEF Parsed
  <2>4. Count(f) = 0 /\ Contents(f) = {}
    BY <2>3, FS_EmptySet DEF Count, Contents
  <2> QED BY <1>2, <2>1, <2>4 DEF Rewound, MarkOf
<1>3. CASE mark # Rewound
  <2>1. PICK g \in Files : mark = MarkOf(g)
    BY <1>1, <1>3 DEF Known
  <2>2. mark.digest = g
    BY <2>1 DEF MarkOf
  <2>3. g = f
    BY <1>1, <2>2, DistinctMarks
  <2> QED BY <2>1, <2>3 DEF MarkOf, Covers
<1> QED BY <1>2, <1>3

Stages(p) == StampDigest(p) \/ CarryForward(p) \/ Adopt(p) \/ Import(p) \/ Discard(p)

LEMMA StageHolds ==
  ASSUME TypeOK, GhostInv, NEW p \in Importer, NEW write, NEW batch, NEW passed, NEW adopts,
         Stage(p, write, batch, passed, adopts)
  PROVE  /\ job'[p].bytes = Empty /\ job'[p].loaded = mark /\ job'[p].write = write
         /\ job'[p].batch = batch /\ job'[p].passed = passed /\ job'[p].print = job[p].print
<1> DEFINE j == [job[p] EXCEPT !.bytes = Empty, !.loaded = mark, !.write = write,
                               !.batch = batch, !.passed = passed, !.adopts = adopts]
<1>1. job' = [job EXCEPT ![p] = j] /\ DOMAIN job = Importer
  BY DEF Stage, TypeOK
<1>2. job[p] \in Jobs
  BY DEF TypeOK
<1>3. /\ j.bytes = Empty /\ j.loaded = mark /\ j.write = write
      /\ j.batch = batch /\ j.passed = passed /\ j.print = job[p].print
  BY <1>2 DEF Jobs
<1> HIDE DEF j
<1>4. job'[p] = j
  BY <1>1
<1> QED BY <1>3, <1>4

(* What an import stages: a watermark of a file whose lines are in A, or   *)
(* among those it passes; and so are those of the bytes it read.           *)
LEMMA StagedCovers ==
  ASSUME TypeOK, GhostInv, NEW p \in Importer, Stages(p), NEW A, Known(mark), Covers(mark, A)
  PROVE  /\ job'[p].loaded = mark /\ job'[p].print = job[p].print
         /\ Known(job'[p].write) /\ Covers(job'[p].write, A \cup job'[p].passed)
         /\ Contents(job[p].bytes) \subseteq A \cup job'[p].passed
         /\ job'[p].passed # {} => job'[p].write # NoMark /\ ~NothingNew(p)
         /\ job'[p].passed \subseteq index \cup job'[p].batch \cup Meta \cup blind \/ mark = NoMark
<1> DEFINE c == job[p].bytes
<1>0. /\ c \in Files /\ StartLine(c) \in Int
      /\ MarkOf(c) # NoMark /\ Known(MarkOf(c)) /\ Known(NoMark)
      /\ Contents(c) = UpTo(c, StartLine(c)) \cup NewLines(p)
      /\ UpTo(c, StartLine(c)) \subseteq A
  BY NewLinesType, DistinctMarks, CoversFile, Halves, PassedCovered DEF NewLines, Known
<1>1. CASE StampDigest(p)
  <2>1. Unchanged(mark, c) /\ Stage(p, [mark EXCEPT !.digest = c], {}, {}, FALSE)
    BY <1>1 DEF StampDigest
  <2>2. [mark EXCEPT !.digest = c] = MarkOf(c) /\ Contents(c) \subseteq A
    BY <1>0, <2>1, UnchangedMark
  <2>3. Stage(p, MarkOf(c), {}, {}, FALSE)
    BY <2>1, <2>2
  <2>4. job'[p].write = MarkOf(c) /\ job'[p].passed = {} /\ job'[p].loaded = mark
        /\ job'[p].print = job[p].print
    <3> DEFINE w == MarkOf(c)
    <3>1. Stage(p, w, {}, {}, FALSE)
      BY <2>3
    <3> HIDE DEF w, c
    <3>2. job'[p].write = w /\ job'[p].passed = {} /\ job'[p].loaded = mark
          /\ job'[p].print = job[p].print
      BY <3>1, StageHolds
    <3> QED BY <3>2 DEF w, c
  <2>5. A \cup {} = A
    OBVIOUS
  <2> HIDE DEF c
  <2> QED BY <1>0, <2>2, <2>4, <2>5, CoversFile DEF c
<1>2. CASE CarryForward(p)
  <2> DEFINE w == IF mark = NoMark THEN NoMark ELSE MarkOf(c)
  <2>1. NothingNew(p) /\ Stage(p, w, {}, {}, FALSE)
    BY <1>2 DEF CarryForward
  <2>2. Contents(c) \subseteq A
    BY <1>0, <2>1, Halves DEF NothingNew
  <2>3. job'[p].write = w /\ job'[p].passed = {} /\ job'[p].loaded = mark
        /\ job'[p].print = job[p].print
    <3>1. Stage(p, w, {}, {}, FALSE)
      BY <2>1
    <3> HIDE DEF w, c
    <3> QED BY <3>1, StageHolds
  <2>4. Known(w) /\ Covers(w, A) /\ A \cup {} = A
    BY <1>0, <2>2, CoversFile
  <2> HIDE DEF c, w
  <2> QED BY <2>2, <2>3, <2>4 DEF c
<1>3. ASSUME NEW batch, NEW adopts, Stage(p, MarkOf(c), batch, NewLines(p), adopts), ~NothingNew(p),
             mark = NoMark \/ NewLines(p) \subseteq index \cup batch \cup Meta \cup blind
      PROVE  /\ job'[p].loaded = mark /\ job'[p].print = job[p].print
             /\ Known(job'[p].write) /\ Covers(job'[p].write, A \cup job'[p].passed)
             /\ Contents(job[p].bytes) \subseteq A \cup job'[p].passed
             /\ job'[p].passed # {} => job'[p].write # NoMark /\ ~NothingNew(p)
             /\ job'[p].passed \subseteq index \cup job'[p].batch \cup Meta \cup blind \/ mark = NoMark
  <2>1. /\ job'[p].write = MarkOf(c) /\ job'[p].passed = NewLines(p) /\ job'[p].batch = batch
        /\ job'[p].loaded = mark /\ job'[p].print = job[p].print
    BY <1>3, StageHolds
  <2>2. Contents(c) \subseteq A \cup NewLines(p)
    BY <1>0
  <2>3. Covers(MarkOf(c), A \cup NewLines(p))
    BY <1>0, <2>2, CoversFile
  <2> HIDE DEF c
  <2> QED BY <1>0, <1>3, <2>1, <2>2, <2>3 DEF c
<1>4. CASE Adopt(p)
  BY <1>3, <1>4 DEF Adopt, Adoptable
<1>5. CASE Import(p)
  <2>1. NewLines(p) \subseteq index \cup (Understood(p) \ index) \cup Meta \cup blind
    BY DEF Understood
  <2> QED BY <1>3, <1>5, <2>1 DEF Import, Takes
<1>6. CASE Discard(p)
  <2>1. NewLines(p) \subseteq index \cup {} \cup Meta \cup blind
    BY <1>6 DEF Discard, Understood
  <2> QED BY <1>3, <1>6, <2>1 DEF Discard, Takes
<1> QED BY <1>1, <1>2, <1>4, <1>5, <1>6 DEF Stages

LEMMA CommitWrites ==
  ASSUME TypeOK, NEW p \in Importer, Commit(p), job[p].loaded = mark
  PROVE  mark' = IF job[p].write = NoMark THEN mark ELSE job[p].write
<1>1. mark' = Written(p)
  BY DEF Commit
<1>2. job[p].write \in Marks /\ mark \in Marks
  BY DEF TypeOK, Jobs
<1>3. CASE job[p].write = NoMark \/ mark = NoMark
  BY <1>1, <1>3 DEF Written
<1>4. CASE job[p].write # NoMark /\ mark # NoMark
  <2>1. Written(p) = [count |-> job[p].write.count, size |-> job[p].write.size,
                      digest |-> job[p].write.digest]
    BY <1>4 DEF Written, Column
  <2>2. job[p].write = [count |-> job[p].write.count, size |-> job[p].write.size,
                        digest |-> job[p].write.digest]
    BY <1>2 DEF Marks
  <2> QED BY <1>1, <1>4, <2>1, <2>2
<1> QED BY <1>3, <1>4
-----------------------------------------------------------------------------
(* Steps that leave the watermark, the archive and what was drained alone, *)
(* up to an importer that gives its job back.                              *)
Carries ==
  /\ \A p \in Importer : pc'[p] = "drained" => pc[p] = "drained" /\ job'[p] = job[p]
  /\ UNCHANGED <<index, mark, missed, adopted>>

LEMMA QuietSteps ==
  ASSUME TypeOK, GhostInv,
         \/ UNCHANGED vars \/ Provider \/ FixParser \/ Probe \/ Read
         \/ StartRepair \/ ForgetAndRead \/ CloseRecords
         \/ \E p \in Importer : Fail(p) \/ Crash(p)
  PROVE  Carries
<1>0. DOMAIN pc = Importer /\ DOMAIN job = Importer /\ Daemon \in Importer /\ Repair \in Importer
  BY DEF TypeOK, Importer
<1> USE <1>0 DEF source, store, truths, prints, history, Goto
<1>1. CASE UNCHANGED vars \/ Provider \/ FixParser
  <2>1. UNCHANGED <<pc, job, index, mark, missed, adopted>>
    BY <1>1 DEF vars, Provider, AppendLine, AppendTorn, Rewrite, WriteFile, FixParser
  <2> QED BY <2>1 DEF Carries
<1>2. CASE Probe \/ Read
  <2>1. /\ pc' \in {[pc EXCEPT ![Daemon] = "read"], [pc EXCEPT ![Daemon] = "resolve"]}
        /\ UNCHANGED <<index, mark, missed, adopted>>
    BY <1>2 DEF Probe, Read
  <2>2. \A q \in Importer : q # Daemon => job'[q] = job[q]
    BY <1>2 DEF Probe, Read
  <2> QED BY <2>1, <2>2 DEF Carries
<1>3. CASE StartRepair \/ ForgetAndRead \/ CloseRecords
  <2>1. /\ pc' \in {[pc EXCEPT ![Repair] = "reset"], [pc EXCEPT ![Repair] = "resolve"],
                    [pc EXCEPT ![Repair] = "idle"]}
        /\ UNCHANGED <<index, mark, missed, adopted>>
    BY <1>3 DEF StartRepair, ForgetAndRead, CloseRecords
  <2>2. \A q \in Importer : q # Repair => job'[q] = job[q]
    BY <1>3 DEF StartRepair, ForgetAndRead, CloseRecords
  <2> QED BY <2>1, <2>2 DEF Carries
<1>4. ASSUME NEW p \in Importer, Fail(p) \/ Crash(p) PROVE Carries
  <2>1. /\ pc' = [pc EXCEPT ![p] = "idle"] /\ job' = [job EXCEPT ![p] = NoJob]
        /\ UNCHANGED <<index, mark, missed, adopted>>
    BY <1>4 DEF Fail, Crash
  <2> QED BY <2>1 DEF Carries
<1> QED BY <1>1, <1>2, <1>3, <1>4

LEMMA StageLeaves ==
  ASSUME TypeOK, GhostInv, NEW p \in Importer, Stages(p)
  PROVE  /\ UNCHANGED <<file, mtime, blind, index, thread, mark, seen, saved, missed, adopted>>
         /\ pc[p] = "resolve" /\ pc' = [pc EXCEPT ![p] = "drained"] /\ pc'[p] = "drained"
         /\ \A q \in Importer : q # p => pc'[q] = pc[q] /\ pc[q] \notin Busy /\ job'[q] = job[q]
<1>1. PICK write, batch, passed, adopts : Stage(p, write, batch, passed, adopts)
  BY DEF Stages, StampDigest, CarryForward, Adopt, Import, Discard
<1>2. /\ UNCHANGED <<file, mtime, blind, index, thread, mark, seen, saved, missed, adopted>>
      /\ pc[p] = "resolve" /\ pc' = [pc EXCEPT ![p] = "drained"]
      /\ \E j : job' = [job EXCEPT ![p] = j]
  BY <1>1 DEF Stage, source, store, prints, history, Goto
<1>3. DOMAIN pc = Importer /\ DOMAIN job = Importer
  BY DEF TypeOK
<1>4. \A q \in Importer : q # p => pc[q] \notin Busy
  BY <1>2 DEF GhostInv, Exclusion, Busy
<1> QED BY <1>2, <1>3, <1>4

LEMMA CommitLeaves ==
  ASSUME TypeOK, GhostInv, NEW p \in Importer, Commit(p)
  PROVE  /\ UNCHANGED <<file, mtime, blind, ledger>>
         /\ pc[p] = "drained" /\ pc' = [pc EXCEPT ![p] = Done(p)]
         /\ job'[p] = NoJob
         /\ \A q \in Importer : pc'[q] # "drained"
         /\ \A q \in Importer : q # p => pc'[q] = pc[q] /\ job'[q] = job[q]
         /\ index' = index \cup job[p].batch
         /\ missed \subseteq missed' /\ missed' \subseteq missed \cup job[p].passed
         /\ Accounted \cup job[p].passed \subseteq Accounted'
<1>1. /\ UNCHANGED <<file, mtime, blind, ledger>>
      /\ pc[p] = "drained" /\ pc' = [pc EXCEPT ![p] = Done(p)]
      /\ job' = [job EXCEPT ![p] = NoJob]
      /\ index' = index \cup job[p].batch
  BY DEF Commit, source, Goto
<1>2. DOMAIN pc = Importer /\ DOMAIN job = Importer /\ Done(p) # "drained"
  BY DEF TypeOK, Done
<1>3. \A q \in Importer : q # p => pc[q] # "drained"
  BY <1>1 DEF GhostInv, Exclusion, Busy
<1>4. /\ missed \subseteq missed' /\ missed' \subseteq missed \cup job[p].passed
      /\ adopted \subseteq adopted'
      /\ job[p].passed \subseteq index' \cup Meta \cup missed' \cup adopted'
  <2>1. CASE job[p].adopts
    BY <1>1, <2>1 DEF Commit
  <2>2. CASE ~job[p].adopts
    BY <1>1, <2>2 DEF Commit
  <2> QED BY <2>1, <2>2
<1>5. Accounted \cup job[p].passed \subseteq Accounted'
  BY <1>1, <1>4 DEF Accounted
<1> QED BY <1>1, <1>2, <1>3, <1>4, <1>5

LEMMA RebuildLeaves ==
  ASSUME GhostInv, Rebuild
  PROVE  /\ UNCHANGED <<file, mtime, blind, mark, ledger, seen, saved, pc, job, missed, adopted>>
         /\ \A p \in Importer : pc[p] = "idle"
         /\ Accounted \subseteq Accounted'
<1>1. /\ UNCHANGED <<file, mtime, blind, mark, ledger, seen, saved, pc, job, missed, adopted>>
      /\ \A p \in Importer : pc[p] = "idle"
      /\ index' = truth
  BY DEF Rebuild, source, prints, history
<1> QED BY <1>1 DEF GhostInv, TruthHolds, Accounted

LEMMA ResetLeaves ==
  ASSUME OneAtATime, TypeOK, GhostInv, ResetWatermark
  PROVE  /\ UNCHANGED <<file, mtime, blind, index, ledger, seen, saved, job, missed, adopted>>
         /\ pc[Repair] = "reset" /\ pc' = [pc EXCEPT ![Repair] = "forget"]
         /\ \A q \in Importer : pc'[q] # "drained"
         /\ mark' = IF mark = NoMark THEN NoMark ELSE Rewound
<1>1. /\ UNCHANGED <<file, mtime, blind, index, ledger, seen, saved, job, missed, adopted>>
      /\ pc[Repair] = "reset" /\ pc' = [pc EXCEPT ![Repair] = "forget"] /\ Alone(Repair)
      /\ mark' = IF mark = NoMark THEN NoMark ELSE Rewound
  BY DEF ResetWatermark, source, prints, history, Goto
<1>2. \A q \in Importer \ {Repair} : pc[q] \notin Busy
  BY <1>1, AloneIsFree DEF Importer
<1> QED BY <1>1, <1>2 DEF TypeOK, Busy

(* Every step but five is quiet.                                           *)
LEMMA StepKinds ==
  ASSUME TypeOK, GhostInv, [Next]_vars
  PROVE  \/ Carries
         \/ \E p \in Importer : Stages(p) \/ Commit(p)
         \/ Rebuild \/ ResetWatermark
BY QuietSteps DEF Next, RepairStep, ImportStep, Stages
-----------------------------------------------------------------------------
LEMMA CursorInit == Init => CursorInv
<1> SUFFICES ASSUME Init PROVE CursorInv
  OBVIOUS
<1>1. mark = NoMark /\ \A p \in Importer : pc[p] # "drained"
  BY DEF Init
<1> QED BY <1>1, CoversFile DEF CursorInv, Known

LEMMA CursorStep ==
  ASSUME OneAtATime, TypeOK, GhostInv, CursorInv, [Next]_vars
  PROVE  CursorInv'
<1>1. CASE Carries
  BY <1>1 DEF Carries, CursorInv, Accounted
<1>2. ASSUME NEW p \in Importer, Stages(p) PROVE CursorInv'
  <2>1. /\ UNCHANGED <<index, mark, missed, adopted>>
        /\ \A q \in Importer : q # p => pc'[q] = pc[q] /\ pc[q] \notin Busy
    BY <1>2, StageLeaves
  <2>2. Accounted' = Accounted
    BY <2>1 DEF Accounted
  <2>3. /\ job'[p].loaded = mark
        /\ Known(job'[p].write) /\ Covers(job'[p].write, Accounted \cup job'[p].passed)
    BY <1>2, StagedCovers DEF CursorInv
  <2> QED BY <2>1, <2>2, <2>3 DEF CursorInv, Busy
<1>3. ASSUME NEW p \in Importer, Commit(p) PROVE CursorInv'
  <2>1. /\ pc[p] = "drained" /\ \A q \in Importer : pc'[q] # "drained"
        /\ Accounted \cup job[p].passed \subseteq Accounted'
    BY <1>3, CommitLeaves
  <2>2. mark' = IF job[p].write = NoMark THEN mark ELSE job[p].write
    BY <1>3, <2>1, CommitWrites DEF CursorInv
  <2>3. Known(mark') /\ (Covers(mark', Accounted) \/ Covers(mark', Accounted \cup job[p].passed))
    BY <2>1, <2>2 DEF CursorInv
  <2>4. Accounted \subseteq Accounted'
    BY <2>1
  <2>5. Covers(mark', Accounted')
    BY <2>1, <2>3, <2>4, CoversFile
  <2> QED BY <2>1, <2>3, <2>5 DEF CursorInv
<1>4. CASE Rebuild
  <2>1. UNCHANGED <<mark, pc>> /\ Accounted \subseteq Accounted' /\ \A p \in Importer : pc[p] = "idle"
    BY <1>4, RebuildLeaves
  <2>2. Covers(mark, Accounted')
    BY <2>1, CoversFile DEF CursorInv
  <2> QED BY <2>1, <2>2 DEF CursorInv
<1>5. CASE ResetWatermark
  <2>1. mark' \in {NoMark, Rewound} /\ \A q \in Importer : pc'[q] # "drained"
    BY <1>5, ResetLeaves
  <2>2. Known(mark') /\ Covers(mark', Accounted')
    BY <2>1, CoversFile DEF Known
  <2> QED BY <2>1, <2>2 DEF CursorInv
<1> QED BY <1>1, <1>2, <1>3, <1>4, <1>5, StepKinds
-----------------------------------------------------------------------------
LEMMA AccountedGrows ==
  ASSUME TypeOK, GhostInv, [Next]_vars, OneAtATime
  PROVE  Accounted \subseteq Accounted'
<1>1. CASE Carries \/ ResetWatermark
  <2>1. UNCHANGED <<index, missed, adopted>>
    BY <1>1, ResetLeaves DEF Carries
  <2> QED BY <2>1 DEF Accounted
<1>2. ASSUME NEW p \in Importer, Stages(p) PROVE Accounted \subseteq Accounted'
  BY <1>2, StageLeaves DEF Accounted
<1>3. ASSUME NEW p \in Importer, Commit(p) PROVE Accounted \subseteq Accounted'
  BY <1>3, CommitLeaves
<1> QED BY <1>1, <1>2, <1>3, RebuildLeaves, StepKinds

(* Where the file is as it was, fingerprints are at most forgotten, and    *)
(* the daemon's job is the same or given back.                             *)
LEMMA PrintQuiet ==
  ASSUME TypeOK, PrintInv, UNCHANGED <<file, mtime>>, Accounted \subseteq Accounted',
         seen' \in {seen, saved, NoPrint}, saved' \in {saved, NoPrint},
         \/ UNCHANGED <<pc[Daemon], job[Daemon]>>
         \/ job'[Daemon].print = NoPrint
  PROVE  PrintInv'
<1>1. mtime \in Nat /\ NoPrint[1] = -1
  BY SourceBounds DEF TypeOK, NoPrint
<1>2. Fingerprint' = Fingerprint /\ Contents(file') = Contents(file)
  BY DEF Fingerprint
<1>3. Fingerprint # NoPrint /\ NoPrint[1] <= mtime
  <2>1. Fingerprint[1] = mtime
    BY DEF Fingerprint
  <2> QED BY <1>1, <2>1
<1>4. seen'[1] <= mtime' /\ saved'[1] <= mtime' /\ job'[Daemon].print[1] <= mtime'
  BY <1>3 DEF PrintInv
<1>5. SeenIsImported'
  BY <1>2, <1>3 DEF PrintInv, SeenIsImported
<1>6. ASSUME job'[Daemon].print = Fingerprint'
      PROVE  /\ pc'[Daemon] = "resolve" => job'[Daemon].bytes = file'
             /\ pc'[Daemon] = "drained" =>
                  Contents(file') \subseteq Accounted' \cup job'[Daemon].passed
  <2>1. UNCHANGED <<pc[Daemon], job[Daemon]>> /\ job[Daemon].print = Fingerprint
    BY <1>2, <1>3, <1>6
  <2> QED BY <1>2, <2>1 DEF PrintInv
<1> QED BY <1>4, <1>5, <1>6 DEF PrintInv

LEMMA PrintStep ==
  ASSUME OneAtATime, TypeOK, GhostInv, CursorInv, PrintInv, [Next]_vars
  PROVE  PrintInv'
<1>0. /\ Accounted \subseteq Accounted'
      /\ DOMAIN pc = Importer /\ DOMAIN job = Importer
      /\ Daemon \in Importer /\ Repair \in Importer /\ Daemon # Repair
      /\ job[Daemon] \in Jobs /\ mtime \in Nat
      /\ Fingerprint[1] = mtime
  BY AccountedGrows, SourceActors, SourceBounds DEF TypeOK, Importer, Fingerprint
<1>1. CASE Provider
  <2>1. mtime' = mtime + 1 /\ UNCHANGED <<seen, saved, job>>
    BY <1>1 DEF Provider, AppendLine, AppendTorn, Rewrite, WriteFile, prints
  <2>2. Fingerprint'[1] = mtime + 1
    BY <2>1 DEF Fingerprint
  <2>3. \A x : x[1] <= mtime => x # Fingerprint'
    BY <1>0, <2>2
  <2>4. seen[1] <= mtime + 1 /\ saved[1] <= mtime + 1 /\ job[Daemon].print[1] <= mtime + 1
    <3>1. seen[1] \in Int /\ saved[1] \in Int /\ job[Daemon].print[1] \in Int
      BY <1>0, SourceBounds DEF TypeOK, Jobs, Prints, NoPrint
    <3> QED BY <1>0, <3>1 DEF PrintInv
  <2> QED BY <2>1, <2>3, <2>4 DEF PrintInv, SeenIsImported
<1>2. CASE Probe
  <2>1. /\ job' = [job EXCEPT ![Daemon].print = Fingerprint] /\ pc' = [pc EXCEPT ![Daemon] = "read"]
        /\ UNCHANGED <<file, mtime, seen, saved>>
    BY <1>2 DEF Probe, source, prints, Goto
  <2>2. job'[Daemon].print = Fingerprint /\ pc'[Daemon] = "read"
    BY <1>0, <2>1 DEF Jobs
  <2>3. Fingerprint' = Fingerprint
    BY <2>1 DEF Fingerprint
  <2> QED BY <1>0, <2>1, <2>2, <2>3 DEF PrintInv, SeenIsImported
<1>3. CASE Read
  <2>1. /\ job' = [job EXCEPT ![Daemon].bytes = file] /\ pc' = [pc EXCEPT ![Daemon] = "resolve"]
        /\ UNCHANGED <<file, mtime, seen, saved>>
    BY <1>3 DEF Read, source, prints, Goto
  <2>2. job'[Daemon].print = job[Daemon].print /\ job'[Daemon].bytes = file /\ pc'[Daemon] = "resolve"
    BY <1>0, <2>1 DEF Jobs
  <2>3. Fingerprint' = Fingerprint
    BY <2>1 DEF Fingerprint
  <2> QED BY <1>0, <2>1, <2>2, <2>3 DEF PrintInv, SeenIsImported
<1>4. ASSUME NEW p \in Importer, Stages(p) PROVE PrintInv'
  <2>1. /\ UNCHANGED <<file, mtime, seen, saved>>
        /\ pc[p] = "resolve" /\ pc'[p] = "drained"
        /\ \A q \in Importer : q # p => pc'[q] = pc[q] /\ job'[q] = job[q]
    BY <1>4, StageLeaves
  <2>2. CASE p # Daemon
    BY <1>0, <2>1, <2>2, PrintQuiet
  <2>3. CASE p = Daemon
    <3>1. /\ job'[Daemon].print = job[Daemon].print
          /\ Contents(job[Daemon].bytes) \subseteq Accounted \cup job'[Daemon].passed
      BY <1>4, <2>3, StagedCovers DEF CursorInv
    <3>2. Fingerprint' = Fingerprint
      BY <2>1 DEF Fingerprint
    <3> QED BY <1>0, <2>1, <2>3, <3>1, <3>2 DEF PrintInv, SeenIsImported
  <2> QED BY <2>2, <2>3
<1>5. ASSUME NEW p \in Importer, Commit(p) PROVE PrintInv'
  <2>1. /\ UNCHANGED <<file, mtime>> /\ pc[p] = "drained" /\ job'[p] = NoJob
        /\ \A q \in Importer : q # p => pc'[q] = pc[q] /\ job'[q] = job[q]
        /\ Accounted \cup job[p].passed \subseteq Accounted'
    BY <1>5, CommitLeaves
  <2>2. CASE p # Daemon
    <3>1. UNCHANGED <<seen, saved>>
      BY <1>5, <2>2 DEF Commit, prints
    <3> QED BY <1>0, <2>1, <2>2, <3>1, PrintQuiet
  <2>3. CASE p = Daemon
    <3>1. seen' = job[Daemon].print /\ saved' \in {saved, job[Daemon].print}
      BY <1>5, <2>3 DEF Commit, PrintOf
    <3>2. job'[Daemon].print = NoPrint /\ NoPrint[1] = -1
      BY <2>1, <2>3 DEF NoJob, NoPrint
    <3>3. NoPrint # Fingerprint /\ NoPrint[1] <= mtime
      BY <1>0, <3>2
    <3>4. Fingerprint' = Fingerprint
      BY <2>1 DEF Fingerprint
    <3>5. job[Daemon].print = Fingerprint => Contents(file) \subseteq Accounted'
      BY <2>1, <2>3 DEF PrintInv
    <3>6. SeenIsImported'
      BY <1>0, <2>1, <3>1, <3>4, <3>5 DEF PrintInv, SeenIsImported
    <3>7. seen'[1] <= mtime' /\ saved'[1] <= mtime' /\ job'[Daemon].print[1] <= mtime'
      BY <2>1, <3>1, <3>2, <3>3 DEF PrintInv
    <3> QED BY <3>2, <3>3, <3>4, <3>6, <3>7 DEF PrintInv
  <2> QED BY <2>2, <2>3
<1>6. ASSUME NEW p \in Importer, Fail(p) \/ Crash(p) PROVE PrintInv'
  <2>1. /\ UNCHANGED <<file, mtime>> /\ pc' = [pc EXCEPT ![p] = "idle"]
        /\ job' = [job EXCEPT ![p] = NoJob]
    BY <1>6 DEF Fail, Crash, source, Goto
  <2>2. seen' \in {seen, saved, NoPrint} /\ saved' \in {saved, NoPrint}
    BY <1>6 DEF Fail, Crash, prints
  <2>3. UNCHANGED <<pc[Daemon], job[Daemon]>> \/ job'[Daemon].print = NoPrint
    BY <1>0, <2>1 DEF NoJob
  <2> QED BY <1>0, <2>1, <2>2, <2>3, PrintQuiet
<1>7. CASE UNCHANGED vars \/ FixParser \/ Rebuild \/ StartRepair \/ ResetWatermark
           \/ ForgetAndRead \/ CloseRecords
  <2>1. /\ UNCHANGED <<file, mtime>> /\ seen' = seen /\ saved' \in {saved, NoPrint}
        /\ pc' \in {pc, [pc EXCEPT ![Repair] = "reset"], [pc EXCEPT ![Repair] = "forget"],
                    [pc EXCEPT ![Repair] = "resolve"], [pc EXCEPT ![Repair] = "idle"]}
        /\ job' = job \/ \E j : job' = [job EXCEPT ![Repair] = j]
    BY <1>7 DEF vars, FixParser, Rebuild, StartRepair, ResetWatermark, ForgetAndRead, CloseRecords,
                source, prints, Goto
  <2>2. UNCHANGED <<pc[Daemon], job[Daemon]>>
    BY <1>0, <2>1
  <2> QED BY <1>0, <2>1, <2>2, PrintQuiet
<1> QED BY <1>1, <1>2, <1>3, <1>4, <1>5, <1>6, <1>7 DEF Next, RepairStep, ImportStep, Stages

LEMMA PrintInit == Init => PrintInv
<1> SUFFICES ASSUME Init PROVE PrintInv
  OBVIOUS
<1>1. seen = NoPrint /\ saved = NoPrint /\ job[Daemon].print = NoPrint /\ mtime = 0
  BY DEF Init, Importer, NoJob
<1>2. NoPrint[1] = -1 /\ Fingerprint[1] = 0
  BY <1>1 DEF NoPrint, Fingerprint
<1>3. NoPrint # Fingerprint /\ NoPrint[1] <= mtime
  BY <1>1, <1>2
<1> QED BY <1>1, <1>3 DEF PrintInv, SeenIsImported
-----------------------------------------------------------------------------
(* A repair is past its stamp only if it was, or stamps now; it re-imports *)
(* only if it did, or rewinds now.                                         *)
LEMMA RepairMoves ==
  ASSUME OneAtATime, TypeOK, GhostInv, [Next]_vars
  PROVE  /\ Reimporting' => Reimporting \/ ResetWatermark
         /\ pc'[Repair] = "reset" => pc[Repair] = "reset" \/ StartRepair
         /\ ResetWatermark => pc[Repair] = "reset"
<1>0. DOMAIN pc = Importer /\ Daemon \in Importer /\ Repair \in Importer /\ Daemon # Repair
  BY SourceActors DEF TypeOK, Importer
<1>1. CASE Provider \/ FixParser \/ Rebuild \/ UNCHANGED vars
  <2>1. pc' = pc
    BY <1>1 DEF vars, Provider, AppendLine, AppendTorn, Rewrite, WriteFile, FixParser, Rebuild
  <2> QED BY <2>1, ResetLeaves DEF Reimporting
<1>2. CASE Probe \/ Read
  <2>1. pc' \in {[pc EXCEPT ![Daemon] = "read"], [pc EXCEPT ![Daemon] = "resolve"]}
    BY <1>2 DEF Probe, Read, Goto
  <2> QED BY <1>0, <2>1, ResetLeaves DEF Reimporting
<1>3. ASSUME NEW p \in Importer, Stages(p) \/ Commit(p) \/ Fail(p) \/ Crash(p)
      PROVE  /\ Reimporting' => Reimporting
             /\ pc'[Repair] = "reset" => pc[Repair] = "reset"
  <2>1. CASE Stages(p)
    <3>1. pc[p] = "resolve" /\ pc' = [pc EXCEPT ![p] = "drained"]
      BY <2>1, StageLeaves
    <3> QED BY <1>0, <3>1 DEF Reimporting
  <2>2. CASE Commit(p)
    <3>1. pc[p] = "drained" /\ pc' = [pc EXCEPT ![p] = Done(p)]
      BY <2>2, CommitLeaves
    <3> QED BY <1>0, <3>1 DEF Reimporting, Done
  <2>3. CASE Fail(p) \/ Crash(p)
    <3>1. pc' = [pc EXCEPT ![p] = "idle"]
      BY <2>3 DEF Fail, Crash, Goto
    <3> QED BY <1>0, <3>1 DEF Reimporting
  <2> QED BY <1>3, <2>1, <2>2, <2>3
<1>5. CASE StartRepair \/ ForgetAndRead \/ CloseRecords
  <2>1. \/ StartRepair /\ pc' = [pc EXCEPT ![Repair] = "reset"]
        \/ pc[Repair] = "forget" /\ pc' = [pc EXCEPT ![Repair] = "resolve"]
        \/ pc[Repair] = "reread" /\ pc' = [pc EXCEPT ![Repair] = "idle"]
    BY <1>5 DEF StartRepair, ForgetAndRead, CloseRecords, Goto
  <2> QED BY <1>0, <2>1, ResetLeaves DEF Reimporting
<1>6. CASE ResetWatermark
  BY <1>0, <1>6, ResetLeaves
<1>7. ResetWatermark => pc[Repair] = "reset"
  BY ResetLeaves
<1> QED BY <1>1, <1>2, <1>3, <1>5, <1>6, <1>7 DEF Next, RepairStep, ImportStep, Stages

(* What is open in the ledger is no event, or was not understood.          *)
LEMMA LedgerGrows ==
  ASSUME TypeOK, GhostInv, [Next]_vars
  PROVE  \/ ledger' = ledger
         \/ CloseRecords /\ ledger' = {}
         \/ \E p \in Importer : Discard(p) /\ ledger' = ledger \cup NewLines(p)
                                /\ NewLines(p) \subseteq Meta \cup blind
<1>1. ASSUME NEW p \in Importer, Discard(p), ledger' # ledger
      PROVE  ledger' = ledger \cup NewLines(p) /\ NewLines(p) \subseteq Meta \cup blind
  BY <1>1 DEF Discard, Understood
<1>2. ASSUME NEW p \in Importer,
             StampDigest(p) \/ CarryForward(p) \/ Adopt(p) \/ Import(p) \/ Commit(p)
             \/ Fail(p) \/ Crash(p)
      PROVE  ledger' = ledger
  BY <1>2 DEF StampDigest, CarryForward, Adopt, Import, Commit, Fail, Crash
<1>3. CASE CloseRecords
  BY <1>3 DEF CloseRecords
<1>4. CASE UNCHANGED vars \/ Provider \/ FixParser \/ Probe \/ Read \/ Rebuild
           \/ StartRepair \/ ResetWatermark \/ ForgetAndRead
  BY <1>4 DEF vars, Provider, AppendLine, AppendTorn, Rewrite, WriteFile, FixParser, Probe, Read,
              Rebuild, StartRepair, ResetWatermark, ForgetAndRead
<1> QED BY <1>1, <1>2, <1>3, <1>4 DEF Next, RepairStep, ImportStep

LEMMA BlindSteps ==
  ASSUME [Next]_vars
  PROVE  \/ blind' = blind
         \/ blind' = {} /\ missed \cap blind # {} /\ UNCHANGED <<mark, missed, pc, job>>
<1>1. CASE Provider
  <2>1. UNCHANGED blind
    BY <1>1 DEF Provider, AppendLine, AppendTorn, Rewrite, WriteFile
  <2> QED BY <2>1
<1>2. CASE FixParser
  <2>1. blind' = {} /\ missed \cap blind # {} /\ UNCHANGED <<mark, missed, pc, job>>
    BY <1>2 DEF FixParser, store, history
  <2> QED BY <2>1
<1>3. CASE UNCHANGED vars
  BY <1>3 DEF vars, source
<1>4. CASE Probe \/ Read \/ Rebuild
  <2>1. UNCHANGED blind
    BY <1>4 DEF Probe, Read, Rebuild, source
  <2> QED BY <2>1
<1>5. CASE RepairStep
  <2>1. UNCHANGED blind
    BY <1>5 DEF RepairStep, StartRepair, ResetWatermark, ForgetAndRead, CloseRecords, source
  <2> QED BY <2>1
<1>6. ASSUME NEW p \in Importer, ImportStep(p) \/ Fail(p) \/ Crash(p)
      PROVE  UNCHANGED blind
  BY <1>6 DEF ImportStep, StampDigest, CarryForward, Adopt, Import, Discard, Stage, Commit,
              Fail, Crash, source
<1> QED BY <1>1, <1>2, <1>3, <1>4, <1>5, <1>6 DEF Next

(* Lines are missed only under a watermark.                                *)
LEMMA MissedStep ==
  ASSUME OneAtATime, TypeOK, GhostInv, CursorInv, ClosedInv, [Next]_vars
  PROVE  /\ blind' # Drifted => missed' # {}
         /\ missed' # {} => mark' # NoMark
         /\ \A p \in Importer : pc'[p] = "drained" /\ job'[p].passed # {} => job'[p].write # NoMark
<1>1. /\ missed \subseteq missed'
      /\ blind' # Drifted => missed' # {}
  <2>1. missed \subseteq missed'
    BY StepKinds, StageLeaves, CommitLeaves, RebuildLeaves, ResetLeaves DEF Carries
  <2> QED BY <2>1, BlindSteps DEF ClosedInv
<1>2. CASE Carries
  BY <1>1, <1>2 DEF Carries, ClosedInv
<1>3. ASSUME NEW p \in Importer, Stages(p)
      PROVE  /\ missed' # {} => mark' # NoMark
             /\ \A q \in Importer : pc'[q] = "drained" /\ job'[q].passed # {} => job'[q].write # NoMark
  <2>1. /\ UNCHANGED <<mark, missed>>
        /\ \A q \in Importer : q # p => pc'[q] = pc[q] /\ pc[q] \notin Busy
    BY <1>3, StageLeaves
  <2>2. job'[p].passed # {} => job'[p].write # NoMark
    BY <1>3, StagedCovers DEF CursorInv
  <2> QED BY <2>1, <2>2 DEF ClosedInv, Busy
<1>4. ASSUME NEW p \in Importer, Commit(p)
      PROVE  missed' # {} => mark' # NoMark
  <2>1. pc[p] = "drained" /\ missed' \subseteq missed \cup job[p].passed
    BY <1>4, CommitLeaves
  <2>2. mark' = IF job[p].write = NoMark THEN mark ELSE job[p].write
    BY <1>4, <2>1, CommitWrites DEF CursorInv
  <2> QED BY <2>1, <2>2 DEF ClosedInv
<1>5. CASE Rebuild
  <2>1. UNCHANGED <<mark, missed, pc, job>>
    BY <1>5, RebuildLeaves
  <2> QED BY <1>1, <2>1 DEF ClosedInv
<1>6. CASE ResetWatermark
  <2>1. /\ UNCHANGED missed /\ mark' = IF mark = NoMark THEN NoMark ELSE Rewound
        /\ \A q \in Importer : pc'[q] # "drained"
    BY <1>6, ResetLeaves
  <2> QED BY <1>1, <2>1, DistinctMarks DEF ClosedInv
<1>7. ASSUME NEW p \in Importer, Commit(p)
      PROVE  \A q \in Importer : pc'[q] # "drained"
  BY <1>7, CommitLeaves
<1>8. ASSUME NEW p \in Importer, Stages(p) \/ Commit(p)
      PROVE  /\ missed' # {} => mark' # NoMark
             /\ \A q \in Importer : pc'[q] = "drained" /\ job'[q].passed # {} => job'[q].write # NoMark
  <2>1. CASE Stages(p)
    BY <1>3, <2>1
  <2>2. CASE Commit(p)
    BY <1>4, <1>7, <2>2
  <2> QED BY <1>8, <2>1, <2>2
<1> QED
  <2> DEFINE Held ==
        /\ missed' # {} => mark' # NoMark
        /\ \A q \in Importer : pc'[q] = "drained" /\ job'[q].passed # {} => job'[q].write # NoMark
  <2>1. Carries => Held
    BY <1>2
  <2>2. \A p \in Importer : Stages(p) \/ Commit(p) => Held
    BY <1>8
  <2>3. Rebuild \/ ResetWatermark => Held
    BY <1>5, <1>6
  <2> HIDE DEF Held
  <2>4. Held
    BY <2>1, <2>2, <2>3, StepKinds
  <2> QED BY <1>1, <2>4 DEF Held

LEMMA ClosedStep ==
  ASSUME OneAtATime, TypeOK, GhostInv, CursorInv, ClosedInv, [Next]_vars
  PROVE  ClosedInv'
<1>0. blind \subseteq Drifted
  BY DEF TypeOK
<1>1. ledger' \subseteq Meta \cup Drifted
  BY <1>0, LedgerGrows DEF ClosedInv
<1>2. pc'[Repair] = "reset" \/ Reimporting' => blind' = {}
  <2>1. StartRepair => blind = {}
    BY DEF StartRepair
  <2> QED BY <2>1, RepairMoves, BlindSteps DEF ClosedInv
<1>3. ASSUME Reimporting', Drifted # {}
      PROVE  /\ Covers(mark', index' \cup Meta)
             /\ \A p \in Importer :
                  pc'[p] = "drained" => Covers(job'[p].write, index' \cup job'[p].batch \cup Meta)
  <2>1. CASE ResetWatermark
    <3>1. mark' \in {NoMark, Rewound} /\ \A q \in Importer : pc'[q] # "drained"
      BY <2>1, ResetLeaves
    <3> QED BY <3>1, CoversFile
  <2>2. CASE ~ResetWatermark
    <3>1. Reimporting
      BY <1>3, <2>2, RepairMoves
    <3>2. /\ blind = {} /\ mark # NoMark
          /\ Covers(mark, index \cup Meta)
          /\ \A p \in Importer :
               pc[p] = "drained" => Covers(job[p].write, index \cup job[p].batch \cup Meta)
      BY <1>3, <3>1 DEF ClosedInv
    <3>3. CASE Carries
      BY <3>2, <3>3 DEF Carries
    <3>4. ASSUME NEW p \in Importer, Stages(p)
          PROVE  /\ Covers(mark', index' \cup Meta)
                 /\ \A q \in Importer :
                      pc'[q] = "drained" => Covers(job'[q].write, index' \cup job'[q].batch \cup Meta)
      <4>1. /\ UNCHANGED <<index, mark>>
            /\ \A q \in Importer : q # p => pc'[q] = pc[q] /\ pc[q] \notin Busy
        BY <3>4, StageLeaves
      <4>2. /\ Covers(job'[p].write, (index \cup Meta) \cup job'[p].passed)
            /\ job'[p].passed \subseteq index \cup job'[p].batch \cup Meta \cup blind
        BY <3>2, <3>4, StagedCovers DEF CursorInv
      <4>3. (index \cup Meta) \cup job'[p].passed \subseteq index \cup job'[p].batch \cup Meta
        BY <3>2, <4>2
      <4>4. Covers(job'[p].write, index \cup job'[p].batch \cup Meta)
        BY <4>2, <4>3, CoversFile
      <4> QED BY <3>2, <4>1, <4>4 DEF Busy
    <3>5. ASSUME NEW p \in Importer, Commit(p)
          PROVE  /\ Covers(mark', index' \cup Meta)
                 /\ \A q \in Importer : pc'[q] # "drained"
      <4>1. /\ pc[p] = "drained" /\ index' = index \cup job[p].batch
            /\ \A q \in Importer : pc'[q] # "drained"
        BY <3>5, CommitLeaves
      <4>2. mark' = IF job[p].write = NoMark THEN mark ELSE job[p].write
        BY <3>5, <4>1, CommitWrites DEF CursorInv
      <4>3. index \cup Meta \subseteq index' \cup Meta
            /\ index \cup job[p].batch \cup Meta \subseteq index' \cup Meta
        BY <4>1
      <4>4. Covers(mark, index' \cup Meta) /\ Covers(job[p].write, index' \cup Meta)
        BY <3>2, <4>1, <4>3, CoversFile
      <4> QED BY <4>1, <4>2, <4>4
    <3>6. ~Rebuild
      <4>1. Rebuild => pc[Repair] = "idle"
        BY DEF Rebuild, Importer
      <4> QED BY <3>1, <4>1 DEF Reimporting
    <3> QED BY <2>2, <3>3, <3>4, <3>5, <3>6, StepKinds
  <2> QED BY <2>1, <2>2
<1> QED BY <1>1, <1>2, <1>3, MissedStep DEF ClosedInv

LEMMA ClosedInit == Init => ClosedInv
<1> SUFFICES ASSUME Init PROVE ClosedInv
  OBVIOUS
<1>1. /\ ledger = {} /\ blind = Drifted /\ missed = {} /\ mark = NoMark
      /\ pc[Repair] = "idle" /\ \A p \in Importer : pc[p] = "idle"
  BY DEF Init, Importer
<1> QED BY <1>1 DEF ClosedInv, Reimporting

(* A record that is closed: the cursor has passed nothing it was about     *)
(* that is not in the index.                                               *)
LEMMA CloseStep ==
  ASSUME TypeOK, GhostInv, CursorInv, ClosedInv, [Next]_vars,
         ledger' # ledger, ledger' = {}
  PROVE  ledger \cap Passed \subseteq index \cup Meta
<1>1. CloseRecords
  BY LedgerGrows
<1>2. Reimporting
  BY <1>1 DEF CloseRecords, Reimporting
<1>3. CASE Drifted = {}
  BY <1>3 DEF ClosedInv
<1>4. CASE Drifted # {}
  <2>1. Covers(mark, index \cup Meta) /\ Known(mark) /\ file \in Files
    BY <1>2, <1>4 DEF ClosedInv, CursorInv, TypeOK
  <2>2. UpTo(file, StartLine(file)) \subseteq index \cup Meta
    BY <2>1, PassedCovered
  <2> QED BY <2>2 DEF Passed
<1> QED BY <1>3, <1>4
-----------------------------------------------------------------------------
ImportInv == TypeOK /\ GhostInv /\ LedgerHolds /\ CursorInv /\ PrintInv /\ ClosedInv

(* The inductive invariant, whole.                                         *)
LEMMA ImportInvHolds ==
  ASSUME OneAtATime PROVE Spec => []ImportInv
<1>1. Init => ImportInv
  BY ImportTypeInit, GhostInit, CursorInit, PrintInit, ClosedInit DEF ImportInv
<1>2. ImportInv /\ [Next]_vars => ImportInv'
  BY ImportTypeStep, ImportNext, CursorStep, PrintStep, ClosedStep DEF ImportInv
<1> QED BY <1>1, <1>2, PTL DEF Spec

(* Whatever is appended, torn, truncated or rewritten in place, and however*)
(* imports fail and die: the next poll resumes after lines that are in the *)
(* index, or that the archive owes nothing for (_cursor.py 3-23).          *)
THEOREM CursorIsSound ==
  ASSUME OneAtATime PROVE Spec => []CursorSkipsNothing
<1>1. ASSUME ImportInv PROVE CursorSkipsNothing
  <2>1. Known(mark) /\ Covers(mark, Accounted) /\ file \in Files
    BY <1>1 DEF ImportInv, CursorInv, TypeOK
  <2>2. UpTo(file, StartLine(file)) \subseteq Accounted
    BY <2>1, PassedCovered
  <2> QED BY <2>2 DEF Passed, CursorSkipsNothing
<1> QED BY <1>1, ImportInvHolds, PTL

(* A file the watcher has stopped looking at, in memory or in the          *)
(* fingerprints a restart loads, has been imported (base.py 44-95).        *)
THEOREM FingerprintIsSound ==
  ASSUME OneAtATime PROVE Spec => []SeenIsImported
<1>1. ImportInv => SeenIsImported
  BY DEF ImportInv, PrintInv
<1> QED BY <1>1, ImportInvHolds, PTL

(* A repair closes a record only over lines that the archive holds         *)
(* (reimport.py 19-31).                                                    *)
THEOREM ClosingIsSound ==
  ASSUME OneAtATime PROVE Spec => ClosedIsRecovered
<1>1. ImportInv /\ [Next]_vars
        => [ledger' # ledger /\ ledger' = {} => ledger \cap Passed \subseteq index \cup Meta]_vars
  BY CloseStep DEF ImportInv
<1> QED BY <1>1, ImportInvHolds, PTL DEF Spec, ClosedIsRecovered
=============================================================================
