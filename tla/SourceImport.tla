------------------------------ MODULE SourceImport ------------------------------
(***************************************************************************)
(* The incremental import of one session file (_importers/_cursor.py,      *)
(* _line_stream.py, claude_code.py, _state.py, _events.py), driven by the  *)
(* watcher's fingerprints (_watcher/base.py, sources.py, fingerprints.py)  *)
(* and by the re-import of a repair (_repair/reimport.py), while the       *)
(* provider appends to the file, tears its last line and rewrites it.      *)
(*                                                                         *)
(* A line has two halves, so that a file can end in a torn one; the first  *)
(* halves of all lines look alike.  A digest is the bytes themselves.  An  *)
(* event is the content of its line.                                       *)
(***************************************************************************)
EXTENDS Integers, FiniteSets, Sequences, SequencesExt

CONSTANTS
  Line,        \* contents of the lines a provider writes
  Meta,        \* those no event is made of
  Drifted,     \* those the parser does not understand until it is fixed
  Malformed,   \* a line that is no JSON
  Daemon, Repair,  \* the processes that import
  SkipLedgered,    \* claude_code.py records a discarded import, _line_stream.py does not
  OneAtATime,      \* does one import wait for the other's end?  Of the watchers
                   \* (.ingest-owner.lock) it does; a repair takes no such lock
  MaxLen,      \* bound: lines of the file
  MaxWrites,   \* bound: writes of the provider
  MaxFaults    \* bound: deaths of an importer, and imports that fail (but for conflicts)

ASSUME SourceLines == /\ Meta \subseteq Line /\ Drifted \subseteq Line \ Meta
                      /\ Malformed \notin Line
ASSUME SourceActors == Daemon # Repair
ASSUME SourceBounds == /\ MaxLen \in Nat /\ MaxWrites \in Nat /\ MaxFaults \in Nat
                       /\ SkipLedgered \in BOOLEAN /\ OneAtATime \in BOOLEAN

VARIABLES
  file,     \* the session file: its complete lines, and whether a torn one follows
  mtime,    \* its mtime, new at every write
  blind,    \* the lines the parser does not understand now
  index,    \* the events in index.db
  thread,   \* is there a thread row?
  mark,     \* the import_state row, or NoMark
  truth,    \* the events in the thread's truth file
  record,   \* does the truth hold the thread's own record?
  ledger,   \* the lines of the open records of capture-skips.jsonl
  seen,     \* the watcher's fingerprint of the file, or NoPrint
  saved,    \* the one in watch-fingerprints.json, or NoPrint
  pc,       \* importer -> where it is
  job,      \* importer -> what it holds of the import under way
  again,    \* a record was written since the repair took its stamp
  missed,   \* history: understood too late, the cursor had passed them
  adopted,  \* history: passed over by an adoption
  faults

source == <<file, mtime, blind>>
store == <<index, thread, mark>>
truths == <<truth, record>>
prints == <<seen, saved>>
history == <<missed, adopted>>
vars == <<source, store, truths, ledger, prints, pc, job, again, history, faults>>
-----------------------------------------------------------------------------
Importer == {Daemon, Repair}

Files == [lines : SeqOf(Line \cup {Malformed}, MaxLen), torn : BOOLEAN]
Empty == [lines |-> <<>>, torn |-> FALSE]
Size(f) == 2 * Len(f.lines) + (IF f.torn THEN 1 ELSE 0)

(* The first n bytes of a file at least that long.                         *)
Prefix(f, n) == [lines |-> SubSeq(f.lines, 1, n \div 2), torn |-> n % 2 = 1]

(* parse_session_lines: what is no JSON, a torn tail included, is dropped; *)
(* a cursor counts what is left.                                           *)
IsLine(l) == l # Malformed
Parsed(f) == {i \in 1 .. Len(f.lines) : IsLine(f.lines[i])}
Rank(f, i) == Cardinality({j \in Parsed(f) : j <= i})
Count(f) == Cardinality(Parsed(f))
Contents(f) == {f.lines[i] : i \in Parsed(f)}
UpTo(f, n) == {f.lines[i] : i \in {i \in Parsed(f) : Rank(f, i) <= n}}
After(f, n) == {f.lines[i] : i \in {i \in Parsed(f) : Rank(f, i) > n}}

NoMark == [count |-> -1, size |-> -1, digest |-> Empty]
Undigested ==                     \* last_content_hash = None: the digest of no file
  [lines |-> [i \in 1 .. MaxLen + 1 |-> Malformed], torn |-> FALSE]
MarkPast(f) ==                    \* mutant: the cursor counts a line too many
  [count |-> Count(f) + 1, size |-> Size(f), digest |-> f]
MarkOf(f) == [count |-> Count(f), size |-> Size(f), digest |-> f]
Rewound == [count |-> 0, size |-> 0, digest |-> Undigested]

NoPrint == <<-1, -1>>
Fingerprint == <<mtime, Size(file)>>

NoJob == [bytes |-> Empty, print |-> NoPrint, loaded |-> NoMark, write |-> NoMark,
          batch |-> {}, passed |-> {}, adopts |-> FALSE]

Init ==
  /\ file = Empty /\ mtime = 0 /\ blind = Drifted
  /\ index = {} /\ thread = FALSE /\ mark = NoMark
  /\ truth = {} /\ record = FALSE
  /\ ledger = {}
  /\ seen = NoPrint /\ saved = NoPrint
  /\ pc = [p \in Importer |-> "idle"]
  /\ job = [p \in Importer |-> NoJob]
  /\ again = FALSE
  /\ missed = {} /\ adopted = {}
  /\ faults = 0

Goto(p, l) == pc' = [pc EXCEPT ![p] = l]

Alone(p) ==
  OneAtATime => \A q \in Importer \ {p} : pc[q] \notin {"read", "resolve", "drained"}
-----------------------------------------------------------------------------
(* The provider.                                                           *)

WriteFile(f) ==
  /\ mtime < MaxWrites
  /\ mtime' = mtime + 1
  /\ file' = f
  /\ UNCHANGED <<blind, store, truths, ledger, prints, pc, job, again, history, faults>>

AppendLine(c) ==                  \* a whole line, or the rest of a torn one
  /\ Len(file.lines) < MaxLen
  /\ WriteFile([lines |-> Append(file.lines, c), torn |-> FALSE])

AppendTorn ==
  /\ ~file.torn /\ Len(file.lines) < MaxLen
  /\ WriteFile([file EXCEPT !.torn = TRUE])

Rewrite ==                        \* in place, shorter, or as long as before
  \E f \in Files : f # file /\ ~f.torn /\ WriteFile(f)

FixParser ==                      \* of what was seen to be missed
  /\ missed \cap blind # {}
  /\ blind' = {}
  /\ UNCHANGED <<file, mtime, store, truths, ledger, prints, pc, job, again, history, faults>>
-----------------------------------------------------------------------------
(* fingerprint_poll: stat first, the import if the fingerprint moved.      *)
ProbeAdvances ==                  \* mutant: the fingerprint advances before the import
  /\ pc[Daemon] = "idle"
  /\ Alone(Daemon)
  /\ Size(file) # 0 /\ Fingerprint # seen
  /\ job' = [job EXCEPT ![Daemon].print = Fingerprint]
  /\ seen' = Fingerprint
  /\ Goto(Daemon, "read")
  /\ UNCHANGED <<source, store, truths, ledger, saved, again, history, faults>>
Probe ==
  /\ pc[Daemon] = "idle"
  /\ Alone(Daemon)
  /\ Size(file) # 0 /\ Fingerprint # seen
  /\ job' = [job EXCEPT ![Daemon].print = Fingerprint]
  /\ Goto(Daemon, "read")
  /\ UNCHANGED <<source, store, truths, ledger, prints, again, history, faults>>

(* read_source_bytes.                                                      *)
Read ==
  /\ pc[Daemon] = "read"
  /\ job' = [job EXCEPT ![Daemon].bytes = file]
  /\ Goto(Daemon, "resolve")
  /\ UNCHANGED <<source, store, truths, ledger, prints, again, history, faults>>

(* resolve_source_cursor.                                                  *)
Unchanged(w, f) ==
  /\ w # NoMark
  /\ w.size = Size(f)
  /\ w.digest \in {Undigested, f}

AppendedBySize(w, f) == w # NoMark /\ w.size <= Size(f)  \* mutant: the size is proof enough
Appended(w, f) ==
  /\ w # NoMark
  /\ w.size <= Size(f)
  /\ w.digest = Undigested \/ w.digest = Prefix(f, w.size)

StartLine(f) == IF Appended(mark, f) THEN mark.count ELSE 0

NewLines(p) == After(job[p].bytes, StartLine(job[p].bytes))

NothingNew(p) == StartLine(job[p].bytes) >= Count(job[p].bytes)

(* What the importer read (pysqlite begins the transaction at the first    *)
(* write: others may commit before it does) and what it will write; the    *)
(* rows, and a new thread's record, are drained to the truth.              *)
StageWithRecord(p, write, batch, passed, adopts) ==  \* mutant: the record is not unstaged
  /\ pc[p] = "resolve"
  /\ job' = [job EXCEPT ![p] = [@ EXCEPT !.bytes = Empty, !.loaded = mark, !.write = write,
                               !.batch = batch, !.passed = passed, !.adopts = adopts]]
  /\ truth' = truth \cup batch
  /\ record' = (record \/ passed # {})
  /\ Goto(p, "drained")
  /\ UNCHANGED <<source, store, prints, history, faults>>
Stage(p, write, batch, passed, adopts) ==
  /\ pc[p] = "resolve"
  /\ job' = [job EXCEPT ![p] = [@ EXCEPT !.bytes = Empty, !.loaded = mark, !.write = write,
                               !.batch = batch, !.passed = passed, !.adopts = adopts]]
  /\ truth' = truth \cup batch
  /\ record' = (record \/ batch # {})
  /\ Goto(p, "drained")
  /\ UNCHANGED <<source, store, prints, history, faults>>

(* Byte-identical to the last import: the digest is stamped.               *)
StampDigest(p) ==
  /\ Unchanged(mark, job[p].bytes)
  /\ Stage(p, [mark EXCEPT !.digest = job[p].bytes], {}, {}, FALSE)
  /\ UNCHANGED <<ledger, again>>

(* Changed bytes, no new line.                                             *)
CarryForward(p) ==
  /\ ~Unchanged(mark, job[p].bytes) /\ NothingNew(p)
  /\ Stage(p, IF mark = NoMark THEN NoMark ELSE MarkOf(job[p].bytes), {}, {}, FALSE)
  /\ UNCHANGED <<ledger, again>>

(* adopt_if_unwatermarked.                                                 *)
Adoptable == mark = NoMark /\ thread /\ index # {}

Adopt(p) ==
  /\ ~NothingNew(p) /\ Adoptable
  /\ Stage(p, MarkOf(job[p].bytes), {}, NewLines(p), TRUE)
  /\ UNCHANGED <<ledger, again>>

(* import_lines: what the parser understands and the thread does not hold. *)
Takes(p) == ~Unchanged(mark, job[p].bytes) /\ ~NothingNew(p) /\ ~Adoptable
Understood(p) == NewLines(p) \ (Meta \cup blind)

Import(p) ==
  /\ Takes(p)
  /\ thread \/ Understood(p) # {}
  /\ Stage(p, MarkOf(job[p].bytes), Understood(p) \ index, NewLines(p), FALSE)
  /\ UNCHANGED <<ledger, again>>

(* A new thread nothing was imported into is discarded, with its staged    *)
(* record; the lines go on the ledger, before the COMMIT.                  *)
DiscardSilently(p) ==             \* mutant: the ledger is forgotten
  /\ Takes(p)
  /\ ~thread /\ Understood(p) = {}
  /\ Stage(p, MarkOf(job[p].bytes), {}, NewLines(p), FALSE)
  /\ UNCHANGED <<ledger, again>>
Discard(p) ==
  /\ Takes(p)
  /\ ~thread /\ Understood(p) = {}
  /\ Stage(p, MarkOf(job[p].bytes), {}, NewLines(p), FALSE)
  /\ IF SkipLedgered \/ NewLines(p) \subseteq Meta
     THEN ledger' = ledger \cup NewLines(p) /\ again' = TRUE
     ELSE UNCHANGED <<ledger, again>>

(* The UPDATE sets the columns that differ from the row as it was loaded;  *)
(* where there was none, it is read again.                                 *)
Column(now, was, new) == IF new # was THEN new ELSE now
Written(p) ==
  LET w == job[p].write  l == job[p].loaded
  IN  CASE w = NoMark -> mark
        [] l = NoMark -> w
        [] OTHER -> [count |-> Column(mark.count, l.count, w.count),
                     size |-> Column(mark.size, l.size, w.size),
                     digest |-> Column(mark.digest, l.digest, w.digest)]

(* The unique index on (thread, dedup_key).                                *)
Conflicts(p) == job[p].batch \cap index # {}

PrintNow(p) == Fingerprint        \* mutant: the file is statted after it was read
PrintOf(p) == job[p].print

Done(p) == IF p = Daemon THEN "idle" ELSE "reread"

Commit(p) ==
  /\ pc[p] = "drained"
  /\ ~Conflicts(p)
  /\ index' = index \cup job[p].batch
  /\ thread' = (thread \/ job[p].batch # {})
  /\ mark' = Written(p)
  /\ IF job[p].adopts
     THEN adopted' = adopted \cup (job[p].passed \ index) /\ UNCHANGED missed
     ELSE missed' = missed \cup (job[p].passed \ (Meta \cup index')) /\ UNCHANGED adopted
  /\ IF p = Daemon
     THEN seen' = PrintOf(p) /\ saved' \in {saved, seen'}
     ELSE UNCHANGED prints
  /\ job' = [job EXCEPT ![p] = NoJob]
  /\ Goto(p, Done(p))
  /\ UNCHANGED <<source, truths, ledger, again, faults>>

(* A failed import is an error of the poll, or of the repair; the drain is *)
(* undone.                                                                 *)
Fail(p) ==
  /\ pc[p] \in {"resolve", "drained"}
  /\ IF pc[p] = "drained" /\ Conflicts(p) THEN UNCHANGED faults
     ELSE faults < MaxFaults /\ faults' = faults + 1
  /\ IF pc[p] = "drained"
     THEN /\ truth' = truth \ (job[p].batch \ index)
          /\ record' = (record /\ (thread \/ truth' # {}))
     ELSE UNCHANGED truths
  /\ job' = [job EXCEPT ![p] = NoJob]
  /\ Goto(p, "idle")
  /\ UNCHANGED <<source, store, ledger, prints, again, history>>

(* A death; what was drained stays.  A daemon that starts again loads the  *)
(* saved fingerprints, unless they have expired.                           *)
Crash(p) ==
  /\ faults < MaxFaults
  /\ faults' = faults + 1
  /\ pc[p] # "idle" \/ p = Daemon
  /\ seen' \in (IF p = Daemon THEN {saved, NoPrint} ELSE {seen})
  /\ job' = [job EXCEPT ![p] = NoJob]
  /\ Goto(p, "idle")
  /\ UNCHANGED <<source, store, truths, ledger, saved, again, history>>

(* `index rebuild`, between the passes: the events of the truth, the       *)
(* watermarks of the index it replaces.                                    *)
Rebuild ==
  /\ \A p \in Importer : pc[p] = "idle"
  /\ <<truth, record>> # <<index, thread>>
  /\ index' = truth
  /\ thread' = record
  /\ UNCHANGED <<source, mark, truths, ledger, prints, pc, job, again, history, faults>>
-----------------------------------------------------------------------------
(* reimport_source, once the fixed parser is active: the stamp; the        *)
(* watermark rewound; the saved fingerprints forgotten; the file read      *)
(* directly; the records closed unless the re-read wrote new ones.         *)

StartRepair ==
  /\ pc[Repair] = "idle"
  /\ ledger # {} /\ blind = {}
  /\ again' = FALSE
  /\ Goto(Repair, "reset")
  /\ UNCHANGED <<source, store, truths, ledger, prints, job, history, faults>>

DeleteWatermark ==                \* mutant: deleted, not rewound
  /\ pc[Repair] = "reset"
  /\ Alone(Repair)
  /\ mark' = NoMark
  /\ Goto(Repair, "forget")
  /\ UNCHANGED <<source, index, thread, truths, ledger, prints, job, again, history, faults>>
ResetWatermark ==
  /\ pc[Repair] = "reset"
  /\ Alone(Repair)
  /\ mark' = IF mark = NoMark THEN NoMark ELSE Rewound
  /\ Goto(Repair, "forget")
  /\ UNCHANGED <<source, index, thread, truths, ledger, prints, job, again, history, faults>>

ForgetAndRead ==
  /\ pc[Repair] = "forget"
  /\ Alone(Repair)
  /\ saved' = NoPrint
  /\ job' = [job EXCEPT ![Repair].bytes = file]
  /\ Goto(Repair, "resolve")
  /\ UNCHANGED <<source, store, truths, ledger, seen, again, history, faults>>

CloseRecords ==
  /\ pc[Repair] = "reread"
  /\ ledger' = IF again THEN ledger ELSE {}
  /\ Goto(Repair, "idle")
  /\ UNCHANGED <<source, store, truths, prints, job, again, history, faults>>
-----------------------------------------------------------------------------
ImportStep(p) ==
  \/ StampDigest(p) \/ CarryForward(p) \/ Adopt(p) \/ Import(p) \/ Discard(p) \/ Commit(p)
RepairStep == StartRepair \/ ResetWatermark \/ ForgetAndRead \/ CloseRecords
Provider == (\E c \in Line \cup {Malformed} : AppendLine(c)) \/ AppendTorn \/ Rewrite

Next ==
  \/ Provider \/ FixParser
  \/ Probe \/ Read
  \/ \E p \in Importer : ImportStep(p) \/ Fail(p) \/ Crash(p)
  \/ Rebuild
  \/ RepairStep

Spec == Init /\ [][Next]_vars

(* The daemon polls for ever, and a repair that began runs on.             *)
Runs(p) == ImportStep(p) \/ (Conflicts(p) /\ Fail(p))
FairSpec == /\ Spec
            /\ WF_vars(Probe \/ Read \/ Runs(Daemon))
            /\ WF_vars(ResetWatermark \/ ForgetAndRead \/ Runs(Repair))
-----------------------------------------------------------------------------
Marks == [count : -1 .. MaxLen, size : -1 .. 2 * MaxLen + 1,
          digest : Files \cup {Empty, Undigested}]
Prints == {NoPrint} \cup ((0 .. MaxWrites) \X (0 .. 2 * MaxLen + 1))
Jobs == [bytes : Files, print : Prints, loaded : Marks, write : Marks,
         batch : SUBSET Line, passed : SUBSET Line, adopts : BOOLEAN]

TypeOK ==
  /\ file \in Files /\ mtime \in 0 .. MaxWrites /\ blind \in SUBSET Drifted
  /\ index \in SUBSET Line /\ thread \in BOOLEAN /\ mark \in Marks
  /\ truth \in SUBSET Line /\ record \in BOOLEAN
  /\ ledger \in SUBSET Line
  /\ seen \in Prints /\ saved \in Prints
  /\ pc \in [Importer -> {"idle", "read", "resolve", "drained", "reset",
                          "forget", "reread"}]
  /\ job \in [Importer -> Jobs]
  /\ again \in BOOLEAN
  /\ missed \in SUBSET Line /\ adopted \in SUBSET Line
  /\ faults \in 0 .. MaxFaults

(* What the archive owes nothing for.                                      *)
Accounted == index \cup Meta \cup missed \cup adopted

(* The lines the next poll will not look at.                               *)
Passed == UpTo(file, StartLine(file))

(* The lines the cursor has passed in the file as it is now, when the next *)
(* poll will resume there, are in the index: no append, torn tail, rewrite *)
(* of the same size, truncation, concurrent import, failure or death lets  *)
(* the cursor skip a line the parser understands (_cursor.py 3-23).        *)
CursorSkipsNothing == Passed \subseteq Accounted

(* A file the watcher does not look at any more, now or after a restart,   *)
(* has been imported: its fingerprint is the one taken before the bytes    *)
(* were read, and of a transaction that committed (base.py 44-95).         *)
SeenIsImported == Fingerprint \in {seen, saved} => Contents(file) \subseteq Accounted

(* No ghost: a thread row, or the record of a thread in the truth, stands  *)
(* for at least one event (discard_new_thread, _state.py 132-144).         *)
NoGhostThread == /\ thread => index # {}
                 /\ record => truth # {}

(* A cursor passes lines without a trace only in a thread that has events; *)
(* without one, what was consumed is on the ledger (_skip_ledger.py 1-22). *)
SkipsAreLedgered == [][missed' \ missed # {} => thread' \/ missed' \ missed \subseteq ledger']_vars

(* A repair closes a record only when no line it was about is behind the   *)
(* cursor without being in the archive (reimport.py 19-31).                *)
ClosedIsRecovered ==
  [][ledger' # ledger /\ ledger' = {} => ledger \cap Passed \subseteq index \cup Meta]_vars

(* Every line that stays in the file is in the archive in the end.         *)
EventuallyImported ==
  \A c \in Line : (<>[](c \in Contents(file))) => <>(c \in Accounted)
=============================================================================
