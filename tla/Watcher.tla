------------------------------- MODULE Watcher -------------------------------
(***************************************************************************)
(* The ingest loop of the daemon (_watcher/daemon.py) next to the one-shot *)
(* passes of MCP servers (_watcher/lazy.py) and an index rebuild: what a   *)
(* pass owes after an import - a snapshot of the import watermarks and the *)
(* vectors of the new events - and the flags that remember it.             *)
(*                                                                         *)
(* An item is a change of one source; its import is one step here          *)
(* (SourceImport models it).  Time is the two intervals becoming due.      *)
(***************************************************************************)
EXTENDS Naturals, FiniteSets, FiniteSetsExt

CONSTANTS
  Item,
  Quiet,      \* items that move a watermark and hold no event
  Server,     \* processes that run lazy passes
  Daemon,
  Nobody,
  Batch,      \* embed_batch
  MaxOdd      \* bound: lazy passes, deaths of the daemon, steps that fail and rebuilds, together

ASSUME WatcherActors == Quiet \subseteq Item /\ Daemon \notin Server /\ Nobody \notin Server \cup {Daemon}
ASSUME WatcherBounds == /\ Batch \in Nat \ {0} /\ IsFiniteSet(Item)
                        /\ MaxOdd \in Nat

VARIABLES
  unwritten, \* items the providers have still to write
  fresh,     \* items no import has seen
  moves,     \* how often a watermark moved: what _import_state_stamp tells apart
  snap,      \* the moves import_state.jsonl reflects
  bare,      \* imported events without a vector
  owner,     \* the holder of .ingest-owner.lock
  shared,    \* the holders of the ingest lock
  rebuilding,
  alive, pc, dirty, stamp, last_stamp, embed_more, backlog, \* the daemon
  upkeep_due, embed_due,                                    \* its intervals
  spc,       \* where each server is
  todo,      \* process -> items its poll has still to look at
  found,     \* process -> events_created > 0
  swept,     \* the servers that wrote a snapshot not long ago
  forgotten, \* history: the snapshot owed to the last moves was given up
  unasked,   \* history: so were the vectors of the last events
  odd

sources == <<unwritten, fresh>>
store == <<moves, snap, bare>>
flags == <<dirty, stamp, last_stamp, embed_more, backlog>>
due == <<upkeep_due, embed_due>>
polls == <<todo, found>>
servers == <<spc, swept>>
history == <<forgotten, unasked>>
daemon == <<alive, pc, flags, due>>
vars == <<sources, store, owner, shared, rebuilding, daemon, servers, polls, history, odd>>
-----------------------------------------------------------------------------
Proc == Server \cup {Daemon}

Init ==
  /\ unwritten = Item /\ fresh = {}
  /\ moves = 0 /\ snap = 0 /\ bare = {}
  /\ owner = Nobody /\ shared = {} /\ rebuilding = FALSE
  /\ alive = FALSE /\ pc = "down"
  /\ dirty = FALSE /\ stamp = 0 /\ last_stamp = 0 /\ embed_more = FALSE /\ backlog = FALSE
  /\ upkeep_due = FALSE /\ embed_due = FALSE
  /\ spc = [s \in Server |-> "idle"]
  /\ todo = [p \in Proc |-> {}] /\ found = [p \in Proc |-> FALSE]
  /\ swept = {} /\ forgotten = FALSE /\ unasked = FALSE
  /\ odd = 0
-----------------------------------------------------------------------------
(* What a pass is made of.                                                 *)

(* poll_once looks at every source it finds changed; the import of an item *)
(* moves its watermark.                                                    *)
Look(p) ==
  /\ shared' = shared \cup {p}
  /\ todo' = [todo EXCEPT ![p] = fresh]

Import(p, i) ==
  /\ i \in todo[p]
  /\ todo' = [todo EXCEPT ![p] = @ \ {i}]
  /\ IF i \notin fresh THEN UNCHANGED <<fresh, moves, bare, found, history>>
     ELSE /\ fresh' = fresh \ {i}
          /\ moves' = moves + 1
          /\ bare' = IF i \in Quiet THEN bare ELSE bare \cup {i}
          /\ found' = [found EXCEPT ![p] = @ \/ i \notin Quiet]
          /\ forgotten' = (forgotten /\ ~alive)
          /\ unasked' = (unasked \/ (p # Daemon /\ alive /\ i \notin Quiet))
  /\ UNCHANGED <<unwritten, snap, owner, shared, rebuilding, daemon, servers, odd>>

(* A source that fails is logged and met again at the next poll.  If its   *)
(* poll raises, what it has imported in this pass goes uncounted.          *)
ImportFails(p, i) ==
  /\ i \in todo[p]
  /\ odd < MaxOdd /\ odd' = odd + 1
  /\ todo' = [todo EXCEPT ![p] = @ \ {i}]
  /\ \E counted \in BOOLEAN :
       /\ found' = [found EXCEPT ![p] = @ /\ counted]
       /\ unasked' = (unasked \/ (p = Daemon /\ found[p] /\ ~counted /\ ~embed_more))
  /\ UNCHANGED <<sources, store, owner, shared, rebuilding, daemon, servers, forgotten>>

(* index_events_local: at most Batch of the events without a vector.       *)
EmbedBatch(n) ==
  /\ n = Min({Batch, Cardinality(bare)})
  /\ \E events \in kSubset(n, bare) : bare' = bare \ events
-----------------------------------------------------------------------------
(* The daemon.  launchd starts it, again when it died.                     *)
Start ==
  /\ ~alive
  /\ alive' = TRUE /\ pc' = "pass"
  /\ owner' = IF owner = Nobody THEN Daemon ELSE owner
  /\ last_stamp' = moves
  /\ embed_more' = TRUE
  /\ forgotten' = (forgotten \/ snap # moves) /\ unasked' = FALSE
  /\ UNCHANGED <<sources, store, shared, rebuilding, dirty, stamp, backlog, due, servers, polls, odd>>

OwnerOnce == owner                \* mutant: ownership is tried at the start only
Ownership == IF owner = Nobody THEN Daemon ELSE owner

(* Ownership is tried again at each pass; beside a rebuild the pass is     *)
(* skipped.  The sleep between two passes is the place before the next.  A *)
(* source that raises is caught where it is polled (ImportFails).           *)
BeginPass ==
  /\ pc = "pass"
  /\ owner' = Ownership
  /\ IF rebuilding
     THEN UNCHANGED <<pc, shared, todo>>
     ELSE pc' = "poll" /\ Look(Daemon)
  /\ UNCHANGED <<sources, store, rebuilding, alive, flags, due, servers, found, history, odd>>

MoreIfBacklog == embed_more       \* mutant: what the poll found asks for no embed
MoreToEmbed == embed_more \/ found[Daemon]

EndPoll ==
  /\ pc = "poll"
  /\ todo[Daemon] = {}
  /\ dirty' = (dirty \/ found[Daemon])
  /\ embed_more' = MoreToEmbed
  /\ unasked' = (unasked /\ ~found[Daemon])
  /\ pc' = IF upkeep_due THEN "upkeep" ELSE "embed"
  /\ found' = [found EXCEPT ![Daemon] = FALSE]
  /\ UNCHANGED <<sources, store, owner, shared, rebuilding, alive, stamp, last_stamp, backlog, due,
                 servers, todo, forgotten, odd>>

OwedByDirty(seen) == dirty        \* mutant: watermarks that move without an event
Owed(seen) == dirty \/ seen # last_stamp

(* The stamp is read before the decision, and is the next last_stamp.  It  *)
(* is the count and the latest time of the watermarks, taken to differ     *)
(* after each move.                                                        *)
Probe ==
  /\ pc = "upkeep"
  /\ IF Owed(moves)
     THEN pc' = "maintain" /\ stamp' = moves /\ UNCHANGED <<last_stamp, upkeep_due>>
     ELSE pc' = "embed" /\ upkeep_due' = FALSE /\ last_stamp' = moves /\ UNCHANGED stamp
  /\ UNCHANGED <<sources, store, owner, shared, rebuilding, alive, dirty, embed_more, backlog,
                 embed_due, servers, polls, history, odd>>

(* A probe that fails leaves the dirty flag alone to decide.               *)
ProbeFails ==
  /\ pc = "upkeep"
  /\ odd < MaxOdd /\ odd' = odd + 1
  /\ IF dirty THEN pc' = "maintain" /\ stamp' = last_stamp /\ UNCHANGED upkeep_due
              ELSE pc' = "embed" /\ upkeep_due' = FALSE /\ UNCHANGED stamp
  /\ UNCHANGED <<sources, store, owner, shared, rebuilding, alive, dirty, last_stamp, embed_more,
                 backlog, embed_due, servers, polls, history>>

Upkept ==
  /\ pc = "maintain"
  /\ pc' = "embed"
  /\ dirty' = FALSE /\ last_stamp' = stamp /\ stamp' = 0 /\ upkeep_due' = FALSE
  /\ UNCHANGED <<sources, moves, bare, owner, shared, rebuilding, alive, embed_more, backlog,
                 embed_due, servers, polls, unasked>>

(* checkpoint(snapshots=False) writes the watermarks as they are now: the  *)
(* daemon's interval is longer than that of the snapshot (_due).           *)
Maintain ==
  /\ Upkept
  /\ snap' = moves
  /\ forgotten' = FALSE
  /\ UNCHANGED odd

(* A maintenance that raises is logged, and clears the flags all the same. *)
MaintainFails ==
  /\ Upkept
  /\ odd < MaxOdd /\ odd' = odd + 1
  /\ forgotten' = (snap # moves)
  /\ UNCHANGED snap

LeavePass ==
  /\ pc = "embed"
  /\ pc' = "pass"
  /\ shared' = shared \ {Daemon}
  /\ UNCHANGED <<sources, moves, snap, owner, rebuilding, alive, dirty, stamp, last_stamp, upkeep_due,
                 servers, polls, forgotten>>

EmbedDue == embed_more /\ (backlog \/ embed_due)

SkipEmbed == LeavePass /\ ~EmbedDue /\ UNCHANGED <<bare, embed_more, backlog, embed_due, unasked, odd>>

DrainedWhenShort(n) == FALSE      \* mutant: one batch and no more
Drains(n) == n >= Batch
Embed ==
  /\ LeavePass
  /\ EmbedDue
  /\ \E n \in 0 .. Batch : EmbedBatch(n) /\ backlog' = Drains(n)
  /\ embed_more' = backlog'
  /\ embed_due' = FALSE
  /\ UNCHANGED <<unasked, odd>>

(* An embed that raises, or stops early and comes back short.              *)
EmbedFails ==
  /\ LeavePass
  /\ EmbedDue
  /\ odd < MaxOdd /\ odd' = odd + 1
  /\ backlog' = FALSE /\ embed_more' = FALSE /\ embed_due' = FALSE
  /\ \E events \in SUBSET bare : Cardinality(events) < Batch /\ bare' = bare \ events
  /\ unasked' = (bare' # {})

(* The clock passes an interval.                                           *)
UpkeepDue ==
  /\ alive /\ ~upkeep_due
  /\ upkeep_due' = TRUE
  /\ UNCHANGED <<sources, store, owner, shared, rebuilding, alive, pc, flags, embed_due, servers, polls, history, odd>>
ProbeDue ==
  /\ alive /\ ~embed_due
  /\ embed_due' = TRUE
  /\ UNCHANGED <<sources, store, owner, shared, rebuilding, alive, pc, flags, upkeep_due, servers, polls, history, odd>>

(* The kernel frees the locks, and what the daemon knew is gone.            *)
Kill ==
  /\ alive
  /\ odd < MaxOdd /\ odd' = odd + 1
  /\ alive' = FALSE /\ pc' = "down"
  /\ owner' = IF owner = Daemon THEN Nobody ELSE owner
  /\ shared' = shared \ {Daemon}
  /\ dirty' = FALSE /\ stamp' = 0 /\ last_stamp' = 0 /\ embed_more' = FALSE /\ backlog' = FALSE
  /\ upkeep_due' = FALSE /\ embed_due' = FALSE
  /\ todo' = [todo EXCEPT ![Daemon] = {}] /\ found' = [found EXCEPT ![Daemon] = FALSE]
  /\ UNCHANGED <<sources, store, rebuilding, servers, history>>
-----------------------------------------------------------------------------
(* A lazy pass of a server: nothing when another process owns ingest.      *)
LazyOwn(s) ==
  /\ spc[s] = "idle"
  /\ owner = Nobody
  /\ odd < MaxOdd /\ odd' = odd + 1
  /\ owner' = s
  /\ spc' = [spc EXCEPT ![s] = "wait"]
  /\ UNCHANGED <<sources, store, shared, rebuilding, daemon, swept, polls, history>>

(* It waits out a rebuild, having no later pass.                           *)
LazyLook(s) ==
  /\ spc[s] = "wait"
  /\ ~rebuilding
  /\ Look(s)
  /\ spc' = [spc EXCEPT ![s] = "poll"]
  /\ UNCHANGED <<sources, store, owner, rebuilding, daemon, swept, found, history, odd>>

(* The first checkpoint of a process is due; one soon after skips the      *)
(* snapshot (_due).                                                        *)
LazyMaintain(s) ==
  /\ spc[s] = "poll"
  /\ todo[s] = {}
  /\ found[s]
  /\ \/ snap' = moves
     \/ s \in swept /\ UNCHANGED snap
  /\ swept' = swept \cup {s}
  /\ forgotten' = (forgotten /\ snap' # moves)
  /\ spc' = [spc EXCEPT ![s] = "embed"]
  /\ UNCHANGED <<sources, moves, bare, owner, shared, rebuilding, daemon, polls, unasked, odd>>

LazySkip(s) ==
  /\ spc[s] = "poll"
  /\ todo[s] = {}
  /\ ~found[s]
  /\ spc' = [spc EXCEPT ![s] = "embed"]
  /\ UNCHANGED <<sources, store, owner, shared, rebuilding, daemon, swept, polls, history, odd>>

(* One batch, and the locks go; an exception anywhere comes to this, too.  *)
LazyDone(s) ==
  /\ spc[s] \in {"poll", "embed"}
  /\ \/ spc[s] = "embed" /\ \E n \in 0 .. Batch : EmbedBatch(n) /\ UNCHANGED odd
     \/ odd < MaxOdd /\ odd' = odd + 1 /\ UNCHANGED bare
  /\ spc' = [spc EXCEPT ![s] = "idle"]
  /\ owner' = Nobody /\ shared' = shared \ {s}
  /\ todo' = [todo EXCEPT ![s] = {}] /\ found' = [found EXCEPT ![s] = FALSE]
  /\ forgotten' = (forgotten \/ (~alive /\ snap # moves))
  /\ UNCHANGED <<sources, moves, snap, rebuilding, daemon, swept, unasked>>
-----------------------------------------------------------------------------
Write(i) ==
  /\ i \in unwritten
  /\ unwritten' = unwritten \ {i} /\ fresh' = fresh \cup {i}
  /\ UNCHANGED <<store, owner, shared, rebuilding, daemon, servers, polls, history, odd>>

Rebuild ==
  /\ ~rebuilding /\ shared = {}
  /\ odd < MaxOdd /\ odd' = odd + 1
  /\ rebuilding' = TRUE
  /\ UNCHANGED <<sources, store, owner, shared, daemon, servers, polls, history>>
RebuildEnds ==
  /\ rebuilding
  /\ rebuilding' = FALSE
  /\ UNCHANGED <<sources, store, owner, shared, daemon, servers, polls, history, odd>>
-----------------------------------------------------------------------------
Loop == \/ BeginPass \/ EndPoll \/ Probe \/ ProbeFails \/ Maintain \/ MaintainFails
        \/ SkipEmbed \/ Embed \/ EmbedFails
        \/ \E i \in Item : Import(Daemon, i) \/ ImportFails(Daemon, i)
Lazy(s) == \/ LazyLook(s) \/ LazyMaintain(s) \/ LazySkip(s) \/ LazyDone(s)
           \/ \E i \in Item : Import(s, i) \/ ImportFails(s, i)
Next == \/ Start \/ Loop \/ UpkeepDue \/ ProbeDue \/ Kill
        \/ \E s \in Server : LazyOwn(s) \/ Lazy(s)
        \/ \E i \in Item : Write(i)
        \/ Rebuild \/ RebuildEnds

Spec == Init /\ [][Next]_vars

(* The operating system runs each process, launchd restarts the daemon     *)
(* (KeepAlive), the clock advances and a rebuild ends.                     *)
FairSpec == /\ Spec
            /\ WF_vars(Start) /\ WF_vars(Loop) /\ WF_vars(UpkeepDue) /\ WF_vars(ProbeDue)
            /\ \A s \in Server : WF_vars(Lazy(s))
            /\ WF_vars(RebuildEnds)
-----------------------------------------------------------------------------
TypeOK ==
  /\ unwritten \subseteq Item /\ fresh \subseteq Item /\ bare \subseteq Item \ Quiet
  /\ moves \in Nat /\ snap \in 0 .. moves /\ stamp \in 0 .. moves /\ last_stamp \in 0 .. moves
  /\ owner \in Proc \cup {Nobody} /\ shared \subseteq Proc
  /\ rebuilding => shared = {}
  /\ alive \in BOOLEAN /\ (alive <=> pc # "down")
  /\ pc \in {"down", "pass", "poll", "upkeep", "maintain", "embed"}
  /\ swept \subseteq Server /\ spc \in [Server -> {"idle", "wait", "poll", "embed"}]
  /\ todo \in [Proc -> SUBSET Item] /\ found \in [Proc -> BOOLEAN]
  /\ rebuilding \in BOOLEAN /\ dirty \in BOOLEAN /\ embed_more \in BOOLEAN /\ backlog \in BOOLEAN
  /\ upkeep_due \in BOOLEAN /\ embed_due \in BOOLEAN /\ forgotten \in BOOLEAN /\ unasked \in BOOLEAN
  /\ odd \in 0 .. MaxOdd

(* The locks are with those that work: one lazy pass at a time, no import  *)
(* outside of a poll, and none beside a rebuild.                           *)
LocksHeld ==
  /\ \A s \in Server : spc[s] # "idle" <=> owner = s
  /\ owner = Daemon => alive
  /\ shared = {s \in Server : spc[s] \in {"poll", "embed"}}
              \cup {p \in {Daemon} : pc \notin {"down", "pass"}}
  /\ \A s \in Server : todo[s] # {} => spc[s] = "poll"
  /\ todo[Daemon] # {} => pc = "poll"

(* What a running daemon owes, or has given up where the code does: the    *)
(* stamp tells that a snapshot is old, embed_more that vectors are missing.*)
OwedIsRemembered ==
  alive => /\ snap = moves \/ forgotten \/ last_stamp # moves
           /\ bare = {} \/ unasked \/ embed_more \/ found[Daemon]

(* A daemon that runs never takes a snapshot for fresh that is not, nor a  *)
(* backlog for empty that is not, whoever imported and whatever failed,    *)
(* but for what it gives up (daemon.py 671-705); and the locks keep        *)
(* imports and rebuilds apart.                                             *)
WatcherInv == TypeOK /\ LocksHeld /\ OwedIsRemembered

(* The snapshot catches up with every move of a watermark, those without   *)
(* an event included (_import_state_stamp), by whichever process; but not  *)
(* with moves a daemon died over or whose maintenance raised, before the   *)
(* next one (daemon.py 683-690, 645).                                      *)
SnapshotCatchesUp == []<>(snap = moves \/ forgotten)

(* Every event gets its vector, a backlog longer than a batch included;    *)
(* but not what another process imported beside the daemon, a poll that    *)
(* raised or an embed that failed, before the next event (daemon.py        *)
(* 350-352, 692-705).                                                      *)
BacklogDrains == []<>(bare = {} \/ unasked)

(* A daemon that started while a lazy pass held the lock comes to own      *)
(* ingest, so that lazy passes do nothing again (daemon.py 656-662).       *)
DaemonOwns == alive ~> (owner = Daemon \/ ~alive)
=============================================================================
