----------------------------- MODULE WatcherProofs -----------------------------
(***************************************************************************)
(* The safety of the daemon's loop, for any items, servers and batch size, *)
(* and any number of deaths, failures, rebuilds and lazy passes: what its  *)
(* flags say of the snapshot and of the vectors is true, and the locks     *)
(* keep imports and rebuilds apart.                                        *)
(***************************************************************************)
EXTENDS Watcher, FiniteSetTheorems, TLAPS

(* A batch takes events that have no vector; a short one takes them all.   *)
LEMMA ShortBatchIsAll ==
  ASSUME bare \subseteq Item, NEW n \in 0 .. Batch, EmbedBatch(n)
  PROVE  bare' \subseteq bare /\ (n < Batch => bare' = {})
<1>1. IsFiniteSet(bare) /\ Cardinality(bare) \in Nat
  BY WatcherBounds, FS_Subset, FS_CardinalityType
<1>2. PICK events \in kSubset(n, bare) : bare' = bare \ events
  BY DEF EmbedBatch
<1>3. events \in SUBSET bare /\ Cardinality(events) = n
  BY <1>2 DEF kSubset
<1>4. ASSUME n < Batch PROVE events = bare
  <2>1. n = Min({Batch, Cardinality(bare)})
    BY DEF EmbedBatch
  <2>2. \E x \in {Batch, Cardinality(bare)} : \A y \in {Batch, Cardinality(bare)} : x =< y
    BY <1>1, WatcherBounds
  <2>3. n \in {Batch, Cardinality(bare)}
    BY <2>1, <2>2 DEF Min
  <2>4. Cardinality(events) = Cardinality(bare)
    BY <1>3, <1>4, <2>3, WatcherBounds
  <2> QED BY <1>1, <1>3, <2>4, FS_Subset
<1> QED BY <1>2, <1>4

(* TypeOK in three parts: sets and numbers, flags, where everyone is.      *)
Counts ==
  /\ unwritten \subseteq Item /\ fresh \subseteq Item /\ bare \subseteq Item \ Quiet
  /\ moves \in Nat /\ snap \in 0 .. moves /\ stamp \in 0 .. moves /\ last_stamp \in 0 .. moves
  /\ odd \in 0 .. MaxOdd
Flags ==
  /\ rebuilding \in BOOLEAN /\ dirty \in BOOLEAN /\ embed_more \in BOOLEAN /\ backlog \in BOOLEAN
  /\ upkeep_due \in BOOLEAN /\ embed_due \in BOOLEAN /\ forgotten \in BOOLEAN /\ unasked \in BOOLEAN
  /\ alive \in BOOLEAN /\ (alive <=> pc # "down")
  /\ found \in [Proc -> BOOLEAN]
Places ==
  /\ owner \in Proc \cup {Nobody} /\ shared \subseteq Proc
  /\ rebuilding => shared = {}
  /\ pc \in {"down", "pass", "poll", "upkeep", "maintain", "embed"}
  /\ swept \subseteq Server /\ spc \in [Server -> {"idle", "wait", "poll", "embed"}]
  /\ todo \in [Proc -> SUBSET Item]

LEMMA TypeParts == TypeOK <=> Counts /\ Flags /\ Places
BY DEF TypeOK, Counts, Flags, Places

LEMMA WatcherInit == Init => WatcherInv
<1> SUFFICES ASSUME Init PROVE WatcherInv
  OBVIOUS
<1>1. Counts
  BY WatcherBounds DEF Init, Counts
<1>2. Flags
  BY WatcherBounds DEF Init, Flags
<1>3. Places
  BY WatcherBounds DEF Init, Places
<1>4. LocksHeld
  BY WatcherActors DEF Init, LocksHeld, Proc
<1>5. OwedIsRemembered
  BY DEF Init, OwedIsRemembered
<1> QED BY <1>1, <1>2, <1>3, <1>4, <1>5, TypeParts DEF WatcherInv
-----------------------------------------------------------------------------
(* One step per action, for each part.                                     *)

LEMMA CountsStep ==
  ASSUME Counts, Flags, Places, [Next]_vars
  PROVE  Counts'
<1> USE WatcherActors, WatcherBounds
    DEF Counts, Proc, sources, store, flags, due, polls, servers, history, daemon
<1>1. CASE UNCHANGED vars
  BY <1>1 DEF vars
<1>2. CASE Start
  BY <1>2 DEF Start
<1>3. CASE BeginPass
  BY <1>3 DEF BeginPass, Look, Ownership
<1>4. ASSUME NEW p \in Proc, NEW i \in Item, Import(p, i) \/ ImportFails(p, i)
      PROVE  Counts'
  BY <1>4 DEF Import, ImportFails
<1>5. CASE EndPoll
  BY <1>5 DEF EndPoll, MoreToEmbed
<1>6. CASE Probe \/ ProbeFails
  BY <1>6 DEF Probe, ProbeFails, Owed
<1>7. CASE Maintain \/ MaintainFails
  BY <1>7 DEF Maintain, MaintainFails, Upkept
<1>8. CASE SkipEmbed
  BY <1>8 DEF SkipEmbed, LeavePass
<1>9. CASE Embed
  BY <1>9 DEF Embed, LeavePass, Drains, EmbedBatch
<1>10. CASE EmbedFails
  BY <1>10 DEF EmbedFails, LeavePass
<1>11. CASE UpkeepDue \/ ProbeDue
  BY <1>11 DEF UpkeepDue, ProbeDue
<1>12. CASE Kill
  BY <1>12 DEF Kill
<1>13. ASSUME NEW s \in Server, LazyOwn(s) \/ LazyLook(s) \/ LazyMaintain(s) \/ LazySkip(s)
      PROVE  Counts'
  BY <1>13 DEF LazyOwn, LazyLook, LazyMaintain, LazySkip, Look
<1>14. ASSUME NEW s \in Server, LazyDone(s)
      PROVE  Counts'
  BY <1>14 DEF LazyDone, EmbedBatch
<1>15. ASSUME NEW i \in Item, Write(i)
      PROVE  Counts'
  BY <1>15 DEF Write
<1>16. CASE Rebuild \/ RebuildEnds
  BY <1>16 DEF Rebuild, RebuildEnds
<1> QED BY <1>1, <1>2, <1>3, <1>4, <1>5, <1>6, <1>7, <1>8, <1>9, <1>10, <1>11, <1>12, <1>13,
           <1>14, <1>15, <1>16 DEF Next, Loop, Lazy

LEMMA FlagsStep ==
  ASSUME Counts, Flags, Places, [Next]_vars
  PROVE  Flags'
<1> USE WatcherActors, WatcherBounds
    DEF Flags, Places, Proc, sources, store, flags, due, polls, servers, history, daemon
<1>1. CASE UNCHANGED vars
  BY <1>1 DEF vars
<1>2. CASE Start
  BY <1>2 DEF Start
<1>3. CASE BeginPass
  BY <1>3 DEF BeginPass, Look, Ownership
<1>4. ASSUME NEW p \in Proc, NEW i \in Item, Import(p, i) \/ ImportFails(p, i)
      PROVE  Flags'
  <2>1. found' \in [Proc -> BOOLEAN]
    BY <1>4 DEF Import, ImportFails
  <2>2. forgotten' \in BOOLEAN /\ unasked' \in BOOLEAN
    BY <1>4 DEF Import, ImportFails
  <2>3. UNCHANGED <<rebuilding, dirty, embed_more, backlog, due, alive, pc>>
    BY <1>4 DEF Import, ImportFails
  <2> QED BY <2>1, <2>2, <2>3
<1>5. CASE EndPoll
  BY <1>5 DEF EndPoll, MoreToEmbed
<1>6. CASE Probe \/ ProbeFails
  BY <1>6 DEF Probe, ProbeFails, Owed
<1>7. CASE Maintain \/ MaintainFails
  BY <1>7 DEF Maintain, MaintainFails, Upkept
<1>8. CASE SkipEmbed
  BY <1>8 DEF SkipEmbed, LeavePass
<1>9. CASE Embed
  <2>1. backlog' \in BOOLEAN /\ embed_more' = backlog' /\ embed_due' = FALSE
    BY <1>9 DEF Embed, Drains
  <2>2. UNCHANGED <<rebuilding, dirty, upkeep_due, forgotten, unasked, alive, found>>
    BY <1>9 DEF Embed, LeavePass
  <2>3. pc = "embed" /\ pc' = "pass"
    BY <1>9 DEF Embed, LeavePass
  <2> QED BY <2>1, <2>2, <2>3
<1>10. CASE EmbedFails
  BY <1>10 DEF EmbedFails, LeavePass
<1>11. CASE UpkeepDue \/ ProbeDue
  BY <1>11 DEF UpkeepDue, ProbeDue
<1>12. CASE Kill
  BY <1>12 DEF Kill
<1>13. ASSUME NEW s \in Server, LazyOwn(s) \/ LazyLook(s) \/ LazyMaintain(s) \/ LazySkip(s)
      PROVE  Flags'
  <2>1. CASE LazyOwn(s)
    BY <2>1 DEF LazyOwn
  <2>2. CASE LazyLook(s)
    BY <2>2 DEF LazyLook
  <2>3. CASE LazyMaintain(s) \/ LazySkip(s)
    <3>1. forgotten' \in BOOLEAN
      BY <2>3 DEF LazyMaintain, LazySkip
    <3>2. UNCHANGED <<rebuilding, dirty, embed_more, backlog, due, unasked, alive, pc, found>>
      BY <2>3 DEF LazyMaintain, LazySkip
    <3> QED BY <3>1, <3>2
  <2> QED BY <1>13, <2>1, <2>2, <2>3
<1>14. ASSUME NEW s \in Server, LazyDone(s)
      PROVE  Flags'
  BY <1>14 DEF LazyDone, EmbedBatch
<1>15. ASSUME NEW i \in Item, Write(i)
      PROVE  Flags'
  BY <1>15 DEF Write
<1>16. CASE Rebuild \/ RebuildEnds
  <2>1. CASE Rebuild
    BY <2>1 DEF Rebuild
  <2>2. CASE RebuildEnds
    BY <2>2 DEF RebuildEnds
  <2> QED BY <1>16, <2>1, <2>2
<1> QED BY <1>1, <1>2, <1>3, <1>4, <1>5, <1>6, <1>7, <1>8, <1>9, <1>10, <1>11, <1>12, <1>13,
           <1>14, <1>15, <1>16 DEF Next, Loop, Lazy

LEMMA PlacesStep ==
  ASSUME Counts, Flags, Places, [Next]_vars
  PROVE  Places'
<1> USE WatcherActors, WatcherBounds
    DEF Places, Flags, Proc, sources, store, flags, due, polls, servers, history, daemon
<1>1. CASE UNCHANGED vars
  BY <1>1 DEF vars
<1>2. CASE Start
  BY <1>2 DEF Start
<1>3. CASE BeginPass
  <2>1. owner' \in Proc \cup {Nobody} /\ UNCHANGED <<rebuilding, swept, spc>>
    BY <1>3 DEF BeginPass, Ownership
  <2>2. CASE rebuilding
    BY <1>3, <2>1, <2>2 DEF BeginPass
  <2>3. CASE ~rebuilding
    BY <1>3, <2>1, <2>3 DEF BeginPass, Look, Counts
  <2> QED BY <2>2, <2>3
<1>4. ASSUME NEW p \in Proc, NEW i \in Item, Import(p, i) \/ ImportFails(p, i)
      PROVE  Places'
  BY <1>4 DEF Import, ImportFails
<1>5. CASE EndPoll
  BY <1>5 DEF EndPoll, MoreToEmbed
<1>6. CASE Probe \/ ProbeFails
  BY <1>6 DEF Probe, ProbeFails, Owed
<1>7. CASE Maintain \/ MaintainFails
  BY <1>7 DEF Maintain, MaintainFails, Upkept
<1>8. CASE SkipEmbed
  BY <1>8 DEF SkipEmbed, LeavePass
<1>9. CASE Embed
  BY <1>9 DEF Embed, LeavePass, Drains, EmbedBatch
<1>10. CASE EmbedFails
  BY <1>10 DEF EmbedFails, LeavePass
<1>11. CASE UpkeepDue \/ ProbeDue
  BY <1>11 DEF UpkeepDue, ProbeDue
<1>12. CASE Kill
  BY <1>12 DEF Kill
<1>13. ASSUME NEW s \in Server, LazyOwn(s) \/ LazyLook(s) \/ LazyMaintain(s) \/ LazySkip(s)
      PROVE  Places'
  <2>1. CASE LazyOwn(s)
    BY <2>1 DEF LazyOwn
  <2>2. CASE LazyLook(s)
    BY <2>2 DEF LazyLook, Look, Counts
  <2>3. CASE LazyMaintain(s) \/ LazySkip(s)
    BY <2>3 DEF LazyMaintain, LazySkip
  <2> QED BY <1>13, <2>1, <2>2, <2>3
<1>14. ASSUME NEW s \in Server, LazyDone(s)
      PROVE  Places'
  BY <1>14 DEF LazyDone, EmbedBatch
<1>15. ASSUME NEW i \in Item, Write(i)
      PROVE  Places'
  BY <1>15 DEF Write
<1>16. CASE Rebuild \/ RebuildEnds
  BY <1>16 DEF Rebuild, RebuildEnds
<1> QED BY <1>1, <1>2, <1>3, <1>4, <1>5, <1>6, <1>7, <1>8, <1>9, <1>10, <1>11, <1>12, <1>13,
           <1>14, <1>15, <1>16 DEF Next, Loop, Lazy

LEMMA LocksStep ==
  ASSUME TypeOK, LocksHeld, [Next]_vars
  PROVE  LocksHeld'
<1> USE WatcherActors
    DEF TypeOK, LocksHeld, Proc, flags, polls, servers, daemon
<1>1. CASE UNCHANGED vars
  BY <1>1 DEF vars
<1>2. CASE Start
  BY <1>2 DEF Start
<1>3. CASE BeginPass
  BY <1>3 DEF BeginPass, Look, Ownership
<1>4. ASSUME NEW p \in Proc, NEW i \in Item, Import(p, i) \/ ImportFails(p, i)
      PROVE  LocksHeld'
  BY <1>4 DEF Import, ImportFails
<1>5. CASE EndPoll
  BY <1>5 DEF EndPoll
<1>6. CASE Probe \/ ProbeFails
  BY <1>6 DEF Probe, ProbeFails
<1>7. CASE Maintain \/ MaintainFails
  BY <1>7 DEF Maintain, MaintainFails, Upkept
<1>8. CASE SkipEmbed \/ Embed \/ EmbedFails
  BY <1>8 DEF SkipEmbed, Embed, EmbedFails, LeavePass
<1>9. CASE UpkeepDue \/ ProbeDue
  BY <1>9 DEF UpkeepDue, ProbeDue
<1>10. CASE Kill
  BY <1>10 DEF Kill
<1>11. ASSUME NEW s \in Server, LazyOwn(s)
       PROVE  LocksHeld'
  BY <1>11 DEF LazyOwn
<1>12. ASSUME NEW s \in Server, LazyLook(s)
       PROVE  LocksHeld'
  BY <1>12 DEF LazyLook, Look
<1>13. ASSUME NEW s \in Server, LazyMaintain(s) \/ LazySkip(s)
       PROVE  LocksHeld'
  BY <1>13 DEF LazyMaintain, LazySkip
<1>14. ASSUME NEW s \in Server, LazyDone(s)
       PROVE  LocksHeld'
  BY <1>14 DEF LazyDone
<1>15. ASSUME NEW i \in Item, Write(i)
       PROVE  LocksHeld'
  BY <1>15 DEF Write
<1>16. CASE Rebuild \/ RebuildEnds
  BY <1>16 DEF Rebuild, RebuildEnds
<1> QED BY <1>1, <1>2, <1>3, <1>4, <1>5, <1>6, <1>7, <1>8, <1>9, <1>10, <1>11, <1>12, <1>13,
           <1>14, <1>15, <1>16 DEF Next, Loop, Lazy

LEMMA OwedStep ==
  ASSUME TypeOK, OwedIsRemembered, [Next]_vars
  PROVE  OwedIsRemembered'
<1> USE WatcherActors
    DEF TypeOK, OwedIsRemembered, Proc, sources, store, flags, due, polls, servers, history, daemon
<1>1. CASE UNCHANGED vars
  BY <1>1 DEF vars
<1>2. CASE Start
  BY <1>2 DEF Start
<1>3. CASE BeginPass
  BY <1>3 DEF BeginPass
<1>4. ASSUME NEW p \in Proc, NEW i \in Item, Import(p, i) \/ ImportFails(p, i)
      PROVE  OwedIsRemembered'
  <2>1. CASE ImportFails(p, i)
    <3>1. PICK counted \in BOOLEAN :
            /\ found' = [found EXCEPT ![p] = @ /\ counted]
            /\ unasked' = (unasked \/ (p = Daemon /\ found[p] /\ ~counted /\ ~embed_more))
      BY <2>1 DEF ImportFails
    <3>2. UNCHANGED <<moves, snap, bare, alive, last_stamp, forgotten, embed_more>>
      BY <2>1 DEF ImportFails
    <3>3. found[Daemon] => found'[Daemon] \/ embed_more \/ unasked'
      BY <3>1
    <3>4. unasked => unasked'
      BY <3>1
    <3> QED BY <3>2, <3>3, <3>4
  <2>2. CASE Import(p, i) /\ i \notin fresh
    BY <2>2 DEF Import
  <2>3. CASE Import(p, i) /\ i \in fresh
    <3>1. /\ moves' = moves + 1 /\ UNCHANGED <<alive, last_stamp, embed_more>>
          /\ bare' = IF i \in Quiet THEN bare ELSE bare \cup {i}
          /\ found' = [found EXCEPT ![p] = @ \/ i \notin Quiet]
          /\ unasked' = (unasked \/ (p # Daemon /\ alive /\ i \notin Quiet))
      BY <2>3 DEF Import
    <3>2. last_stamp' # moves'
      BY <3>1
    <3>3. CASE i \in Quiet
      BY <3>1, <3>2, <3>3
    <3>4. CASE i \notin Quiet /\ p # Daemon
      BY <3>1, <3>2, <3>4
    <3>5. CASE i \notin Quiet /\ p = Daemon
      BY <3>1, <3>2, <3>5
    <3> QED BY <3>3, <3>4, <3>5
  <2> QED BY <1>4, <2>1, <2>2, <2>3
<1>5. CASE EndPoll
  BY <1>5 DEF EndPoll, MoreToEmbed
<1>6. CASE Probe \/ ProbeFails
  BY <1>6 DEF Probe, ProbeFails, Owed
<1>7. CASE Maintain \/ MaintainFails
  BY <1>7 DEF Maintain, MaintainFails, Upkept
<1>8. CASE SkipEmbed
  BY <1>8 DEF SkipEmbed, LeavePass
<1>9. CASE Embed
  <2>1. PICK n \in 0 .. Batch : EmbedBatch(n) /\ backlog' = (n >= Batch)
    BY <1>9 DEF Embed, Drains
  <2>2. n < Batch => bare' = {}
    BY <2>1, ShortBatchIsAll
  <2>3. embed_more' <=> n >= Batch
    BY <1>9, <2>1 DEF Embed
  <2>4. n < Batch \/ n >= Batch
    BY WatcherBounds
  <2>5. UNCHANGED <<moves, snap, alive, last_stamp, forgotten>>
    BY <1>9 DEF Embed, LeavePass
  <2> QED BY <2>2, <2>3, <2>4, <2>5
<1>10. CASE EmbedFails
  BY <1>10 DEF EmbedFails, LeavePass
<1>11. CASE UpkeepDue \/ ProbeDue
  BY <1>11 DEF UpkeepDue, ProbeDue
<1>12. CASE Kill
  BY <1>12 DEF Kill
<1>13. ASSUME NEW s \in Server, LazyOwn(s) \/ LazyLook(s) \/ LazyMaintain(s) \/ LazySkip(s)
       PROVE  OwedIsRemembered'
  BY <1>13 DEF LazyOwn, LazyLook, LazyMaintain, LazySkip
<1>14. ASSUME NEW s \in Server, LazyDone(s)
       PROVE  OwedIsRemembered'
  <2>1. bare' \subseteq bare
    BY <1>14, ShortBatchIsAll DEF LazyDone
  <2> QED BY <1>14, <2>1 DEF LazyDone
<1>15. ASSUME NEW i \in Item, Write(i)
       PROVE  OwedIsRemembered'
  BY <1>15 DEF Write
<1>16. CASE Rebuild \/ RebuildEnds
  BY <1>16 DEF Rebuild, RebuildEnds
<1> QED BY <1>1, <1>2, <1>3, <1>4, <1>5, <1>6, <1>7, <1>8, <1>9, <1>10, <1>11, <1>12, <1>13,
           <1>14, <1>15, <1>16 DEF Next, Loop, Lazy

(* A running daemon's flags tell what it owes, but for what it gives up    *)
(* after a failure (daemon.py 645-705): so the pass after the next         *)
(* interval pays it.  Lazy passes run one at a time, and no import runs    *)
(* beside a rebuild (lazy.py 48-74, locks.py).                             *)
THEOREM WatcherInvariant == Spec => []WatcherInv
<1>1. Init => WatcherInv
  BY WatcherInit
<1>2. WatcherInv /\ [Next]_vars => WatcherInv'
  <2> SUFFICES ASSUME WatcherInv, [Next]_vars PROVE WatcherInv'
    OBVIOUS
  <2>1. Counts /\ Flags /\ Places /\ LocksHeld /\ OwedIsRemembered
    BY TypeParts DEF WatcherInv
  <2>2. TypeOK'
    BY <2>1, CountsStep, FlagsStep, PlacesStep DEF TypeOK, Counts, Flags, Places
  <2> QED BY <2>1, <2>2, TypeParts, LocksStep, OwedStep DEF WatcherInv
<1> QED BY <1>1, <1>2, PTL DEF Spec
=============================================================================
