----------------------------- MODULE BackupProofs -----------------------------
(***************************************************************************)
(* Theorems about Backup, for any threads, batches, numbers of runs, days, *)
(* faults and kills, and any retention.                                    *)
(***************************************************************************)
EXTENDS Backup, FiniteSetTheorems, SequenceTheorems, WellFoundedInduction, TLAPS

Fields == {"verified", "held", "todo", "copied", "doomed", "skipped", "blind", "owed"}

(* The clocks, and what a run holds: its traversal is of the files the     *)
(* source has, which keep still; what it deletes are not among them.       *)
RunInv ==
  /\ now \in Nat /\ day \in 0 .. MaxDay /\ runs \in 0 .. MaxRuns
  /\ faults \in Nat /\ kills \in Nat
  /\ pc # "idle" => runs >= 1
  /\ DOMAIN job = Fields
  /\ pc = "copy" => job.todo \subseteq DOMAIN src
  /\ pc = "delete" => job.todo = {} /\ job.doomed \cap DOMAIN src = {}

RowsIn(dir, p) == {<<c, p[1]>> : c \in ToSet(dir[p].lines) \ {Damaged}}

Newer(G, d) == {e \in Days(G) : e > d}
Mirrored(p) == p \in DOMAIN src \ job.todo /\ p \in DOMAIN dst

(* A row that was taken out is in a generation of that day or a later one, *)
(* or enough days are newer than that.  A row a run may yet take out is in *)
(* the generation of today, or in a file that the run has copied.          *)
SafeIn(G, d, r) == \/ \E g \in G : r \in Readable(g.dir) /\ d <= g.day
                   \/ Cardinality(Newer(G, d)) >= KeepDays
Safe(r) == SafeIn(gens, gone[r], r)
Fresh(r) == \E g \in gens : r \in Readable(g.dir) /\ g.day = day

GenInv ==
  /\ \A g \in gens : g.day <= day
  /\ manifest = NoManifest => kept = {}
  /\ \A r \in kept \ Readable(dst) : Safe(r)
  /\ pc \in {"lock", "enter"} /\ ~job.blind => \A r \in kept \cap Readable(dst) : Fresh(r)
  /\ pc \in {"copy", "delete"} /\ ~job.blind =>
       \A r \in kept \cap Readable(dst) : Fresh(r) \/ \E p \in Path : Mirrored(p) /\ r \in RowsIn(dst, p)

Labelled == job.copied \/ pc = "delete" => manifest # NoManifest

(* While no line is lost: the truth has what was drained, whole; a copy is *)
(* what its file was at some time; a file of the mirror that the truth     *)
(* lacks was moved to where it will not come back from.                    *)
Begins(s, t) == Len(s) <= Len(t) /\ \A i \in 1 .. Len(s) : s[i] = t[i]
Drained == UNION {RowsOf(c) : c \in ToSet(drained)}

Truthful ==
  /\ \A p \in DOMAIN src : Damaged \notin ToSet(src[p].lines)
  /\ Readable(src) = Drained
  /\ index \subseteq Drained
  /\ session # NoBatch => session \in ToSet(drained)
Mirroring ==
  /\ Readable(dst) \subseteq Drained
  /\ \A p \in DOMAIN src \cap DOMAIN dst : Begins(dst[p].lines, src[p].lines)
  /\ \A p \in DOMAIN dst \ DOMAIN src : p[2] < depth
  /\ pc \in {"copy", "delete"} =>
       \A p \in DOMAIN src \ job.todo : p \in DOMAIN dst /\ dst[p].lines = src[p].lines

BatchInv == faults = 0 => Truthful /\ Mirroring
-----------------------------------------------------------------------------
(* A set of natural numbers has a least one.                               *)
LEMMA Least ==
  ASSUME NEW T, T \subseteq Nat, T # {}
  PROVE  \E n \in T : \A m \in T : n <= m
<1>1. PICK n \in T : \A m \in T : ~ (<<m, n>> \in OpToRel(<, Nat))
  BY NatLessThanWellFounded, WFMin
<1>2. \A m \in T : ~ (m < n)
  BY <1>1 DEF OpToRel
<1> QED BY <1>2

(* ... and a greatest one, if it is bounded.                               *)
LEMMA Greatest ==
  ASSUME NEW k \in Nat, NEW T, T \subseteq 0 .. k, T # {}
  PROVE  \E n \in T : \A m \in T : m <= n
<1> DEFINE above == {k - n : n \in T}
<1>1. PICK i \in above : \A j \in above : i <= j
  <2>1. \A n \in T : k - n \in Nat
    OBVIOUS
  <2>2. above \subseteq Nat
    BY <2>1
  <2>3. PICK t \in T : TRUE
    OBVIOUS
  <2>4. k - t \in above
    OBVIOUS
  <2> HIDE DEF above
  <2> QED BY <2>2, <2>4, Least
<1>2. PICK n \in T : i = k - n
  OBVIOUS
<1>3. ASSUME NEW m \in T PROVE m <= n
  <2>1. k - m \in above
    OBVIOUS
  <2>2. k - n <= k - m
    BY <1>1, <1>2, <2>1
  <2> QED BY <2>2
<1> QED BY <1>3
-----------------------------------------------------------------------------
(* Picked                                                                  *)

PickSteps(s, S, f) ==
  f = [n \in 0 .. Len(s) |-> IF n = 0 THEN << >>
                             ELSE IF s[n] \in S THEN Append(f[n - 1], s[n]) ELSE f[n - 1]]

Upto(s, S, T, n, g) ==
  /\ g \in [0 .. n -> Seq(T)]
  /\ g[0] = << >>
  /\ \A i \in 1 .. n : g[i] = IF s[i] \in S THEN Append(g[i - 1], s[i]) ELSE g[i - 1]

(* The recursion defines a function, whose values are sequences over what  *)
(* is picked.                                                              *)
LEMMA PickExists ==
  ASSUME NEW T, NEW S, NEW U, NEW s \in Seq(U), U \cap S \subseteq T
  PROVE  \E g : Upto(s, S, T, Len(s), g)
<1> DEFINE bad == {n \in 0 .. Len(s) : ~ \E g : Upto(s, S, T, n, g)}
<1>1. SUFFICES bad = {}
  <2>1. Len(s) \in 0 .. Len(s)
    OBVIOUS
  <2> QED BY <2>1
<1>2. SUFFICES ASSUME bad # {} PROVE FALSE
  OBVIOUS
<1>3. PICK n \in bad : \A m \in bad : n <= m
  <2>1. bad \subseteq Nat
    OBVIOUS
  <2> HIDE DEF bad
  <2> QED BY <1>2, <2>1, Least
<1>4. CASE n = 0
  <2> DEFINE g == [i \in 0 .. 0 |-> << >>]
  <2>1. g \in [0 .. 0 -> Seq(T)] /\ g[0] = << >>
    OBVIOUS
  <2>2. Upto(s, S, T, 0, g)
    BY <2>1 DEF Upto
  <2> QED BY <1>3, <1>4, <2>2
<1>5. CASE n # 0
  <2>1. n \in 1 .. Len(s) /\ n - 1 \in 0 .. Len(s) /\ n - 1 \notin bad
    BY <1>3, <1>5
  <2>2. PICK g : Upto(s, S, T, n - 1, g)
    BY <2>1
  <2> DEFINE v == IF s[n] \in S THEN Append(g[n - 1], s[n]) ELSE g[n - 1]
  <2>3. v \in Seq(T)
    <3>1. g[n - 1] \in Seq(T) /\ s[n] \in U
      BY <2>1, <2>2 DEF Upto
    <3>2. CASE s[n] \in S
      <4>1. s[n] \in T
        BY <3>1, <3>2
      <4> QED BY <3>1, <3>2, <4>1, AppendProperties
    <3> QED BY <3>1, <3>2
  <2> DEFINE h == [i \in 0 .. n |-> IF i = n THEN v ELSE g[i]]
  <2> HIDE DEF v, bad
  <2>4. h \in [0 .. n -> Seq(T)] /\ h[0] = << >>
    BY <2>1, <2>2, <2>3 DEF Upto
  <2>5. ASSUME NEW i \in 1 .. n
        PROVE  h[i] = IF s[i] \in S THEN Append(h[i - 1], s[i]) ELSE h[i - 1]
    <3>1. h[i - 1] = g[i - 1]
      BY <2>1
    <3>2. CASE i = n
      BY <2>1, <3>1, <3>2 DEF v
    <3>3. CASE i # n
      <4>1. h[i] = g[i] /\ i \in 1 .. n - 1
        BY <2>1, <3>3
      <4> QED BY <2>2, <3>1, <4>1 DEF Upto
    <3> QED BY <3>2, <3>3
  <2>6. Upto(s, S, T, n, h)
    BY <2>4, <2>5 DEF Upto
  <2>7. n \notin bad
    BY <2>6 DEF bad
  <2> QED BY <1>3, <2>7
<1> QED BY <1>4, <1>5

LEMMA PickedType ==
  ASSUME NEW T, NEW S, NEW U, NEW s \in Seq(U), U \cap S \subseteq T
  PROVE  Picked(s, S) \in Seq(T)
<1>1. PICK g : Upto(s, S, T, Len(s), g)
  BY PickExists
<1>2. PickSteps(s, S, g)
  <2>1. DOMAIN g = 0 .. Len(s) /\ g = [n \in 0 .. Len(s) |-> g[n]]
    BY <1>1 DEF Upto
  <2>2. ASSUME NEW n \in 0 .. Len(s)
        PROVE  g[n] = IF n = 0 THEN << >>
                      ELSE IF s[n] \in S THEN Append(g[n - 1], s[n]) ELSE g[n - 1]
    <3>1. CASE n = 0
      BY <1>1, <3>1 DEF Upto
    <3>2. CASE n # 0
      <4>1. n \in 1 .. Len(s)
        BY <3>2
      <4> QED BY <1>1, <3>2, <4>1 DEF Upto
    <3> QED BY <3>1, <3>2
  <2> QED BY <2>1, <2>2 DEF PickSteps
<1>3. PICK f : PickSteps(s, S, f) /\ Picked(s, S) = f[Len(s)]
  BY <1>2 DEF Picked, PickSteps
<1>4. \A n \in 0 .. Len(s) : f[n] = IF n = 0 THEN << >>
                                    ELSE IF s[n] \in S THEN Append(f[n - 1], s[n]) ELSE f[n - 1]
  BY <1>3 DEF PickSteps
<1> DEFINE bad == {n \in 0 .. Len(s) : f[n] # g[n]}
<1>5. bad = {}
  <2>1. SUFFICES ASSUME bad # {} PROVE FALSE
    OBVIOUS
  <2>2. PICK n \in bad : \A m \in bad : n <= m
    <3>1. bad \subseteq Nat
      OBVIOUS
    <3> HIDE DEF bad
    <3> QED BY <2>1, <3>1, Least
  <2>3. n # 0
    BY <1>1, <1>4, <2>2 DEF Upto
  <2>4. n \in 1 .. Len(s) /\ n - 1 \in 0 .. Len(s) /\ n - 1 \notin bad
    BY <2>2, <2>3
  <2>5. f[n - 1] = g[n - 1]
    BY <2>4
  <2>6. f[n] = g[n]
    BY <1>1, <1>4, <2>3, <2>4, <2>5 DEF Upto
  <2> QED BY <2>2, <2>6
<1>6. f[Len(s)] = g[Len(s)]
  BY <1>5
<1> QED BY <1>1, <1>3, <1>6 DEF Upto
-----------------------------------------------------------------------------
(* Directories.                                                            *)

Content == Batch \cup {Damaged}
File == [lines : Seq(Content), mtime : Nat]

LEMMA DirShape ==
  ASSUME NEW dir
  PROVE  IsDir(dir) <=> DOMAIN dir \subseteq Path /\ \A p \in DOMAIN dir : dir[p] \in File
BY DEF IsDir, File, Content

LEMMA EmptyDir == DOMAIN Empty = {} /\ IsDir(Empty) /\ Readable(Empty) = {}
<1>1. DOMAIN Empty = {}
  BY DEF Empty
<1> QED BY <1>1 DEF IsDir, Readable

LEMMA LinesType ==
  ASSUME NEW dir, IsDir(dir), NEW p
  PROVE  LinesOf(dir, p) \in Seq(Content) /\ Size(dir, p) \in Nat
<1>1. LinesOf(dir, p) \in Seq(Content)
  BY DirShape DEF LinesOf, File
<1> QED BY <1>1 DEF Size

LEMMA WithFacts ==
  ASSUME NEW dir, NEW p, NEW lines, NEW t
  PROVE  /\ DOMAIN With(dir, p, lines, t) = DOMAIN dir \cup {p}
         /\ With(dir, p, lines, t)[p] = [lines |-> lines, mtime |-> t]
         /\ \A q \in DOMAIN dir \ {p} : With(dir, p, lines, t)[q] = dir[q]
BY DEF With

LEMMA WithType ==
  ASSUME NEW dir, IsDir(dir), NEW p \in Path, NEW lines \in Seq(Content), NEW t \in Nat
  PROVE  IsDir(With(dir, p, lines, t))
<1> DEFINE new == With(dir, p, lines, t)
<1>1. [lines |-> lines, mtime |-> t] \in File
  BY DEF File
<1>2. DOMAIN dir \subseteq Path /\ \A q \in DOMAIN dir : dir[q] \in File
  BY DirShape
<1>3. /\ DOMAIN new = DOMAIN dir \cup {p}
      /\ new[p] = [lines |-> lines, mtime |-> t]
      /\ \A q \in DOMAIN dir \ {p} : new[q] = dir[q]
  BY DEF With
<1> HIDE DEF new
<1>4. DOMAIN new \subseteq Path /\ \A q \in DOMAIN new : new[q] \in File
  BY <1>1, <1>2, <1>3
<1>5. IsDir(new)
  BY <1>4, DirShape
<1> QED BY <1>5 DEF new

LEMMA WithoutFacts ==
  ASSUME NEW dir, NEW P
  PROVE  /\ DOMAIN Without(dir, P) = DOMAIN dir \ P
         /\ \A q \in DOMAIN dir \ P : Without(dir, P)[q] = dir[q]
BY DEF Without, Restrict

LEMMA WithoutType ==
  ASSUME NEW dir, IsDir(dir), NEW P
  PROVE  IsDir(Without(dir, P))
<1> DEFINE new == Without(dir, P)
<1>1. DOMAIN dir \subseteq Path /\ \A q \in DOMAIN dir : dir[q] \in File
  BY DirShape
<1>2. DOMAIN new = DOMAIN dir \ P /\ \A q \in DOMAIN dir \ P : new[q] = dir[q]
  BY WithoutFacts
<1> HIDE DEF new
<1>3. DOMAIN new \subseteq Path /\ \A q \in DOMAIN new : new[q] \in File
  BY <1>1, <1>2
<1>4. IsDir(new)
  BY <1>3, DirShape
<1> QED BY <1>4 DEF new

LEMMA RowsInDir ==
  ASSUME NEW dir
  PROVE  Readable(dir) = UNION {RowsIn(dir, p) : p \in DOMAIN dir}
BY DEF Readable, RowsIn

LEMMA ReadableType ==
  ASSUME NEW dir, IsDir(dir)
  PROVE  Readable(dir) \subseteq Row
<1>1. ASSUME NEW p \in DOMAIN dir, NEW c \in ToSet(dir[p].lines) \ {Damaged}
      PROVE  <<c, p[1]>> \in Row
  <2>1. p \in Path /\ dir[p].lines \in Seq(Content)
    BY DirShape DEF File
  <2>2. c \in Content
    BY <2>1 DEF ToSet
  <2>3. p[1] \in Thread
    BY <2>1 DEF Path
  <2> QED BY <2>2, <2>3 DEF Content, Row
<1> QED BY <1>1 DEF Readable

LEMMA CorruptType ==
  ASSUME NEW l \in Seq(Content), NEW i \in DOMAIN l
  PROVE  [l EXCEPT ![i] = Damaged] \in Seq(Content)
BY ExceptSeq DEF Content

LEMMA FrontType ==
  ASSUME NEW l \in Seq(Content), Len(l) > 0
  PROVE  Front(l) \in Seq(Content)
<1>1. \A i \in 1 .. Len(l) - 1 : l[i] \in Content
  OBVIOUS
<1> QED BY <1>1 DEF Front
-----------------------------------------------------------------------------
(* Types.                                                                  *)

LEMMA DrainTypes ==
  ASSUME TypeOK, RunInv, NEW b \in Batch, Drain(b)
  PROVE  /\ IsDir(src') /\ now' \in Nat
         /\ session' \in Batch \cup {NoBatch} /\ drained' \in Seq(Batch)
<1>0. IsDir(src) /\ depth \in Depth /\ drained \in Seq(Batch) /\ now \in Nat
  BY DEF TypeOK, RunInv
<1> DEFINE new == Touches[b] \X {depth}
<1>1. now' \in Nat /\ new \subseteq Path
  BY <1>0, BackupBatches DEF Drain, Tick, Path
<1>2. /\ DOMAIN src' = DOMAIN src \cup new
      /\ \A p \in new : src'[p] = [lines |-> Append(LinesOf(src, p), b), mtime |-> now']
      /\ \A p \in DOMAIN src \ new : src'[p] = src[p]
  BY DEF Drain
<1> HIDE DEF new
<1>3. ASSUME NEW p \in new PROVE src'[p] \in File
  <2>1. Append(LinesOf(src, p), b) \in Seq(Content)
    BY <1>0, LinesType, AppendProperties DEF Content
  <2> QED BY <1>1, <1>2, <2>1 DEF File
<1>4. IsDir(src')
  BY <1>0, <1>1, <1>2, <1>3, DirShape
<1>5. session' = b /\ drained' \in Seq(Batch)
  BY <1>0, AppendProperties DEF Drain
<1> QED BY <1>1, <1>4, <1>5

LEMMA MoveTypes ==
  ASSUME TypeOK, RunInv, NEW p \in Path, Move(p)
  PROVE  IsDir(src') /\ now' \in Nat
<1>0. IsDir(src) /\ depth \in Depth /\ now \in Nat /\ p \in DOMAIN src
  BY DEF TypeOK, RunInv, Move, Flat
<1> DEFINE q == <<p[1], depth>>
<1>1. q \in Path
  BY <1>0 DEF Path
<1>2. src[p] \in File
  BY <1>0, DirShape
<1> HIDE DEF q
<1>3. CASE q \in DOMAIN src
  <2>1. now' \in Nat /\ src' = Without(With(src, q, src[q].lines \o src[p].lines, now'), {p})
    BY <1>0, <1>3 DEF Move, q, Tick
  <2>2. src[q].lines \o src[p].lines \in Seq(Content)
    BY <1>0, <1>2, <1>3, DirShape, ConcatProperties DEF File
  <2>3. IsDir(With(src, q, src[q].lines \o src[p].lines, now'))
    BY <1>0, <1>1, <2>1, <2>2, WithType
  <2> QED BY <2>1, <2>3, WithoutType
<1>4. CASE q \notin DOMAIN src
  <2>1. now' = now /\ src' = Without(With(src, q, src[p].lines, src[p].mtime), {p})
    BY <1>4 DEF Move, q
  <2>2. IsDir(With(src, q, src[p].lines, src[p].mtime))
    BY <1>0, <1>1, <1>2, WithType DEF File
  <2> QED BY <1>0, <2>1, <2>2, WithoutType
<1> QED BY <1>3, <1>4

LEMMA FaultTypes ==
  ASSUME TypeOK, RunInv, NEW p \in DOMAIN src, Truncate(p) \/ Corrupt(p) \/ Lose(p)
  PROVE  IsDir(src') /\ now' \in Nat /\ hurt' \in SUBSET Row
<1>0. IsDir(src) /\ hurt \in SUBSET Row /\ now \in Nat /\ p \in Path /\ src[p] \in File
  BY DirShape DEF TypeOK, RunInv
<1>1. now' \in Nat
  BY <1>0 DEF Truncate, Corrupt, Lose, Fault, Tick
<1>2. hurt' = hurt \cup (Readable(src) \ Readable(src'))
  BY DEF Truncate, Corrupt, Lose, Hurts
<1>3. hurt' \in SUBSET Row
  BY <1>0, <1>2, ReadableType
<1>4. LinesOf(src, p) = src[p].lines
  BY DEF LinesOf
<1>5. CASE Truncate(p)
  <2>1. src' = With(src, p, Front(src[p].lines), now') /\ Len(src[p].lines) > 0
    BY <1>4, <1>5 DEF Truncate, Size
  <2>2. Front(src[p].lines) \in Seq(Content)
    BY <1>0, <2>1, FrontType DEF File
  <2> QED BY <1>0, <1>1, <1>3, <2>1, <2>2, WithType
<1>6. CASE Corrupt(p)
  <2>1. PICK i \in DOMAIN src[p].lines, t \in {now', src[p].mtime} :
          src' = With(src, p, [src[p].lines EXCEPT ![i] = Damaged], t)
    BY <1>4, <1>6 DEF Corrupt
  <2>2. t \in Nat /\ src[p].lines \in Seq(Content)
    BY <1>0, <1>1 DEF File
  <2>3. [src[p].lines EXCEPT ![i] = Damaged] \in Seq(Content)
    BY <2>2, CorruptType
  <2> QED BY <1>0, <1>1, <1>3, <2>1, <2>2, <2>3, WithType
<1>7. CASE Lose(p)
  <2>1. src' = Without(src, {p})
    BY <1>7 DEF Lose
  <2> QED BY <1>0, <1>1, <1>3, <2>1, WithoutType
<1> QED BY <1>5, <1>6, <1>7

LEMMA RepairTypes ==
  ASSUME TypeOK, RunInv, Repair
  PROVE  IsDir(src') /\ now' \in Nat
<1>0. IsDir(src) /\ drained \in Seq(Batch) /\ now \in Nat
  BY DEF TypeOK, RunInv
<1>1. now' \in Nat
  BY <1>0 DEF Repair, Tick
<1> DEFINE missing(t) == {r[1] : r \in {r \in index \ Readable(src) : r[2] = t}}
           lines(p) == Picked(LinesOf(src, p), Batch)
                       \o (IF p[2] = depth THEN Picked(drained, missing(p[1])) ELSE << >>)
           changed == {p \in Path : lines(p) # LinesOf(src, p)}
<1>2. src' = [p \in DOMAIN src \cup changed |->
                IF p \in changed THEN [lines |-> lines(p), mtime |-> now'] ELSE src[p]]
  BY DEF Repair
<1>3. ASSUME NEW p PROVE lines(p) \in Seq(Content)
  <2>1. Picked(LinesOf(src, p), Batch) \in Seq(Content)
    <3>1. LinesOf(src, p) \in Seq(Content)
      BY <1>0, LinesType
    <3>2. Content \cap Batch \subseteq Content
      OBVIOUS
    <3> QED BY <3>1, <3>2, PickedType
  <2>2. \A S : Picked(drained, S) \in Seq(Content)
    <3>1. \A S : Batch \cap S \subseteq Content
      BY DEF Content
    <3> QED BY <1>0, <3>1, PickedType
  <2> DEFINE back == IF p[2] = depth THEN Picked(drained, missing(p[1])) ELSE << >>
  <2>3. back \in Seq(Content)
    BY <2>2
  <2> HIDE DEF back
  <2>4. Picked(LinesOf(src, p), Batch) \o back \in Seq(Content)
    BY <2>1, <2>3, ConcatProperties
  <2> QED BY <2>4 DEF back
<1>4. changed \subseteq Path
  OBVIOUS
<1> HIDE DEF lines, changed
<1>5. \A p \in changed : src'[p] \in File
  BY <1>1, <1>2, <1>3 DEF File
<1>6. \A p \in DOMAIN src \ changed : src'[p] = src[p]
  BY <1>2
<1>7. DOMAIN src' = DOMAIN src \cup changed
  BY <1>2
<1> QED BY <1>0, <1>1, <1>4, <1>5, <1>6, <1>7, DirShape

LEMMA RestoreTypes ==
  ASSUME TypeOK, RunInv, NEW dir, NEW d, IsDir(dir), d \in Depth \cup {NoManifest}, Restore(dir, d)
  PROVE  IsDir(src') /\ now' \in Nat /\ depth' \in Depth /\ index' \in SUBSET Row
<1>1. now' \in Nat /\ depth' \in Depth
  BY DEF Restore, RunInv, Tick
<1>2. /\ DOMAIN src' = DOMAIN dir
      /\ \A p \in DOMAIN dir : src'[p] = [dir[p] EXCEPT !.mtime = now']
  BY DEF Restore
<1>3. \A p \in DOMAIN dir : src'[p] \in File
  BY <1>1, <1>2, DirShape DEF File
<1>4. index' = Readable(dir)
  BY DEF Restore
<1> QED BY <1>1, <1>2, <1>3, <1>4, DirShape, ReadableType

LEMMA ChangeTypes ==
  ASSUME TypeOK, RunInv, NEW dir, IsDir(dir), Change(dir)
  PROVE  IsDir(dst') /\ kept' \in SUBSET Row /\ gone' \in [Row -> 0 .. MaxDay]
<1>0. /\ kept \in SUBSET Row /\ gone \in [Row -> 0 .. MaxDay] /\ day \in 0 .. MaxDay
  BY DEF TypeOK, RunInv
<1> DEFINE out == Readable(dst) \ Readable(dir)
<1>1. /\ dst' = dir
      /\ gone' = [r \in Row |-> IF r \in out THEN day ELSE gone[r]]
      /\ kept' = IF job.blind THEN kept \ out ELSE kept
  BY DEF Change
<1> HIDE DEF out
<1>2. gone' \in [Row -> 0 .. MaxDay]
  BY <1>0, <1>1
<1> QED BY <1>0, <1>1, <1>2

LEMMA CopyTypes ==
  ASSUME TypeOK, RunInv, NEW p \in Path, Copy(p) \/ Delete(p)
  PROVE  IsDir(dst') /\ kept' \in SUBSET Row /\ gone' \in [Row -> 0 .. MaxDay]
<1>0. /\ IsDir(src) /\ IsDir(dst) /\ kept \in SUBSET Row /\ gone \in [Row -> 0 .. MaxDay]
  BY DEF TypeOK
<1>1. CASE UNCHANGED <<dst, gone, kept>>
  BY <1>0, <1>1
<1>2. CASE Copy(p) /\ ~UNCHANGED <<dst, gone, kept>>
  <2>1. p \in DOMAIN src
    BY <1>2 DEF Copy, RunInv
  <2>2. Change(With(dst, p, src[p].lines, src[p].mtime))
    BY <1>2 DEF Copy
  <2>3. src[p].lines \in Seq(Content) /\ src[p].mtime \in Nat
    BY <1>0, <2>1, DirShape DEF File
  <2>4. IsDir(With(dst, p, src[p].lines, src[p].mtime))
    BY <1>0, <2>3, WithType
  <2> QED BY <2>2, <2>4, ChangeTypes
<1>3. CASE Delete(p)
  <2>1. Change(Without(dst, {p})) /\ IsDir(Without(dst, {p}))
    BY <1>0, <1>3, WithoutType DEF Delete
  <2> QED BY <2>1, ChangeTypes
<1> QED BY <1>1, <1>2, <1>3

LEMMA PrunedIsPart == \A G : Pruned(G) \subseteq G
BY DEF Pruned, Recent, Monthly

Gen(g) == /\ g.nr \in 1 .. MaxRuns /\ g.day \in 0 .. MaxDay
          /\ g.depth \in Depth /\ IsDir(g.dir)

LEMMA SnapshotTypes ==
  ASSUME TypeOK, RunInv, Snapshot
  PROVE  \A g \in gens' : Gen(g)
<1>0. /\ IsDir(dst) /\ manifest \in Depth \cup {NoManifest}
      /\ runs \in 1 .. MaxRuns /\ day \in 0 .. MaxDay /\ \A g \in gens : Gen(g)
  BY BackupBounds DEF TypeOK, RunInv, Snapshot, Gen
<1>1. CASE UNCHANGED gens
  BY <1>0, <1>1
<1>2. CASE manifest # NoManifest /\ gens' = Pruned(gens \cup {[nr |-> runs, day |-> day, dir |-> dst,
                                                            depth |-> manifest]})
  <2> DEFINE new == [nr |-> runs, day |-> day, dir |-> dst, depth |-> manifest]
  <2>1. Gen(new)
    BY <1>0, <1>2 DEF Gen
  <2> HIDE DEF new
  <2>2. gens' \subseteq gens \cup {new}
    BY <1>2, PrunedIsPart DEF new
  <2> QED BY <1>0, <2>1, <2>2
<1> QED BY <1>1, <1>2 DEF Snapshot

(* Who changes what.                                                       *)
LEMMA TruthMoves ==
  ASSUME [Next]_vars
  PROVE  \/ UNCHANGED <<src, depth, index, session, drained, now, hurt>>
         \/ (\E b \in Batch : Drain(b)) \/ Commit \/ Die \/ StartSweep
         \/ (\E p \in Path : Move(p)) \/ Harm \/ Repair \/ Verify
<1> USE DEF truths
<1>1. CASE UNCHANGED vars
  BY <1>1 DEF vars
<1>2. CASE EnterMoves \/ EndSweep \/ KillSweep \/ NextDay
  BY <1>2 DEF EnterMoves, EndSweep, KillSweep, LeaveSweep, NextDay
<1>3. CASE MirrorStep \/ KillBackup
  BY <1>3 DEF MirrorStep, Snapshot, TryRebalance, Enter, CopyManifest, PlanDeletes, Unlock, Report,
              Copy, Delete, KillBackup
<1> QED BY <1>1, <1>2, <1>3 DEF Next, Session, SweepStep

LEMMA MirrorMoves ==
  ASSUME [Next]_vars
  PROVE  \/ UNCHANGED <<dst, manifest, gone, kept>>
         \/ (\E p \in Path : Copy(p) \/ Delete(p)) \/ CopyManifest \/ Unlock
<1> USE DEF mirror
<1>1. CASE UNCHANGED vars
  BY <1>1 DEF vars
<1>2. CASE Session \/ SweepStep \/ KillSweep
  BY <1>2 DEF Session, Drain, Commit, Die, SweepStep, StartSweep, EnterMoves, Move, EndSweep,
              KillSweep, LeaveSweep
<1>3. CASE Harm
  BY <1>3 DEF Harm, Truncate, Corrupt, Lose, Reinstall, Restore, Fault
<1>4. CASE Repair \/ NextDay \/ Verify \/ KillBackup
  BY <1>4 DEF Repair, NextDay, Verify, KillBackup
<1>5. CASE MirrorStep
  BY <1>5 DEF MirrorStep, Snapshot, TryRebalance, Enter, PlanDeletes, Report
<1> QED BY <1>1, <1>2, <1>3, <1>4, <1>5 DEF Next

LEMMA GensMove ==
  ASSUME [Next]_vars
  PROVE  UNCHANGED gens \/ Snapshot
<1>1. CASE UNCHANGED vars
  BY <1>1 DEF vars
<1>2. CASE Session \/ SweepStep \/ KillSweep
  BY <1>2 DEF Session, Drain, Commit, Die, SweepStep, StartSweep, EnterMoves, Move, EndSweep,
              KillSweep, LeaveSweep
<1>3. CASE Harm
  BY <1>3 DEF Harm, Truncate, Corrupt, Lose, Reinstall, Restore, Fault
<1>4. CASE Repair \/ NextDay \/ Verify \/ KillBackup
  BY <1>4 DEF Repair, NextDay, Verify, KillBackup
<1>5. CASE MirrorStep
  BY <1>5 DEF MirrorStep, TryRebalance, Enter, CopyManifest, PlanDeletes, Unlock, Report, Copy,
              Delete
<1> QED BY <1>1, <1>2, <1>3, <1>4, <1>5 DEF Next

LEMMA TruthTypes ==
  ASSUME TypeOK, RunInv, [Next]_vars
  PROVE  /\ IsDir(src') /\ now' \in Nat /\ depth' \in Depth /\ index' \in SUBSET Row
         /\ session' \in Batch \cup {NoBatch} /\ drained' \in Seq(Batch) /\ hurt' \in SUBSET Row
<1>0. /\ IsDir(src) /\ now \in Nat /\ depth \in Depth /\ index \in SUBSET Row /\ IsDir(dst)
      /\ session \in Batch \cup {NoBatch} /\ drained \in Seq(Batch) /\ hurt \in SUBSET Row
      /\ manifest \in Depth \cup {NoManifest} /\ \A g \in gens : Gen(g)
  BY DEF TypeOK, RunInv, Gen
<1>1. CASE UNCHANGED <<src, depth, index, session, drained, now, hurt>>
  BY <1>0, <1>1
<1>2. ASSUME NEW b \in Batch, Drain(b)
      PROVE  UNCHANGED <<depth, index, hurt>>
  BY <1>2 DEF Drain
<1>3. CASE Commit
  <2>1. RowsOf(session) \subseteq Row /\ session \in Batch
    BY <1>0, <1>3, BackupBatches DEF Commit, RowsOf, Row
  <2> QED BY <1>0, <1>3, <2>1 DEF Commit
<1>4. CASE Die \/ StartSweep
  BY <1>0, <1>4 DEF Die, StartSweep, Depth
<1>5. ASSUME NEW p \in Path, Move(p)
      PROVE  UNCHANGED <<depth, index, session, drained, hurt>>
  BY <1>5 DEF Move
<1>6. ASSUME NEW p \in DOMAIN src, Truncate(p) \/ Corrupt(p) \/ Lose(p)
      PROVE  UNCHANGED <<depth, index, session, drained>>
  BY <1>6 DEF Truncate, Corrupt, Lose
<1>7. CASE Reinstall
  <2>1. hurt' \in SUBSET Row
    BY <1>0, <1>7, ReadableType DEF Reinstall, Hurts
  <2> QED BY <1>0, <1>7, <2>1, EmptyDir DEF Reinstall, Fault, Tick, Depth
<1>8. ASSUME NEW dir, NEW d, Restore(dir, d)
      PROVE  UNCHANGED <<session, drained, hurt>>
  BY <1>8 DEF Restore
<1>9. CASE Repair
  <2>1. UNCHANGED <<depth, index, session, drained, hurt>>
    BY <1>9 DEF Repair
  <2> QED BY <1>0, <1>9, <2>1, RepairTypes
<1>10. CASE Verify
  BY <1>0, <1>10 DEF Verify
<1>11. CASE Harm
  <2>1. CASE \E p \in DOMAIN src : Truncate(p) \/ Corrupt(p) \/ Lose(p)
    BY <1>0, <1>6, <2>1, FaultTypes
  <2>2. CASE Restore(dst, manifest)
    BY <1>0, <1>8, <2>2, RestoreTypes
  <2>3. CASE \E g \in gens : Restore(g.dir, g.depth)
    <3>1. PICK g \in gens : Restore(g.dir, g.depth)
      BY <2>3
    <3>2. IsDir(g.dir) /\ g.depth \in Depth \cup {NoManifest}
      BY <1>0 DEF Gen
    <3> QED BY <1>0, <1>8, <3>1, <3>2, RestoreTypes
  <2> QED BY <1>7, <1>11, <2>1, <2>2, <2>3 DEF Harm
<1>12. CASE \E b \in Batch : Drain(b)
  BY <1>0, <1>2, <1>12, DrainTypes
<1>13. CASE \E p \in Path : Move(p)
  BY <1>0, <1>5, <1>13, MoveTypes
<1> QED BY <1>1, <1>3, <1>4, <1>9, <1>10, <1>11, <1>12, <1>13, TruthMoves

LEMMA MirrorTypes ==
  ASSUME TypeOK, RunInv, [Next]_vars
  PROVE  /\ IsDir(dst') /\ manifest' \in Depth \cup {NoManifest} /\ \A g \in gens' : Gen(g)
         /\ kept' \in SUBSET Row /\ gone' \in [Row -> 0 .. MaxDay]
<1>0. /\ IsDir(dst) /\ manifest \in Depth \cup {NoManifest} /\ \A g \in gens : Gen(g)
      /\ kept \in SUBSET Row /\ gone \in [Row -> 0 .. MaxDay] /\ depth \in Depth
  BY DEF TypeOK, Gen
<1>1. \A g \in gens' : Gen(g)
  BY <1>0, GensMove, SnapshotTypes
<1>2. CASE UNCHANGED <<dst, manifest, gone, kept>>
  BY <1>0, <1>1, <1>2
<1>3. ASSUME NEW p \in Path, Copy(p) \/ Delete(p)
      PROVE  UNCHANGED manifest
  BY <1>3 DEF Copy, Delete
<1>4. CASE CopyManifest
  BY <1>0, <1>1, <1>4 DEF CopyManifest
<1>5. CASE Unlock
  <2>1. Readable(dst) \subseteq Row
    BY <1>0, ReadableType
  <2> QED BY <1>0, <1>1, <1>5, <2>1 DEF Unlock
<1> QED BY <1>0, <1>1, <1>2, <1>3, <1>4, <1>5, CopyTypes, MirrorMoves

LEMMA LockTypes ==
  ASSUME TypeOK, [Next]_vars
  PROVE  /\ mutex' \in {Nobody, Sweep, Mirror} /\ rebalance' \in {Nobody, Sweep, Mirror}
         /\ sweep' \in {"idle", "bumped", "moving"}
         /\ pc' \in {"idle", "snapshot", "lock", "enter", "copy", "delete", "check"}
         /\ pc' \in {"copy", "delete"} <=> mutex' = Mirror
         /\ sweep' = "moving" <=> mutex' = Sweep
<1>0. /\ mutex \in {Nobody, Sweep, Mirror} /\ rebalance \in {Nobody, Sweep, Mirror}
      /\ sweep \in {"idle", "bumped", "moving"}
      /\ pc \in {"idle", "snapshot", "lock", "enter", "copy", "delete", "check"}
      /\ pc \in {"copy", "delete"} <=> mutex = Mirror
      /\ sweep = "moving" <=> mutex = Sweep
  BY DEF TypeOK
<1>1. CASE UNCHANGED <<mutex, rebalance, sweep, pc>>
  BY <1>0, <1>1
<1>2. CASE UNCHANGED vars \/ Session \/ Repair \/ NextDay \/ (\E p \in Path : Move(p))
           \/ (\E p \in Path : Copy(p) \/ Delete(p)) \/ CopyManifest
  <2>1. UNCHANGED <<mutex, rebalance, sweep, pc>>
    BY <1>2 DEF vars, truths, locks, Session, Drain, Commit, Die, Repair, NextDay, Move, Copy,
                Delete, CopyManifest
  <2> QED BY <1>1, <2>1
<1>3. CASE Harm
  <2>1. UNCHANGED <<mutex, rebalance, sweep, pc>>
    BY <1>3 DEF Harm, locks, Truncate, Corrupt, Lose, Reinstall, Restore, Fault
  <2> QED BY <1>1, <2>1
<1>4. CASE StartSweep
  BY <1>0, <1>4, BackupActors DEF StartSweep
<1>5. CASE EnterMoves
  BY <1>0, <1>5, BackupActors DEF EnterMoves
<1>6. CASE EndSweep \/ KillSweep
  BY <1>0, <1>6, BackupActors DEF EndSweep, KillSweep, LeaveSweep
<1>7. CASE Verify
  BY <1>0, <1>7 DEF Verify, locks, Goto
<1>8. CASE Snapshot
  BY <1>0, <1>8 DEF Snapshot, locks, truths, Goto
<1>9. CASE TryRebalance
  BY <1>0, <1>9 DEF TryRebalance, truths, Goto
<1>10. CASE Enter
  BY <1>0, <1>10, BackupActors DEF Enter, truths, Goto
<1>11. CASE PlanDeletes
  BY <1>0, <1>11 DEF PlanDeletes, truths, locks, Goto
<1>12. CASE Unlock
  BY <1>0, <1>12, BackupActors DEF Unlock, ReleaseLocks, truths, Goto
<1>13. CASE Report
  BY <1>0, <1>13 DEF Report, truths, locks, Goto
<1>14. CASE KillBackup
  BY <1>0, <1>14, BackupActors DEF KillBackup, ReleaseLocks, truths, Goto
<1> QED BY <1>2, <1>3, <1>4, <1>5, <1>6, <1>7, <1>8, <1>9, <1>10, <1>11, <1>12, <1>13, <1>14
        DEF Next, SweepStep, MirrorStep

LEMMA TypeStep ==
  ASSUME TypeOK, RunInv, [Next]_vars
  PROVE  TypeOK'
BY TruthTypes, MirrorTypes, LockTypes DEF TypeOK, Gen

(* While the mirror holds the mutex the truth keeps still.                 *)
LEMMA KeepsStill ==
  ASSUME TypeOK, mutex = Mirror, [Next]_vars
  PROVE  /\ UNCHANGED <<src, drained>>
         /\ UNCHANGED <<index, session>> \/ Commit \/ Die
<1>1. pc # "idle" /\ mutex # Nobody /\ sweep # "moving"
  BY BackupActors DEF TypeOK
<1>2. ~Harm /\ ~Repair /\ (\A b \in Batch : ~Drain(b)) /\ (\A p \in Path : ~Move(p))
  BY <1>1 DEF Harm, Truncate, Corrupt, Lose, Reinstall, Restore, Repair, Quiet, Fault, Drain, Move
<1>3. CASE Commit \/ Die
  BY <1>3 DEF Commit, Die
<1>4. CASE StartSweep \/ Verify
  BY <1>4 DEF StartSweep, Verify
<1>5. CASE UNCHANGED <<src, depth, index, session, drained, now, hurt>>
  BY <1>5
<1>6. ~(\E b \in Batch : Drain(b)) /\ ~(\E p \in Path : Move(p))
  BY <1>2
<1> QED BY <1>2, <1>3, <1>4, <1>5, <1>6, TruthMoves

LEMMA NoJobFields == /\ DOMAIN NoJob = Fields /\ NoJob.blind = FALSE
BY DEF NoJob, Fields

(* A fault is counted.                                                     *)
LEMMA HarmCounts == ASSUME Harm PROVE faults' = faults + 1 /\ kills' = kills
<1>1. ASSUME NEW p \in DOMAIN src, Truncate(p) \/ Corrupt(p) \/ Lose(p)
      PROVE  faults' = faults + 1 /\ kills' = kills
  <2>1. Fault
    BY <1>1 DEF Truncate, Corrupt, Lose
  <2> QED BY <2>1 DEF Fault
<1>2. CASE Reinstall
  BY <1>2 DEF Reinstall, Fault
<1>3. ASSUME NEW dir, NEW d, Restore(dir, d)
      PROVE  faults' = faults + 1 /\ kills' = kills
  BY <1>3 DEF Restore
<1> QED BY <1>1, <1>2, <1>3 DEF Harm

(* The tallies only grow.                                                  *)
LEMMA Tallies ==
  ASSUME RunInv, [Next]_vars
  PROVE  faults' \in {faults, faults + 1} /\ kills' \in {kills, kills + 1}
<1> USE DEF bounds
<1>1. CASE UNCHANGED vars \/ (\E b \in Batch : Drain(b)) \/ Commit \/ Repair \/ SweepStep
  BY <1>1 DEF vars, Drain, Commit, Repair, SweepStep, StartSweep, EnterMoves, Move, EndSweep
<1>2. CASE Die \/ KillSweep \/ KillBackup
  BY <1>2 DEF Die, KillSweep, KillBackup
<1>3. CASE Harm
  BY <1>3, HarmCounts
<1>6. CASE NextDay \/ Verify
  BY <1>6 DEF NextDay, Verify
<1>7. CASE MirrorStep
  BY <1>7 DEF MirrorStep, Snapshot, TryRebalance, Enter, CopyManifest, PlanDeletes, Unlock, Report,
              Copy, Delete
<1> QED BY <1>1, <1>2, <1>3, <1>6, <1>7 DEF Next, Session

LEMMA RunStep ==
  ASSUME TypeOK, RunInv, [Next]_vars
  PROVE  RunInv'
<1>0. /\ day \in 0 .. MaxDay /\ runs \in 0 .. MaxRuns /\ faults \in Nat /\ kills \in Nat
      /\ pc # "idle" => runs >= 1
      /\ DOMAIN job = Fields
      /\ pc = "copy" => job.todo \subseteq DOMAIN src
      /\ pc = "delete" => job.todo = {} /\ job.doomed \cap DOMAIN src = {}
      /\ pc \in {"copy", "delete"} <=> mutex = Mirror
      /\ MaxDay \in Nat /\ MaxRuns \in Nat
  BY BackupBounds DEF TypeOK, RunInv
<1>1. now' \in Nat /\ faults' \in Nat /\ kills' \in Nat
  BY <1>0, TruthTypes, Tallies
<1>2. CASE UNCHANGED <<pc, job, runs, day>>
  <2>1. pc \in {"copy", "delete"} => src' = src
    BY <1>0, KeepsStill
  <2> QED BY <1>0, <1>1, <1>2, <2>1 DEF RunInv
<1>3. CASE UNCHANGED vars \/ Session \/ SweepStep \/ KillSweep \/ Repair
  <2>1. UNCHANGED <<pc, job, runs, day>>
    BY <1>3 DEF vars, bounds, Session, Drain, Commit, Die, SweepStep, StartSweep, EnterMoves,
                Move, EndSweep, KillSweep, LeaveSweep, Repair
  <2> QED BY <1>2, <2>1
<1>4. CASE Harm
  <2>1. UNCHANGED <<pc, job, runs, day>>
    BY <1>4 DEF Harm, Truncate, Corrupt, Lose, Reinstall, Restore, Fault
  <2> QED BY <1>2, <2>1
<1>5. CASE NextDay
  BY <1>0, <1>1, <1>5 DEF NextDay, RunInv
<1>6. CASE Verify
  <2>1. DOMAIN job' = Fields
    BY <1>6, NoJobFields DEF Verify
  <2> QED BY <1>0, <1>1, <1>6, <2>1 DEF Verify, RunInv, Goto
<1>7. CASE Snapshot \/ TryRebalance
  <2>1. DOMAIN job' = Fields /\ pc' \in {"lock", "enter"} /\ pc # "idle" /\ runs' = runs /\ day' = day
    BY <1>0, <1>7 DEF Snapshot, TryRebalance, Goto, bounds
  <2> QED BY <1>0, <1>1, <2>1 DEF RunInv
<1>8. CASE Enter
  <2>1. DOMAIN job' = Fields /\ job'.todo = DOMAIN src
    BY <1>0, <1>8 DEF Enter, Fields
  <2> QED BY <1>0, <1>1, <1>8, <2>1 DEF Enter, RunInv, Goto, bounds, truths
<1>9. ASSUME NEW p \in Path, Copy(p)
      PROVE  RunInv'
  <2>1. DOMAIN job' = Fields /\ job'.todo \subseteq job.todo /\ pc = "copy" /\ pc' = "copy"
    BY <1>0, <1>9 DEF Copy, Fields
  <2> QED BY <1>0, <1>1, <1>9, <2>1 DEF Copy, RunInv, bounds, truths
<1>10. CASE CopyManifest
  <2>1. DOMAIN job' = Fields /\ job'.todo = job.todo /\ pc = "copy" /\ pc' = "copy"
    BY <1>0, <1>10 DEF CopyManifest, Fields
  <2> QED BY <1>0, <1>1, <1>10, <2>1 DEF CopyManifest, RunInv, bounds, truths
<1>11. CASE PlanDeletes
  <2>1. DOMAIN job' = Fields /\ job'.todo = {} /\ job'.doomed \subseteq Doomed
    BY <1>0, <1>11 DEF PlanDeletes, Fields
  <2> QED BY <1>0, <1>1, <1>11, <2>1 DEF PlanDeletes, RunInv, Goto, bounds, truths, Doomed
<1>12. ASSUME NEW p \in Path, Delete(p)
       PROVE  RunInv'
  <2>1. DOMAIN job' = Fields /\ job'.doomed \subseteq job.doomed /\ job'.todo = job.todo
    BY <1>0, <1>12 DEF Delete, Fields
  <2> QED BY <1>0, <1>1, <1>12, <2>1 DEF Delete, RunInv, bounds, truths
<1>13. CASE Unlock
  BY <1>0, <1>1, <1>13 DEF Unlock, RunInv, Goto, bounds
<1>14. CASE Report \/ KillBackup
  <2>1. job' = NoJob /\ pc' = "idle" /\ runs' = runs /\ day' = day
    BY <1>14 DEF Report, KillBackup, Goto, bounds
  <2> QED BY <1>0, <1>1, <2>1, NoJobFields DEF RunInv
<1> QED BY <1>3, <1>4, <1>5, <1>6, <1>7, <1>8, <1>9, <1>10, <1>11, <1>12, <1>13, <1>14
        DEF Next, MirrorStep

LEMMA TypeInit == Init => TypeOK /\ RunInv
<1> SUFFICES ASSUME Init PROVE TypeOK /\ RunInv
  OBVIOUS
<1>1. IsDir(src) /\ IsDir(dst)
  BY EmptyDir DEF Init
<1>2. gone \in [Row -> 0 .. MaxDay] /\ MaxRuns \in Nat /\ MaxDay \in Nat
  BY BackupBounds DEF Init
<1>3. TypeOK
  BY <1>1, <1>2, BackupActors DEF Init, TypeOK, Depth
<1>4. DOMAIN job = Fields
  BY NoJobFields DEF Init
<1>5. RunInv
  BY <1>2, <1>4 DEF Init, RunInv
<1> QED BY <1>3, <1>5
-----------------------------------------------------------------------------
(* Generations.                                                            *)

Dated(G) == \A g \in G : g.day \in 0 .. MaxDay

LEMMA DaysFinite ==
  ASSUME NEW G, Dated(G), NEW d
  PROVE  /\ Days(G) \subseteq 0 .. MaxDay
         /\ IsFiniteSet(Days(G)) /\ Cardinality(Days(G)) \in Nat
         /\ IsFiniteSet(Newer(G, d)) /\ Cardinality(Newer(G, d)) \in Nat
<1>1. Days(G) \subseteq 0 .. MaxDay
  BY DEF Days, Dated
<1>2. IsFiniteSet(0 .. MaxDay)
  BY FS_Interval, BackupBounds
<1>3. IsFiniteSet(Days(G))
  BY <1>1, <1>2, FS_Subset
<1>4. IsFiniteSet(Newer(G, d))
  BY <1>3, FS_Subset DEF Newer
<1> QED BY <1>1, <1>3, <1>4, FS_CardinalityType

(* If enough days are newer than a day, the newest of them are kept.       *)
LEMMA TopDays ==
  ASSUME NEW G, Dated(G), NEW d \in Nat, Cardinality(Newer(G, d)) >= KeepDays
  PROVE  Cardinality(Newer(Pruned(G), d)) >= KeepDays
<1>0. KeepDays \in Nat /\ MaxDay \in Nat
  BY BackupBounds
<1> DEFINE top == {x \in Days(G) : Cardinality(Newer(G, x)) < KeepDays}
<1>1. top \subseteq Days(Pruned(G))
  <2>1. ASSUME NEW x \in top PROVE x \in Days(Pruned(G))
    <3>1. PICK g \in G : g.day = x
      BY DEF Days
    <3>2. g \in Recent(G)
      BY <3>1 DEF Recent, Newer
    <3> QED BY <3>1, <3>2 DEF Pruned, Days
  <2> QED BY <2>1
<1>2. ASSUME NEW x \in top PROVE x > d
  <2>1. x \in Nat /\ Cardinality(Newer(G, x)) < KeepDays
    BY DaysFinite
  <2>2. SUFFICES ASSUME x <= d PROVE FALSE
    BY <2>1
  <2>3. Newer(G, d) \subseteq Newer(G, x)
    <3>1. \A e \in Days(G) : e \in Nat /\ (e > d => e > x)
      BY <2>1, <2>2, DaysFinite
    <3> QED BY <3>1 DEF Newer
  <2>4. Cardinality(Newer(G, d)) <= Cardinality(Newer(G, x))
    BY <2>3, DaysFinite, FS_Subset
  <2> QED BY <1>0, <2>1, <2>4, DaysFinite
<1>3. IsFiniteSet(top) /\ Cardinality(top) \in Nat
  BY DaysFinite, FS_Subset, FS_CardinalityType
<1>4. Cardinality(top) >= KeepDays
  <2>1. SUFFICES ASSUME Cardinality(top) < KeepDays PROVE FALSE
    BY <1>0, <1>3
  <2>2. Days(G) \ top # {}
    <3>1. SUFFICES ASSUME Days(G) \subseteq top PROVE FALSE
      OBVIOUS
    <3>2. Newer(G, d) \subseteq top
      BY <3>1 DEF Newer
    <3> HIDE DEF top
    <3>3. Cardinality(Newer(G, d)) <= Cardinality(top)
      BY <1>3, <3>2, FS_Subset
    <3> QED BY <1>0, <1>3, <2>1, <3>3, DaysFinite
  <2>3. PICK x \in Days(G) \ top : \A y \in Days(G) \ top : y <= x
    <3>1. Days(G) \ top \subseteq 0 .. MaxDay
      BY DaysFinite
    <3> HIDE DEF top
    <3> QED BY <1>0, <2>2, <3>1, Greatest
  <2>4. Newer(G, x) \subseteq top
    <3>1. ASSUME NEW e \in Days(G), e > x PROVE e \in top
      <4>1. e \in Nat /\ x \in Nat
        BY DaysFinite
      <4> HIDE DEF top
      <4> QED BY <2>3, <3>1, <4>1
    <3> HIDE DEF top
    <3> QED BY <3>1 DEF Newer
  <2>5. Cardinality(Newer(G, x)) <= Cardinality(top)
    <3> HIDE DEF top
    <3> QED BY <1>3, <2>4, FS_Subset
  <2>6. Cardinality(Newer(G, x)) \in Nat
    BY DaysFinite
  <2>7. Cardinality(Newer(G, x)) < KeepDays
    <3> HIDE DEF top
    <3> QED BY <1>0, <1>3, <2>1, <2>5, <2>6
  <2> QED BY <2>3, <2>7
<1>5. top \subseteq Newer(Pruned(G), d)
  BY <1>1, <1>2 DEF Newer
<1>6. Dated(Pruned(G))
  BY PrunedIsPart DEF Dated
<1> HIDE DEF top
<1>7. /\ Cardinality(top) <= Cardinality(Newer(Pruned(G), d))
      /\ Cardinality(Newer(Pruned(G), d)) \in Nat
  BY <1>5, <1>6, DaysFinite, FS_Subset
<1> QED BY <1>0, <1>3, <1>4, <1>7

(* A prune gives a row up only when enough newer days are kept.            *)
LEMMA PruneIsSafe ==
  ASSUME NEW G, Dated(G), NEW d \in Nat, NEW r, SafeIn(G, d, r)
  PROVE  SafeIn(Pruned(G), d, r)
<1>0. KeepDays \in Nat
  BY BackupBounds
<1>1. CASE Cardinality(Newer(G, d)) >= KeepDays
  BY <1>1, TopDays DEF SafeIn
<1>2. ASSUME NEW g \in G, r \in Readable(g.dir), d <= g.day
      PROVE  SafeIn(Pruned(G), d, r)
  <2>1. CASE g \in Pruned(G)
    BY <1>2, <2>1 DEF SafeIn
  <2>2. CASE g \notin Pruned(G)
    <3>1. ~(Cardinality(Newer(G, g.day)) < KeepDays)
      BY <2>2 DEF Pruned, Recent, Newer
    <3>2. Newer(G, g.day) \subseteq Newer(G, d)
      <4>1. g.day \in Nat /\ \A e \in Days(G) : e \in Nat
        BY DaysFinite DEF Dated
      <4>2. \A e \in Days(G) : e > g.day => e > d
        BY <1>2, <4>1
      <4> QED BY <4>2 DEF Newer
    <3>3. Cardinality(Newer(G, g.day)) <= Cardinality(Newer(G, d))
      BY <3>2, DaysFinite, FS_Subset
    <3>4. Cardinality(Newer(G, d)) >= KeepDays
      <4>1. Cardinality(Newer(G, d)) \in Nat /\ Cardinality(Newer(G, g.day)) \in Nat
        BY DaysFinite
      <4> QED BY <1>0, <3>1, <3>3, <4>1
    <3> QED BY <1>1, <3>4
  <2> QED BY <2>1, <2>2
<1> QED BY <1>1, <1>2 DEF SafeIn

LEMMA MoreIsSafe ==
  ASSUME NEW G, NEW H, G \subseteq H, Dated(H), NEW d \in Nat, NEW r, SafeIn(G, d, r)
  PROVE  SafeIn(H, d, r)
<1>1. CASE \E g \in G : r \in Readable(g.dir) /\ d <= g.day
  BY <1>1 DEF SafeIn
<1>2. CASE Cardinality(Newer(G, d)) >= KeepDays
  <2>1. Dated(G) /\ Newer(G, d) \subseteq Newer(H, d)
    BY DEF Newer, Days, Dated
  <2>2. Cardinality(Newer(G, d)) <= Cardinality(Newer(H, d))
    BY <2>1, DaysFinite, FS_Subset
  <2>3. Cardinality(Newer(G, d)) \in Nat /\ Cardinality(Newer(H, d)) \in Nat /\ KeepDays \in Nat
    BY <2>1, DaysFinite, BackupBounds
  <2> QED BY <1>2, <2>2, <2>3 DEF SafeIn
<1> QED BY <1>1, <1>2 DEF SafeIn

LEMMA NewestIsKept ==
  ASSUME NEW G, Dated(G), NEW g \in G, \A h \in G : h.day <= g.day
  PROVE  g \in Pruned(G)
<1>1. Newer(G, g.day) = {}
  <2>1. \A h \in G : ~(h.day > g.day)
    BY DEF Dated
  <2> QED BY <2>1 DEF Newer, Days
<1>2. Cardinality(Newer(G, g.day)) = 0
  BY <1>1, FS_EmptySet
<1>3. Cardinality(Newer(G, g.day)) < KeepDays
  BY <1>2, BackupBounds
<1> QED BY <1>3 DEF Pruned, Recent, Newer
-----------------------------------------------------------------------------
(* Nothing that a finished run left is gone for good.                      *)

Running == {"lock", "enter", "copy", "delete"}

(* Steps that leave the mirror and its generations alone.                  *)
LEMMA ElsewhereIsSafe ==
  ASSUME GenInv, UNCHANGED <<dst, kept, gone, gens>>,
         \A g \in gens : g.day <= day', manifest' = NoManifest => kept = {}
  PROVE  /\ \A g \in gens' : g.day <= day'
         /\ manifest' = NoManifest => kept' = {}
         /\ \A r \in kept' \ Readable(dst') : Safe(r)'
<1>1. \A r \in kept \ Readable(dst) : Safe(r)' <=> Safe(r)
  BY DEF Safe
<1> QED BY <1>1 DEF GenInv

LEMMA StaysSafe ==
  ASSUME TypeOK, RunInv, GenInv, [Next]_vars,
         UNCHANGED <<dst, kept, gone, gens, manifest, pc, job, day>>
  PROVE  GenInv'
<1>1. pc \in {"copy", "delete"} => src' = src
  BY KeepsStill DEF TypeOK
<1>2. \A r : Fresh(r)' <=> Fresh(r)
  BY DEF Fresh
<1>3. pc \in {"copy", "delete"} => \A p : /\ Mirrored(p)' <=> Mirrored(p)
                                          /\ RowsIn(dst, p)' = RowsIn(dst, p)
  BY <1>1 DEF Mirrored, RowsIn
<1>4. /\ \A g \in gens' : g.day <= day'
      /\ manifest' = NoManifest => kept' = {}
      /\ \A r \in kept' \ Readable(dst') : Safe(r)'
  BY ElsewhereIsSafe DEF GenInv
<1> QED BY <1>2, <1>3, <1>4 DEF GenInv

LEMMA IdleIsSafe ==
  ASSUME TypeOK, RunInv, GenInv, UNCHANGED <<dst, kept, gone, gens, manifest>>,
         day' \in {day, day + 1}, pc' \notin Running
  PROVE  GenInv'
<1>1. \A g \in gens : g.day <= day'
  BY DEF GenInv, TypeOK, RunInv
<1>2. /\ \A g \in gens' : g.day <= day'
      /\ manifest' = NoManifest => kept' = {}
      /\ \A r \in kept' \ Readable(dst') : Safe(r)'
  BY <1>1, ElsewhereIsSafe DEF GenInv
<1> QED BY <1>2 DEF GenInv, Running

LEMMA SnapshotIsSafe ==
  ASSUME TypeOK, RunInv, GenInv, Snapshot
  PROVE  GenInv'
<1>0. /\ UNCHANGED <<dst, kept, gone, day, manifest>> /\ pc' = "lock"
      /\ gone \in [Row -> 0 .. MaxDay] /\ kept \in SUBSET Row /\ day \in 0 .. MaxDay
      /\ DOMAIN job = Fields
  BY DEF Snapshot, TypeOK, RunInv, mirror, Goto
<1>1. CASE manifest = NoManifest
  <2>1. kept = {} /\ gens' = gens
    BY <1>1 DEF GenInv, Snapshot
  <2> QED BY <1>0, <2>1 DEF GenInv
<1>2. CASE UNCHANGED gens /\ job' = [job EXCEPT !.blind = TRUE]
  <2>1. job'.blind
    BY <1>0, <1>2 DEF Fields
  <2>2. /\ \A g \in gens' : g.day <= day'
        /\ manifest' = NoManifest => kept' = {}
        /\ \A r \in kept' \ Readable(dst') : Safe(r)'
    BY <1>0, <1>2, ElsewhereIsSafe DEF GenInv
  <2> QED BY <1>0, <2>1, <2>2 DEF GenInv
<1>3. ASSUME manifest # NoManifest,
             gens' = Pruned(gens \cup {[nr |-> runs, day |-> day, dir |-> dst, depth |-> manifest]})
      PROVE  GenInv'
  <2> DEFINE new == [nr |-> runs, day |-> day, dir |-> dst, depth |-> manifest]
             all == gens \cup {new}
  <2>1. new.day = day /\ new.dir = dst
    OBVIOUS
  <2>2. gens' = Pruned(all)
    BY <1>3
  <2> HIDE DEF new
  <2>3. Dated(all) /\ \A g \in all : g.day <= new.day
    <3>1. \A g \in gens : g.day \in 0 .. MaxDay /\ g.day <= day
      BY DEF TypeOK, GenInv
    <3> QED BY <1>0, <2>1, <3>1 DEF Dated
  <2>4. new \in all /\ gens \subseteq all
    OBVIOUS
  <2> HIDE DEF all
  <2>5. new \in gens'
    BY <2>2, <2>3, <2>4, NewestIsKept
  <2>6. \A g \in gens' : g.day <= day'
    BY <1>0, <2>1, <2>2, <2>3, PrunedIsPart
  <2>7. ASSUME NEW r \in kept' \ Readable(dst') PROVE Safe(r)'
    <3>1. gone[r] \in Nat /\ SafeIn(gens, gone[r], r)
      BY <1>0, <2>7 DEF GenInv, Safe
    <3> DEFINE d == gone[r]
    <3> HIDE DEF d
    <3>2. SafeIn(all, d, r)
      BY <2>3, <2>4, <3>1, MoreIsSafe DEF d
    <3>3. SafeIn(Pruned(all), d, r)
      BY <2>3, <3>1, <3>2, PruneIsSafe DEF d
    <3> QED BY <1>0, <2>2, <3>3 DEF d, Safe, SafeIn
  <2>8. ASSUME NEW r \in kept' \cap Readable(dst') PROVE Fresh(r)'
    BY <1>0, <2>1, <2>5, <2>8 DEF Fresh
  <2>9. manifest' = NoManifest => kept' = {}
    BY <1>0 DEF GenInv
  <2> QED BY <1>0, <2>6, <2>7, <2>8, <2>9 DEF GenInv
<1> QED BY <1>1, <1>2, <1>3 DEF Snapshot

LEMMA EnterIsSafe ==
  ASSUME TypeOK, RunInv, GenInv, TryRebalance \/ Enter
  PROVE  GenInv'
<1>1. /\ UNCHANGED <<dst, kept, gone, gens, manifest, day>>
      /\ pc \in {"lock", "enter"} /\ pc' \in {"enter", "copy"}
      /\ job'.blind = job.blind
  BY DEF TryRebalance, Enter, mirror, bounds, Goto, RunInv, Fields
<1>2. \A r : Fresh(r)' <=> Fresh(r)
  BY <1>1 DEF Fresh
<1>3. /\ \A g \in gens' : g.day <= day'
      /\ manifest' = NoManifest => kept' = {}
      /\ \A r \in kept' \ Readable(dst') : Safe(r)'
  BY <1>1, ElsewhereIsSafe DEF GenInv
<1> QED BY <1>1, <1>2, <1>3 DEF GenInv

LEMMA PlanIsSafe ==
  ASSUME TypeOK, RunInv, GenInv, CopyManifest \/ PlanDeletes
  PROVE  GenInv'
<1>1. /\ UNCHANGED <<src, dst, kept, gone, gens, day>>
      /\ pc = "copy" /\ pc' \in {"copy", "delete"}
      /\ job'.blind = job.blind /\ job'.todo = job.todo
  BY DEF CopyManifest, PlanDeletes, truths, mirror, bounds, Goto, RunInv, Fields
<1>2. \A r : Fresh(r)' <=> Fresh(r)
  BY <1>1 DEF Fresh
<1>3. \A p : (Mirrored(p)' <=> Mirrored(p)) /\ RowsIn(dst, p)' = RowsIn(dst, p)
  BY <1>1 DEF Mirrored, RowsIn
<1>4. manifest' = NoManifest => kept = {}
  <2>1. manifest' = manifest \/ manifest' = depth
    BY DEF CopyManifest, PlanDeletes, mirror
  <2>2. depth # NoManifest
    BY BackupBatches DEF TypeOK, Depth
  <2> QED BY <2>1, <2>2 DEF GenInv
<1>5. /\ \A g \in gens' : g.day <= day'
      /\ manifest' = NoManifest => kept' = {}
      /\ \A r \in kept' \ Readable(dst') : Safe(r)'
  BY <1>1, <1>4, ElsewhereIsSafe DEF GenInv
<1> QED BY <1>1, <1>2, <1>3, <1>5 DEF GenInv

(* A change of one file that no copy of this run is in.                    *)
LEMMA ChangeIsSafe ==
  ASSUME TypeOK, RunInv, GenInv, NEW p \in Path, ~Mirrored(p), NEW dir, Change(dir),
         \A q \in DOMAIN dst \ {p} : q \in DOMAIN dir /\ dir[q] = dst[q],
         \A q \in DOMAIN dir \ {p} : q \in DOMAIN dst,
         UNCHANGED <<src, manifest, gens, day>>, pc \in {"copy", "delete"}, pc' = pc,
         job'.blind = job.blind, job'.todo \subseteq job.todo,
         p \in DOMAIN dir => p \in DOMAIN src \ job'.todo
  PROVE  GenInv'
<1> DEFINE out == Readable(dst) \ Readable(dir)
<1>0. /\ dst' = dir
      /\ gone' = [r \in Row |-> IF r \in out THEN day ELSE gone[r]]
      /\ kept' = IF job.blind THEN kept \ out ELSE kept
      /\ kept \in SUBSET Row /\ day \in 0 .. MaxDay
  BY DEF Change, TypeOK, RunInv
<1>1. \A g \in gens' : g.day <= day'
  BY DEF GenInv
<1>2. manifest' = NoManifest => kept' = {}
  BY <1>0 DEF GenInv
<1>3. \A q : Mirrored(q) => /\ q # p /\ Mirrored(q)'
                            /\ RowsIn(dst, q)' = RowsIn(dst, q)
  BY <1>0 DEF Mirrored, RowsIn
<1>4. \A q : Mirrored(q) => RowsIn(dst, q) \subseteq Readable(dst')
  <2>1. ASSUME NEW q, Mirrored(q) PROVE RowsIn(dst, q) \subseteq Readable(dst')
    <3>1. q \in DOMAIN dir /\ RowsIn(dir, q) = RowsIn(dst, q)
      BY <1>3, <2>1 DEF Mirrored, RowsIn
    <3> QED BY <1>0, <3>1, RowsInDir
  <2> QED BY <2>1
<1>5. ASSUME NEW r \in kept' \ Readable(dst') PROVE Safe(r)'
  <2>1. r \in kept /\ r \in Row
    BY <1>0, <1>5
  <2>2. CASE r \notin Readable(dst)
    <3>1. gone'[r] = gone[r] /\ Safe(r)
      BY <1>0, <2>1, <2>2 DEF GenInv
    <3> QED BY <3>1 DEF Safe
  <2>3. CASE r \in Readable(dst)
    <3>1. r \in out /\ ~job.blind /\ gone'[r] = day
      BY <1>0, <1>5, <2>1, <2>3
    <3>2. Fresh(r) \/ \E q \in Path : Mirrored(q) /\ r \in RowsIn(dst, q)
      BY <2>1, <2>3, <3>1 DEF GenInv
    <3>3. PICK g \in gens : r \in Readable(g.dir) /\ g.day = day
      BY <1>4, <1>5, <3>2 DEF Fresh
    <3>4. gone'[r] <= g.day
      BY <1>0, <3>1, <3>3
    <3> QED BY <3>3, <3>4 DEF Safe, SafeIn
  <2> QED BY <2>2, <2>3
<1>6. ASSUME ~job'.blind, NEW r \in kept' \cap Readable(dst')
      PROVE  Fresh(r)' \/ \E q \in Path : Mirrored(q)' /\ r \in RowsIn(dst, q)'
  <2>1. r \in kept /\ ~job.blind
    BY <1>0, <1>6
  <2>2. CASE r \in Readable(dst)
    <3>1. Fresh(r) \/ \E q \in Path : Mirrored(q) /\ r \in RowsIn(dst, q)
      BY <2>1, <2>2 DEF GenInv
    <3>2. Fresh(r) => Fresh(r)'
      BY DEF Fresh
    <3> QED BY <1>3, <3>1, <3>2
  <2>3. CASE r \notin Readable(dst)
    <3>1. PICK q \in DOMAIN dir : r \in RowsIn(dir, q)
      BY <1>0, <1>6, RowsInDir
    <3>2. q = p
      <4>1. SUFFICES ASSUME q # p PROVE FALSE
        OBVIOUS
      <4>2. q \in DOMAIN dst /\ RowsIn(dst, q) = RowsIn(dir, q)
        BY <4>1 DEF RowsIn
      <4> QED BY <2>3, <3>1, <4>2, RowsInDir
    <3>3. Mirrored(p)' /\ r \in RowsIn(dst, p)'
      BY <1>0, <3>1, <3>2 DEF Mirrored, RowsIn
    <3> QED BY <3>3
  <2> QED BY <2>2, <2>3
<1> QED BY <1>1, <1>2, <1>5, <1>6 DEF GenInv

LEMMA CopyIsSafe ==
  ASSUME TypeOK, RunInv, GenInv, NEW p \in Path, Copy(p)
  PROVE  GenInv'
<1>1. /\ UNCHANGED <<src, manifest, gens, day>> /\ pc = "copy" /\ pc' = "copy"
      /\ p \in job.todo /\ p \in DOMAIN src
      /\ job'.blind = job.blind /\ job'.todo = job.todo \ {p}
  BY DEF Copy, truths, bounds, RunInv, Fields
<1>2. ~Mirrored(p)
  BY <1>1 DEF Mirrored
<1>3. CASE UNCHANGED <<dst, gone, kept>>
  <2>1. \A r : Fresh(r)' <=> Fresh(r)
    BY <1>1 DEF Fresh
  <2>2. \A q : Mirrored(q) => Mirrored(q)' /\ RowsIn(dst, q)' = RowsIn(dst, q)
    BY <1>1, <1>3 DEF Mirrored, RowsIn
  <2>3. /\ \A g \in gens' : g.day <= day'
        /\ manifest' = NoManifest => kept' = {}
        /\ \A r \in kept' \ Readable(dst') : Safe(r)'
    BY <1>1, <1>3, ElsewhereIsSafe DEF GenInv
  <2> QED BY <1>1, <1>3, <2>1, <2>2, <2>3 DEF GenInv
<1>4. CASE Change(With(dst, p, src[p].lines, src[p].mtime))
  <2> DEFINE dir == With(dst, p, src[p].lines, src[p].mtime)
  <2>1. /\ DOMAIN dir = DOMAIN dst \cup {p}
        /\ \A q \in DOMAIN dst \ {p} : dir[q] = dst[q]
    BY DEF With
  <2>2. Change(dir)
    BY <1>4
  <2> HIDE DEF dir
  <2>3. /\ \A q \in DOMAIN dst \ {p} : q \in DOMAIN dir /\ dir[q] = dst[q]
        /\ \A q \in DOMAIN dir \ {p} : q \in DOMAIN dst
        /\ p \in DOMAIN dir => p \in DOMAIN src \ job'.todo
    BY <1>1, <2>1
  <2> QED BY <1>1, <1>2, <2>2, <2>3, ChangeIsSafe
<1> QED BY <1>3, <1>4 DEF Copy

LEMMA DeleteIsSafe ==
  ASSUME TypeOK, RunInv, GenInv, NEW p \in Path, Delete(p)
  PROVE  GenInv'
<1>1. /\ UNCHANGED <<src, manifest, gens, day>> /\ pc = "delete" /\ pc' = "delete"
      /\ p \notin DOMAIN src /\ Change(Without(dst, {p}))
      /\ job'.blind = job.blind /\ job'.todo = job.todo
  BY DEF Delete, truths, bounds, RunInv, Fields
<1>2. ~Mirrored(p)
  BY <1>1 DEF Mirrored
<1> DEFINE dir == Without(dst, {p})
<1>3. /\ DOMAIN dir = DOMAIN dst \ {p}
      /\ \A q \in DOMAIN dst \ {p} : dir[q] = dst[q]
  BY WithoutFacts
<1>4. Change(dir)
  BY <1>1
<1> HIDE DEF dir
<1>5. /\ \A q \in DOMAIN dst \ {p} : q \in DOMAIN dir /\ dir[q] = dst[q]
      /\ \A q \in DOMAIN dir \ {p} : q \in DOMAIN dst
      /\ p \in DOMAIN dir => p \in DOMAIN src \ job'.todo
  BY <1>3
<1> QED BY <1>1, <1>2, <1>4, <1>5, ChangeIsSafe

LEMMA UnlockIsSafe ==
  ASSUME TypeOK, RunInv, GenInv, manifest # NoManifest, Unlock
  PROVE  GenInv'
<1>1. /\ UNCHANGED <<dst, gone, gens, manifest, day>> /\ pc' = "check"
      /\ kept' = kept \cup Readable(dst)
  BY DEF Unlock, bounds, Goto
<1>2. kept' \ Readable(dst') = kept \ Readable(dst)
  BY <1>1
<1>3. \A r : Safe(r)' <=> Safe(r)
  BY <1>1 DEF Safe
<1> QED BY <1>1, <1>2, <1>3 DEF GenInv

(* A run that deletes has copied the manifest.                             *)
LEMMA LabelStep ==
  ASSUME TypeOK, RunInv, Labelled, [Next]_vars
  PROVE  Labelled'
<1>0. DOMAIN job = Fields /\ depth # NoManifest /\ NoJob.copied = FALSE
  BY BackupBatches DEF TypeOK, RunInv, Depth, NoJob
<1>1. manifest # NoManifest => manifest' # NoManifest
  <2>1. ASSUME NEW p \in Path, Copy(p) \/ Delete(p) PROVE UNCHANGED manifest
    BY <2>1 DEF Copy, Delete
  <2> QED BY <1>0, <2>1, MirrorMoves DEF CopyManifest, Unlock
<1>2. CASE UNCHANGED <<job, pc>>
  BY <1>1, <1>2 DEF Labelled
<1>3. CASE UNCHANGED vars \/ Session \/ SweepStep \/ KillSweep \/ Repair \/ NextDay
  <2>1. UNCHANGED <<job, pc>>
    BY <1>3 DEF vars, Session, Drain, Commit, Die, SweepStep, StartSweep, EnterMoves, Move, EndSweep,
                KillSweep, LeaveSweep, Repair, NextDay
  <2> QED BY <1>2, <2>1
<1>4. CASE Harm
  <2>1. UNCHANGED <<job, pc>>
    BY <1>4 DEF Harm, Truncate, Corrupt, Lose, Reinstall, Restore, Fault
  <2> QED BY <1>2, <2>1
<1>5. CASE Verify \/ Report \/ KillBackup
  <2>1. ~job'.copied /\ pc' # "delete"
    BY <1>0, <1>5 DEF Verify, Report, KillBackup, Goto, NoJob
  <2> QED BY <2>1 DEF Labelled
<1>6. CASE Snapshot \/ TryRebalance \/ Enter \/ Unlock
  <2>1. job'.copied = job.copied /\ pc' # "delete"
    BY <1>0, <1>6 DEF Snapshot, TryRebalance, Enter, Unlock, Goto, Fields
  <2> QED BY <1>1, <2>1 DEF Labelled
<1>7. ASSUME NEW p \in Path, Copy(p) \/ Delete(p)
      PROVE  Labelled'
  <2>1. job'.copied = job.copied /\ pc' = pc
    BY <1>0, <1>7 DEF Copy, Delete, Fields
  <2> QED BY <1>1, <2>1 DEF Labelled
<1>8. CASE CopyManifest
  BY <1>0, <1>8 DEF CopyManifest, Labelled
<1>9. CASE PlanDeletes
  <2>1. job'.copied = job.copied /\ job.copied
    BY <1>0, <1>9 DEF PlanDeletes, Fields
  <2> QED BY <1>1, <2>1 DEF Labelled
<1> QED BY <1>3, <1>4, <1>5, <1>6, <1>7, <1>8, <1>9 DEF Next, MirrorStep

LEMMA GenStep ==
  ASSUME TypeOK, RunInv, GenInv, Labelled, [Next]_vars
  PROVE  GenInv'
<1>1. CASE UNCHANGED <<dst, kept, gone, gens, manifest, pc, job, day>>
  BY <1>1, StaysSafe
<1>2. CASE UNCHANGED vars \/ Session \/ SweepStep \/ KillSweep \/ Repair
  <2>1. UNCHANGED <<dst, kept, gone, gens, manifest, pc, job, day>>
    BY <1>2 DEF vars, mirror, bounds, Session, Drain, Commit, Die, SweepStep, StartSweep, EnterMoves,
                Move, EndSweep, KillSweep, LeaveSweep, Repair
  <2> QED BY <1>1, <2>1
<1>3. CASE Harm
  <2>1. UNCHANGED <<dst, kept, gone, gens, manifest, pc, job, day>>
    BY <1>3 DEF Harm, mirror, Truncate, Corrupt, Lose, Reinstall, Restore, Fault
  <2> QED BY <1>1, <2>1
<1>4. CASE NextDay \/ Verify \/ Report \/ KillBackup
  <2>1. /\ UNCHANGED <<dst, kept, gone, gens, manifest>>
        /\ day' \in {day, day + 1} /\ pc' \notin Running
    BY <1>4 DEF NextDay, Verify, Report, KillBackup, Running, mirror, bounds, Goto
  <2> QED BY <2>1, IdleIsSafe
<1>5. CASE Snapshot
  BY <1>5, SnapshotIsSafe
<1>6. CASE TryRebalance \/ Enter
  BY <1>6, EnterIsSafe
<1>7. CASE CopyManifest \/ PlanDeletes
  BY <1>7, PlanIsSafe
<1>8. ASSUME NEW p \in Path, Copy(p) \/ Delete(p)
      PROVE  GenInv'
  BY <1>8, CopyIsSafe, DeleteIsSafe
<1>9. CASE Unlock
  <2>1. manifest # NoManifest
    BY <1>9 DEF Unlock, Labelled
  <2> QED BY <1>9, <2>1, UnlockIsSafe
<1> QED BY <1>2, <1>3, <1>4, <1>5, <1>6, <1>7, <1>8, <1>9 DEF Next, MirrorStep

LEMMA GenInit == Init => GenInv /\ Labelled
<1> SUFFICES ASSUME Init PROVE GenInv /\ Labelled
  OBVIOUS
<1>1. gens = {} /\ kept = {} /\ pc = "idle" /\ job.copied = FALSE
  BY DEF Init, NoJob
<1> QED BY <1>1 DEF GenInv, Labelled

MirrorInv == TypeOK /\ RunInv /\ GenInv /\ Labelled

LEMMA MirrorInvHolds == Spec => []MirrorInv
<1>1. Init => MirrorInv
  BY TypeInit, GenInit DEF MirrorInv
<1>2. MirrorInv /\ [Next]_vars => MirrorInv'
  BY TypeStep, RunStep, GenStep, LabelStep DEF MirrorInv
<1> QED BY <1>1, <1>2, PTL DEF Spec

(* Every file of the truth, the mirror and the generations is a file,      *)
(* whatever is appended, moved, damaged, repaired or restored; the mutex   *)
(* is the mirror's exactly while it traverses (backup.py 656-676).         *)
THEOREM BackupTypesHold == Spec => []TypeOK
<1>1. MirrorInv => TypeOK
  BY DEF MirrorInv
<1> QED BY <1>1, MirrorInvHolds, PTL

(* What a finished run left in the mirror and a later one took out is in a *)
(* generation until KeepDays newer days have one, however often runs are   *)
(* killed and the truth is damaged (_snapshot_generation, backup.py        *)
(* 391-462).                                                               *)
THEOREM NothingDestroyedForGood == Spec => []DestroyedIsRecoverable
<1>1. MirrorInv => DestroyedIsRecoverable
  <2>1. ASSUME MirrorInv, NEW r \in kept \ Readable(dst)
        PROVE  \/ \E g \in gens : r \in Readable(g.dir)
               \/ Cardinality({d \in Days(gens) : d > gone[r]}) >= KeepDays
    <3>1. Safe(r)
      BY <2>1 DEF MirrorInv, GenInv
    <3> QED BY <3>1 DEF Safe, SafeIn, Newer
  <2> QED BY <2>1 DEF DestroyedIsRecoverable
<1> QED BY <1>1, MirrorInvHolds, PTL
-----------------------------------------------------------------------------
(* Batches.                                                                *)

LEMMA RowOf ==
  ASSUME NEW dir, NEW r
  PROVE  r \in Readable(dir) <=> \E p \in DOMAIN dir : r \in RowsIn(dir, p)
BY RowsInDir

LEMMA AppendSet ==
  ASSUME NEW S, NEW l \in Seq(S), NEW e \in S
  PROVE  ToSet(Append(l, e)) = ToSet(l) \cup {e}
<1>1. /\ Append(l, e) \in Seq(S) /\ Len(Append(l, e)) = Len(l) + 1
      /\ \A i \in 1 .. Len(l) : Append(l, e)[i] = l[i]
      /\ Append(l, e)[Len(l) + 1] = e
  OBVIOUS
<1> DEFINE m == Append(l, e)
<1>2. DOMAIN m = 1 .. Len(l) + 1 /\ DOMAIN l = 1 .. Len(l) /\ Len(l) \in Nat
  BY <1>1
<1> HIDE DEF m
<1>3. /\ \A i \in 1 .. Len(l) : i \in DOMAIN m /\ m[i] = l[i]
      /\ Len(l) + 1 \in DOMAIN m /\ m[Len(l) + 1] = e
  BY <1>1, <1>2 DEF m
<1>4. \A i \in DOMAIN m : i \in 1 .. Len(l) \/ i = Len(l) + 1
  BY <1>2
<1>5. ToSet(m) = ToSet(l) \cup {e}
  BY <1>2, <1>3, <1>4 DEF ToSet
<1> QED BY <1>5 DEF m

LEMMA ConcatSet ==
  ASSUME NEW S, NEW l \in Seq(S), NEW m \in Seq(S)
  PROVE  ToSet(l \o m) = ToSet(l) \cup ToSet(m)
<1> DEFINE n == l \o m
<1>1. /\ DOMAIN n = 1 .. Len(l) + Len(m) /\ DOMAIN l = 1 .. Len(l) /\ DOMAIN m = 1 .. Len(m)
      /\ Len(l) \in Nat /\ Len(m) \in Nat
      /\ \A i \in 1 .. Len(l) + Len(m) : n[i] = IF i <= Len(l) THEN l[i] ELSE m[i - Len(l)]
  BY ConcatProperties
<1> HIDE DEF n
<1>2. \A i \in DOMAIN l : i \in DOMAIN n /\ n[i] = l[i]
  BY <1>1
<1>3. \A i \in DOMAIN m : i + Len(l) \in DOMAIN n /\ n[i + Len(l)] = m[i]
  BY <1>1
<1>4. \A i \in DOMAIN n : \/ i \in DOMAIN l /\ n[i] = l[i]
                          \/ i - Len(l) \in DOMAIN m /\ n[i] = m[i - Len(l)]
  BY <1>1
<1>5. ToSet(n) = ToSet(l) \cup ToSet(m)
  BY <1>2, <1>3, <1>4 DEF ToSet
<1> QED BY <1>5 DEF n

(* A move makes rows change files, not threads.                            *)
LEMMA MoveFacts ==
  ASSUME TypeOK, NEW p \in Path, Move(p), NEW q, q = <<p[1], depth>>
  PROVE  /\ q # p /\ p \in DOMAIN src /\ p[2] < depth
         /\ DOMAIN src' = (DOMAIN src \cup {q}) \ {p}
         /\ \A x \in DOMAIN src' \ {q} : src'[x] = src[x]
         /\ src'[q].lines = LinesOf(src, q) \o src[p].lines
         /\ UNCHANGED <<depth, index, session, drained, dst, pc, job>>
<1>0. p \in DOMAIN src /\ p[2] < depth /\ depth \in Depth /\ IsDir(src) /\ p[2] \in Depth
  BY DEF Move, Flat, TypeOK, Path
<1>1. q # p
  BY <1>0 DEF Depth
<1>2. UNCHANGED <<depth, index, session, drained, dst, pc, job>>
  BY DEF Move, mirror
<1>3. src[p].lines \in Seq(Content)
  BY <1>0, DirShape DEF File
<1>4. PICK l, t : /\ src' = Without(With(src, q, l, t), {p})
                  /\ l = IF q \in DOMAIN src THEN src[q].lines \o src[p].lines ELSE src[p].lines
  <2>1. CASE q \in DOMAIN src
    BY <2>1 DEF Move
  <2>2. CASE q \notin DOMAIN src
    BY <2>2 DEF Move
  <2> QED BY <2>1, <2>2
<1>5. l = LinesOf(src, q) \o src[p].lines
  BY <1>3, <1>4, ConcatEmptySeq DEF LinesOf
<1> DEFINE w == With(src, q, l, t)
<1>6. /\ DOMAIN w = DOMAIN src \cup {q} /\ w[q].lines = l
      /\ \A x \in DOMAIN src \ {q} : w[x] = src[x]
  BY DEF With
<1> HIDE DEF w
<1>7. DOMAIN src' = DOMAIN w \ {p} /\ \A x \in DOMAIN w \ {p} : src'[x] = w[x]
  BY <1>4 DEF w, Without, Restrict
<1> QED BY <1>0, <1>1, <1>2, <1>5, <1>6, <1>7

LEMMA MoveKeepsRows ==
  ASSUME TypeOK, NEW p \in Path, Move(p)
  PROVE  /\ Readable(src') = Readable(src)
         /\ (\A x \in DOMAIN src : Damaged \notin ToSet(src[x].lines)) =>
               \A x \in DOMAIN src' : Damaged \notin ToSet(src'[x].lines)
<1> DEFINE q == <<p[1], depth>>
<1>0. q[1] = p[1] /\ IsDir(src)
  BY DEF TypeOK
<1>1. /\ q # p /\ p \in DOMAIN src
      /\ DOMAIN src' = (DOMAIN src \cup {q}) \ {p}
      /\ \A x \in DOMAIN src' \ {q} : src'[x] = src[x]
      /\ src'[q].lines = LinesOf(src, q) \o src[p].lines
  BY MoveFacts
<1> HIDE DEF q
<1>2. ToSet(src'[q].lines) = ToSet(LinesOf(src, q)) \cup ToSet(src[p].lines)
  <2>1. LinesOf(src, q) \in Seq(Content) /\ src[p].lines \in Seq(Content)
    BY <1>0, <1>1, LinesType, DirShape DEF File
  <2> QED BY <1>1, <2>1, ConcatSet
<1>3. ToSet(LinesOf(src, q)) = IF q \in DOMAIN src THEN ToSet(src[q].lines) ELSE {}
  BY DEF LinesOf, ToSet
<1>4. RowsIn(src', q) = RowsIn(src, p) \cup IF q \in DOMAIN src THEN RowsIn(src, q) ELSE {}
  BY <1>0, <1>2, <1>3 DEF RowsIn
<1>5. \A x \in DOMAIN src' \ {q} : RowsIn(src', x) = RowsIn(src, x)
  BY <1>1 DEF RowsIn
<1>6. ASSUME NEW r PROVE r \in Readable(src') <=> r \in Readable(src)
  <2>1. q \in DOMAIN src'
    BY <1>1
  <2>2. (\E x \in DOMAIN src' : r \in RowsIn(src', x)) <=> (\E x \in DOMAIN src : r \in RowsIn(src, x))
    BY <1>1, <1>4, <1>5, <2>1
  <2> QED BY <2>2, RowOf
<1>7. ASSUME \A x \in DOMAIN src : Damaged \notin ToSet(src[x].lines), NEW x \in DOMAIN src'
      PROVE  Damaged \notin ToSet(src'[x].lines)
  BY <1>1, <1>2, <1>3, <1>7
<1>8. Readable(src') = Readable(src)
  BY <1>6
<1> QED BY <1>7, <1>8

LEMMA DrainFacts ==
  ASSUME TypeOK, NEW b \in Batch, Drain(b), NEW new, new = Touches[b] \X {depth}
  PROVE  /\ DOMAIN src' = DOMAIN src \cup new /\ new \subseteq Path
         /\ \A p \in new : src'[p].lines = Append(LinesOf(src, p), b)
         /\ \A p \in DOMAIN src \ new : src'[p] = src[p]
         /\ UNCHANGED <<depth, index, dst, pc, job>>
         /\ session' = b /\ drained' = Append(drained, b) /\ mutex = Nobody
<1>1. new \subseteq Path
  BY BackupBatches DEF Path, TypeOK
<1>2. /\ DOMAIN src' = DOMAIN src \cup new
      /\ \A p \in new : src'[p] = [lines |-> Append(LinesOf(src, p), b), mtime |-> now']
      /\ \A p \in DOMAIN src \ new : src'[p] = src[p]
  BY DEF Drain
<1> QED BY <1>1, <1>2 DEF Drain, mirror

LEMMA DrainAddsBatch ==
  ASSUME TypeOK, NEW b \in Batch, Drain(b)
  PROVE  /\ Readable(src') = Readable(src) \cup RowsOf(b)
         /\ Drained' = Drained \cup RowsOf(b)
         /\ b \in ToSet(drained')
         /\ (\A x \in DOMAIN src : Damaged \notin ToSet(src[x].lines)) =>
               \A x \in DOMAIN src' : Damaged \notin ToSet(src'[x].lines)
<1> DEFINE new == Touches[b] \X {depth}
<1>0. IsDir(src) /\ drained \in Seq(Batch) /\ b \in Content /\ b # Damaged
  BY BackupBatches DEF TypeOK, Content
<1>1. /\ DOMAIN src' = DOMAIN src \cup new
      /\ \A p \in new : src'[p].lines = Append(LinesOf(src, p), b)
      /\ \A p \in DOMAIN src \ new : src'[p] = src[p]
      /\ drained' = Append(drained, b)
  BY DrainFacts
<1>2. RowsOf(b) = {<<b, p[1]>> : p \in new}
  <2>1. \A t \in Touches[b] : <<t, depth>> \in new /\ <<t, depth>>[1] = t
    OBVIOUS
  <2>2. \A p \in new : p[1] \in Touches[b]
    OBVIOUS
  <2>3. \A r : r \in RowsOf(b) <=> \E t \in Touches[b] : r = <<b, t>>
    BY DEF RowsOf
  <2>4. \A r : (\E t \in Touches[b] : r = <<b, t>>) <=> \E p \in new : r = <<b, p[1]>>
    <3> HIDE DEF new
    <3> QED BY <2>1, <2>2
  <2> HIDE DEF new
  <2>5. \A r : r \in RowsOf(b) <=> r \in {<<b, p[1]>> : p \in new}
    BY <2>3, <2>4
  <2> QED BY <2>5
<1> HIDE DEF new
<1>3. \A p \in new : ToSet(src'[p].lines) = ToSet(LinesOf(src, p)) \cup {b}
  <2>1. ASSUME NEW p \in new
        PROVE  ToSet(src'[p].lines) = ToSet(LinesOf(src, p)) \cup {b}
    <3> DEFINE l == LinesOf(src, p)
    <3>1. l \in Seq(Content) /\ src'[p].lines = Append(l, b)
      BY <1>0, <1>1, LinesType
    <3> HIDE DEF l
    <3>2. ToSet(Append(l, b)) = ToSet(l) \cup {b}
      BY <1>0, <3>1, AppendSet
    <3> QED BY <3>1, <3>2 DEF l
  <2> QED BY <2>1
<1>4. \A p : ToSet(LinesOf(src, p)) = IF p \in DOMAIN src THEN ToSet(src[p].lines) ELSE {}
  BY DEF LinesOf, ToSet
<1>5. \A p \in new : RowsIn(src', p) = {<<b, p[1]>>} \cup IF p \in DOMAIN src THEN RowsIn(src, p) ELSE {}
  BY <1>0, <1>3, <1>4 DEF RowsIn
<1>6. \A p \in DOMAIN src \ new : RowsIn(src', p) = RowsIn(src, p)
  BY <1>1 DEF RowsIn
<1>7. ASSUME NEW r PROVE r \in Readable(src') <=> r \in Readable(src) \cup RowsOf(b)
  <2>1. (\E p \in DOMAIN src' : r \in RowsIn(src', p))
          <=> (\E p \in DOMAIN src : r \in RowsIn(src, p)) \/ \E p \in new : r = <<b, p[1]>>
    BY <1>1, <1>5, <1>6
  <2>2. r \in RowsOf(b) <=> \E p \in new : r = <<b, p[1]>>
    BY <1>2
  <2> QED BY <2>1, <2>2, RowOf
<1>8. Readable(src') = Readable(src) \cup RowsOf(b)
  BY <1>7
<1>9. ToSet(drained') = ToSet(drained) \cup {b}
  BY <1>0, <1>1, AppendSet
<1>10. Drained' = Drained \cup RowsOf(b)
  BY <1>9 DEF Drained, RowsOf
<1>11. ASSUME \A x \in DOMAIN src : Damaged \notin ToSet(src[x].lines), NEW x \in DOMAIN src'
       PROVE  Damaged \notin ToSet(src'[x].lines)
  <2>1. CASE x \in new
    <3>1. Damaged \notin ToSet(LinesOf(src, x))
      BY <1>4, <1>11
    <3>2. ToSet(src'[x].lines) = ToSet(LinesOf(src, x)) \cup {b}
      BY <1>3, <2>1
    <3> QED BY <1>0, <3>1, <3>2
  <2>2. CASE x \notin new
    <3>1. x \in DOMAIN src /\ src'[x] = src[x]
      BY <1>1, <2>2
    <3> QED BY <1>11, <3>1
  <2> QED BY <2>1, <2>2
<1> QED BY <1>8, <1>9, <1>10, <1>11

(* Without a fault nothing is lost, and there is nothing to repair.        *)
LEMMA Unharmed ==
  ASSUME TypeOK, RunInv, Truthful, faults' = 0, [Next]_vars
  PROVE  faults = 0 /\ ~Harm /\ ~Repair
<1>0. faults \in Nat
  BY DEF RunInv
<1>1. faults = 0
  BY <1>0, Tallies
<1>2. ~Harm
  BY <1>0, HarmCounts
<1>3. ~Repair
  BY DEF Repair, Truthful
<1> QED BY <1>1, <1>2, <1>3

LEMMA TruthfulStep ==
  ASSUME TypeOK, RunInv, Truthful, faults' = 0, [Next]_vars
  PROVE  Truthful'
<1>0. ~Harm /\ ~Repair
  BY Unharmed
<1>1. CASE UNCHANGED <<src, index, session, drained>>
  BY <1>1 DEF Truthful, Drained
<1>2. ASSUME NEW b \in Batch, Drain(b) PROVE Truthful'
  <2>1. index' = index /\ session' = b
    BY <1>2 DEF Drain
  <2> QED BY <1>2, <2>1, DrainAddsBatch DEF Truthful
<1>3. CASE Commit
  <2>1. /\ UNCHANGED <<src, drained>> /\ session' = NoBatch
        /\ index' = index \cup RowsOf(session) /\ session \in ToSet(drained)
    BY <1>3 DEF Commit, Truthful
  <2>2. RowsOf(session) \subseteq Drained
    BY <2>1 DEF Drained
  <2> QED BY <2>1, <2>2 DEF Truthful, Drained
<1>4. CASE Die
  BY <1>4 DEF Die, Truthful, Drained
<1>5. CASE StartSweep \/ Verify
  <2>1. UNCHANGED <<src, index, session, drained>>
    BY <1>5 DEF StartSweep, Verify
  <2> QED BY <1>1, <2>1
<1>6. ASSUME NEW p \in Path, Move(p) PROVE Truthful'
  <2>1. UNCHANGED <<index, session, drained>>
    BY <1>6 DEF Move
  <2> QED BY <1>6, <2>1, MoveKeepsRows DEF Truthful, Drained
<1>7. CASE UNCHANGED <<src, depth, index, session, drained, now, hurt>>
  BY <1>1, <1>7
<1> QED BY <1>0, <1>2, <1>3, <1>4, <1>5, <1>6, <1>7, TruthMoves

LEMMA BeginsAgain ==
  ASSUME NEW S, NEW l \in Seq(S), NEW m \in Seq(S), NEW n \in Seq(S), Begins(l, m)
  PROVE  Begins(l, m \o n)
<1>1. /\ Len(m \o n) = Len(m) + Len(n) /\ Len(l) <= Len(m)
      /\ Len(m) \in Nat /\ Len(n) \in Nat /\ Len(l) \in Nat
      /\ \A i \in 1 .. Len(m) : (m \o n)[i] = m[i]
  BY ConcatProperties DEF Begins
<1>2. \A i \in 1 .. Len(l) : i \in 1 .. Len(m) /\ l[i] = m[i]
  BY <1>1 DEF Begins
<1> DEFINE c == m \o n
<1>3. Len(l) <= Len(c) /\ \A i \in 1 .. Len(l) : l[i] = c[i]
  BY <1>1, <1>2
<1> HIDE DEF c
<1>4. Begins(l, c)
  BY <1>3 DEF Begins
<1> QED BY <1>4 DEF c

LEMMA BeginsSame ==
  ASSUME NEW S, NEW l \in Seq(S), NEW m \in Seq(S), Begins(l, m)
  PROVE  /\ ~(Len(m) < Len(l))
         /\ Len(m) = Len(l) => l = m
<1>1. Len(l) <= Len(m) /\ Len(m) \in Nat /\ Len(l) \in Nat
  BY DEF Begins
<1>2. ASSUME Len(m) = Len(l) PROVE l = m
  BY <1>2, SeqEqual DEF Begins
<1> QED BY <1>1, <1>2

LEMMA BeginsSelf ==
  ASSUME NEW S, NEW l \in Seq(S)
  PROVE  Begins(l, l)
BY DEF Begins

(* A session appends to what the mirror copied; a sweep moves a file to    *)
(* where the mirror has nothing older than it.                             *)
LEMMA DrainMirrors ==
  ASSUME TypeOK, Mirroring, NEW b \in Batch, Drain(b)
  PROVE  Mirroring'
<1> DEFINE new == Touches[b] \X {depth}
<1>0. IsDir(src) /\ IsDir(dst) /\ b \in Content /\ depth \in Depth
  BY DEF TypeOK, Content
<1>1. /\ DOMAIN src' = DOMAIN src \cup new
      /\ \A p \in new : src'[p].lines = Append(LinesOf(src, p), b)
      /\ \A p \in DOMAIN src \ new : src'[p] = src[p]
      /\ UNCHANGED <<depth, dst, pc>> /\ mutex = Nobody
  BY DrainFacts
<1>2. pc \notin {"copy", "delete"}
  BY <1>1, BackupActors DEF TypeOK
<1>3. \A p \in new : p[2] = depth
  OBVIOUS
<1> HIDE DEF new
<1>4. ASSUME NEW p \in DOMAIN src' \cap DOMAIN dst
      PROVE  Begins(dst[p].lines, src'[p].lines)
  <2>1. p \in DOMAIN src
    <3>1. p \in DOMAIN src \/ p[2] = depth
      BY <1>1, <1>3
    <3>2. p \notin DOMAIN src => p[2] < depth
      BY DEF Mirroring
    <3> QED BY <1>0, <3>1, <3>2 DEF Depth
  <2>2. Begins(dst[p].lines, src[p].lines)
    BY <2>1 DEF Mirroring
  <2>3. CASE p \in new
    <3> DEFINE l == dst[p].lines
               m == src[p].lines
    <3>1. l \in Seq(Content) /\ m \in Seq(Content) /\ Begins(l, m)
      BY <1>0, <2>1, <2>2, DirShape DEF File
    <3>2. src'[p].lines = Append(m, b)
      BY <1>1, <2>1, <2>3 DEF LinesOf
    <3> HIDE DEF l, m
    <3>3. Append(m, b) = m \o <<b>> /\ <<b>> \in Seq(Content)
      BY <1>0, <3>1, AppendIsConcat
    <3>4. Begins(l, m \o <<b>>)
      BY <3>1, <3>3, BeginsAgain
    <3> QED BY <3>2, <3>3, <3>4 DEF l
  <2>4. CASE p \notin new
    BY <1>1, <2>1, <2>2, <2>4
  <2> QED BY <2>3, <2>4
<1>5. Readable(dst) \subseteq Drained'
  BY DrainAddsBatch DEF Mirroring
<1>6. \A p \in DOMAIN dst \ DOMAIN src' : p[2] < depth
  BY <1>1 DEF Mirroring
<1> QED BY <1>1, <1>2, <1>4, <1>5, <1>6 DEF Mirroring

LEMMA MoveMirrors ==
  ASSUME TypeOK, Mirroring, NEW p \in Path, Move(p)
  PROVE  Mirroring'
<1> DEFINE q == <<p[1], depth>>
<1>0. IsDir(src) /\ IsDir(dst) /\ depth \in Depth /\ q[2] = depth
  BY DEF TypeOK
<1>1. /\ q # p /\ p \in DOMAIN src /\ p[2] < depth
      /\ DOMAIN src' = (DOMAIN src \cup {q}) \ {p}
      /\ \A x \in DOMAIN src' \ {q} : src'[x] = src[x]
      /\ src'[q].lines = LinesOf(src, q) \o src[p].lines
      /\ UNCHANGED <<depth, drained, dst, pc>>
  BY MoveFacts
<1> HIDE DEF q
<1>2. pc \notin {"copy", "delete"}
  BY BackupActors DEF TypeOK, Move
<1>3. q \in DOMAIN dst => q \in DOMAIN src
  <2>1. q \in DOMAIN dst /\ q \notin DOMAIN src => q[2] < depth
    BY DEF Mirroring
  <2> QED BY <1>0, <2>1 DEF Depth
<1>4. ASSUME NEW x \in DOMAIN src' \cap DOMAIN dst
      PROVE  Begins(dst[x].lines, src'[x].lines)
  <2>1. x \in DOMAIN src /\ Begins(dst[x].lines, src[x].lines)
    BY <1>1, <1>3 DEF Mirroring
  <2>2. CASE x = q
    <3> DEFINE l == dst[q].lines
               m == src[q].lines
               n == src[p].lines
    <3>1. l \in Seq(Content) /\ m \in Seq(Content) /\ n \in Seq(Content) /\ Begins(l, m)
      BY <1>0, <1>1, <2>1, <2>2, DirShape DEF File
    <3>2. src'[q].lines = m \o n
      BY <1>1, <2>1, <2>2 DEF LinesOf
    <3> HIDE DEF l, m, n
    <3>3. Begins(l, m \o n)
      BY <3>1, BeginsAgain
    <3> QED BY <2>2, <3>2, <3>3 DEF l
  <2>3. CASE x # q
    BY <1>1, <2>1, <2>3
  <2> QED BY <2>2, <2>3
<1>5. \A x \in DOMAIN dst \ DOMAIN src' : x[2] < depth
  BY <1>1 DEF Mirroring
<1> QED BY <1>1, <1>2, <1>4, <1>5 DEF Mirroring, Drained

(* A copy is what its file is, and nothing has shrunk.                     *)
LEMMA CopyMirrors ==
  ASSUME TypeOK, RunInv, Truthful, Mirroring, NEW p \in Path, Copy(p)
  PROVE  Mirroring'
<1>1. /\ UNCHANGED <<src, depth, drained>> /\ pc = "copy" /\ pc' = "copy"
      /\ p \in job.todo /\ p \in DOMAIN src
      /\ job'.todo = job.todo \ {p}
  BY DEF Copy, truths, bounds, RunInv, Fields
<1>2. IsDir(src) /\ IsDir(dst)
  BY DEF TypeOK
<1> DEFINE l == src[p].lines
<1>3. l \in Seq(Content)
  BY <1>1, <1>2, DirShape DEF File
<1>4. ASSUME p \in DOMAIN dst
      PROVE  /\ dst[p].lines \in Seq(Content) /\ Begins(dst[p].lines, l)
             /\ Size(src, p) = Len(l) /\ Size(dst, p) = Len(dst[p].lines)
  BY <1>1, <1>2, <1>4, DirShape DEF File, Mirroring, Size, LinesOf
<1> HIDE DEF l
<1>5. CASE Unchanged(p) \/ Shrunk(p)
  <2>1. dst' = dst
    BY <1>5 DEF Copy
  <2>2. p \in DOMAIN dst
    BY <1>5 DEF Unchanged, Shrunk
  <2> DEFINE k == dst[p].lines
  <2>3. k \in Seq(Content) /\ Begins(k, l) /\ (Len(l) = Len(k) \/ Len(l) < Len(k))
    BY <1>4, <1>5, <2>2 DEF Unchanged, Shrunk
  <2> HIDE DEF k
  <2>4. k = l
    BY <1>3, <2>3, BeginsSame
  <2>5. dst[p].lines = src[p].lines
    BY <2>4 DEF k, l
  <2>6. \A q \in DOMAIN src' \ job'.todo : q \in DOMAIN dst' /\ dst'[q].lines = src'[q].lines
    BY <1>1, <2>1, <2>2, <2>5 DEF Mirroring
  <2> QED BY <1>1, <2>1, <2>6 DEF Mirroring, Drained
<1>6. CASE ~(Unchanged(p) \/ Shrunk(p))
  <2> DEFINE new == With(dst, p, src[p].lines, src[p].mtime)
  <2>1. dst' = new
    BY <1>6 DEF Copy, Change
  <2>2. /\ DOMAIN new = DOMAIN dst \cup {p}
        /\ new[p].lines = l
        /\ \A q \in DOMAIN dst \ {p} : new[q] = dst[q]
    BY DEF With, l
  <2> HIDE DEF new
  <2>3. \A q \in DOMAIN src' \ job'.todo : q \in DOMAIN new /\ new[q].lines = src'[q].lines
    BY <1>1, <2>2 DEF Mirroring, l
  <2>4. \A q \in DOMAIN new \ DOMAIN src : q[2] < depth
    BY <1>1, <2>2 DEF Mirroring
  <2>5. ASSUME NEW q \in DOMAIN src \cap DOMAIN new
        PROVE  Begins(new[q].lines, src[q].lines)
    <3>1. CASE q = p
      BY <1>3, <2>2, <3>1, BeginsSelf DEF l
    <3>2. CASE q # p
      BY <2>2, <2>5, <3>2 DEF Mirroring
    <3> QED BY <3>1, <3>2
  <2>6. ASSUME NEW r \in Readable(new) PROVE r \in Drained
    <3>1. PICK q \in DOMAIN new : r \in RowsIn(new, q)
      BY RowOf
    <3>2. CASE q = p
      <4>1. RowsIn(new, p) = RowsIn(src, p)
        BY <2>2 DEF RowsIn, l
      <4>2. r \in Readable(src)
        BY <1>1, <3>1, <3>2, <4>1, RowOf
      <4> QED BY <4>2 DEF Truthful
    <3>3. CASE q # p
      <4>1. q \in DOMAIN dst /\ RowsIn(new, q) = RowsIn(dst, q)
        BY <2>2, <3>3 DEF RowsIn
      <4>2. r \in Readable(dst)
        BY <3>1, <4>1, RowOf
      <4> QED BY <4>2 DEF Mirroring
    <3> QED BY <3>2, <3>3
  <2> QED BY <1>1, <2>1, <2>3, <2>4, <2>5, <2>6 DEF Mirroring, Drained
<1> QED BY <1>5, <1>6

LEMMA DeleteMirrors ==
  ASSUME TypeOK, RunInv, Mirroring, NEW p \in Path, Delete(p)
  PROVE  Mirroring'
<1>1. /\ UNCHANGED <<src, depth, drained>> /\ pc = "delete" /\ pc' = "delete"
      /\ p \notin DOMAIN src /\ job'.todo = job.todo
  BY DEF Delete, truths, bounds, RunInv, Fields
<1> DEFINE new == Without(dst, {p})
<1>2. dst' = new
  BY DEF Delete, Change
<1>3. /\ DOMAIN new = DOMAIN dst \ {p}
      /\ \A q \in DOMAIN dst \ {p} : new[q] = dst[q]
  BY WithoutFacts
<1> HIDE DEF new
<1>4. ASSUME NEW r \in Readable(new) PROVE r \in Readable(dst)
  <2>1. PICK q \in DOMAIN new : r \in RowsIn(new, q)
    BY RowOf
  <2>2. q \in DOMAIN dst /\ RowsIn(new, q) = RowsIn(dst, q)
    BY <1>3 DEF RowsIn
  <2> QED BY <2>1, <2>2, RowOf
<1>5. \A q \in DOMAIN src \cap DOMAIN new : Begins(new[q].lines, src[q].lines)
  BY <1>3 DEF Mirroring
<1>6. \A q \in DOMAIN new \ DOMAIN src : q[2] < depth
  BY <1>3 DEF Mirroring
<1>7. \A q \in DOMAIN src \ job.todo : q \in DOMAIN new /\ new[q].lines = src[q].lines
  BY <1>1, <1>3 DEF Mirroring
<1> QED BY <1>1, <1>2, <1>4, <1>5, <1>6, <1>7 DEF Mirroring, Drained

(* The other steps leave what is mirrored as it is, or have none yet.      *)
LEMMA StillMirrors ==
  ASSUME IsDir(dst), Mirroring, UNCHANGED <<src, drained, dst>>,
         depth \in Depth, depth' \in {depth, 1},
         \/ pc' \notin {"copy", "delete"}
         \/ pc \in {"copy", "delete"} /\ job'.todo = job.todo
         \/ job'.todo = DOMAIN src
  PROVE  Mirroring'
<1>1. \A p \in DOMAIN dst \ DOMAIN src : p[2] < depth'
  <2>1. ASSUME NEW p \in DOMAIN dst \ DOMAIN src PROVE p[2] < depth'
    <3>1. p[2] < depth /\ p[2] \in Depth
      BY DirShape DEF Mirroring, Path
    <3> QED BY <3>1 DEF Depth
  <2> QED BY <2>1
<1>2. pc' \in {"copy", "delete"} =>
        \A p \in DOMAIN src \ job'.todo : p \in DOMAIN dst /\ dst[p].lines = src[p].lines
  BY DEF Mirroring
<1> QED BY <1>1, <1>2 DEF Mirroring, Drained

LEMMA MirroringStep ==
  ASSUME TypeOK, RunInv, Truthful, Mirroring, faults' = 0, [Next]_vars
  PROVE  Mirroring'
<1>0. IsDir(dst) /\ depth \in Depth
  BY DEF TypeOK
<1>1. ~Harm /\ ~Repair
  BY Unharmed
<1>2. CASE /\ UNCHANGED <<src, drained, dst, pc, job>>
           /\ depth' \in {depth, 1}
  <2>1. depth' \in {depth, 1}
    BY <1>2
  <2>2. \/ pc' \notin {"copy", "delete"}
        \/ pc \in {"copy", "delete"} /\ job'.todo = job.todo
    BY <1>2
  <2> QED BY <1>0, <1>2, <2>1, <2>2, StillMirrors
<1>3. CASE UNCHANGED vars \/ Commit \/ Die \/ EnterMoves \/ EndSweep \/ KillSweep \/ NextDay
  <2>1. UNCHANGED <<src, depth, drained, dst, pc, job>>
    BY <1>3 DEF vars, truths, mirror, Commit, Die, EnterMoves, EndSweep, KillSweep, LeaveSweep,
                NextDay
  <2> QED BY <1>2, <2>1
<1>4. CASE StartSweep
  <2>1. UNCHANGED <<src, drained, dst, pc, job>> /\ depth' = 1
    BY <1>4 DEF StartSweep, mirror
  <2> QED BY <1>2, <2>1
<1>5. ASSUME NEW b \in Batch, Drain(b) PROVE Mirroring'
  BY <1>5, DrainMirrors
<1>6. ASSUME NEW p \in Path, Move(p) PROVE Mirroring'
  BY <1>6, MoveMirrors
<1>7. CASE Verify \/ Snapshot \/ TryRebalance \/ Unlock \/ Report \/ KillBackup
  <2>1. UNCHANGED <<src, depth, drained, dst>> /\ pc' \notin {"copy", "delete"}
    BY <1>7 DEF Verify, Snapshot, TryRebalance, Unlock, Report, KillBackup, Goto, truths, mirror
  <2> QED BY <1>0, <2>1, StillMirrors
<1>8. CASE Enter
  <2>1. UNCHANGED <<src, depth, drained, dst>> /\ job'.todo = DOMAIN src
    BY <1>8 DEF Enter, truths, mirror, RunInv, Fields
  <2> QED BY <1>0, <2>1, StillMirrors
<1>9. CASE CopyManifest \/ PlanDeletes
  <2>1. UNCHANGED <<src, depth, drained, dst>> /\ pc = "copy" /\ job'.todo = job.todo
    BY <1>9 DEF CopyManifest, PlanDeletes, truths, mirror, RunInv, Fields
  <2> QED BY <1>0, <2>1, StillMirrors
<1>10. ASSUME NEW p \in Path, Copy(p) \/ Delete(p) PROVE Mirroring'
  BY <1>10, CopyMirrors, DeleteMirrors
<1> QED BY <1>1, <1>3, <1>4, <1>5, <1>6, <1>7, <1>8, <1>9, <1>10
        DEF Next, Session, SweepStep, MirrorStep

LEMMA BatchInit == Init => BatchInv
<1> SUFFICES ASSUME Init PROVE Truthful /\ Mirroring
  BY DEF BatchInv
<1>1. /\ src = Empty /\ dst = Empty /\ index = {} /\ session = NoBatch /\ drained = << >>
      /\ pc = "idle"
  BY DEF Init
<1>2. ToSet(drained) = {}
  BY <1>1 DEF ToSet
<1>3. Drained = {}
  BY <1>2 DEF Drained
<1>4. Truthful
  BY <1>1, <1>3, EmptyDir DEF Truthful
<1>5. Mirroring
  BY <1>1, <1>3, EmptyDir DEF Mirroring
<1> QED BY <1>4, <1>5

LEMMA BatchStep ==
  ASSUME TypeOK, RunInv, BatchInv, [Next]_vars
  PROVE  BatchInv'
<1> SUFFICES ASSUME faults' = 0 PROVE Truthful' /\ Mirroring'
  BY DEF BatchInv
<1>1. faults \in Nat
  BY DEF RunInv
<1>2. faults = 0
  BY <1>1, Tallies
<1>3. Truthful /\ Mirroring
  BY <1>2 DEF BatchInv
<1> QED BY <1>3, TruthfulStep, MirroringStep

(* A run at its end has every line of the truth.                           *)
LEMMA EndHasAll ==
  ASSUME RunInv, BatchInv, pc = "delete", faults = 0
  PROVE  /\ Readable(dst) = Drained
         /\ \A p \in DOMAIN src : p \in DOMAIN dst /\ dst[p].lines = src[p].lines
<1>1. Truthful /\ Mirroring /\ job.todo = {}
  BY DEF BatchInv, RunInv
<1>2. ASSUME NEW r \in Readable(src) PROVE r \in Readable(dst)
  <2>1. PICK p \in DOMAIN src : r \in RowsIn(src, p)
    BY RowOf
  <2>2. p \in DOMAIN dst /\ dst[p].lines = src[p].lines
    BY <1>1 DEF Mirroring
  <2>3. RowsIn(dst, p) = RowsIn(src, p)
    BY <2>2 DEF RowsIn
  <2> QED BY <2>1, <2>2, <2>3, RowOf
<1> QED BY <1>1, <1>2 DEF Truthful, Mirroring

(* So the mirror has of a batch what the truth has: all or nothing.        *)
LEMMA EndsWhole ==
  ASSUME RunInv, BatchInv, pc = "delete", faults = 0, NEW b \in Batch
  PROVE  RowsOf(b) \subseteq Readable(dst) \/ RowsOf(b) \cap Readable(dst) = {}
<1>1. Readable(dst) = Drained
  BY EndHasAll
<1>2. CASE b \in ToSet(drained)
  BY <1>1, <1>2 DEF Drained
<1>3. CASE b \notin ToSet(drained)
  <2>1. ASSUME NEW r \in RowsOf(b) \cap Drained PROVE FALSE
    <3>1. PICK c \in ToSet(drained) : r \in RowsOf(c)
      BY <2>1 DEF Drained
    <3>2. r[1] = b /\ r[1] = c
      BY <2>1, <3>1 DEF RowsOf
    <3> QED BY <1>3, <3>1, <3>2
  <2> QED BY <1>1, <2>1
<1> QED BY <1>2, <1>3

(* Without a fault a run that ends has of each batch all rows or none,     *)
(* though it copies file by file, sessions wait to append, and a sweep or  *)
(* a killed run left files at two depths (backup.py 642-650).              *)
THEOREM BatchesAreWhole == Spec => NoPartOfABatch
<1> DEFINE Whole == pc = "delete" /\ faults = 0
                      => \A b \in Batch : \/ RowsOf(b) \subseteq Readable(dst)
                                          \/ RowsOf(b) \cap Readable(dst) = {}
<1>1. Init => BatchInv
  BY BatchInit
<1>2. MirrorInv /\ BatchInv /\ [Next]_vars => BatchInv'
  BY BatchStep DEF MirrorInv
<1>3. MirrorInv /\ BatchInv => Whole
  BY EndsWhole DEF MirrorInv
<1>4. Whole => [pc = "delete" /\ pc' = "check" /\ faults = 0
                  => \A b \in Batch : RowsOf(b) \subseteq Readable(dst)
                                      \/ RowsOf(b) \cap Readable(dst) = {}]_vars
  OBVIOUS
<1> QED BY <1>1, <1>2, <1>3, <1>4, MirrorInvHolds, PTL DEF Spec, NoPartOfABatch
-----------------------------------------------------------------------------
(* Backups of a truth that nothing damages.                                *)

(* What a run owes is drained; once every file is copied it is mirrored.   *)
OwedInv == faults = 0 => /\ pc \in {"copy", "delete"} => job.owed \subseteq Drained
                         /\ pc = "check" => job.owed \subseteq Readable(dst)

LEMMA OwedInit == Init => OwedInv
BY DEF Init, OwedInv

LEMMA OwedStep ==
  ASSUME TypeOK, RunInv, BatchInv, OwedInv, [Next]_vars
  PROVE  OwedInv'
<1> SUFFICES ASSUME faults' = 0
             PROVE  /\ pc' \in {"copy", "delete"} => job'.owed \subseteq Drained'
                    /\ pc' = "check" => job'.owed \subseteq Readable(dst')
  BY DEF OwedInv
<1>0. faults = 0
  <2>1. faults \in Nat
    BY DEF RunInv
  <2> QED BY <2>1, Tallies
<1>1. /\ pc \in {"copy", "delete"} => job.owed \subseteq Drained
      /\ pc = "check" => job.owed \subseteq Readable(dst)
      /\ Truthful /\ Mirroring
  BY <1>0 DEF OwedInv, BatchInv
<1>2. ~Harm /\ ~Repair
  BY <1>1, Unharmed
<1>3. CASE UNCHANGED <<pc, job, drained, dst>>
  BY <1>1, <1>3 DEF Drained
<1>4. CASE \/ UNCHANGED vars \/ Commit \/ Die \/ SweepStep \/ KillSweep \/ NextDay
  <2>1. UNCHANGED <<pc, job, drained, dst>>
    BY <1>4 DEF vars, truths, mirror, Commit, Die, SweepStep, StartSweep, EnterMoves, Move, EndSweep,
                KillSweep, LeaveSweep, NextDay
  <2> QED BY <1>3, <2>1
<1>5. ASSUME NEW b \in Batch, Drain(b)
      PROVE  /\ pc' \in {"copy", "delete"} => job'.owed \subseteq Drained'
             /\ pc' = "check" => job'.owed \subseteq Readable(dst')
  <2>1. UNCHANGED <<pc, job, dst>> /\ Drained' = Drained \cup RowsOf(b)
    BY <1>5, DrainAddsBatch DEF Drain, mirror
  <2> QED BY <1>1, <2>1
<1>6. CASE Verify \/ Snapshot \/ TryRebalance \/ Report \/ KillBackup
  <2>1. pc' \notin {"copy", "delete", "check"}
    BY <1>6 DEF Verify, Snapshot, TryRebalance, Report, KillBackup, Goto
  <2> QED BY <2>1
<1>7. CASE Enter
  <2>1. job'.owed = index /\ pc' = "copy" /\ drained' = drained
    BY <1>7 DEF Enter, Goto, truths, RunInv, Fields
  <2> QED BY <1>1, <2>1 DEF Truthful, Drained
<1>8. CASE (\E p \in Path : Copy(p) \/ Delete(p)) \/ CopyManifest \/ PlanDeletes
  <2>1. /\ job'.owed = job.owed /\ drained' = drained
        /\ pc \in {"copy", "delete"} /\ pc' \in {"copy", "delete"}
    BY <1>8 DEF Copy, Delete, CopyManifest, PlanDeletes, Goto, truths, RunInv, Fields
  <2> QED BY <1>1, <2>1 DEF Drained
<1>9. CASE Unlock
  <2>1. /\ pc = "delete" /\ pc' = "check" /\ UNCHANGED <<job, dst>>
    BY <1>9 DEF Unlock, Goto
  <2>2. Readable(dst) = Drained
    BY <1>0, <2>1, EndHasAll
  <2> QED BY <1>1, <2>1, <2>2
<1> QED BY <1>2, <1>4, <1>5, <1>6, <1>7, <1>8, <1>9 DEF Next, Session, MirrorStep

LEMMA UndamagedInv == Spec => [](BatchInv /\ OwedInv)
<1>1. Init => BatchInv /\ OwedInv
  BY BatchInit, OwedInit
<1>2. MirrorInv /\ (BatchInv /\ OwedInv) /\ [Next]_vars => (BatchInv /\ OwedInv)'
  BY BatchStep, OwedStep DEF MirrorInv
<1> QED BY <1>1, <1>2, MirrorInvHolds, PTL DEF Spec

(* Where no fault struck, a backup that ends restores to every row that was*)
(* committed when it began to copy, ok or not, however often the ones      *)
(* before it, sweeps and sessions were killed (backup.py 690-711).         *)
THEOREM UndamagedIsWhole == Spec /\ [](faults = 0) => OkIsWhole
<1>1. MirrorInv /\ OwedInv /\ faults = 0 =>
        [pc = "check" /\ pc' = "idle" /\ kills' = kills /\ Ok /\ hurt = {}
           => job.owed \subseteq Readable(dst)]_vars
  BY DEF OwedInv
<1> QED BY <1>1, UndamagedInv, MirrorInvHolds, PTL DEF OkIsWhole

(* Nor does it delete the mirror's only copy of a row that the truth has:  *)
(* what it deletes was moved, and was copied where it is now (backup.py    *)
(* 255-273, 325-345).                                                      *)
THEOREM UndamagedDeletes == Spec /\ [](faults = 0) => DeletesKeepTheLiving
<1>1. MirrorInv /\ BatchInv /\ faults = 0 /\ [Next]_vars =>
        [pc = "delete" /\ hurt = {}
           => index \cap Readable(dst) \cap Readable(src) \subseteq Readable(dst')]_vars
  <2> SUFFICES ASSUME MirrorInv, BatchInv, faults = 0, [Next]_vars, pc = "delete",
                      NEW r \in Readable(dst) \cap Readable(src)
               PROVE  r \in Readable(dst')
    OBVIOUS
  <2>1. TypeOK /\ RunInv
    BY DEF MirrorInv
  <2>2. PICK q \in DOMAIN src : r \in RowsIn(src, q)
    BY RowOf
  <2>3. q \in DOMAIN dst /\ RowsIn(dst, q) = RowsIn(src, q)
    BY <2>1, EndHasAll DEF RowsIn
  <2>4. CASE UNCHANGED dst
    BY <2>4
  <2>5. ASSUME NEW p \in Path, Delete(p) PROVE r \in Readable(dst')
    <3>1. p \notin DOMAIN src
      BY <2>1, <2>5 DEF RunInv, Delete
    <3> DEFINE new == Without(dst, {p})
    <3>2. dst' = new
      BY <2>5 DEF Delete, Change
    <3>3. q \in DOMAIN new /\ new[q] = dst[q]
      BY <2>3, <3>1, WithoutFacts
    <3> HIDE DEF new
    <3>4. q \in DOMAIN dst' /\ RowsIn(dst', q) = RowsIn(src, q)
      BY <2>3, <3>2, <3>3 DEF RowsIn
    <3>5. r \in Readable(new)
      BY <2>2, <3>2, <3>4, RowOf
    <3> QED BY <3>2, <3>5
  <2>6. CASE (\E p \in Path : Copy(p)) \/ CopyManifest
    BY <2>6 DEF Copy, CopyManifest
  <2>7. CASE Unlock
    BY <2>4, <2>7 DEF Unlock
  <2> QED BY <2>4, <2>5, <2>6, <2>7, MirrorMoves
<1>2. Spec => [][Next]_vars
  BY DEF Spec
<1> QED BY <1>1, <1>2, UndamagedInv, MirrorInvHolds, PTL DEF DeletesKeepTheLiving
=============================================================================
