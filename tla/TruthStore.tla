------------------------------ MODULE TruthStore ------------------------------
(***************************************************************************)
(* What the append path promises, without files, journals or locks: a      *)
(* batch is logged (all its records are durable in the truth) and then     *)
(* indexed (its COMMIT landed); a logged batch may be retracted, never an  *)
(* indexed one.  JSONL contains SQLite at every instant.                   *)
(***************************************************************************)
CONSTANT Txn
VARIABLES logged, indexed

Init == logged = {} /\ indexed = {}

(* Batches become durable, or cease to be; no indexed one is ever lost.    *)
Relog ==
  /\ logged' \in SUBSET Txn
  /\ indexed \subseteq logged'
  /\ UNCHANGED indexed

(* One COMMIT, atomic, of a batch that is already logged.                  *)
Index(t) ==
  /\ t \in logged
  /\ indexed' = indexed \cup {t}
  /\ UNCHANGED logged

Next == Relog \/ \E t \in Txn : Index(t)

Spec == Init /\ [][Next]_<<logged, indexed>>
=============================================================================
