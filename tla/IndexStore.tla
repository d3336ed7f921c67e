------------------------------ MODULE IndexStore ------------------------------
(***************************************************************************)
(* What the index promises next to the truth it is a projection of: a row  *)
(* is indexed only when it is durable in the truth, and a rebuild replaces *)
(* the whole index by the image of the truth in one step.                  *)
(***************************************************************************)
CONSTANT Event

VARIABLES durable, indexed

Init == durable = {} /\ indexed = {}

Log(e) == durable' = durable \cup {e} /\ UNCHANGED indexed

(* A line is given up (its COMMIT failed) or rots.                         *)
Drop(e) == durable' = durable \ {e} /\ UNCHANGED indexed

Index(e) == /\ e \in durable
            /\ indexed' = indexed \cup {e}
            /\ UNCHANGED durable

Rebuild == indexed' = durable /\ UNCHANGED durable

Next == Rebuild \/ \E e \in Event : Log(e) \/ Drop(e) \/ Index(e)

Spec == Init /\ [][Next]_<<durable, indexed>>
=============================================================================
