----------------------------- MODULE MCTruthDrain -----------------------------
(***************************************************************************)
(* Small instances of TruthDrain for TLC.                                  *)
(***************************************************************************)
EXTENDS TruthDrainInv, TLC

CONSTANTS t1, t2, t3, daemon, oneshot, old, new

MCTxn == {t1, t2, t3}
MCProc == {daemon, oneshot}
MCFile == {old, new}
MCPreexisting == {old}

Ev(f, n) == [file |-> f, nth |-> n]
Md(f) == [file |-> f, nth |-> 0]

(* t1 imports a new thread and amends an old one, t2 appends to the old    *)
(* one, t3 restates the metadata of the old one.                           *)
MCBatch == t1 :> <<Md(new), Ev(new, 1), Ev(old, 2)>> @@ t2 :> <<Ev(old, 1)>>
           @@ t3 :> <<Md(old)>>
MCProcOf == t1 :> oneshot @@ t2 :> daemon @@ t3 :> daemon
=============================================================================
