------------------------------- MODULE MCBackup -------------------------------
(* Two threads; a batch that touches both, and one that touches the first. *)
EXTENDS Backup, TLC

CONSTANTS a, b, both, one

MCThread == {a, b}
MCBatch == {both, one}
MCTouches == both :> {a, b} @@ one :> {a}
===============================================================================
