------------------------------ MODULE MCReindex ------------------------------
(***************************************************************************)
(* Small instances of Reindex for TLC.                                     *)
(***************************************************************************)
EXTENDS Reindex

CONSTANTS e1, e2, daemon, command, r1

MCEvent == {e1, e2}
MCProc == {daemon, command}
MCRebuilder == {r1}
=============================================================================
