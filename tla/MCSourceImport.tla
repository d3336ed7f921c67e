---------------------------- MODULE MCSourceImport ----------------------------
(* A line the parser understands and one it does not until it is fixed.    *)
EXTENDS SourceImport

CONSTANTS a, x

MCLine == {a, x}
MCMeta == {}
MCDrifted == {x}
=============================================================================
