------------------------------- MODULE MCWatcher -------------------------------
(* Two events, a watermark that moves without one, and one MCP server.     *)
EXTENDS Watcher, TLC

CONSTANTS e1, e2, q1, s1

MCItem == {e1, e2, q1}
MCQuiet == {q1}
MCServer == {s1}
===============================================================================
