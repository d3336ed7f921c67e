------------------------------- MODULE MCMigrate -------------------------------
(* Two threads with integer ids, one of them unknown to the index; one that *)
(* has a ULID already; and one that has no file, only a row and a link.     *)
(* Three overlays, one of which the archive does not have.                 *)
EXTENDS Migrate, TLC

CONSTANTS a, b, n, u, links, cursors, amendments

MCThread == {a, b, n, u}
MCNative == {n}
MCUnindexed == {b}
MCUnfiled == {u}
MCOverlay == {links, amendments, cursors}
MCRefs == links :> {a, b, n, u} @@ amendments :> NoFile @@ cursors :> {a, n}
===============================================================================
