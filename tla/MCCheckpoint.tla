----------------------------- MODULE MCCheckpoint -----------------------------
(***************************************************************************)
(* Small instances of Checkpoint for TLC.                                  *)
(***************************************************************************)
EXTENDS Checkpoint, TLC

CONSTANTS a, b, w1, w2, w3, daemon, backup, nobody

MCOne == {a}
MCTwo == {a, b}
MCWriters == {w1, w2}
MCThreeWriters == {w1, w2, w3}
MCProcs == {daemon, backup}
MCAlone == {daemon}

(* Two changes of one thread.                                              *)
MCSameThread == w1 :> a @@ w2 :> a
(* A change of the old thread, and the creation of a second one.           *)
MCGrow == w1 :> a @@ w2 :> b
(* Three of one.                                                           *)
MCThrice == w1 :> a @@ w2 :> a @@ w3 :> b

MCSplit == w1 :> daemon @@ w2 :> backup
MCThreeOwn == w1 :> daemon @@ w2 :> daemon @@ w3 :> daemon
=============================================================================
