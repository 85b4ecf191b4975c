---------------------------- MODULE MCMirrorOutbox ----------------------------
(***************************************************************************)
(* Small instances of MirrorOutbox: a sync run and an alert, one of which  *)
(* Lark may refuse.                                                        *)
(***************************************************************************)
EXTENDS MirrorOutbox

CONSTANTS w1, d1
=============================================================================
