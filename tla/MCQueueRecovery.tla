---------------------------- MODULE MCQueueRecovery ----------------------------
(***************************************************************************)
(* QueueRecovery on a small instance.                                      *)
(***************************************************************************)
EXTENDS QueueRecovery, TLC

CONSTANTS w1, w2

Consumers == {w1, w2}
Symmetry == Permutations(Consumers)
================================================================================
