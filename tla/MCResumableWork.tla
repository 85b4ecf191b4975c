--------------------------- MODULE MCResumableWork ---------------------------
(***************************************************************************)
(* Small instances of ResumableWork: two requests of one cursor, the later *)
(* of which carries a warning.                                             *)
(***************************************************************************)
EXTENDS ResumableWork, TLC

CONSTANTS older, newer, a, b

TwoGenerations == (older :> 1) @@ (newer :> 2)
OneGeneration == older :> 1
Symmetry == Permutations(Worker)
=============================================================================
