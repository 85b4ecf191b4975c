----------------------------- MODULE MCTikTokSync -----------------------------
(***************************************************************************)
(* TikTokSync on a small instance.                                         *)
(***************************************************************************)
EXTENDS TikTokSync, TLC

CONSTANTS i1, i2, w1, w2

Workers == {i1, i2}
\* One Work, and two of which the second was requested later.
OneWork == {w1}
OneGeneration == w1 :> 1
TwoWorks == {w1, w2}
TwoGenerations == w1 :> 1 @@ w2 :> 2
\* Both records are there, or the second one is still to come; and one record.
FirstSources == {<<1, 1>>, <<1, 0>>}
OneSource == {<<1>>}
Symmetry == Permutations(Workers)
================================================================================
