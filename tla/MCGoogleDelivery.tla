--------------------------- MODULE MCGoogleDelivery ---------------------------
(***************************************************************************)
(* GoogleDelivery on a small instance.                                     *)
(***************************************************************************)
EXTENDS GoogleDelivery

CONSTANTS p1, p2, w1, w2, c1, c2

Posters == {p1, p2}
Workers == {w1, w2}
================================================================================
