---------------------------- MODULE MCRegistry ----------------------------
(* Registry on small instances. *)
EXTENDS Registry

CONSTANTS m1, m2, a, b

OneModem  == {m1}
TwoModems == {m1, m2}
OneCard   == {a}
TwoCards  == {a, b}
===========================================================================
