---------------------------- MODULE MCCallLine ----------------------------
(* CallLine on small instances: model values for the calls, bounds in the  *)
(* configurations.                                                         *)
EXTENDS CallLine, TLC

CONSTANTS d1, d2, r1, r2, r3

NoCalls  == {}
OneDial  == {d1}
TwoDials == {d1, d2}
OneRing  == {r1}
TwoRings == {r1, r2}
ThreeRings == {r1, r2, r3}
DialSwaps == Permutations(Dials)
RingSwaps == Permutations(Rings)
===========================================================================
