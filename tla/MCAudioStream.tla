--------------------------- MODULE MCAudioStream ---------------------------
(* AudioStream on small instances. *)
EXTENDS AudioStream, TLC

CONSTANTS d1, d2, r1, r2

OneDial  == {d1}
TwoDials == {d1, d2}
OneRing  == {r1}
TwoRings == {r1, r2}
===========================================================================
