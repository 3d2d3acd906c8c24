---------------------------- MODULE MCSmsIntake ----------------------------
(* SmsIntake on small instances. *)
EXTENDS SmsIntake

CONSTANTS t1, b1

Both   == {t1, b1}
Texts  == {t1}
=============================================================================
