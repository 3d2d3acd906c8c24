---------------------------- MODULE MCMmsWorker ----------------------------
(* MmsWorker on a small instance. *)
EXTENDS MmsWorker, TLC

CONSTANTS k1, s1, s2

OneKey == {k1}
NoKeys == {}
TwoSms == {s1, s2}
\* The carrier sends the notification of k1 twice.
KeyOfTwo == s1 :> k1 @@ s2 :> k1
Steps == <<1, 2>>
===========================================================================
