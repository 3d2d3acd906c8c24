------------------------------ MODULE Devices ------------------------------
(***************************************************************************)
(* What the module finds out about a modem's devices when resolve_object   *)
(* of src/src/modem.c attaches it: it looks for the sound card of the      *)
(* modem (AudioDetect) and then kicks its init commands (AtInit).          *)
(***************************************************************************)
EXTENDS AtInit, AudioDetect

ResolveInit == Init /\ DetectInit

ResolveNext == \/ tpc = "start" /\ (AutodetectDevices \/ Detected) /\ UNCHANGED vars
               \/ look = <<>> /\ Next /\ UNCHANGED look

\* Every look ends, too.
ResolveSpec == /\ ResolveInit /\ [][ResolveNext]_<<vars, look>>
               /\ Fairness /\ WF_look(Detected)
=============================================================================
