---------------------------- MODULE MCModuleLife ----------------------------
(* ModuleLife on a small instance. *)
EXTENDS ModuleLife, TLC

CONSTANTS o1, o2

TwoObjects == {o1, o2}
===========================================================================
