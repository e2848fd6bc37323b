------------------------------ MODULE MCDispatch -------------------------------
(* Dispatch over four members, one of them unreachable, for TLC. *)
EXTENDS Dispatch

MCAddr == 1..4
MCSilent == {1}
===============================================================================
