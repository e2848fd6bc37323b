------------------------------- MODULE MCReport -------------------------------
(* Bounds of the runs of Report: one client that works, one that does not   *)
(* get past its header.                                                     *)
EXTENDS Report

MCMaxSent == <<2, 0>>
===============================================================================
