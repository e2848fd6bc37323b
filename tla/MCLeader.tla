------------------------------- MODULE MCLeader -------------------------------
(* Instances of Leader, as chosen by the .cfg files. *)
EXTENDS LeaderIndex, TLC

TwoMembers == 1..2
ThreeMembers == 1..3
OneKnown == <<2>>
TwoKnown == <<2, 1>>
ThreeKnown == <<2, 3, 1>>

(* SETs and GETs are interchangeable: Init treats all alike, and no         *)
(* definition chooses among them.                                           *)
Requests == Permutations(Op) \cup Permutations(Getter)
===============================================================================
