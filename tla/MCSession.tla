------------------------------ MODULE MCSession -------------------------------
(* What the user types in the runs of Session. *)
EXTENDS Session

Typed(op, id) == [op |-> op, id |-> id]

(* Every kind of command; SET and GET on the id that the bulk of three has  *)
(* in its middle; "quit" is a line like "exit now".                         *)
MCInput ==
  {Typed("set", 2), Typed("get", 2), Typed("help", 1), Typed("bad", 1), Typed("quit", 1)}

MCBulks == {[base |-> 1, count |-> 3], [base |-> 2, count |-> 1]}
===============================================================================
