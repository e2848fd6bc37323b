------------------------------ MODULE LeaderIndex ------------------------------
(* The leader of module Leader keeps the promise of module DurableIndex.      *)
EXTENDS Leader

(* The files the members have: a file exists from its truncation on.          *)
Written == {w \in Member \X Id : disk[w[1]][w[2]] # NoFile}

(* How far a SET has come, without the RPCs: pc names "send" what is open and *)
(* "save" what is committed.                                                  *)
AnswerOf(state) ==
  CASE state = "idle" -> "none"
    [] state = "send" -> "open"
    [] state = "save" -> "committed"
    [] OTHER -> state

Answer == [o \in Op |-> AnswerOf(pc[o])]

(* Members enough for an id.                                                  *)
Replicas == {S \in SUBSET Member : Cardinality(S) = Tolerance}

Index == INSTANCE DurableIndex WITH
  up <- leaderUp,
  index <- msgMap,
  durable <- file.state.msgMap,
  written <- Written,
  idOf <- opId,
  answer <- Answer

(* The message index is what DurableIndex promises: it changes only by         *)
(* commits to Tolerance members that have the file and by starts that restore  *)
(* the last complete save, and no SET is answered OK before the index that     *)
(* has its entry was written to the state file (unless os.WriteFile failed).   *)
ImplementsIndex == Index!Spec
===============================================================================
