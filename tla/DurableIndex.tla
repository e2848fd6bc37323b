----------------------------- MODULE DurableIndex -----------------------------
(***************************************************************************)
(* What the leader promises about its message index, whatever the RPCs,    *)
(* locks, registrations and files beneath it do.  Module LeaderIndex shows *)
(* that the leader of module Leader keeps the promise.                     *)
(*                                                                         *)
(* A SET is first accepted, then committed when enough members have a file *)
(* for its id, and only then answered, in the step that has made the whole *)
(* index durable.  A start brings back exactly what is durable.  While the *)
(* leader replaces its state file, and until it has done so, nothing is:   *)
(* os.WriteFile truncates, and a leader that dies then starts empty.       *)
(***************************************************************************)
CONSTANTS
  Member,       \* addresses of the members
  Op,           \* SET requests
  Id,           \* message identifiers
  Replicas,     \* the sets of members that may hold an id
  SaveMayFail   \* TRUE: making the index durable may fail, unnoticed

VARIABLES
  up,           \* the leader runs
  index,        \* the replicas of each id, {} for none, as the leader knows them
  durable,      \* the index that a start would bring back
  written,      \* pairs of a member and an id that it has a file for
  idOf,         \* the id each SET carries
  answer        \* progress of each SET

vars == <<up, index, durable, written, idOf, answer>>

NoIndex == [i \in Id |-> {}]

Init ==
  /\ up = TRUE
  /\ index = NoIndex
  /\ durable = NoIndex
  /\ written = {}
  /\ idOf \in [Op -> Id]
  /\ answer = [o \in Op |-> "none"]

(* A member creates its file for an id; it never deletes one. *)
Write(m, i) ==
  /\ written' = written \cup {<<m, i>>}
  /\ UNCHANGED <<up, index, durable, idOf, answer>>

Answered(o, from, to) ==
  /\ up
  /\ answer[o] \in from
  /\ answer' = [answer EXCEPT ![o] = to]

Accept(o) ==
  /\ Answered(o, {"none"}, "open")
  /\ UNCHANGED <<up, index, durable, written, idOf>>

Refuse(o) ==
  /\ Answered(o, {"none", "open"}, "failed")
  /\ UNCHANGED <<up, index, durable, written, idOf>>

(* The entry names one of the sets of Replicas, whose members all have a    *)
(* file for the id.                                                         *)
Commit(o) ==
  /\ Answered(o, {"open"}, "committed")
  /\ \E S \in Replicas :
       /\ \A m \in S : <<m, idOf[o]>> \in written
       /\ index' = [index EXCEPT ![idOf[o]] = S]
  /\ UNCHANGED <<up, durable, written, idOf>>

BeginSave ==
  /\ up
  /\ durable' = NoIndex
  /\ UNCHANGED <<up, index, written, idOf, answer>>

(* The index becomes durable on behalf of a registration or the watcher.    *)
Save ==
  /\ up
  /\ durable' = index
  /\ UNCHANGED <<up, index, written, idOf, answer>>

(* A SET is answered OK in the step that has made the index durable.        *)
Ack(o) ==
  /\ Answered(o, {"committed"}, "ok")
  /\ durable' = index \/ (SaveMayFail /\ durable' = durable)
  /\ UNCHANGED <<up, index, written, idOf>>

(* Requests in progress are lost, answered ones stay answered.              *)
Crash ==
  /\ up
  /\ up' = FALSE
  /\ index' = NoIndex
  /\ answer' = [o \in Op |-> IF answer[o] \in {"open", "committed"} THEN "lost" ELSE answer[o]]
  /\ UNCHANGED <<durable, written, idOf>>

Recover ==
  /\ ~up
  /\ up' = TRUE
  /\ index' = durable
  /\ UNCHANGED <<durable, written, idOf, answer>>

Next ==
  \/ \E m \in Member, i \in Id : Write(m, i)
  \/ \E o \in Op : Accept(o) \/ Refuse(o) \/ Commit(o) \/ Ack(o)
  \/ BeginSave
  \/ Save
  \/ Crash
  \/ Recover

Spec == Init /\ [][Next]_vars
===============================================================================
