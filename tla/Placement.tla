------------------------------ MODULE Placement -------------------------------
(***************************************************************************)
(* How the replicas of many messages spread over the members when several  *)
(* Stores run at once.  Each Store picks from a snapshot of the counts and *)
(* adds to them only after its RPCs have ended, so concurrent Stores pick  *)
(* from the same, by then stale, counts.  A member of Silent is still      *)
(* marked alive but answers no RPC: its count never grows, which makes it  *)
(* the least loaded one for ever.                                          *)
(***************************************************************************)
EXTENDS Balancer

CONSTANTS
  Addr,       \* the members marked alive throughout
  Silent,     \* those that answer no RPC
  Tolerance,  \* replicas per message
  Slot,       \* Store calls that may be in progress at once
  MaxLoad     \* bound: no Store begins once a count has reached it

ASSUME PlacementAssumption ==
  /\ Addr \subseteq Nat /\ IsFiniteSet(Addr)
  /\ Silent \subseteq Addr
  /\ Tolerance \in Nat \ {0}
  /\ IsFiniteSet(Slot)
  /\ MaxLoad \in Nat

VARIABLES
  strategy,  \* BALANCER_STRATEGY, read once at start
  load,    \* MemberLog[a].MessageCnt
  target   \* per Store call: the members it is sending to, {} when idle

vars == <<strategy, load, target>>

Init ==
  /\ strategy \in {"leastloaded", "p2c"}
  /\ load = [a \in Addr |-> 0]
  /\ target = [s \in Slot |-> {}]

(* Snapshot under stateMu, Pick, and the check against the tolerance. *)
Begin(s) ==
  /\ target[s] = {}
  /\ \A a \in Addr : load[a] < MaxLoad
  /\ \E S \in Picks(strategy, Addr, load, Tolerance) :
       /\ Cardinality(S) >= Tolerance
       /\ target' = [target EXCEPT ![s] = S]
  /\ UNCHANGED <<strategy, load>>

(* All RPCs have ended: one more message for every member that answered. *)
Finish(s) ==
  /\ target[s] # {}
  /\ load' = [a \in Addr |-> IF a \in target[s] \ Silent THEN load[a] + 1 ELSE load[a]]
  /\ target' = [target EXCEPT ![s] = {}]
  /\ UNCHANGED strategy

Next == \E s \in Slot : Begin(s) \/ Finish(s)

Spec == Init /\ [][Next]_vars

-------------------------------------------------------------------------------
(* The counts are naturals and every Store in progress has exactly          *)
(* Tolerance distinct targets (or is idle).                                 *)
TypeOK ==
  /\ strategy \in {"leastloaded", "p2c"}
  /\ load \in [Addr -> 0..(MaxLoad + Cardinality(Slot))]
  /\ target \in [Slot -> {S \in SUBSET Addr : S = {} \/ Cardinality(S) = Tolerance}]

(* Least-loaded placement keeps the members that answer within as many      *)
(* messages of each other as Stores run at once, however stale the          *)
(* snapshots are and whichever members are silent (leader.go, the snapshot  *)
(* in Store, and LeastLoadedBalancer.Pick).                                 *)
SpreadBounded ==
  strategy = "leastloaded" => \A a, b \in Addr \ Silent : load[a] <= load[b] + Cardinality(Slot)

(* Drawing two and keeping the lighter, tol times, yields exactly the picks *)
(* of the closed form, for every load distribution that arises: any member  *)
(* may be hit except that the heaviest one left is always spared            *)
(* (PowerOfTwoChoicesBalancer.Pick).                                        *)
P2CClosedForm ==
  \A tol \in 1..Cardinality(Addr) : P2CDraws(Addr, load, tol) = P2C(Addr, load, tol)

(* A step never adds a message to the member that, alone, had the most when *)
(* the Store picked: under power-of-two-choices a Store that is not         *)
(* overtaken by another never lengthens the longest queue.                  *)
LonelyMaximumSpared ==
  [][\A s \in Slot : \A m \in Addr :
       /\ target[s] = {} /\ m \in target'[s]
       /\ Tolerance < Cardinality(Addr)
       => \E b \in Addr \ {m} : load[b] >= load[m]]_vars
===============================================================================
