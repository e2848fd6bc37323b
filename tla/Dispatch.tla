------------------------------- MODULE Dispatch --------------------------------
(***************************************************************************)
(* How the requests of the leader get their connections: dialMember in     *)
(* internal/server/leader/leader.go with the pool conns and its mutex      *)
(* connsMu, called by the goroutines of Store (module Placement chooses    *)
(* their targets) and by Retrieve, for one member after the other.         *)
(*                                                                         *)
(* A dial blocks until the member answers or rpcTimeout (2 s) is over, and *)
(* it holds connsMu all that time: requests to members whose connection is *)
(* pooled wait as well.  connsMu is a sync.Mutex: when it is free, any     *)
(* goroutine may get it, one that has just come before those that wait.    *)
(*                                                                         *)
(* A request that has its connection ends by itself (its RPC has a time    *)
(* limit of its own), so no step stands for the RPC.  A pooled connection  *)
(* never shuts down: nothing outside the tests closes one.                 *)
(***************************************************************************)
EXTENDS Placement

CONSTANT Getter   \* the GETs that may be in progress at once

ASSUME DispatchAssumption == Getter \cap Slot = {}

VARIABLES
  conns,     \* s.conns: the members with a pooled connection
  reached,   \* per Store: the targets dialMember has returned for
  dialling   \* the goroutine that dials, with connsMu, as a set

dispatchVars == <<conns, reached, dialling>>
allVars == <<vars, dispatchVars>>

(* A goroutine: the Store or GET it belongs to and whom it has to reach.    *)
Task(r, a) == [of |-> r, to |-> a]

(* The goroutines of s that have not got connsMu yet.                       *)
Waiting(s) == {Task(s, a) : a \in target[s] \ reached[s]} \ dialling

DispatchInit ==
  /\ Init
  /\ conns = {}
  /\ reached = [s \in Slot |-> {}]
  /\ dialling = {}

(* Store starts one goroutine per target.                                   *)
StoreBegin(s) == Begin(s) /\ UNCHANGED dispatchVars

(* wg.Wait() returns: every goroutine has come back from dialMember.        *)
StoreEnd(s) ==
  /\ reached[s] = target[s]
  /\ Finish(s)
  /\ reached' = [reached EXCEPT ![s] = {}]
  /\ UNCHANGED <<conns, dialling>>

(* Mutant: connsMu is released while a dial is in progress. *)
Turn_WhileDialling == TRUE

(* connsMu is free, for whoever asks.                                       *)
Turn == dialling = {}

(* dialMember returns to t, with or without a connection.                   *)
Returns(t) ==
  reached' = [s \in Slot |-> IF s = t.of THEN reached[s] \cup {t.to} ELSE reached[s]]

(* The connection is pooled.                                                *)
Reuse(t) ==
  /\ Turn
  /\ t.to \in conns
  /\ Returns(t)
  /\ UNCHANGED <<vars, conns, dialling>>

(* grpc.DialContext is called, and blocks.                                  *)
Dial(t) ==
  /\ Turn
  /\ t.to \notin conns
  /\ dialling' = dialling \cup {t}
  /\ UNCHANGED <<vars, conns, reached>>

(* A goroutine of s gets connsMu.                                           *)
Served(s) == \E t \in Waiting(s) : Reuse(t) \/ Dial(t)

(* So does a GET, which changes nothing when the connection is pooled.      *)
GetDial(g) == \E a \in Addr : Dial(Task(g, a))

(* The member answers; the connection is pooled and connsMu released.       *)
DialOk(t) ==
  /\ t \in dialling
  /\ t.to \notin Silent
  /\ dialling' = dialling \ {t}
  /\ conns' = conns \cup {t.to}
  /\ Returns(t)
  /\ UNCHANGED vars

(* Mutant: the goroutine of a failed dial is never counted as done. *)
DialTimeout_NotDone(t) ==
  /\ t \in dialling
  /\ t.to \in Silent
  /\ dialling' = dialling \ {t}
  /\ UNCHANGED <<vars, conns, reached>>

(* rpcTimeout is over.                                                      *)
DialTimeout(t) ==
  /\ t \in dialling
  /\ t.to \in Silent
  /\ dialling' = dialling \ {t}
  /\ Returns(t)
  /\ UNCHANGED <<vars, conns>>

DispatchNext ==
  \/ \E s \in Slot : StoreBegin(s) \/ StoreEnd(s) \/ Served(s)
  \/ \E g \in Getter : GetDial(g)
  \/ \E t \in dialling : DialOk(t) \/ DialTimeout(t)

DispatchSpec == DispatchInit /\ [][DispatchNext]_allVars

(* Goroutines run and dials end within their limit.  A goroutine that has   *)
(* waited for 1 ms switches connsMu to its starvation mode, in which it is  *)
(* handed to who waits longest: nobody is passed over for ever, though the  *)
(* mutex is free only now and then (strong fairness).  Nobody has to begin  *)
(* a Store or a GET.                                                        *)
DispatchFairness ==
  /\ \A s \in Slot : WF_allVars(StoreEnd(s)) /\ SF_allVars(Served(s))
  /\ WF_allVars(\E t \in dialling : DialOk(t) \/ DialTimeout(t))

FairDispatch == DispatchSpec /\ DispatchFairness

-------------------------------------------------------------------------------
(* A member never has two connections, pooled or on their way, whoever asks *)
(* for them: the leader would leak the one that s.conns forgets (check,     *)
(* dial and insertion in dialMember are one critical section).              *)
OneConnection ==
  /\ \A t \in dialling : t.to \notin conns
  /\ \A t, u \in dialling : t.to = u.to => t = u

(* Every Store comes back from its replicas, although all dials, those of   *)
(* GETs included, go through one mutex and some of them fail.               *)
ReplicationEnds == \A s \in Slot : target[s] # {} ~> target[s] = {}
===============================================================================
