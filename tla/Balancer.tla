------------------------------- MODULE Balancer -------------------------------
(***************************************************************************)
(* The two placement strategies of internal/server/balancer: which members *)
(* of a snapshot of candidates receive the replicas of one message.        *)
(*                                                                         *)
(* An address is a natural number: the code only ever compares addresses,  *)
(* as strings, and numeric order stands for that order.  A candidate slice *)
(* is the set cand of its addresses with the function load from address to *)
(* Count; the leader builds it from a list without duplicates              *)
(* (Leader!MembersMatchLog), so nothing is lost.  A pick is a set: Store   *)
(* contacts its targets in parallel and never looks at their order.        *)
(***************************************************************************)
EXTENDS Naturals, FiniteSets

(* Mutant: the counts are not compared. *)
Before_AddrOnly(load, a, b) == a < b

(* The comparison handed to sort.SliceStable: Count, then address. *)
Before(load, a, b) ==
  \/ load[a] < load[b]
  \/ load[a] = load[b] /\ a < b

(* Mutant: one target too many. *)
LeastLoaded_OneMore(cand, load, tol) ==
  {a \in cand : Cardinality({b \in cand : Before(load, b, a)}) <= tol}

(* LeastLoadedBalancer.Pick: the first tol candidates of the sorted slice, *)
(* or all of them when there are fewer.                                    *)
LeastLoaded(cand, load, tol) ==
  {a \in cand : Cardinality({b \in cand : Before(load, b, a)}) < tol}

(* Mutant: the two indexes may be the same. *)
Winners_SameIndex(pool, load) == pool

(* The candidates that one draw from pool may yield: rand gives two        *)
(* distinct indexes, the second wins only when strictly less loaded.  The  *)
(* last remaining candidate is taken without a draw.                       *)
Winners(pool, load) ==
  IF Cardinality(pool) = 1
    THEN pool
    ELSE {a \in pool : \E b \in pool \ {a} : load[a] <= load[b]}

(* PowerOfTwoChoicesBalancer.Pick as its loop runs it: draw, remove the    *)
(* winner from the pool, draw again, tol times.                            *)
P2CDraws(cand, load, tol) ==
  LET draw[k \in 0..tol] ==
        IF k = 0
          THEN {{}}
          ELSE UNION {{out \cup {w} : w \in Winners(cand \ out, load)} :
                        out \in draw[k - 1]}
  IN  IF Cardinality(cand) <= tol THEN {cand} ELSE draw[tol]

(* Mutant: one random index instead of the better of two. *)
P2C_OneChoice(cand, load, tol) ==
  IF Cardinality(cand) <= tol
    THEN {cand}
    ELSE {S \in SUBSET cand : Cardinality(S) = tol}

(* The same picks in closed form: any tol candidates, as long as one that  *)
(* is at least as loaded as each of them is left out.                      *)
P2C(cand, load, tol) ==
  IF Cardinality(cand) <= tol
    THEN {cand}
    ELSE {S \in SUBSET cand :
            /\ Cardinality(S) = tol
            /\ \E b \in cand \ S : \A a \in S : load[a] <= load[b]}

(* LoadBalancer.Pick under the strategy NewLeaderServer chose: the set of  *)
(* picks that may be returned.  tol > 0 is ReadTolerance's validation.     *)
Picks(strategy, cand, load, tol) ==
  IF strategy = "p2c" THEN P2C(cand, load, tol) ELSE {LeastLoaded(cand, load, tol)}
===============================================================================
