---------------------------- MODULE Dispatch_proofs ----------------------------
(* What concurrent Stores make of the counts they pick from, and what connsMu  *)
(* gives the pool of connections, for any number of Stores and members.        *)
EXTENDS Dispatch, Balancer_proofs

-------------------------------------------------------------------------------
(* Picks *)

(* A member that is left out is at least as loaded as each one that is picked. *)
LEMMA LeastArePicked ==
  ASSUME NEW cand \in SUBSET Nat, IsFiniteSet(cand), NEW counts \in [cand -> Nat], NEW tol \in Nat,
         NEW a \in LeastLoaded(cand, counts, tol), NEW b \in cand \ LeastLoaded(cand, counts, tol)
  PROVE  counts[a] <= counts[b]
<1> SUFFICES ASSUME counts[b] < counts[a] PROVE FALSE
  BY DEF LeastLoaded
<1>1. a \in cand /\ Before(counts, b, a)
  BY DEF LeastLoaded, Before
<1>2. Lighter(cand, counts, b) \subseteq Lighter(cand, counts, a)
  BY <1>1, BeforeIsTotalOrder DEF Lighter
<1>3. IsFiniteSet(Lighter(cand, counts, a)) /\ IsFiniteSet(Lighter(cand, counts, b))
  BY FS_Subset DEF Lighter
<1>4. Cardinality(Lighter(cand, counts, b)) <= Cardinality(Lighter(cand, counts, a))
  BY <1>2, <1>3, FS_Subset
<1>5. /\ Cardinality(Lighter(cand, counts, a)) \in Nat
      /\ Cardinality(Lighter(cand, counts, b)) \in Nat
  BY <1>3, FS_CardinalityType
<1>6. Cardinality(Lighter(cand, counts, a)) < tol
  BY DEF LeastLoaded, Lighter
<1>7. b \in LeastLoaded(cand, counts, tol)
  BY <1>4, <1>5, <1>6 DEF LeastLoaded, Lighter
<1> QED
  BY <1>7

(* Sets of Stores, and how one Store changes how many are in them.             *)
LEMMA SlotSets ==
  \A T \in SUBSET Slot :
    /\ IsFiniteSet(T) /\ Cardinality(T) \in Nat
    /\ Cardinality(Slot) \in Nat /\ Cardinality(T) <= Cardinality(Slot)
    /\ \A s \in T : Cardinality(T \ {s}) = Cardinality(T) - 1
<1> SUFFICES ASSUME NEW T \in SUBSET Slot
             PROVE  /\ IsFiniteSet(T) /\ Cardinality(T) \in Nat
                    /\ Cardinality(Slot) \in Nat /\ Cardinality(T) <= Cardinality(Slot)
                    /\ \A s \in T : Cardinality(T \ {s}) = Cardinality(T) - 1
  OBVIOUS
<1>1. IsFiniteSet(Slot)
  BY PlacementAssumption
<1>2. IsFiniteSet(T) /\ Cardinality(T) <= Cardinality(Slot)
  BY <1>1, FS_Subset
<1>3. Cardinality(T) \in Nat /\ Cardinality(Slot) \in Nat
  BY <1>1, <1>2, FS_CardinalityType
<1>4. ASSUME NEW s \in T PROVE Cardinality(T \ {s}) = Cardinality(T) - 1
  BY <1>2, FS_RemoveElement
<1> QED
  BY <1>2, <1>3, <1>4

-------------------------------------------------------------------------------
(* Placement *)

(* The Stores that send to a, and those that send to a and not to b.           *)
Sending(a) == {s \in Slot : a \in target[s]}
Ahead(a, b) == {s \in Slot : a \in target[s] /\ b \notin target[s]}

(* What has been picked counts as if it had answered already.                  *)
PlaceInv ==
  /\ strategy \in {"leastloaded", "p2c"}
  /\ load \in [Addr -> Nat]
  /\ target \in [Slot -> {S \in SUBSET Addr : S = {} \/ Cardinality(S) = Tolerance}]
  /\ \A a \in Addr : load[a] + Cardinality(Sending(a)) <= MaxLoad + Cardinality(Slot)

SpreadInv ==
  strategy = "leastloaded" =>
    \A a, b \in Addr \ Silent : load[a] + Cardinality(Ahead(a, b)) <= load[b] + Cardinality(Slot)

(* A Store begins with Tolerance members, the least loaded ones if so asked.   *)
LEMMA BeginStep ==
  ASSUME PlaceInv, NEW s \in Slot, Begin(s)
  PROVE  \E S \in SUBSET Addr :
           /\ Cardinality(S) = Tolerance
           /\ target[s] = {} /\ target' = [target EXCEPT ![s] = S]
           /\ UNCHANGED <<strategy, load>>
           /\ \A a \in Addr : load[a] < MaxLoad
           /\ strategy = "leastloaded" => \A a \in S, b \in Addr \ S : load[a] <= load[b]
<1>1. PICK S \in Picks(strategy, Addr, load, Tolerance) :
        Cardinality(S) >= Tolerance /\ target' = [target EXCEPT ![s] = S]
  BY DEF Begin
<1>2. /\ Addr \in SUBSET Nat /\ IsFiniteSet(Addr) /\ Tolerance \in Nat /\ load \in [Addr -> Nat]
  BY PlacementAssumption DEF PlaceInv
<1>3. S \subseteq Addr /\ IsFiniteSet(S) /\ Cardinality(S) <= Tolerance
  BY <1>2, PickBounded
<1>4. Cardinality(S) = Tolerance
  BY <1>1, <1>2, <1>3, FS_CardinalityType
<1>5. ASSUME strategy = "leastloaded", NEW a \in S, NEW b \in Addr \ S PROVE load[a] <= load[b]
  <2>1. S = LeastLoaded(Addr, load, Tolerance)
    BY <1>5 DEF Picks
  <2> QED
    BY <1>2, <2>1, LeastArePicked
<1> QED
  BY <1>1, <1>3, <1>4, <1>5 DEF Begin

LEMMA NextPlace == PlaceInv /\ [Next]_vars => PlaceInv'
<1> SUFFICES ASSUME PlaceInv, [Next]_vars PROVE PlaceInv'
  OBVIOUS
<1> USE DEF PlaceInv
<1>1. ASSUME NEW s \in Slot, Begin(s) PROVE PlaceInv'
  <2>1. PICK S \in SUBSET Addr :
           /\ Cardinality(S) = Tolerance
           /\ target' = [target EXCEPT ![s] = S]
           /\ UNCHANGED <<strategy, load>>
           /\ \A a \in Addr : load[a] < MaxLoad
    BY <1>1, BeginStep
  <2>2. target' \in [Slot -> {U \in SUBSET Addr : U = {} \/ Cardinality(U) = Tolerance}]
    BY <2>1
  <2>3. ASSUME NEW a \in Addr PROVE load'[a] + Cardinality(Sending(a)') <= MaxLoad + Cardinality(Slot)
    <3>1. Sending(a)' \in SUBSET Slot
      BY DEF Sending
    <3>2. Cardinality(Sending(a)') <= Cardinality(Slot) /\ Cardinality(Sending(a)') \in Nat
          /\ Cardinality(Slot) \in Nat
      BY <3>1, SlotSets
    <3>3. load'[a] = load[a] /\ load[a] \in Nat /\ load[a] < MaxLoad /\ MaxLoad \in Nat
      BY <2>1, PlacementAssumption
    <3> QED
      BY <3>2, <3>3
  <2> QED
    BY <2>1, <2>2, <2>3
<1>2. ASSUME NEW s \in Slot, Finish(s) PROVE PlaceInv'
  <2>1. /\ load' \in [Addr -> Nat] /\ UNCHANGED strategy
        /\ \A a \in Addr : load'[a] <= load[a] + 1 /\ (a \notin target[s] => load'[a] = load[a])
    BY <1>2 DEF Finish
  <2>2. target' \in [Slot -> {U \in SUBSET Addr : U = {} \/ Cardinality(U) = Tolerance}]
    BY <1>2 DEF Finish
  <2>3. ASSUME NEW a \in Addr PROVE load'[a] + Cardinality(Sending(a)') <= MaxLoad + Cardinality(Slot)
    <3>1. Sending(a)' = Sending(a) \ {s} /\ Sending(a) \in SUBSET Slot
      BY <1>2 DEF Finish, Sending
    <3>2. /\ Cardinality(Sending(a)) \in Nat /\ Cardinality(Slot) \in Nat
          /\ s \in Sending(a) => Cardinality(Sending(a)') = Cardinality(Sending(a)) - 1
          /\ s \notin Sending(a) => Cardinality(Sending(a)') = Cardinality(Sending(a))
      BY <3>1, SlotSets
    <3>3. s \in Sending(a) <=> a \in target[s]
      BY DEF Sending
    <3>4. load[a] \in Nat /\ load'[a] \in Nat /\ MaxLoad \in Nat
      BY <2>1, PlacementAssumption
    <3> QED
      BY <2>1, <3>2, <3>3, <3>4
  <2> QED
    BY <2>1, <2>2, <2>3
<1>3. CASE UNCHANGED vars
  BY <1>3 DEF vars, Sending
<1> QED
  BY <1>1, <1>2, <1>3 DEF Next

LEMMA NextSpread == PlaceInv /\ SpreadInv /\ [Next]_vars => SpreadInv'
<1> SUFFICES ASSUME PlaceInv, SpreadInv, [Next]_vars, strategy' = "leastloaded",
                    NEW a \in Addr \ Silent, NEW b \in Addr \ Silent
             PROVE  load'[a] + Cardinality(Ahead(a, b)') <= load'[b] + Cardinality(Slot)
  BY DEF SpreadInv
<1> USE DEF PlaceInv
<1>1. strategy = "leastloaded"
  BY DEF Next, Begin, Finish, vars
<1>2. /\ load[a] + Cardinality(Ahead(a, b)) <= load[b] + Cardinality(Slot)
      /\ load[a] \in Nat /\ load[b] \in Nat
  BY <1>1 DEF SpreadInv
<1>3. Ahead(a, b) \in SUBSET Slot /\ Ahead(a, b)' \in SUBSET Slot
  BY DEF Ahead
<1>4. /\ Cardinality(Ahead(a, b)) \in Nat /\ Cardinality(Ahead(a, b)') \in Nat
      /\ Cardinality(Slot) \in Nat /\ Cardinality(Ahead(a, b)') <= Cardinality(Slot)
  BY <1>3, SlotSets
<1>5. ASSUME NEW s \in Slot, Begin(s)
      PROVE  load'[a] + Cardinality(Ahead(a, b)') <= load'[b] + Cardinality(Slot)
  <2>1. PICK S \in SUBSET Addr :
           /\ target[s] = {} /\ target' = [target EXCEPT ![s] = S]
           /\ load' = load
           /\ \A c \in S, d \in Addr \ S : load[c] <= load[d]
    BY <1>1, <1>5, BeginStep
  <2>2. CASE a \in S /\ b \notin S
    BY <1>2, <1>4, <2>1, <2>2
  <2>3. CASE ~(a \in S /\ b \notin S)
    <3>1. Ahead(a, b)' = Ahead(a, b)
      BY <2>1, <2>3 DEF Ahead
    <3> QED
      BY <1>2, <2>1, <3>1
  <2> QED
    BY <2>2, <2>3
<1>6. ASSUME NEW s \in Slot, Finish(s)
      PROVE  load'[a] + Cardinality(Ahead(a, b)') <= load'[b] + Cardinality(Slot)
  <2>1. /\ load'[a] = IF a \in target[s] THEN load[a] + 1 ELSE load[a]
        /\ load'[b] = IF b \in target[s] THEN load[b] + 1 ELSE load[b]
    BY <1>6 DEF Finish
  <2>2. Ahead(a, b)' = Ahead(a, b) \ {s}
    BY <1>6 DEF Finish, Ahead
  <2>3. s \in Ahead(a, b) <=> a \in target[s] /\ b \notin target[s]
    BY DEF Ahead
  <2>4. CASE s \in Ahead(a, b)
    <3>1. Cardinality(Ahead(a, b)') = Cardinality(Ahead(a, b)) - 1
      BY <1>3, <2>2, <2>4, SlotSets
    <3> QED
      BY <1>2, <1>4, <2>1, <2>3, <2>4, <3>1
  <2>5. CASE s \notin Ahead(a, b)
    <3>1. Ahead(a, b)' = Ahead(a, b)
      BY <2>2, <2>5
    <3> QED
      BY <1>2, <1>4, <2>1, <2>3, <2>5, <3>1
  <2> QED
    BY <2>4, <2>5
<1>7. CASE UNCHANGED vars
  <2>1. Ahead(a, b)' = Ahead(a, b) /\ load' = load
    BY <1>7 DEF vars, Ahead
  <2> QED
    BY <1>2, <2>1
<1> QED
  BY <1>5, <1>6, <1>7 DEF Next

LEMMA InitPlace == Init => PlaceInv /\ SpreadInv
<1> SUFFICES ASSUME Init PROVE PlaceInv /\ SpreadInv
  OBVIOUS
<1>1. \A a, b : Sending(a) = {} /\ Ahead(a, b) = {}
  BY DEF Init, Sending, Ahead
<1>2. Cardinality({}) = 0 /\ Cardinality(Slot) \in Nat /\ MaxLoad \in Nat
  BY FS_EmptySet, SlotSets, PlacementAssumption
<1>3. \A a, b : Cardinality(Sending(a)) = 0 /\ Cardinality(Ahead(a, b)) = 0
  BY <1>1, <1>2
<1>4. load \in [Addr -> Nat] /\ \A a \in Addr : load[a] = 0
  BY DEF Init
<1>5. PlaceInv
  BY <1>2, <1>3, <1>4 DEF Init, PlaceInv
<1>6. SpreadInv
  BY <1>2, <1>3, <1>4 DEF SpreadInv
<1> QED
  BY <1>5, <1>6

(* Every step of Dispatch is one of Placement or leaves its variables alone.   *)
LEMMA DispatchPlaces == [DispatchNext]_allVars => [Next]_vars
<1> SUFFICES ASSUME [DispatchNext]_allVars PROVE [Next]_vars
  OBVIOUS
<1>1. ASSUME NEW s \in Slot, StoreBegin(s) \/ StoreEnd(s) PROVE Next
  BY <1>1 DEF StoreBegin, StoreEnd, Next
<1>2. ASSUME NEW t, Reuse(t) \/ Dial(t) \/ DialOk(t) \/ DialTimeout(t) PROVE UNCHANGED vars
  BY <1>2 DEF Reuse, Dial, DialOk, DialTimeout
<1>3. ASSUME NEW s, Served(s) \/ GetDial(s) PROVE UNCHANGED vars
  BY <1>2, <1>3 DEF Served, GetDial
<1>4. UNCHANGED allVars => UNCHANGED vars
  BY DEF allVars
<1> QED
  BY <1>1, <1>2, <1>3, <1>4 DEF DispatchNext

LEMMA AlwaysPlaced == DispatchSpec => [](PlaceInv /\ SpreadInv)
<1>1. DispatchInit => PlaceInv /\ SpreadInv
  BY InitPlace DEF DispatchInit
<1> QED
  BY <1>1, NextPlace, NextSpread, DispatchPlaces, PTL DEF DispatchSpec

(* Placement stays well typed: no count passes the bound by more than the      *)
(* Stores that were under way (TypeOK).                                        *)
THEOREM TypeCorrect == DispatchSpec => []TypeOK
<1>1. PlaceInv => TypeOK
  <2> SUFFICES ASSUME PlaceInv PROVE TypeOK
    OBVIOUS
  <2>1. ASSUME NEW a \in Addr PROVE load[a] \in 0..(MaxLoad + Cardinality(Slot))
    <3>1. Sending(a) \in SUBSET Slot
      BY DEF Sending
    <3>2. Cardinality(Sending(a)) \in Nat /\ Cardinality(Slot) \in Nat /\ MaxLoad \in Nat
      BY <3>1, SlotSets, PlacementAssumption
    <3> QED
      BY <3>2 DEF PlaceInv
  <2> QED
    BY <2>1 DEF PlaceInv, TypeOK
<1> QED
  BY <1>1, AlwaysPlaced, PTL

(* Least-loaded placement keeps the members that answer within the number of   *)
(* Stores at once (SpreadBounded).  It is not inductive by itself: SpreadInv   *)
(* counts the Stores that will add to one member and not to the other.         *)
THEOREM SpreadAlwaysBounded == DispatchSpec => []SpreadBounded
<1>1. PlaceInv /\ SpreadInv => SpreadBounded
  <2> SUFFICES ASSUME PlaceInv, SpreadInv, strategy = "leastloaded",
                      NEW a \in Addr \ Silent, NEW b \in Addr \ Silent
               PROVE  load[a] <= load[b] + Cardinality(Slot)
    BY DEF SpreadBounded
  <2>1. Ahead(a, b) \in SUBSET Slot
    BY DEF Ahead
  <2>2. Cardinality(Ahead(a, b)) \in Nat /\ Cardinality(Slot) \in Nat
    BY <2>1, SlotSets
  <2> QED
    BY <2>2 DEF PlaceInv, SpreadInv
<1> QED
  BY <1>1, AlwaysPlaced, PTL

(* The draws of power-of-two-choices always have the closed form that Store is *)
(* modelled with (P2CClosedForm).                                              *)
THEOREM DrawsAlwaysClosedForm == DispatchSpec => []P2CClosedForm
<1>1. PlaceInv => P2CClosedForm
  <2> SUFFICES ASSUME PlaceInv, NEW tol \in 1..Cardinality(Addr)
               PROVE  P2CDraws(Addr, load, tol) = P2C(Addr, load, tol)
    BY DEF P2CClosedForm
  <2>1. IsFiniteSet(Addr) /\ load \in [Addr -> Nat] /\ tol \in Nat \ {0}
    BY PlacementAssumption, FS_CardinalityType DEF PlaceInv
  <2> QED
    BY <2>1, DrawsSpareOne
<1> QED
  BY <1>1, AlwaysPlaced, PTL

(* A Store never picks the member that, alone, has the most                    *)
(* (LonelyMaximumSpared).                                                      *)
THEOREM MaximumAlwaysSpared == DispatchSpec => LonelyMaximumSpared
<1> DEFINE Spared == \A s \in Slot : \A m \in Addr :
                       /\ target[s] = {} /\ m \in target'[s]
                       /\ Tolerance < Cardinality(Addr)
                       => \E b \in Addr \ {m} : load[b] >= load[m]
<1>1. PlaceInv /\ [Next]_vars => Spared
  <2> SUFFICES ASSUME PlaceInv, [Next]_vars, NEW s \in Slot, NEW m \in Addr,
                      target[s] = {}, m \in target'[s], Tolerance < Cardinality(Addr)
               PROVE  \E b \in Addr \ {m} : load[b] >= load[m]
    OBVIOUS
  <2>1. Begin(s)
    BY DEF Next, Begin, Finish, vars, PlaceInv
  <2>2. PICK S \in Picks(strategy, Addr, load, Tolerance) : target' = [target EXCEPT ![s] = S]
    BY <2>1 DEF Begin
  <2>3. m \in S
    BY <2>2 DEF PlaceInv
  <2>4. /\ Addr \in SUBSET Nat /\ IsFiniteSet(Addr) /\ Tolerance \in Nat /\ load \in [Addr -> Nat]
    BY PlacementAssumption DEF PlaceInv
  <2>5. S \subseteq Addr /\ IsFiniteSet(S) /\ Cardinality(S) <= Tolerance
    BY <2>4, PickBounded
  <2>6. S # Addr /\ ~(Cardinality(Addr) <= Tolerance)
    BY <2>4, <2>5, FS_CardinalityType
  <2>7. \E b \in Addr \ S : load[m] <= load[b]
    <3>1. CASE strategy = "p2c"
      BY <2>3, <2>6, <3>1 DEF Picks, P2C
    <3>2. CASE strategy # "p2c"
      <4>1. S = LeastLoaded(Addr, load, Tolerance)
        BY <3>2 DEF Picks
      <4>2. PICK b \in Addr \ S : TRUE
        BY <2>5, <2>6
      <4> QED
        BY <2>3, <2>4, <4>1, <4>2, LeastArePicked
    <3> QED
      BY <3>1, <3>2
  <2>8. PICK b \in Addr \ S : load[m] <= load[b]
    BY <2>7
  <2>9. b \in Addr \ {m} /\ load[b] >= load[m]
    BY <2>3, <2>4, <2>8
  <2> QED
    BY <2>9
<1>2. PlaceInv /\ [DispatchNext]_allVars => [Spared]_vars
  BY <1>1, DispatchPlaces
<1> QED
  BY <1>2, AlwaysPlaced, PTL DEF DispatchSpec, LonelyMaximumSpared

-------------------------------------------------------------------------------
(* The pool of connections *)

(* The mutex: one goroutine dials at a time, and a member it has found without *)
(* a connection.                                                               *)
MutexInv ==
  /\ \A t, u \in dialling : t = u
  /\ \A t \in dialling : t.to \notin conns

LEMMA NextMutex == MutexInv /\ [DispatchNext]_allVars => MutexInv'
<1> SUFFICES ASSUME MutexInv, [DispatchNext]_allVars PROVE MutexInv'
  OBVIOUS
<1>1. CASE UNCHANGED <<conns, dialling>>
  BY <1>1 DEF MutexInv
<1>2. ASSUME NEW s \in Slot, StoreBegin(s) \/ StoreEnd(s) PROVE UNCHANGED <<conns, dialling>>
  BY <1>2 DEF StoreBegin, StoreEnd, dispatchVars
<1>3. ASSUME NEW t, Reuse(t) PROVE UNCHANGED <<conns, dialling>>
  BY <1>3 DEF Reuse
<1>4. ASSUME NEW t, Dial(t) PROVE MutexInv'
  <2>1. dialling' = {t} /\ conns' = conns /\ t.to \notin conns
    BY <1>4 DEF Dial, Turn
  <2> QED
    BY <2>1 DEF MutexInv
<1>5. ASSUME NEW t, DialOk(t) \/ DialTimeout(t) PROVE MutexInv'
  <2>1. t \in dialling /\ dialling' = dialling \ {t}
    BY <1>5 DEF DialOk, DialTimeout
  <2>2. dialling' = {}
    BY <2>1 DEF MutexInv
  <2> QED
    BY <2>2 DEF MutexInv
<1>6. UNCHANGED allVars => UNCHANGED <<conns, dialling>>
  BY DEF allVars, dispatchVars
<1>7. ASSUME NEW s, Served(s) \/ GetDial(s) PROVE MutexInv'
  BY <1>1, <1>3, <1>4, <1>7 DEF Served, GetDial
<1> QED
  BY <1>1, <1>2, <1>5, <1>6, <1>7 DEF DispatchNext

(* A member never has two connections, pooled or on their way (OneConnection): *)
(* between the look into the pool and the insertion nobody else dials.         *)
THEOREM AlwaysOneConnection == DispatchSpec => []OneConnection
<1>1. DispatchInit => MutexInv
  BY DEF DispatchInit, MutexInv
<1>2. MutexInv => OneConnection
  BY DEF MutexInv, OneConnection
<1> QED
  BY <1>1, <1>2, NextMutex, PTL DEF DispatchSpec
===============================================================================
