---------------------------- MODULE Balancer_proofs ---------------------------
(* What every pick of either strategy satisfies, whatever the candidates    *)
(* and their loads.                                                         *)
EXTENDS Balancer, FiniteSetTheorems, WellFoundedInduction, TLAPS

(* The candidates sorted before a. *)
Lighter(cand, load, a) == {b \in cand : Before(load, b, a)}

(* The comparison is a strict total order on the candidates: addresses are  *)
(* distinct, so the sort has one possible result.                           *)
LEMMA BeforeIsTotalOrder ==
  ASSUME NEW cand \in SUBSET Nat, NEW load \in [cand -> Nat]
  PROVE  /\ \A a \in cand : ~Before(load, a, a)
         /\ \A a, b \in cand : a # b => Before(load, a, b) \/ Before(load, b, a)
         /\ \A a, b, c \in cand : Before(load, a, b) /\ Before(load, b, c) => Before(load, a, c)
  BY DEF Before

(* Different candidates have different numbers of lighter ones.             *)
LEMMA RanksDiffer ==
  ASSUME NEW cand \in SUBSET Nat, IsFiniteSet(cand), NEW load \in [cand -> Nat],
         NEW a \in cand, NEW b \in cand, Before(load, a, b)
  PROVE  Cardinality(Lighter(cand, load, a)) # Cardinality(Lighter(cand, load, b))
<1>1. /\ Lighter(cand, load, a) \subseteq Lighter(cand, load, b)
      /\ a \in Lighter(cand, load, b) /\ a \notin Lighter(cand, load, a)
  BY BeforeIsTotalOrder DEF Lighter
<1>2. IsFiniteSet(Lighter(cand, load, b))
  BY FS_Subset DEF Lighter
<1>3. QED
  BY <1>1, <1>2, FS_Subset

(* Neither strategy picks a stranger or more than tol members: Store never  *)
(* writes more copies than the tolerance asks for.                          *)
THEOREM PickBounded ==
  ASSUME NEW cand \in SUBSET Nat, IsFiniteSet(cand), NEW load \in [cand -> Nat],
         NEW tol \in Nat, NEW strategy,
         NEW S \in Picks(strategy, cand, load, tol)
  PROVE  S \subseteq cand /\ IsFiniteSet(S) /\ Cardinality(S) <= tol
<1>1. S \subseteq cand
  BY DEF Picks, P2C, LeastLoaded
<1>2. IsFiniteSet(S)
  BY <1>1, FS_Subset
<1>3. CASE strategy = "p2c"
  BY <1>1, <1>2, <1>3, FS_CardinalityType DEF Picks, P2C
<1>4. CASE strategy # "p2c"
  <2> DEFINE rank == [a \in S |-> Cardinality(Lighter(cand, load, a))]
  <2>1. S = {a \in cand : Cardinality(Lighter(cand, load, a)) < tol}
    BY <1>4 DEF Picks, LeastLoaded, Lighter
  <2>2. ASSUME NEW a \in S PROVE rank[a] \in 0..(tol - 1)
    <3>1. IsFiniteSet(Lighter(cand, load, a))
      BY FS_Subset DEF Lighter
    <3>2. Cardinality(Lighter(cand, load, a)) \in Nat
      BY <3>1, FS_CardinalityType
    <3>3. QED
      BY <2>1, <3>2
  <2>3. ASSUME NEW a \in S, NEW b \in S, a # b PROVE rank[a] # rank[b]
    BY <1>1, <2>3, BeforeIsTotalOrder, RanksDiffer
  <2>4. rank \in Injection(S, 0..(tol - 1))
    BY <2>2, <2>3 DEF Injection, IsInjective
  <2>5. IsFiniteSet(0..(tol - 1)) /\ Cardinality(0..(tol - 1)) = tol
    <3>1. 0 \in Int /\ tol - 1 \in Int
      OBVIOUS
    <3>2. /\ IsFiniteSet(0..(tol - 1))
          /\ Cardinality(0..(tol - 1)) = IF 0 > tol - 1 THEN 0 ELSE (tol - 1) - 0 + 1
      BY ONLY <3>1, FS_Interval
    <3>3. QED
      BY <3>2
  <2> HIDE DEF rank
  <2>6. Cardinality(S) <= Cardinality(0..(tol - 1))
    BY <2>4, <2>5, FS_Injection
  <2>7. QED
    BY <1>1, <1>2, <2>5, <2>6, FS_CardinalityType
<1>5. QED
  BY <1>1, <1>2, <1>3, <1>4
-------------------------------------------------------------------------------
(* The draws of power-of-two-choices *)

(* A nonempty set of naturals has a least member: what an induction over them  *)
(* comes down to.                                                              *)
LEMMA LeastNat ==
  ASSUME NEW S \in SUBSET Nat, S # {}
  PROVE  \E m \in S : \A k \in S : m <= k
<1>1. PICK m \in S : \A k \in S : <<k, m>> \notin OpToRel(<, Nat)
  BY NatLessThanWellFounded, WFMin, Zenon
<1>2. \A k \in S : ~(k < m)
  BY <1>1 DEF OpToRel
<1>3. QED
  BY <1>2

(* What k draws may have taken, in closed form.                                *)
SparesOne(cand, load, k) ==
  {S \in SUBSET cand :
     /\ Cardinality(S) = k
     /\ \E b \in cand \ S : \A a \in S : load[a] <= load[b]}

(* What one more draw makes of the set out, and of the sets in outs.           *)
After(cand, load, out) == {out \cup {w} : w \in Winners(cand \ out, load)}

Drawn(cand, load, outs) == UNION {After(cand, load, out) : out \in outs}

(* One more draw never takes the heaviest candidate left, and every other may  *)
(* be the one it takes.                                                        *)
LEMMA DrawStep ==
  ASSUME NEW cand, IsFiniteSet(cand), NEW load \in [cand -> Nat],
         NEW k \in Nat, k + 1 < Cardinality(cand)
  PROVE  Drawn(cand, load, SparesOne(cand, load, k)) = SparesOne(cand, load, k + 1)
<1>1. ASSUME NEW out \in SparesOne(cand, load, k), NEW w \in Winners(cand \ out, load)
      PROVE  out \cup {w} \in SparesOne(cand, load, k + 1)
  <2>1. /\ out \subseteq cand /\ IsFiniteSet(out) /\ Cardinality(out) = k
    BY FS_Subset DEF SparesOne
  <2>2. PICK b \in cand \ out : \A a \in out : load[a] <= load[b]
    BY DEF SparesOne
  <2>3. PICK b2 \in (cand \ out) \ {w} : load[w] <= load[b2]
    <3>1. Cardinality(cand \ out) # 1
      <4>1. Cardinality(cand \ out) = Cardinality(cand) - k /\ Cardinality(cand) \in Nat
        <5>1. cand \cap out = out
          BY <2>1
        <5>2. QED
          BY <2>1, <5>1, FS_Difference, FS_CardinalityType
      <4>2. QED
        BY <4>1
    <3>2. QED
      BY <3>1 DEF Winners
  <2>4. w \in cand \ out
    BY <2>3 DEF Winners
  <2>5. Cardinality(out \cup {w}) = k + 1
    BY <2>1, <2>4, FS_AddElement
  <2>6. \E h \in cand \ (out \cup {w}) : \A a \in out \cup {w} : load[a] <= load[h]
    <3>1. CASE b = w \/ load[b] <= load[b2]
      <4>1. \A a \in out : load[a] <= load[b2]
        <5>1. load[b] <= load[b2]
          BY <2>3, <3>1
        <5>2. \A a \in out : load[a] \in Nat /\ load[b] \in Nat /\ load[b2] \in Nat
          BY <2>1, <2>2, <2>3
        <5>3. QED
          BY <2>2, <5>1, <5>2
      <4>2. b2 \in cand \ (out \cup {w})
        BY <2>3
      <4>3. QED
        BY <2>3, <4>1, <4>2
    <3>2. CASE b # w /\ ~(load[b] <= load[b2])
      <4>1. load[b] \in Nat /\ load[b2] \in Nat /\ load[w] \in Nat
        BY <2>2, <2>3, <2>4
      <4>2. load[w] <= load[b]
        BY <2>3, <3>2, <4>1
      <4>3. QED
        BY <2>2, <3>2, <4>2
    <3>3. QED
      BY <3>1, <3>2
  <2>7. QED
    BY <2>1, <2>4, <2>5, <2>6 DEF SparesOne
<1>2. ASSUME NEW S \in SparesOne(cand, load, k + 1)
      PROVE  \E out \in SparesOne(cand, load, k) : S \in After(cand, load, out)
  <2>1. S \subseteq cand /\ IsFiniteSet(S) /\ Cardinality(S) = k + 1
    BY FS_Subset DEF SparesOne
  <2>2. PICK b \in cand \ S : \A a \in S : load[a] <= load[b]
    BY DEF SparesOne
  <2>3. PICK w \in S : TRUE
    <3>1. S # {}
      BY <2>1, FS_EmptySet
    <3>2. QED
      BY <3>1
  <2>4. Cardinality(S \ {w}) = k
    <3>1. Cardinality(S \ {w}) = Cardinality(S) - 1
      BY <2>1, <2>3, FS_RemoveElement
    <3>2. QED
      BY <2>1, <3>1
  <2>5. S \ {w} \in SparesOne(cand, load, k)
    BY <2>1, <2>2, <2>4 DEF SparesOne
  <2>6. w \in Winners(cand \ (S \ {w}), load)
    <3>1. w \in cand \ (S \ {w}) /\ b \in (cand \ (S \ {w})) \ {w} /\ load[w] <= load[b]
      BY <2>1, <2>2
    <3>2. Cardinality(cand \ (S \ {w})) # 1
      <4>1. {w, b} \subseteq cand \ (S \ {w}) /\ IsFiniteSet(cand \ (S \ {w})) /\ w # b
        BY <3>1, FS_Subset
      <4>2. Cardinality({w, b}) = 2 /\ IsFiniteSet({w, b})
        <5>1. {w, b} = {w} \cup {b}
          OBVIOUS
        <5>2. IsFiniteSet({w}) /\ Cardinality({w}) = 1 /\ b \notin {w}
          BY <4>1, FS_Singleton
        <5>3. IsFiniteSet({w} \cup {b}) /\ Cardinality({w} \cup {b}) = Cardinality({w}) + 1
          BY <5>2, FS_AddElement
        <5>4. QED
          BY <5>1, <5>2, <5>3
      <4>3. Cardinality({w, b}) <= Cardinality(cand \ (S \ {w}))
        BY <4>1, FS_Subset
      <4>4. QED
        BY <4>2, <4>3
    <3>3. QED
      BY <3>1, <3>2 DEF Winners
  <2>7. S = (S \ {w}) \cup {w}
    BY <2>3
  <2>8. S \in After(cand, load, S \ {w})
    BY <2>6, <2>7 DEF After
  <2>9. QED
    BY <2>5, <2>8
<1>3. ASSUME NEW out \in SparesOne(cand, load, k), NEW S \in After(cand, load, out)
      PROVE  S \in SparesOne(cand, load, k + 1)
  BY <1>1 DEF After
<1>4. QED
  BY <1>2, <1>3 DEF Drawn

(* The loop of PowerOfTwoChoicesBalancer.Pick yields the picks of the closed   *)
(* form, for every tolerance and whatever the loads are.                       *)
THEOREM DrawsSpareOne ==
  ASSUME NEW cand, IsFiniteSet(cand), NEW load \in [cand -> Nat], NEW tol \in Nat \ {0}
  PROVE  P2CDraws(cand, load, tol) = P2C(cand, load, tol)
<1>1. CASE Cardinality(cand) <= tol
  BY <1>1 DEF P2CDraws, P2C
<1>2. CASE ~(Cardinality(cand) <= tol)
  <2> DEFINE Sets(d, k) == IF k = 0 THEN {{}} ELSE Drawn(cand, load, d[k - 1])
             Draw(d) == d = [k \in 0..tol |-> Sets(d, k)]
             closed == [k \in 0..tol |-> SparesOne(cand, load, k)]
  <2>1. Cardinality(cand) \in Nat /\ tol < Cardinality(cand)
    BY <1>2, FS_CardinalityType
  <2>2. SparesOne(cand, load, 0) = {{}}
    <3>1. cand # {}
      BY <2>1, FS_EmptySet
    <3>2. \A S \in SUBSET cand : Cardinality(S) = 0 <=> S = {}
      BY FS_Subset, FS_EmptySet
    <3>3. QED
      BY <3>1, <3>2 DEF SparesOne
  <2>3. ASSUME NEW k \in 0..tol, k # 0
        PROVE  k - 1 \in 0..tol /\ Drawn(cand, load, SparesOne(cand, load, k - 1)) = SparesOne(cand, load, k)
    <3>1. k - 1 \in Nat /\ (k - 1) + 1 = k /\ (k - 1) + 1 < Cardinality(cand) /\ k - 1 \in 0..tol
      BY <2>1, <2>3
    <3>2. QED
      BY <3>1, DrawStep
  <2>4. Draw(closed)
    BY <2>2, <2>3
  <2>5. ASSUME NEW d, Draw(d) PROVE d[tol] = SparesOne(cand, load, tol)
    <3> DEFINE Wrong == {k \in 0..tol : d[k] # SparesOne(cand, load, k)}
    <3>1. \A k \in 0..tol : d[k] = Sets(d, k)
      BY <2>5
    <3>2. Wrong = {}
      <4> SUFFICES ASSUME Wrong # {} PROVE FALSE
        OBVIOUS
      <4>1. PICK k \in Wrong : \A j \in Wrong : k <= j
        <5>1. Wrong \in SUBSET Nat
          OBVIOUS
        <5> HIDE DEF Wrong
        <5>2. QED
          BY <5>1, LeastNat
      <4>2. k # 0
        BY <2>2, <3>1, <4>1
      <4>3. k - 1 \in 0..tol /\ k - 1 \notin Wrong
        BY <4>1, <4>2
      <4>4. d[k] = Drawn(cand, load, SparesOne(cand, load, k - 1))
        BY <3>1, <4>2, <4>3
      <4>5. QED
        BY <2>3, <4>2, <4>4
    <3>3. QED
      BY <3>2
  <2>6. P2CDraws(cand, load, tol) = (CHOOSE d : Draw(d))[tol]
    BY <1>2 DEF P2CDraws, Drawn, After
  <2>7. Draw(CHOOSE d : Draw(d))
    <3> HIDE DEF Draw, closed
    <3>1. QED
      BY <2>4
  <2>8. QED
    <3> HIDE DEF Draw
    <3>1. P2CDraws(cand, load, tol) = SparesOne(cand, load, tol)
      BY <2>5, <2>6, <2>7
    <3>2. QED
      BY <1>2, <3>1 DEF P2C, SparesOne
<1>3. QED
  BY <1>1, <1>2
===============================================================================
