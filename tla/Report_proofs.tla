----------------------------- MODULE Report_proofs -----------------------------
(* What the report tool makes of files that are still being written, for any   *)
(* number of clients and lines and wherever a read meets the end of a file.    *)
EXTENDS Report, FiniteSetTheorems, SequenceTheorems, WellFoundedInduction, TLAPS

-------------------------------------------------------------------------------
(* Sums *)

LEMMA LeastNat ==
  ASSUME NEW S \in SUBSET Nat, S # {}
  PROVE  \E m \in S : \A k \in S : m <= k
<1>1. PICK m \in S : \A k \in S : <<k, m>> \notin OpToRel(<, Nat)
  BY NatLessThanWellFounded, WFMin, Zenon
<1>2. \A k \in S : ~(k < m)
  BY <1>1 DEF OpToRel
<1>3. QED
  BY <1>2

(* Among subsets of a finite set there is a smallest one: what an induction    *)
(* over them comes down to.                                                    *)
LEMMA SmallestSet ==
  ASSUME NEW T, IsFiniteSet(T), NEW B \in SUBSET (SUBSET T), B # {}
  PROVE  \E s \in B : \A t \in B : Cardinality(s) <= Cardinality(t)
<1> DEFINE sizes == {Cardinality(s) : s \in B}
<1>1. sizes \in SUBSET Nat /\ sizes # {}
  BY FS_Subset, FS_CardinalityType
<1> HIDE DEF sizes
<1>2. PICK m \in sizes : \A k \in sizes : m <= k
  BY <1>1, LeastNat
<1>3. QED
  BY <1>2 DEF sizes

(* One element of a finite set less.                                           *)
LEMMA Smaller ==
  ASSUME NEW T, IsFiniteSet(T), NEW s \in SUBSET T, NEW x \in s
  PROVE  /\ s \ {x} \in SUBSET T
         /\ Cardinality(s) \in Nat /\ Cardinality(s \ {x}) \in Nat
         /\ Cardinality(s \ {x}) = Cardinality(s) - 1
<1>1. IsFiniteSet(s) /\ IsFiniteSet(s \ {x})
  BY FS_Subset
<1>2. Cardinality(s \ {x}) = Cardinality(s) - 1
  BY <1>1, FS_RemoveElement
<1>3. QED
  BY <1>1, <1>2, FS_CardinalityType

(* The element that the fold takes first, and what it computes for a set s     *)
(* from its values for smaller ones.                                           *)
First(s) == CHOOSE x \in s : TRUE
SumStep(h, f, s) == IF s = {} THEN 0 ELSE f[First(s)] + h[s \ {First(s)}]
IsSum(h, f, T) == h = [s \in SUBSET T |-> SumStep(h, f, s)]

LEMMA FirstIn == ASSUME NEW s, s # {} PROVE First(s) \in s
  BY DEF First

LEMMA SumUnfolds == ASSUME NEW f, NEW T PROVE SumFunctionOnSet(f, T) = (CHOOSE h : IsSum(h, f, T))[T]
  BY DEF SumFunctionOnSet, FoldFunctionOnSet, MapThenFoldSet, IsSum, SumStep, First

(* The recursion has a solution.                                               *)
LEMMA SumExists ==
  ASSUME NEW T, IsFiniteSet(T), NEW f \in [T -> Nat]
  PROVE  \E h : IsSum(h, f, T)
<1> DEFINE Good(n, h) == \A s \in SUBSET T : Cardinality(s) <= n => h[s] = SumStep(h, f, s)
           Bad == {n \in Nat : ~ \E h \in [SUBSET T -> Nat] : Good(n, h)}
<1>1. Bad = {}
  <2> SUFFICES ASSUME Bad # {} PROVE FALSE
    OBVIOUS
  <2>1. PICK m \in Bad : \A k \in Bad : m <= k
    <3>1. Bad \in SUBSET Nat
      OBVIOUS
    <3> HIDE DEF Bad
    <3>2. QED
      BY <3>1, LeastNat
  <2>2. m # 0
    <3> DEFINE h == [s \in SUBSET T |-> 0]
    <3>1. \A s \in SUBSET T : Cardinality(s) <= 0 => s = {}
      BY FS_Subset, FS_EmptySet, FS_CardinalityType
    <3>2. Good(0, h) /\ h \in [SUBSET T -> Nat]
      BY <3>1 DEF SumStep
    <3> HIDE DEF h
    <3>3. 0 \notin Bad
      BY <3>2
    <3>4. QED
      BY <2>1, <3>3
  <2>3. m \in Nat /\ m - 1 \in Nat /\ m - 1 \notin Bad
    <3>1. m \in Nat
      BY <2>1
    <3>2. m - 1 \in Nat /\ ~(m <= m - 1)
      BY <2>2, <3>1
    <3> HIDE DEF Bad
    <3>3. QED
      BY <2>1, <3>1, <3>2
  <2>4. PICK h \in [SUBSET T -> Nat] : Good(m - 1, h)
    BY <2>3
  <2> DEFINE g == [s \in SUBSET T |-> IF Cardinality(s) <= m - 1 THEN h[s] ELSE SumStep(h, f, s)]
  <2>5. ASSUME NEW s \in SUBSET T PROVE SumStep(h, f, s) \in Nat
    <3>1. CASE s = {}
      BY <3>1 DEF SumStep
    <3>2. CASE s # {}
      <4>1. First(s) \in s /\ s \ {First(s)} \in SUBSET T
        BY <3>2, FirstIn
      <4>2. f[First(s)] \in Nat /\ h[s \ {First(s)}] \in Nat
        BY <4>1
      <4>3. QED
        BY <3>2, <4>2 DEF SumStep
    <3>3. QED
      BY <3>1, <3>2
  <2>6. g \in [SUBSET T -> Nat]
    BY <2>5
  <2>7. ASSUME NEW s \in SUBSET T, Cardinality(s) <= m PROVE g[s] = SumStep(g, f, s)
    <3>1. g[s] = SumStep(h, f, s)
      BY <2>4
    <3>2. CASE s = {}
      BY <3>1, <3>2 DEF SumStep
    <3>3. CASE s # {}
      <4>1. First(s) \in s
        BY <3>3, FirstIn
      <4>2. s \ {First(s)} \in SUBSET T /\ Cardinality(s \ {First(s)}) <= m - 1
        BY <2>3, <2>7, <4>1, Smaller
      <4>3. g[s \ {First(s)}] = h[s \ {First(s)}]
        BY <4>2
      <4> HIDE DEF g
      <4>4. QED
        BY <3>1, <3>3, <4>3 DEF SumStep
    <3>4. QED
      BY <3>2, <3>3
  <2>8. Good(m, g)
    BY <2>7
  <2>9. QED
    BY <2>1, <2>6, <2>8
<1>2. Cardinality(T) \in Nat
  BY FS_CardinalityType
<1>3. PICK h \in [SUBSET T -> Nat] : Good(Cardinality(T), h)
  BY <1>1, <1>2
<1>4. \A s \in SUBSET T : Cardinality(s) <= Cardinality(T)
  BY FS_Subset
<1>5. IsSum(h, f, T)
  BY <1>3, <1>4 DEF IsSum
<1>6. QED
  BY <1>5

LEMMA SumIsSum ==
  ASSUME NEW T, IsFiniteSet(T), NEW f \in [T -> Nat]
  PROVE  \E h : IsSum(h, f, T) /\ SumFunctionOnSet(f, T) = h[T]
<1>1. IsSum(CHOOSE h : IsSum(h, f, T), f, T)
  BY SumExists
<1>2. QED
  BY <1>1, SumUnfolds

LEMMA SumSteps ==
  ASSUME NEW T, NEW f, NEW h, IsSum(h, f, T), NEW s \in SUBSET T
  PROVE  h[s] = SumStep(h, f, s)
<1> DEFINE r == [t \in SUBSET T |-> SumStep(h, f, t)]
<1>1. h = r /\ r[s] = SumStep(h, f, s)
  BY DEF IsSum
<1> HIDE DEF r
<1>2. QED
  BY <1>1

(* It is a natural number, and any element may be taken first.                 *)
LEMMA SumRemove ==
  ASSUME NEW T, IsFiniteSet(T), NEW f \in [T -> Nat], NEW h, IsSum(h, f, T)
  PROVE  \A s \in SUBSET T : h[s] \in Nat /\ \A x \in s : h[s] = f[x] + h[s \ {x}]
<1> DEFINE Fine(s) == h[s] \in Nat /\ \A x \in s : h[s] = f[x] + h[s \ {x}]
           Bad == {s \in SUBSET T : ~Fine(s)}
<1> SUFFICES ASSUME Bad # {} PROVE FALSE
  OBVIOUS
<1>1. PICK s \in Bad : \A t \in Bad : Cardinality(s) <= Cardinality(t)
  BY SmallestSet
<1>2. \A x \in s : s \ {x} \in SUBSET T /\ s \ {x} \notin Bad
  BY <1>1, Smaller
<1>3. \A x \in s : Fine(s \ {x})
  BY <1>2
<1>4. s \in SUBSET T /\ h[s] = SumStep(h, f, s)
  <2>1. s \in SUBSET T
    BY <1>1
  <2>2. QED
    BY <2>1, SumSteps
<1>5. s # {}
  <2> SUFFICES ASSUME s = {} PROVE FALSE
    OBVIOUS
  <2>1. h[s] = 0
    BY <1>4 DEF SumStep
  <2>2. QED
    BY <1>1, <2>1
<1>6. PICK y \in s : h[s] = f[y] + h[s \ {y}]
  BY <1>4, <1>5, FirstIn DEF SumStep
<1>7. \A x \in s : f[x] \in Nat /\ h[s \ {x}] \in Nat
  BY <1>3, <1>4
<1>8. h[s] \in Nat
  BY <1>6, <1>7
<1>9. ASSUME NEW x \in s PROVE h[s] = f[x] + h[s \ {x}]
  <2>1. CASE x = y
    BY <1>6, <2>1
  <2>2. CASE x # y
    <3> DEFINE rest == (s \ {y}) \ {x}
    <3>1. x \in s \ {y} /\ y \in s \ {x} /\ rest = (s \ {x}) \ {y}
      BY <2>2
    <3>2. h[s \ {y}] = f[x] + h[rest] /\ h[s \ {x}] = f[y] + h[rest]
      BY <1>3, <3>1
    <3>3. rest \in SUBSET T /\ Cardinality(rest) < Cardinality(s) /\ Cardinality(rest) \in Nat
          /\ Cardinality(s) \in Nat
      <4>1. /\ s \ {y} \in SUBSET T /\ Cardinality(s \ {y}) = Cardinality(s) - 1
            /\ Cardinality(s) \in Nat /\ Cardinality(s \ {y}) \in Nat
        BY <1>4, Smaller
      <4>2. /\ rest \in SUBSET T /\ Cardinality(rest) = Cardinality(s \ {y}) - 1
            /\ Cardinality(rest) \in Nat
        <5>1. x \in s \ {y}
          BY <3>1
        <5>2. QED
          BY <4>1, <5>1, Smaller
      <4> HIDE DEF rest
      <4>3. QED
        BY <4>1, <4>2
    <3> HIDE DEF rest
    <3>4. rest \notin Bad
      <4>1. ~(Cardinality(s) <= Cardinality(rest))
        BY <3>3
      <4> HIDE DEF Bad
      <4>2. QED
        BY <1>1, <4>1
    <3>5. h[rest] \in Nat
      BY <3>3, <3>4
    <3>6. f[x] \in Nat /\ f[y] \in Nat
      BY <1>7
    <3>7. QED
      BY <1>6, <3>2, <3>5, <3>6
  <2>3. QED
    BY <2>1, <2>2
<1>10. QED
  BY <1>1, <1>8, <1>9

(* The sum of a set depends on the values of its elements only.                *)
LEMMA SumsAgree ==
  ASSUME NEW T, IsFiniteSet(T), NEW f \in [T -> Nat], NEW h, IsSum(h, f, T),
         NEW U, IsFiniteSet(U), NEW g \in [U -> Nat], NEW k, IsSum(k, g, U),
         T \subseteq U, \A x \in T : f[x] = g[x]
  PROVE  \A s \in SUBSET T : h[s] = k[s]
<1> DEFINE Bad == {s \in SUBSET T : h[s] # k[s]}
<1> SUFFICES ASSUME Bad # {} PROVE FALSE
  OBVIOUS
<1>1. PICK s \in Bad : \A t \in Bad : Cardinality(s) <= Cardinality(t)
  BY SmallestSet
<1>2. s # {}
  <2> SUFFICES ASSUME s = {} PROVE FALSE
    OBVIOUS
  <2>1. h[s] = SumStep(h, f, s)
    BY SumSteps
  <2>2. k[s] = SumStep(k, g, s)
    BY SumSteps
  <2>3. QED
    BY <1>1, <2>1, <2>2 DEF SumStep
<1>3. PICK x \in s : TRUE
  BY <1>2
<1>4. s \ {x} \in SUBSET T /\ s \ {x} \notin Bad
  BY <1>1, <1>3, Smaller
<1>5. h[s] = f[x] + h[s \ {x}] /\ k[s] = g[x] + k[s \ {x}]
  BY <1>1, <1>3, SumRemove
<1>6. QED
  BY <1>1, <1>3, <1>4, <1>5

LEMMA SumOfNone == ASSUME NEW f \in [{} -> Nat] PROVE SumFunctionOnSet(f, {}) = 0
<1>1. IsFiniteSet({})
  BY FS_EmptySet
<1>2. PICK h : IsSum(h, f, {}) /\ SumFunctionOnSet(f, {}) = h[{}]
  BY <1>1, SumIsSum
<1>3. QED
  BY <1>2, SumSteps DEF SumStep

(* A sum is a natural number, and one more element adds its value.             *)
LEMMA SumType ==
  ASSUME NEW T, IsFiniteSet(T), NEW f \in [T -> Nat]
  PROVE  SumFunctionOnSet(f, T) \in Nat
  BY SumIsSum, SumRemove

LEMMA SumGrows ==
  ASSUME NEW T, IsFiniteSet(T), NEW f \in [T -> Nat], NEW x, x \notin T,
         NEW g \in [T \cup {x} -> Nat], \A y \in T : g[y] = f[y]
  PROVE  SumFunctionOnSet(g, T \cup {x}) = SumFunctionOnSet(f, T) + g[x]
<1> DEFINE U == T \cup {x}
<1>1. IsFiniteSet(U) /\ T \in SUBSET T /\ T \subseteq U /\ U \in SUBSET U /\ U \ {x} = T /\ x \in U
  BY FS_AddElement
<1>2. g \in [U -> Nat]
  OBVIOUS
<1> HIDE DEF U
<1>3. PICK h : IsSum(h, f, T) /\ SumFunctionOnSet(f, T) = h[T]
  BY SumIsSum
<1>4. PICK k : IsSum(k, g, U) /\ SumFunctionOnSet(g, U) = k[U]
  BY <1>1, <1>2, SumIsSum
<1>5. k[U] = g[x] + k[T] /\ g[x] \in Nat
  <2>1. \A y \in U : k[U] = g[y] + k[U \ {y}]
    BY <1>1, <1>2, <1>4, SumRemove
  <2>2. k[U] = g[x] + k[U \ {x}]
    BY <1>1, <2>1
  <2>3. QED
    BY <1>1, <1>2, <2>2
<1>6. h[T] = k[T] /\ h[T] \in Nat
  BY <1>1, <1>2, <1>3, <1>4, SumsAgree, SumRemove
<1>7. QED
  BY <1>3, <1>4, <1>5, <1>6 DEF U

-------------------------------------------------------------------------------
(* Types *)

RowType == [op : Op, count : Nat \ {0}, rtt : Rtts, status : {"OK", "ERROR"}]
BulkType == [i : Nat, count : Nat, samples : Nat]
StatsType == [count : Nat, min : Nat, max : Nat, sum : Nat, errors : Nat]

(* What the launcher and the clients keep, and what the tool keeps.            *)
ClientType ==
  /\ launched \in 0..NClients /\ running \subseteq 1..launched /\ lost \subseteq running
  /\ bulk \in [Client -> BulkType]
  /\ \A c \in Client : bulk[c].samples <= bulk[c].i /\ bulk[c].i <= bulk[c].count
  /\ buf \in [Client -> Nat] /\ sent \in [Client -> Nat]
  /\ rows \in [Client -> Seq(RowType)]
  /\ wide \in BOOLEAN

ToolType ==
  /\ tool \in {"idle", "open", "read", "render", "ended", "panicked"}
  /\ files \subseteq Client
  /\ tool \in {"open", "read"} => files # {}
  /\ width \in [Client -> 0..Columns]
  /\ pos \in [Client -> Position]
  /\ stats \in [Client -> [Op -> StatsType]]
  /\ taken \in [Client -> SUBSET Nat] /\ torn \in [Client -> SUBSET Nat]
  /\ page \in {"none", "torn", "complete"}

(* A reader that is not past what there is to read.                            *)
InSight ==
  /\ files \subseteq running
  /\ \A c \in Client : /\ pos[c].line <= Len(rows[c]) + 1
                       /\ taken[c] \cup torn[c] \subseteq 0..Len(rows[c])

LEMMA Pairs ==
  ASSUME NEW a \in Nat, NEW b \in Nat
  PROVE  /\ Max({a, b}) = IF a >= b THEN a ELSE b
         /\ Min({a, b}) = IF a <= b THEN a ELSE b
  BY DEF Max, Min

LEMMA CurrentIn == ASSUME ToolType, files # {} PROVE Current \in files /\ Current \in Client
<1>1. files \in SUBSET Nat
  BY DEF ToolType, Client
<1>2. PICK m \in files : \A k \in files : m <= k
  BY <1>1, LeastNat
<1>3. Current \in files
  BY <1>2 DEF Current, Min
<1>4. QED
  BY <1>3 DEF ToolType

(* Where a record may end, and how many fields it then has.                    *)
LEMMA RecordShape ==
  ASSUME ClientType, ToolType, NEW c \in Client, NEW end \in RecordEnds(c)
  PROVE  LET p == pos[c]
         IN  /\ p.line \in Nat /\ p.field \in 0..Columns /\ p.line <= Len(rows[c])
             /\ end \in Position
             /\ \/ end.line = p.line + 1 /\ end.field = 0
                \/ end.line = p.line /\ end.field > p.field /\ end.field \in 1..Columns
             /\ Fields(p, end) \in 1..Columns
             /\ Fields(p, end) = Columns <=>
                  p.field <= 1 /\ (end.line = p.line + 1 \/ end.field = Columns)
             /\ p.field = 0 /\ end.line = p.line => Fields(p, end) = end.field
<1> DEFINE p == pos[c]
<1>1. p \in Position /\ p.line \in Nat /\ p.field \in 0..Columns
  BY DEF ToolType, Position
<1>2. Len(rows[c]) \in Nat
  BY LenProperties DEF ClientType
<1>3. p.line <= Len(rows[c])
  BY <1>1, <1>2 DEF RecordEnds
<1>4. CASE end = LineStart(p.line + 1)
  <2>1. end = [line |-> p.line + 1, field |-> 0]
    BY <1>4 DEF LineStart
  <2>2. end \in Position /\ end.line = p.line + 1 /\ end.field = 0
    BY <1>1, <2>1 DEF Position, Columns
  <2>3. Fields(p, end) = Columns - (IF 1 >= p.field THEN 1 ELSE p.field) + 1
    BY <1>1, <2>2, Pairs DEF Fields
  <2>4. QED
    BY <1>1, <1>3, <2>2, <2>3 DEF Columns
<1>5. CASE \E k \in {x \in Cuts : x > p.field} : end = [p EXCEPT !.field = k]
  <2>1. PICK k \in {x \in Cuts : x > p.field} : end = [p EXCEPT !.field = k]
    BY <1>5
  <2>2. k \in 1..Columns /\ k > p.field
    BY <2>1, ReportAssumption
  <2>3. end \in Position /\ end.line = p.line /\ end.field = k
    BY <1>1, <2>1, <2>2 DEF Position
  <2>4. Fields(p, end) = k - (IF 1 >= p.field THEN 1 ELSE p.field) + 1
    BY <1>1, <2>3, Pairs DEF Fields
  <2>5. Fields(p, end) \in 1..Columns /\ (Fields(p, end) = Columns <=> p.field <= 1 /\ k = Columns)
        /\ (p.field = 0 => Fields(p, end) = k)
    <3> DEFINE f == p.field
    <3>1. f \in 0..9 /\ k \in 1..9 /\ k > f
      BY <1>1, <2>2 DEF Columns
    <3>2. Fields(p, end) = k - (IF 1 >= f THEN 1 ELSE f) + 1
      BY <2>4
    <3> HIDE DEF f
    <3>3. k - (IF 1 >= f THEN 1 ELSE f) + 1 \in 1..9 /\ (f = 0 => k - (IF 1 >= f THEN 1 ELSE f) + 1 = k)
          /\ (k - (IF 1 >= f THEN 1 ELSE f) + 1 = 9 <=> f <= 1 /\ k = 9)
      BY <3>1
    <3>4. QED
      BY <3>2, <3>3 DEF Columns, f
  <2>6. end.line # p.line + 1
    BY <1>1, <2>3
  <2> HIDE DEF p
  <2>7. QED
    BY <1>1, <1>3, <2>2, <2>3, <2>5, <2>6 DEF p
<1>6. QED
  BY <1>1, <1>2, <1>3, <1>4, <1>5 DEF RecordEnds

(* Only the clients print, one line at a time.                                 *)
Printed(c) == rows'[c] = rows[c] \/ \E r \in RowType : rows'[c] = Append(rows[c], r)

ClientSide == Launch \/ \E c \in Client : Start(c) \/ Lose(c) \/ SendStressCmd(c)
                                           \/ BulkBegin(c) \/ BulkStep(c) \/ BulkEnd(c)

LEMMA NextSides == Next <=> ClientSide \/ StartTool \/ ToolStep
  BY DEF Next, ClientSide

LEMMA AppendOne ==
  ASSUME ClientType, NEW c \in Client, NEW r \in RowType, rows' = [rows EXCEPT ![c] = Append(@, r)]
  PROVE  rows' \in [Client -> Seq(RowType)] /\ \A d \in Client : Printed(d)
<1>1. Append(rows[c], r) \in Seq(RowType)
  BY AppendProperties DEF ClientType
<1>2. QED
  BY <1>1 DEF ClientType, Printed

LEMMA FlushType ==
  ASSUME ClientType, NEW c \in Client, NEW n \in Nat, Flush(c, n)
  PROVE  /\ sent' \in [Client -> Nat] /\ buf' \in [Client -> Nat]
         /\ sent'[c] = (IF c \in lost THEN sent[c] ELSE sent[c] + (buf[c] + n)) /\ buf'[c] = 0
         /\ \A d \in Client \ {c} : sent'[d] = sent[d] /\ buf'[d] = buf[d]
<1>1. /\ sent \in [Client -> Nat] /\ buf \in [Client -> Nat] /\ buf' = [buf EXCEPT ![c] = 0]
      /\ sent[c] + buf[c] + n = sent[c] + (buf[c] + n)
  BY DEF Flush, ClientType
<1>2. CASE c \in lost
  <2>1. sent' = [sent EXCEPT ![c] = sent[c]]
    BY <1>2 DEF Flush
  <2>2. QED
    BY <1>1, <1>2, <2>1
<1>3. CASE c \notin lost
  <2>1. sent' = [sent EXCEPT ![c] = sent[c] + buf[c] + n]
    BY <1>3 DEF Flush
  <2>2. sent[c] + (buf[c] + n) \in Nat
    BY <1>1
  <2>3. QED
    BY <1>1, <1>3, <2>1, <2>2
<1>4. QED
  BY <1>2, <1>3

LEMMA ClientSteps ==
  ASSUME ClientType, ClientSide
  PROVE  /\ ClientType' /\ UNCHANGED toolVars /\ wide' = wide
         /\ running \subseteq running' /\ \A c \in Client : Printed(c)
<1>1. CASE Launch
  <2>1. launched' \in 0..NClients /\ 1..launched \subseteq 1..launched'
    BY <1>1, ReportAssumption DEF Launch, ClientType
  <2>2. QED
    BY <1>1, <2>1 DEF Launch, ClientType, Printed
<1>2. ASSUME NEW c \in Client, Start(c)
      PROVE  /\ ClientType' /\ UNCHANGED toolVars /\ wide' = wide
             /\ running \subseteq running' /\ \A d \in Client : Printed(d)
  <2>1. c \in 1..launched
    BY <1>2 DEF Start, Client, ClientType
  <2>2. QED
    BY <1>2, <2>1 DEF Start, ClientType, Printed
<1>3. ASSUME NEW c \in Client, SendStressCmd(c)
      PROVE  /\ ClientType' /\ UNCHANGED toolVars /\ wide' = wide
             /\ running \subseteq running' /\ \A d \in Client : Printed(d)
  <2>1. PICK rtt \in Rtts, status \in {"OK", "ERROR"} :
          rows' = [rows EXCEPT ![c] = Append(@, Row("single", 1, rtt, status))]
    BY <1>3 DEF SendStressCmd
  <2>2. Row("single", 1, rtt, status) \in RowType
    BY DEF Row, RowType, Op
  <2>3. rows' \in [Client -> Seq(RowType)] /\ \A d \in Client : Printed(d)
    BY <2>1, <2>2, AppendOne
  <2>4. sent' \in [Client -> Nat] /\ buf' \in [Client -> Nat]
    BY <1>3, FlushType DEF SendStressCmd
  <2>5. QED
    BY <1>3, <2>3, <2>4 DEF SendStressCmd, ClientType
<1>4. ASSUME NEW c \in Client, BulkBegin(c)
      PROVE  /\ ClientType' /\ UNCHANGED toolVars /\ wide' = wide
             /\ running \subseteq running' /\ \A d \in Client : Printed(d)
  <2>1. PICK n \in BulkCounts : bulk' = [bulk EXCEPT ![c] = [NoBulk EXCEPT !.count = n]]
    BY <1>4 DEF BulkBegin
  <2>2. n \in Nat
    BY <2>1, ReportAssumption
  <2>3. [NoBulk EXCEPT !.count = n] = [i |-> 0, count |-> n, samples |-> 0]
    BY DEF NoBulk
  <2>4. /\ bulk' \in [Client -> BulkType]
        /\ \A d \in Client : bulk'[d].samples <= bulk'[d].i /\ bulk'[d].i <= bulk'[d].count
    <3> DEFINE b == [i |-> 0, count |-> n, samples |-> 0]
    <3>1. b \in BulkType /\ b.samples <= b.i /\ b.i <= b.count
      BY <2>2 DEF BulkType
    <3>2. bulk' = [bulk EXCEPT ![c] = b]
      BY <2>1, <2>3
    <3> HIDE DEF b
    <3>3. QED
      BY <3>1, <3>2 DEF ClientType
  <2>5. QED
    BY <1>4, <2>4 DEF BulkBegin, ClientType, Printed
<1>5. ASSUME NEW c \in Client, BulkStep(c)
      PROVE  /\ ClientType' /\ UNCHANGED toolVars /\ wide' = wide
             /\ running \subseteq running' /\ \A d \in Client : Printed(d)
  <2> DEFINE b == bulk[c]
  <2>1. b \in BulkType /\ b.i \in Nat /\ b.count \in Nat /\ b.samples \in Nat /\ b.i < b.count /\ b.samples <= b.i
    BY <1>5 DEF ClientType, BulkType, BulkStep, BulkMore
  <2>2. PICK s \in {0, 1} : bulk' = [bulk EXCEPT ![c] = [b EXCEPT !.i = b.i + 1, !.samples = b.samples + s]]
    BY <1>5 DEF BulkStep, ClientType, BulkType
  <2> DEFINE b2 == [b EXCEPT !.i = b.i + 1, !.samples = b.samples + s]
  <2>3. b2 \in BulkType /\ b2.samples <= b2.i /\ b2.i <= b2.count
    <3> HIDE DEF b
    <3>1. b.i + 1 \in Nat /\ b.samples + s \in Nat /\ b.samples + s <= b.i + 1 /\ b.i + 1 <= b.count
      BY <2>1
    <3>2. PICK i \in Nat, n \in Nat, m \in Nat : b = [i |-> i, count |-> n, samples |-> m]
      BY <2>1 DEF BulkType
    <3> DEFINE b1 == [b EXCEPT !.i = b.i + 1]
    <3>3. b2 = [i |-> b.i + 1, count |-> b.count, samples |-> b.samples + s]
      <4>1. b1 = [i |-> i + 1, count |-> n, samples |-> m]
        BY <3>2
      <4>2. b2 = [b1 EXCEPT !.samples = b.samples + s]
        OBVIOUS
      <4> HIDE DEF b1, b2
      <4>3. QED
        BY <3>2, <4>1, <4>2
    <3>4. QED
      BY <2>1, <3>1, <3>3 DEF BulkType
  <2>4. bulk' = [bulk EXCEPT ![c] = b2]
    BY <2>2
  <2> HIDE DEF b, b2
  <2>5. /\ bulk' \in [Client -> BulkType]
        /\ \A d \in Client : bulk'[d].samples <= bulk'[d].i /\ bulk'[d].i <= bulk'[d].count
    BY <2>3, <2>4 DEF ClientType
  <2>6. sent' \in [Client -> Nat] /\ buf' \in [Client -> Nat]
    <3>1. CASE Flush(c, 1)
      BY <3>1, FlushType
    <3>2. CASE buf' = [buf EXCEPT ![c] = @ + 1] /\ UNCHANGED sent
      BY <3>2 DEF ClientType
    <3>3. QED
      BY <1>5, <3>1, <3>2 DEF BulkStep
  <2>7. QED
    BY <1>5, <2>5, <2>6 DEF BulkStep, ClientType, Printed
<1>6. ASSUME NEW c \in Client, BulkEnd(c)
      PROVE  /\ ClientType' /\ UNCHANGED toolVars /\ wide' = wide
             /\ running \subseteq running' /\ \A d \in Client : Printed(d)
  <2>1. rows' \in [Client -> Seq(RowType)] /\ \A d \in Client : Printed(d)
    <3>1. CASE UNCHANGED rows
      BY <3>1 DEF ClientType, Printed
    <3>2. CASE \E rtt \in Rtts : rows' = [rows EXCEPT ![c] = Append(@, Row("bulk", bulk[c].count, rtt, "OK"))]
      <4>1. PICK rtt \in Rtts : rows' = [rows EXCEPT ![c] = Append(@, Row("bulk", bulk[c].count, rtt, "OK"))]
        BY <3>2
      <4>2. bulk[c].count \in Nat \ {0}
        BY <1>6 DEF BulkEnd, ClientType, BulkType
      <4>3. Row("bulk", bulk[c].count, rtt, "OK") \in RowType
        BY <4>2 DEF Row, RowType, Op
      <4>4. QED
        BY <4>1, <4>3, AppendOne
    <3>3. QED
      BY <1>6, <3>1, <3>2 DEF BulkEnd, BulkRow
  <2>2. sent' \in [Client -> Nat] /\ buf' \in [Client -> Nat]
    BY <1>6, FlushType DEF BulkEnd
  <2>3. /\ bulk' \in [Client -> BulkType]
        /\ \A d \in Client : bulk'[d].samples <= bulk'[d].i /\ bulk'[d].i <= bulk'[d].count
    BY <1>6 DEF BulkEnd, ClientType, BulkType, NoBulk
  <2>4. QED
    BY <1>6, <2>1, <2>2, <2>3 DEF BulkEnd, ClientType
<1>7. ASSUME NEW c \in Client, Lose(c)
      PROVE  /\ ClientType' /\ UNCHANGED toolVars /\ wide' = wide
             /\ running \subseteq running' /\ \A d \in Client : Printed(d)
  BY <1>7 DEF Lose, ClientType, Printed
<1>8. QED
  BY <1>1, <1>2, <1>3, <1>4, <1>5, <1>6, <1>7 DEF ClientSide

-------------------------------------------------------------------------------
(* How the tool reads *)

(* What has been read of the file of c.  A header that was seen whole has been *)
(* left, or all of it but the last byte of its last field has been read; the   *)
(* lines taken or torn are behind the reader; the line it stands in has been   *)
(* taken only if its last field was cut, and if it stands behind the first     *)
(* field of a line, this line has been taken or torn.                          *)
ReadInv(c) ==
  LET p == pos[c]
  IN  /\ taken[c] \subseteq 1..p.line /\ torn[c] \subseteq 0..p.line
      /\ p.line = 0 /\ width[c] = Columns => p.field = Columns
      /\ p.line \in taken[c] => p.field = Columns
      /\ width[c] = Columns /\ p.line # 0 /\ p.field > 1 => p.line \in taken[c] \cup torn[c]
      /\ width[c] = Columns => \A l \in 1..(p.line - 1) : l \in taken[c] \cup torn[c]

Untouched(c) == pos[c] = LineStart(0) /\ width[c] = 0 /\ taken[c] = {} /\ torn[c] = {}

(* Files are read one after the other.                                         *)
FilesInv ==
  /\ tool = "idle" => \A c \in Client : Untouched(c)
  /\ tool = "open" => \A c \in files : Untouched(c)
  /\ tool = "read" => \A c \in files \ {Current} : Untouched(c)

ReportInv ==
  ClientType /\ ToolType /\ InSight /\ FilesInv /\ \A c \in Client : ReadInv(c)

LEMMA InitReport == Init => ReportInv
<1> SUFFICES ASSUME Init PROVE ReportInv
  OBVIOUS
<1> USE DEF Init, Client
<1>1. LineStart(0) \in Position /\ LineStart(0).line = 0 /\ LineStart(0).field = 0
  BY DEF LineStart, Position, Columns
<1>2. NoBulk \in BulkType /\ NoBulk.samples = 0 /\ NoBulk.i = 0 /\ NoBulk.count = 0
  BY DEF NoBulk, BulkType
<1>3. NoStats \in StatsType
  BY DEF NoStats, StatsType
<1>4. << >> \in Seq(RowType) /\ Len(<< >>) = 0
  BY EmptySeq
<1>5. ClientType
  BY <1>2, <1>4, ReportAssumption DEF ClientType
<1>6. ToolType
  BY <1>1, <1>3 DEF ToolType, Columns
<1>7. InSight
  BY <1>1, <1>4 DEF InSight
<1>8. FilesInv /\ \A c \in Client : ReadInv(c)
  BY <1>1 DEF FilesInv, ReadInv, Untouched, Columns
<1>9. QED
  BY <1>5, <1>6, <1>7, <1>8 DEF ReportInv

(* A record is used only if it is a whole line, or a line but the first byte   *)
(* of its first field or the last of its last; and each line once.             *)
LEMMA UsableRow ==
  ASSUME ReportInv, NEW c \in Client, NEW end \in RecordEnds(c), Usable(c, Fields(pos[c], end))
  PROVE  LET p == pos[c]
         IN  /\ width[c] = Columns /\ p.field <= 1
             /\ end.line = p.line + 1 \/ end.field = Columns
             /\ p.line \in 1..Len(rows[c]) /\ p.line \notin taken[c]
             /\ rows[c][p.line] \in RowType
<1> DEFINE p == pos[c]
<1>1. Fields(p, end) = width[c] /\ Fields(p, end) >= Columns
  BY DEF Usable
<1>2. /\ p.line \in Nat /\ p.field \in 0..Columns /\ p.line <= Len(rows[c])
      /\ Fields(p, end) \in 1..Columns
      /\ Fields(p, end) = Columns <=>
           p.field <= 1 /\ (end.line = p.line + 1 \/ end.field = Columns)
  BY RecordShape DEF ReportInv
<1>3. Fields(p, end) = Columns
  BY <1>1, <1>2 DEF Columns
<1>4. p.field # Columns
  BY <1>2, <1>3 DEF Columns
<1>5. p.line # 0 /\ p.line \notin taken[c]
  BY <1>1, <1>3, <1>4 DEF ReportInv, ReadInv
<1>6. rows[c] \in Seq(RowType) /\ Len(rows[c]) \in Nat
  BY LenProperties DEF ReportInv, ClientType
<1>7. p.line \in 1..Len(rows[c])
  BY <1>2, <1>5, <1>6
<1>8. rows[c][p.line] \in RowType
  BY <1>6, <1>7, ElementOfSeq
<1>9. QED
  BY <1>1, <1>2, <1>3, <1>5, <1>7, <1>8

LEMMA AggregatedType ==
  ASSUME NEW st \in StatsType, NEW r, r.count \in Nat, r.rtt \in Nat
  PROVE  Aggregated(st, r) \in StatsType
<1>1. /\ st.count \in Nat /\ st.sum \in Nat /\ st.min \in Nat /\ st.max \in Nat /\ st.errors \in Nat
  BY DEF StatsType
<1>2. Min({st.min, r.rtt}) \in Nat /\ Max({st.max, r.rtt}) \in Nat
  <2>1. \A a, b \in Nat : Min({a, b}) \in Nat /\ Max({a, b}) \in Nat
    BY Pairs
  <2>2. QED
    BY <1>1, <2>1
<1>3. /\ st.count + r.count \in Nat /\ st.sum + r.rtt \in Nat /\ st.errors + r.count \in Nat
  BY <1>1
<1>4. QED
  BY <1>1, <1>2, <1>3 DEF Aggregated, StatsType

LEMMA ParsedType ==
  ASSUME NEW c, NEW l, rows[c][l] \in RowType
  PROVE  /\ Parsed(c, l).count \in Nat /\ Parsed(c, l).rtt \in Nat /\ rows[c][l].op \in Op
         /\ ~wide => Parsed(c, l) = rows[c][l]
  BY ReportAssumption DEF Parsed, RowType, Row

(* The steps of the tool on the file of c.                                     *)
LEMMA ReadRecordStep ==
  ASSUME ReportInv, ReadRecord
  PROVE  ReportInv'
<1>1. PICK c \in Client : c = Current /\ c \in files /\ tool = "read"
  BY CurrentIn DEF ReadRecord, ReportInv, ToolType
<1> DEFINE p == pos[c]  l == p.line
<1>2. PICK end \in RecordEnds(c) :
        /\ pos' = [pos EXCEPT ![c] = end]
        /\ IF Usable(c, Fields(pos[c], end))
             THEN /\ stats' = [stats EXCEPT ![c][rows[c][l].op] = Aggregated(@, Parsed(c, l))]
                  /\ taken' = [taken EXCEPT ![c] = @ \cup {l}]
             ELSE UNCHANGED <<stats, taken>>
        /\ torn' = IF end.line = l /\ end.field \notin {1, Columns}
                     THEN [torn EXCEPT ![c] = @ \cup {l}] ELSE torn
  BY <1>1 DEF ReadRecord
<1> DEFINE use == Usable(c, Fields(pos[c], end))
           cut == end.line = l /\ end.field \notin {1, Columns}
<1>3. UNCHANGED <<cliVars, tool, files, width, page>>
  BY DEF ReadRecord
<1>4. /\ l \in Nat /\ p.field \in 0..Columns /\ l <= Len(rows[c])
      /\ end \in Position
      /\ \/ end.line = l + 1 /\ end.field = 0
         \/ end.line = l /\ end.field > p.field /\ end.field \in 1..Columns
      /\ Fields(p, end) \in 1..Columns
      /\ Fields(p, end) = Columns <=>
           p.field <= 1 /\ (end.line = l + 1 \/ end.field = Columns)
  BY <1>1, RecordShape DEF ReportInv
<1>5. use => /\ width[c] = Columns /\ p.field <= 1 /\ (end.line = l + 1 \/ end.field = Columns)
             /\ l \in 1..Len(rows[c]) /\ rows[c][l] \in RowType
  BY <1>1, UsableRow
<1>6. width[c] = Columns /\ Fields(p, end) = Columns => use
  BY DEF Usable, Columns
<1>7. Len(rows[c]) \in Nat /\ ToolType /\ ClientType
  BY <1>1, LenProperties DEF ReportInv, ClientType
<1>8. /\ pos'[c] = end /\ taken'[c] = (IF use THEN taken[c] \cup {l} ELSE taken[c])
      /\ torn'[c] = (IF cut THEN torn[c] \cup {l} ELSE torn[c]) /\ width'[c] = width[c]
      /\ \A d \in Client \ {c} : /\ pos'[d] = pos[d] /\ taken'[d] = taken[d] /\ torn'[d] = torn[d]
                                 /\ width'[d] = width[d]
  BY <1>1, <1>2, <1>3, <1>7 DEF ToolType
<1>9. ToolType'
  <2>1. stats' \in [Client -> [Op -> StatsType]]
    <3>1. CASE use
      <4> DEFINE op == rows[c][l].op  st == Aggregated(stats[c][op], Parsed(c, l))
      <4>1. op \in Op /\ Parsed(c, l).count \in Nat /\ Parsed(c, l).rtt \in Nat
        BY <1>5, <3>1, ParsedType
      <4>2. stats[c][op] \in StatsType
        BY <1>1, <1>7, <4>1 DEF ToolType
      <4>3. st \in StatsType
        BY <4>1, <4>2, AggregatedType
      <4>4. stats' = [stats EXCEPT ![c] = [stats[c] EXCEPT ![op] = st]]
        BY <1>2, <3>1
      <4> HIDE DEF op, st
      <4>5. [stats[c] EXCEPT ![op] = st] \in [Op -> StatsType]
        BY <1>1, <1>7, <4>1, <4>3 DEF ToolType
      <4>6. QED
        BY <1>7, <4>4, <4>5 DEF ToolType
    <3>2. CASE ~use
      BY <1>2, <1>7, <3>2 DEF ToolType
    <3>3. QED
      BY <3>1, <3>2
  <2>2. pos' \in [Client -> Position]
    BY <1>2, <1>4, <1>7 DEF ToolType
  <2>3. taken' \in [Client -> SUBSET Nat]
    <3>1. taken \in [Client -> SUBSET Nat] /\ taken[c] \cup {l} \in SUBSET Nat
      BY <1>4, <1>7 DEF ToolType
    <3>2. taken' = taken \/ taken' = [taken EXCEPT ![c] = taken[c] \cup {l}]
      BY <1>2
    <3>3. QED
      BY <3>1, <3>2
  <2>4. torn' \in [Client -> SUBSET Nat]
    <3>1. torn \in [Client -> SUBSET Nat] /\ torn[c] \cup {l} \in SUBSET Nat
      BY <1>4, <1>7 DEF ToolType
    <3>2. torn' = torn \/ torn' = [torn EXCEPT ![c] = torn[c] \cup {l}]
      BY <1>2
    <3>3. QED
      BY <3>1, <3>2
  <2>5. QED
    BY <1>3, <1>7, <2>1, <2>2, <2>3, <2>4 DEF ToolType
<1> HIDE DEF use, cut, l, p
<1>10. InSight'
  <2>1. end.line <= Len(rows[c]) + 1 /\ l \in 0..Len(rows[c])
    BY <1>4, <1>7
  <2>2. \A d \in Client : /\ pos[d].line <= Len(rows[d]) + 1
                          /\ taken[d] \cup torn[d] \subseteq 0..Len(rows[d])
    BY DEF ReportInv, InSight
  <2>3. \A d \in Client : /\ pos'[d].line <= Len(rows[d]) + 1
                          /\ taken'[d] \cup torn'[d] \subseteq 0..Len(rows[d])
    BY <1>8, <2>1, <2>2
  <2>4. QED
    BY <1>3, <2>3 DEF InSight, cliVars, ReportInv
<1>11. ReadInv(c)'
  <2>1. ReadInv(c)
    BY <1>1 DEF ReportInv
  <2>2. /\ taken[c] \subseteq 1..l /\ torn[c] \subseteq 0..l
        /\ l = 0 /\ width[c] = Columns => p.field = Columns
        /\ l \in taken[c] => p.field = Columns
        /\ width[c] = Columns /\ l # 0 /\ p.field > 1 => l \in taken[c] \cup torn[c]
        /\ width[c] = Columns => \A k \in 1..(l - 1) : k \in taken[c] \cup torn[c]
    BY <2>1 DEF ReadInv, p, l
  <2>3. CASE end.line = l + 1 /\ end.field = 0
    <3>1. taken'[c] \subseteq 1..l /\ torn'[c] = torn[c]
      BY <1>4, <1>5, <1>7, <1>8, <2>2, <2>3 DEF cut
    <3>2. width[c] = Columns /\ l # 0 => l \in taken'[c] \cup torn'[c]
      <4>1. CASE p.field <= 1
        BY <1>4, <1>6, <1>8, <2>3, <4>1
      <4>2. CASE ~(p.field <= 1)
        BY <1>4, <1>8, <2>2, <3>1, <4>2 DEF Columns
      <4>3. QED
        BY <4>1, <4>2
    <3>3. \A k \in 1..((l + 1) - 1) : k \in 1..(l - 1) \/ (k = l /\ l # 0)
      BY <1>4
    <3>4. width[c] = Columns => \A k \in 1..((l + 1) - 1) : k \in taken'[c] \cup torn'[c]
      BY <1>8, <2>2, <3>2, <3>3
    <3>5. taken'[c] \subseteq 1..(l + 1) /\ torn'[c] \subseteq 0..(l + 1) /\ l + 1 \notin taken'[c] /\ l + 1 # 0
      BY <1>4, <2>2, <3>1
    <3>6. QED
      BY <1>8, <2>3, <3>4, <3>5 DEF ReadInv
  <2>4. CASE end.line = l /\ end.field > p.field /\ end.field \in 1..Columns
    <3> DEFINE k == end.field  f == p.field
    <3>1. k \in 1..9 /\ f \in 0..9 /\ k > f
      BY <1>4, <2>4 DEF Columns
    <3>2. taken'[c] \subseteq 1..l /\ torn'[c] \subseteq 0..l
      BY <1>4, <1>5, <1>8, <2>2
    <3>3. l = 0 => width[c] # Columns
      BY <2>2, <3>1 DEF Columns
    <3>4. l \in taken'[c] => k = Columns
      <4>1. l \notin taken[c]
        BY <2>2, <3>1 DEF Columns
      <4>2. end.line # l + 1
        BY <1>4, <2>4
      <4>3. QED
        BY <1>5, <1>8, <4>1, <4>2
    <3>5. width[c] = Columns /\ l # 0 /\ k > 1 => l \in taken'[c] \cup torn'[c]
      <4>1. CASE k # Columns /\ k > 1
        BY <1>8, <2>4, <4>1 DEF cut
      <4>2. CASE k = Columns /\ f <= 1
        BY <1>4, <1>6, <1>8, <4>2
      <4>3. CASE f > 1
        BY <1>8, <2>2, <4>3
      <4>4. QED
        BY <3>1, <4>1, <4>2, <4>3
    <3>6. width[c] = Columns => \A j \in 1..(l - 1) : j \in taken'[c] \cup torn'[c]
      BY <1>8, <2>2
    <3>7. QED
      BY <1>8, <2>4, <3>2, <3>3, <3>4, <3>5, <3>6 DEF ReadInv
  <2>5. QED
    BY <1>4, <2>3, <2>4
<1>12. ASSUME NEW d \in Client \ {c} PROVE ReadInv(d)'
  <2>1. ReadInv(d)
    BY DEF ReportInv
  <2>2. QED
    BY <1>8, <2>1 DEF ReadInv
<1>13. FilesInv'
  <2>1. Current' = c
    BY <1>1, <1>3 DEF Current
  <2>2. \A d \in files \ {c} : Untouched(d)
    BY <1>1 DEF ReportInv, FilesInv
  <2>3. \A d \in files \ {c} : Untouched(d)'
    BY <1>7, <1>8, <2>2 DEF Untouched, ToolType
  <2>4. QED
    BY <1>1, <1>3, <2>1, <2>3 DEF FilesInv
<1>14. ClientType'
  BY <1>3, <1>7 DEF ClientType, cliVars
<1>15. \A d \in Client : ReadInv(d)'
  BY <1>11, <1>12
<1>16. QED
  BY <1>9, <1>10, <1>13, <1>14, <1>15 DEF ReportInv

LEMMA OpenFileStep ==
  ASSUME ReportInv, OpenFile
  PROVE  ReportInv'
<1>1. PICK c \in Client : c = Current /\ c \in files /\ tool = "open"
  BY CurrentIn DEF OpenFile, ReportInv, ToolType
<1>2. Untouched(c) /\ \A d \in files : Untouched(d)
  BY <1>1 DEF ReportInv, FilesInv
<1>3. UNCHANGED <<cliVars, stats, taken, torn, page>>
  BY DEF OpenFile
<1>4. ClientType' /\ ToolType
  BY <1>3 DEF ReportInv, ClientType, cliVars
<1>5. CASE CloseFile /\ UNCHANGED <<width, pos>>
  <2>1. /\ files' = files \ {c} /\ tool' \in {"render", "open"}
        /\ tool' = "open" => files' # {}
    BY <1>1, <1>5 DEF CloseFile
  <2>2. ToolType'
    BY <1>3, <1>4, <1>5, <2>1 DEF ToolType
  <2>3. InSight' /\ \A d \in Client : ReadInv(d)'
    BY <1>3, <1>5, <2>1 DEF ReportInv, InSight, ReadInv, cliVars
  <2>4. FilesInv'
    BY <1>2, <1>3, <1>5, <2>1 DEF FilesInv, Untouched
  <2>5. QED
    BY <1>4, <2>2, <2>3, <2>4 DEF ReportInv
<1>6. CASE \E end \in RecordEnds(c) :
             /\ tool' = "read"
             /\ width' = [width EXCEPT ![c] = Fields(pos[c], end)]
             /\ pos' = [pos EXCEPT ![c] = end]
             /\ UNCHANGED files
  <2>1. PICK end \in RecordEnds(c) :
          /\ tool' = "read"
          /\ width' = [width EXCEPT ![c] = Fields(pos[c], end)]
          /\ pos' = [pos EXCEPT ![c] = end]
          /\ UNCHANGED files
    BY <1>6
  <2>2. pos[c].line = 0 /\ pos[c].field = 0
    BY <1>2 DEF Untouched, LineStart
  <2>3. /\ 0 <= Len(rows[c]) /\ end \in Position
        /\ \/ end.line = 1 /\ end.field = 0
           \/ end.line = 0 /\ end.field \in 1..Columns /\ Fields(pos[c], end) = end.field
        /\ Fields(pos[c], end) \in 1..Columns
    BY <2>2, RecordShape DEF ReportInv
  <2>4. ToolType'
    <3>1. width' \in [Client -> 0..Columns] /\ pos' \in [Client -> Position]
      BY <1>4, <2>1, <2>3 DEF ToolType, Columns
    <3>2. QED
      BY <1>1, <1>3, <1>4, <2>1, <3>1 DEF ToolType
  <2>5. /\ pos'[c] = end /\ width'[c] = Fields(pos[c], end)
        /\ \A d \in Client \ {c} : pos'[d] = pos[d] /\ width'[d] = width[d]
    BY <1>4, <2>1 DEF ToolType
  <2>6. Len(rows[c]) \in Nat
    BY LenProperties DEF ReportInv, ClientType
  <2>7. InSight'
    <3>1. end.line <= Len(rows[c]) + 1
      BY <2>3, <2>6
    <3>2. \A d \in Client : pos'[d].line <= Len(rows[d]) + 1
      BY <2>5, <3>1 DEF ReportInv, InSight
    <3>3. QED
      BY <1>3, <2>1, <3>2 DEF ReportInv, InSight, cliVars
  <2>8. ReadInv(c)'
    <3>1. taken'[c] = {} /\ torn'[c] = {}
      BY <1>2, <1>3 DEF Untouched
    <3>2. \A l \in 1..(end.line - 1) : FALSE
      BY <2>3
    <3>3. end.line = 0 /\ width'[c] = Columns => end.field = Columns
      BY <2>3, <2>5
    <3>4. end.line # 0 => end.field = 0
      BY <2>3
    <3>5. QED
      BY <2>5, <3>1, <3>2, <3>3, <3>4 DEF ReadInv
  <2>9. ASSUME NEW d \in Client \ {c} PROVE ReadInv(d)'
    <3>1. ReadInv(d)
      BY DEF ReportInv
    <3>2. QED
      BY <1>3, <2>5, <3>1 DEF ReadInv
  <2>10. \A d \in Client : ReadInv(d)'
    BY <2>8, <2>9
  <2>11. FilesInv'
    <3>1. Current' = c
      BY <1>1, <2>1 DEF Current
    <3>2. \A d \in files \ {c} : Untouched(d)'
      BY <1>2, <1>3, <1>4, <2>5 DEF Untouched, ToolType
    <3>3. QED
      BY <2>1, <3>1, <3>2 DEF FilesInv
  <2>12. QED
    BY <1>4, <2>4, <2>7, <2>10, <2>11 DEF ReportInv
<1>7. QED
  BY <1>1, <1>5, <1>6 DEF OpenFile

LEMMA LinesStay ==
  ASSUME ClientType, NEW c \in Client, Printed(c)
  PROVE  /\ Len(rows[c]) \in Nat /\ Len(rows'[c]) \in Nat /\ Len(rows[c]) <= Len(rows'[c])
         /\ \A l \in 1..Len(rows[c]) : rows'[c][l] = rows[c][l]
<1>1. rows[c] \in Seq(RowType) /\ Len(rows[c]) \in Nat
  BY LenProperties DEF ClientType
<1>2. CASE rows'[c] = rows[c]
  BY <1>1, <1>2
<1>3. ASSUME NEW r \in RowType, rows'[c] = Append(rows[c], r)
      PROVE  /\ Len(rows'[c]) = Len(rows[c]) + 1
             /\ \A l \in 1..Len(rows[c]) : rows'[c][l] = rows[c][l]
  BY <1>1, <1>3, AppendProperties
<1>4. QED
  BY <1>1, <1>2, <1>3 DEF Printed

LEMMA NextReport == ReportInv /\ [Next]_vars => ReportInv'
<1> SUFFICES ASSUME ReportInv, [Next]_vars PROVE ReportInv'
  OBVIOUS
<1>1. CASE ClientSide
  <2>1. /\ ClientType' /\ UNCHANGED toolVars /\ running \subseteq running'
        /\ \A c \in Client : Printed(c)
    BY <1>1, ClientSteps DEF ReportInv
  <2>2. ToolType' /\ FilesInv' /\ \A c \in Client : ReadInv(c)'
    BY <2>1 DEF ReportInv, ToolType, FilesInv, ReadInv, Untouched, Current, toolVars
  <2>3. InSight'
    <3>1. files' \subseteq running'
      BY <2>1 DEF ReportInv, InSight, toolVars
    <3>2. ASSUME NEW c \in Client
          PROVE  /\ pos'[c].line <= Len(rows'[c]) + 1
                 /\ taken'[c] \cup torn'[c] \subseteq 0..Len(rows'[c])
      <4>1. Len(rows[c]) \in Nat /\ Len(rows'[c]) \in Nat /\ Len(rows[c]) <= Len(rows'[c])
        BY <2>1, LinesStay DEF ReportInv
      <4>2. /\ pos[c].line <= Len(rows[c]) + 1 /\ pos[c].line \in Nat
            /\ taken[c] \cup torn[c] \subseteq 0..Len(rows[c])
        BY DEF ReportInv, InSight, ToolType, Position
      <4>3. /\ pos[c].line <= Len(rows'[c]) + 1
            /\ taken[c] \cup torn[c] \subseteq 0..Len(rows'[c])
        BY <4>1, <4>2
      <4>4. QED
        BY <2>1, <4>3 DEF toolVars
    <3>3. QED
      BY <3>1, <3>2 DEF InSight
  <2>4. QED
    BY <2>1, <2>2, <2>3 DEF ReportInv
<1>2. CASE StartTool
  <2> USE <1>2 DEF StartTool, ReportInv
  <2>1. ClientType'
    BY DEF ClientType, cliVars
  <2>2. ToolType'
    BY DEF ToolType, ClientType, Client
  <2>3. InSight' /\ \A c \in Client : ReadInv(c)'
    BY DEF InSight, ReadInv, cliVars
  <2>4. FilesInv'
    BY DEF FilesInv, Untouched, ClientType, Client
  <2>5. QED
    BY <2>1, <2>2, <2>3, <2>4
<1>3. CASE OpenFile
  BY <1>3, OpenFileStep
<1>4. CASE ReadRecord
  BY <1>4, ReadRecordStep
<1>5. CASE EndOfFile
  <2>1. /\ files' = files \ {Current} /\ tool' \in {"render", "open"}
        /\ tool' = "open" => files' # {}
        /\ UNCHANGED <<cliVars, width, pos, stats, taken, torn, page>> /\ tool = "read"
    BY <1>5 DEF CloseFile, EndOfFile
  <2>2. ClientType' /\ ToolType'
    BY <2>1 DEF ReportInv, ClientType, ToolType, cliVars
  <2>3. InSight' /\ \A c \in Client : ReadInv(c)'
    BY <2>1 DEF ReportInv, InSight, ReadInv, cliVars
  <2>4. FilesInv'
    BY <2>1 DEF ReportInv, FilesInv, Untouched
  <2>5. QED
    BY <2>2, <2>3, <2>4 DEF ReportInv
<1>6. CASE Render
  <2>1. /\ tool' \in {"panicked", "ended"} /\ page' \in {"torn", "complete"}
        /\ UNCHANGED <<cliVars, files, width, pos, stats, taken, torn>>
    BY <1>6 DEF Render
  <2>2. ClientType' /\ ToolType'
    BY <2>1 DEF ReportInv, ClientType, ToolType, cliVars
  <2>3. InSight' /\ \A c \in Client : ReadInv(c)'
    BY <2>1 DEF ReportInv, InSight, ReadInv, cliVars
  <2>4. FilesInv'
    BY <2>1 DEF FilesInv
  <2>5. QED
    BY <2>2, <2>3, <2>4 DEF ReportInv
<1>7. CASE UNCHANGED vars
  BY <1>7 DEF vars, cliVars, toolVars, ReportInv, ClientType, ToolType, InSight, FilesInv, ReadInv,
              Untouched, Current
<1>8. QED
  BY <1>1, <1>2, <1>3, <1>4, <1>5, <1>6, <1>7, NextSides DEF ToolStep

THEOREM ReportAlways == Spec => []ReportInv
  BY InitReport, NextReport, PTL DEF Spec

(* The report's variables stay well typed, and the tool never reads past what  *)
(* it can see (TypeOK).                                                        *)
THEOREM TypeCorrect == Spec => []TypeOK
<1>1. ReportInv => TypeOK
  <2> SUFFICES ASSUME ReportInv PROVE TypeOK
    OBVIOUS
  <2>1. ASSUME NEW c \in Client, NEW l \in DOMAIN rows[c]
        PROVE  rows[c][l] \in [op : Op, count : Nat, rtt : Rtts, status : {"OK", "ERROR"}]
    <3>1. rows[c] \in Seq(RowType) /\ l \in 1..Len(rows[c])
      BY LenProperties DEF ReportInv, ClientType
    <3>2. rows[c][l] \in RowType
      BY <3>1, ElementOfSeq
    <3>3. QED
      BY <3>2 DEF RowType
  <2>2. QED
    BY <2>1 DEF ReportInv, ClientType, ToolType, InSight, TypeOK
<1>2. QED
  BY <1>1, ReportAlways, PTL

(* If the header was seen whole, a line is missed only if the file ended in it *)
(* when it was read, neither in its first field nor in its last                *)
(* (OnlyTornMissed).  By itself this says nothing of the line that the reader  *)
(* stands in: ReadInv does.                                                    *)
THEOREM OnlyTornAlwaysMissed == Spec => []OnlyTornMissed
<1>1. ReportInv => OnlyTornMissed
  BY DEF ReportInv, ReadInv, OnlyTornMissed
<1>2. QED
  BY <1>1, ReportAlways, PTL

-------------------------------------------------------------------------------
(* What is counted and what was sent *)

(* P[l] is the number of commands in the first l lines.                        *)
Prefix(P, c) ==
  P \in [Nat -> Nat] /\ \A l \in 1..Len(rows[c]) : P[l] = P[l - 1] + rows[c][l].count

(* The lines behind the reader that may have been counted.                     *)
Done(c) ==
  IF pos[c].line = 0 \/ pos[c].line \in taken[c] THEN pos[c].line ELSE pos[c].line - 1

(* What the lines say was sent before they were printed, the commands of a     *)
(* bulk in progress are sent or in cliWriter.                                  *)
OnTheirWay(P, c) ==
  /\ \A l \in 0..Len(rows[c]) : P[l] <= sent[c]
  /\ P[Len(rows[c])] + bulk[c].i <= sent[c] + buf[c]

(* So it is while the connection stands, and the tool has counted no more than *)
(* stands in the lines behind it.                                              *)
SentOf(P, c) ==
  /\ Prefix(P, c)
  /\ c \notin lost => OnTheirWay(P, c)
  /\ Counted(c) <= P[Done(c)]

SentInv == \A c \in Client : \E P : SentOf(P, c)

LEMMA DoneInSight ==
  ASSUME ReportInv, NEW c \in Client
  PROVE  /\ pos[c].line \in Nat /\ Len(rows[c]) \in Nat /\ rows[c] \in Seq(RowType)
         /\ Done(c) \in 0..Len(rows[c]) /\ Counted(c) \in Nat
         /\ pos[c].line + 1 \notin taken[c]
<1>1. pos[c].line \in Nat /\ Len(rows[c]) \in Nat /\ rows[c] \in Seq(RowType)
  BY LenProperties DEF ReportInv, ClientType, ToolType, Position
<1>2. pos[c].line <= Len(rows[c]) + 1 /\ taken[c] \subseteq 0..Len(rows[c]) /\ taken[c] \subseteq 1..pos[c].line
  BY DEF ReportInv, InSight, ReadInv
<1>3. Done(c) \in 0..Len(rows[c])
  BY <1>1, <1>2 DEF Done
<1>4. Counted(c) \in Nat
  BY DEF Counted, ReportInv, ToolType, StatsType, Op
<1>5. pos[c].line + 1 \notin taken[c]
  BY <1>1, <1>2
<1>6. QED
  BY <1>1, <1>3, <1>4, <1>5

LEMMA PrefixExtends ==
  ASSUME ClientType, NEW c \in Client, NEW P, Prefix(P, c), NEW r \in RowType,
         rows'[c] = Append(rows[c], r)
  PROVE  LET n == Len(rows[c])
         IN  \E Q : /\ Prefix(Q, c)' /\ Len(rows'[c]) = n + 1
                    /\ \A l \in 0..n : Q[l] = P[l]
                    /\ Q[n + 1] = P[n] + r.count
<1>1. PICK n \in Nat : n = Len(rows[c])
  BY LenProperties DEF ClientType
<1> DEFINE Q == [P EXCEPT ![n + 1] = P[n] + r.count]
<1>2. /\ Len(rows'[c]) = n + 1 /\ rows'[c][n + 1] = r
      /\ \A l \in 1..n : rows'[c][l] = rows[c][l]
  <2>1. rows[c] \in Seq(RowType)
    BY DEF ClientType
  <2>2. QED
    BY <1>1, <2>1, AppendProperties
<1>3. /\ P \in [Nat -> Nat] /\ r.count \in Nat
      /\ \A l \in 1..n : P[l] = P[l - 1] + rows[c][l].count
  BY <1>1 DEF Prefix, RowType
<1>4. /\ Q \in [Nat -> Nat] /\ Q[n + 1] = P[n] + r.count
      /\ \A l \in Nat : l # n + 1 => Q[l] = P[l]
  <2>1. n + 1 \in Nat /\ P[n] + r.count \in Nat
    <3>1. P[n] \in Nat /\ r.count \in Nat
      BY <1>1, <1>3
    <3>2. QED
      BY <1>1, <3>1
  <2>2. QED
    BY <1>3, <2>1
<1> HIDE DEF Q
<1>5. \A l \in 0..n : l \in Nat /\ l # n + 1
  BY <1>1
<1>6. \A l \in 1..n : l \in Nat /\ l # n + 1 /\ l - 1 \in Nat /\ l - 1 # n + 1
  BY <1>1
<1>7. ASSUME NEW l \in 1..(n + 1) PROVE Q[l] = Q[l - 1] + rows'[c][l].count
  <2>1. CASE l = n + 1
    <3>1. l - 1 = n /\ n \in 0..n
      BY <1>1, <2>1
    <3>2. QED
      BY <1>2, <1>4, <1>5, <2>1, <3>1
  <2>2. CASE l \in 1..n
    <3>1. Q[l] = P[l] /\ Q[l - 1] = P[l - 1]
      BY <1>4, <1>6, <2>2
    <3>2. QED
      BY <1>2, <1>3, <2>2, <3>1
  <2>3. QED
    BY <1>1, <2>1, <2>2
<1>8. Prefix(Q, c)'
  BY <1>2, <1>4, <1>7 DEF Prefix
<1>9. QED
  BY <1>1, <1>2, <1>4, <1>5, <1>8

(* A client sends before it prints: what a step of the clients changes.        *)
LEMMA ClientSends ==
  ASSUME ReportInv, ClientSide, NEW c \in Client \ lost
  PROVE  LET s == sent[c]  s2 == sent'[c]
         IN  \/ /\ rows'[c] = rows[c] /\ s <= s2
                /\ bulk'[c].i + (s + buf[c]) <= bulk[c].i + (s2 + buf'[c])
             \/ \E r \in RowType :
                  /\ rows'[c] = Append(rows[c], r) /\ bulk'[c].i = 0 /\ s <= s2
                  /\ r.count + s <= s2 \/ (r.count = bulk[c].i /\ s2 = s + buf[c])
<1> DEFINE Goal(d) == \/ /\ rows'[d] = rows[d] /\ sent[d] <= sent'[d]
                         /\ bulk'[d].i + (sent[d] + buf[d]) <= bulk[d].i + (sent'[d] + buf'[d])
                      \/ \E r \in RowType :
                           /\ rows'[d] = Append(rows[d], r) /\ bulk'[d].i = 0 /\ sent[d] <= sent'[d]
                           /\ \/ r.count + sent[d] <= sent'[d]
                              \/ r.count = bulk[d].i /\ sent'[d] = sent[d] + buf[d]
<1>1. ClientType
  BY DEF ReportInv
<1>2. ASSUME NEW d \in Client
      PROVE  /\ sent[d] \in Nat /\ buf[d] \in Nat /\ bulk[d].i \in Nat /\ bulk[d].count \in Nat
             /\ sent[d] <= sent[d] /\ bulk[d].i + (sent[d] + buf[d]) <= bulk[d].i + (sent[d] + buf[d])
  BY <1>1 DEF ClientType, BulkType
<1>3. ASSUME UNCHANGED <<rows, sent, buf, bulk>> PROVE Goal(c)
  BY <1>2, <1>3
<1>4. ASSUME NEW d \in Client, SendStressCmd(d) PROVE Goal(c)
  <2>1. PICK rtt \in Rtts, status \in {"OK", "ERROR"} :
          rows' = [rows EXCEPT ![d] = Append(@, Row("single", 1, rtt, status))]
    BY <1>4 DEF SendStressCmd
  <2> DEFINE r == Row("single", 1, rtt, status)
  <2>2. r \in RowType /\ r.count = 1
    BY DEF Row, RowType, Op
  <2>3. CASE c = d
    <3>1. rows'[c] = Append(rows[c], r) /\ bulk'[c].i = 0
      BY <1>1, <1>4, <2>1, <2>3 DEF SendStressCmd, Free, ClientType, NoBulk
    <3> HIDE DEF r
    <3>2. sent'[c] = sent[c] + (buf[c] + 1)
      BY <1>1, <1>4, <2>3, FlushType DEF SendStressCmd
    <3>3. 1 + sent[c] <= sent'[c] /\ sent[c] <= sent'[c]
      BY <1>2, <3>2
    <3>4. QED
      BY <2>2, <3>1, <3>3
  <2>4. CASE c # d
    <3>1. rows'[c] = rows[c] /\ bulk' = bulk
      BY <1>1, <1>4, <2>1, <2>4 DEF SendStressCmd, ClientType
    <3>2. sent'[c] = sent[c] /\ buf'[c] = buf[c]
      BY <1>1, <1>4, <2>4, FlushType DEF SendStressCmd
    <3>3. QED
      BY <1>2, <3>1, <3>2
  <2>5. QED
    BY <2>3, <2>4
<1>5. ASSUME NEW d \in Client, BulkBegin(d) PROVE Goal(c)
  <2>1. UNCHANGED <<rows, sent, buf>> /\ bulk'[c].i = bulk[c].i
    BY <1>1, <1>5 DEF BulkBegin, Free, NoBulk, ClientType
  <2>2. QED
    BY <1>2, <2>1
<1>6. ASSUME NEW d \in Client, BulkStep(d) PROVE Goal(c)
  <2>1. CASE c = d
    <3>1. rows' = rows /\ bulk'[c].i = bulk[c].i + 1
      BY <1>1, <1>6, <2>1 DEF BulkStep, ClientType, BulkType
    <3>2. CASE Flush(c, 1)
      <4>1. sent'[c] = sent[c] + (buf[c] + 1) /\ buf'[c] = 0
        BY <1>1, <3>2, FlushType
      <4>2. QED
        BY <1>2, <3>1, <4>1
    <3>3. CASE buf' = [buf EXCEPT ![d] = @ + 1] /\ UNCHANGED sent
      <4>1. sent'[c] = sent[c] /\ buf'[c] = buf[c] + 1
        BY <1>1, <2>1, <3>3 DEF ClientType
      <4>2. QED
        BY <1>2, <3>1, <4>1
    <3>4. QED
      BY <1>6, <2>1, <3>2, <3>3 DEF BulkStep
  <2>2. CASE c # d
    <3>1. rows' = rows /\ bulk'[c] = bulk[c]
      BY <1>1, <1>6, <2>2 DEF BulkStep, ClientType
    <3>2. sent'[c] = sent[c] /\ buf'[c] = buf[c]
      <4>1. CASE Flush(d, 1)
        BY <1>1, <2>2, <4>1, FlushType
      <4>2. CASE buf' = [buf EXCEPT ![d] = @ + 1] /\ UNCHANGED sent
        BY <1>1, <2>2, <4>2 DEF ClientType
      <4>3. QED
        BY <1>6, <4>1, <4>2 DEF BulkStep
    <3>3. QED
      BY <1>2, <3>1, <3>2
  <2>3. QED
    BY <2>1, <2>2
<1>7. ASSUME NEW d \in Client, BulkEnd(d) PROVE Goal(c)
  <2>1. CASE c = d
    <3>1. /\ sent'[c] = sent[c] + buf[c] /\ buf'[c] = 0 /\ bulk'[c].i = 0
          /\ bulk[c].i = bulk[c].count /\ bulk[c].count # 0
      <4>1. sent'[c] = sent[c] + (buf[c] + 0) /\ buf'[c] = 0
        BY <1>1, <1>7, <2>1, FlushType DEF BulkEnd
      <4>2. sent'[c] = sent[c] + buf[c]
        BY <1>2, <4>1
      <4>3. QED
        BY <1>1, <1>7, <2>1, <4>1, <4>2 DEF BulkEnd, ClientType, BulkType, NoBulk
    <3>2. sent[c] <= sent'[c]
      BY <1>2, <3>1
    <3>3. CASE UNCHANGED rows
      BY <1>2, <3>1, <3>2, <3>3
    <3>4. CASE \E rtt \in Rtts : rows' = [rows EXCEPT ![c] = Append(@, Row("bulk", bulk[c].count, rtt, "OK"))]
      <4>1. PICK rtt \in Rtts : rows' = [rows EXCEPT ![c] = Append(@, Row("bulk", bulk[c].count, rtt, "OK"))]
        BY <3>4
      <4> DEFINE r == Row("bulk", bulk[c].count, rtt, "OK")
      <4>2. r \in RowType /\ r.count = bulk[c].i
        BY <1>2, <3>1 DEF Row, RowType, Op
      <4>3. rows'[c] = Append(rows[c], r)
        BY <1>1, <4>1 DEF ClientType
      <4> HIDE DEF r
      <4>4. QED
        BY <3>1, <3>2, <4>2, <4>3
    <3>5. QED
      BY <1>7, <2>1, <3>3, <3>4 DEF BulkEnd, BulkRow
  <2>2. CASE c # d
    <3>1. rows'[c] = rows[c] /\ bulk'[c] = bulk[c]
      BY <1>1, <1>7, <2>2 DEF BulkEnd, BulkRow, ClientType
    <3>2. sent'[c] = sent[c] /\ buf'[c] = buf[c]
      BY <1>1, <1>7, <2>2, FlushType DEF BulkEnd
    <3>3. QED
      BY <1>2, <3>1, <3>2
  <2>3. QED
    BY <2>1, <2>2
<1>8. Goal(c)
  BY <1>3, <1>4, <1>5, <1>6, <1>7 DEF ClientSide, Launch, Start, Lose
<1>9. QED
  BY <1>8

(* The connection of c stands.                                                 *)
LEMMA SentByStanding ==
  ASSUME ReportInv, ClientSide, NEW c \in Client \ lost, NEW P, SentOf(P, c)
  PROVE  \E Q : SentOf(Q, c)'
<1>1. UNCHANGED toolVars
  BY ClientSteps DEF ReportInv
<1>2. PICK n \in Nat : n = Len(rows[c]) /\ Done(c) \in 0..n /\ Counted(c) \in Nat
  BY DoneInSight
<1>3. Done(c)' = Done(c) /\ Counted(c)' = Counted(c)
  BY <1>1 DEF Done, Counted, toolVars
<1>4. /\ P \in [Nat -> Nat] /\ \A l \in 0..n : P[l] <= sent[c]
      /\ P[n] + bulk[c].i <= sent[c] + buf[c] /\ Counted(c) <= P[Done(c)]
  BY <1>2 DEF SentOf, OnTheirWay, Prefix
<1>5. /\ sent[c] \in Nat /\ sent'[c] \in Nat /\ buf[c] \in Nat /\ buf'[c] \in Nat
      /\ bulk[c].i \in Nat /\ bulk'[c].i \in Nat
  BY ClientSteps DEF ReportInv, ClientType, BulkType
<1>6. \A l \in 0..n : P[l] \in Nat
  BY <1>4
<1>7. CASE /\ rows'[c] = rows[c] /\ sent[c] <= sent'[c]
           /\ bulk'[c].i + (sent[c] + buf[c]) <= bulk[c].i + (sent'[c] + buf'[c])
  <2>1. Prefix(P, c)' /\ Len(rows'[c]) = n
    BY <1>2, <1>7 DEF SentOf, Prefix
  <2>2. \A l \in 0..n : P[l] <= sent'[c]
    BY <1>4, <1>5, <1>6, <1>7
  <2>3. P[n] + bulk'[c].i <= sent'[c] + buf'[c]
    <3>1. P[n] \in Nat
      BY <1>4
    <3>2. QED
      BY <1>4, <1>5, <1>7, <3>1
  <2>4. SentOf(P, c)'
    BY <1>3, <1>4, <2>1, <2>2, <2>3 DEF SentOf, OnTheirWay
  <2>5. QED
    BY <2>4
<1>8. ASSUME NEW r \in RowType,
             rows'[c] = Append(rows[c], r), bulk'[c].i = 0, sent[c] <= sent'[c],
             r.count + sent[c] <= sent'[c] \/ (r.count = bulk[c].i /\ sent'[c] = sent[c] + buf[c])
      PROVE  \E Q : SentOf(Q, c)'
  <2>1. PICK Q : /\ Prefix(Q, c)' /\ Len(rows'[c]) = n + 1
                 /\ \A l \in 0..n : Q[l] = P[l]
                 /\ Q[n + 1] = P[n] + r.count
    <3>1. ClientType /\ Prefix(P, c)
      BY DEF ReportInv, SentOf
    <3>2. QED
      BY <1>2, <1>8, <3>1, PrefixExtends
  <2>2. P[n] + r.count <= sent'[c]
    <3>1. n \in 0..n /\ r.count \in Nat
      BY <1>2 DEF RowType
    <3>2. P[n] \in Nat /\ P[n] <= sent[c]
      BY <1>4, <1>6, <3>1
    <3>3. CASE r.count = bulk[c].i /\ sent'[c] = sent[c] + buf[c]
      BY <1>4, <3>3
    <3>4. CASE r.count + sent[c] <= sent'[c]
      <4>1. PICK p \in Nat, k \in Nat, s \in Nat, s2 \in Nat :
              p = P[n] /\ k = r.count /\ s = sent[c] /\ s2 = sent'[c]
        BY <1>5, <3>1, <3>2
      <4>2. p <= s /\ k + s <= s2
        BY <3>2, <3>4, <4>1
      <4>3. p + k <= s2
        BY <4>2
      <4>4. QED
        BY <4>1, <4>3
    <3>5. QED
      BY <1>8, <3>3, <3>4
  <2>3. \A l \in 0..(n + 1) : Q[l] <= sent'[c]
    <3>1. \A l \in 0..(n + 1) : l \in 0..n \/ l = n + 1
      BY <1>2
    <3>2. ASSUME NEW l \in 0..n PROVE Q[l] <= sent'[c]
      <4>1. PICK p \in Nat, s \in Nat, s2 \in Nat : p = P[l] /\ s = sent[c] /\ s2 = sent'[c]
        BY <1>5, <1>6
      <4>2. p <= s /\ s <= s2
        BY <1>4, <1>8, <4>1
      <4>3. p <= s2
        BY <4>2
      <4>4. QED
        BY <2>1, <4>1, <4>3
    <3>3. QED
      BY <2>1, <2>2, <3>1, <3>2
  <2>4. Q[n + 1] + bulk'[c].i <= sent'[c] + buf'[c]
    <3>1. Q[n + 1] \in Nat
      <4>1. P[n] \in Nat /\ r.count \in Nat
        BY <1>4 DEF RowType
      <4>2. QED
        BY <2>1, <4>1
    <3>2. Q[n + 1] <= sent'[c]
      BY <2>1, <2>2
    <3>3. QED
      BY <1>5, <1>8, <3>1, <3>2
  <2>5. Counted(c)' <= Q[Done(c)']
    BY <1>2, <1>3, <1>4, <2>1
  <2>6. SentOf(Q, c)'
    BY <2>1, <2>3, <2>4, <2>5 DEF SentOf, OnTheirWay
  <2>7. QED
    BY <2>6
<1>9. QED
  BY <1>7, <1>8, ClientSends

LEMMA SentByClients ==
  ASSUME ReportInv, ClientSide, NEW c \in Client, NEW P, SentOf(P, c)
  PROVE  \E Q : SentOf(Q, c)'
<1>1. CASE c \notin lost
  BY <1>1, SentByStanding
<1>2. CASE c \in lost
  <2>1. c \in lost'
    BY <1>2 DEF ClientSide, Launch, Start, Lose, SendStressCmd, BulkBegin, BulkStep, BulkEnd
  <2>2. UNCHANGED toolVars /\ Printed(c)
    BY ClientSteps DEF ReportInv
  <2>3. Done(c)' = Done(c) /\ Counted(c)' = Counted(c) /\ Done(c) \in 0..Len(rows[c])
    BY <2>2, DoneInSight DEF Done, Counted, toolVars
  <2>4. CASE rows'[c] = rows[c]
    <3>1. SentOf(P, c)'
      BY <2>1, <2>3, <2>4 DEF SentOf, Prefix
    <3>2. QED
      BY <3>1
  <2>5. ASSUME NEW r \in RowType, rows'[c] = Append(rows[c], r)
        PROVE  \E Q : SentOf(Q, c)'
    <3>1. PICK Q : Prefix(Q, c)' /\ \A l \in 0..Len(rows[c]) : Q[l] = P[l]
      <4>1. ClientType /\ Prefix(P, c)
        BY DEF ReportInv, SentOf
      <4>2. QED
        BY <2>5, <4>1, PrefixExtends
    <3>2. SentOf(Q, c)'
      BY <2>1, <2>3, <3>1 DEF SentOf
    <3>3. QED
      BY <3>2
  <2>6. QED
    BY <2>2, <2>4, <2>5 DEF Printed
<1>3. QED
  BY <1>1, <1>2

(* Counting one record.                                                        *)
LEMMA CountedMore ==
  ASSUME ReportInv, NEW c \in Client, NEW l, rows[c][l] \in RowType,
         stats' = [stats EXCEPT ![c][rows[c][l].op] = Aggregated(@, Parsed(c, l))]
  PROVE  Counted(c)' <= Counted(c) + rows[c][l].count /\ Counted(c)' \in Nat
<1> DEFINE op == rows[c][l].op  n == Parsed(c, l).count
<1>1. op \in {"single", "bulk"} /\ n \in Nat /\ rows[c][l].count \in Nat /\ n <= rows[c][l].count
  BY DEF Parsed, Row, RowType, Op
<1>2. stats \in [Client -> [Op -> StatsType]]
  BY DEF ReportInv, ToolType
<1>3. Aggregated(stats[c][op], Parsed(c, l)).count = stats[c][op].count + n
  BY DEF Aggregated
<1>4. stats' = [stats EXCEPT ![c] = [stats[c] EXCEPT ![op] = Aggregated(stats[c][op], Parsed(c, l))]]
  OBVIOUS
<1>5. stats'[c] = [stats[c] EXCEPT ![op] = Aggregated(stats[c][op], Parsed(c, l))]
  BY <1>2, <1>4
<1> HIDE DEF op, n
<1>6. /\ stats[c]["single"].count \in Nat /\ stats[c]["bulk"].count \in Nat
      /\ stats[c] \in [Op -> StatsType]
  BY <1>2 DEF StatsType, Op
<1>7. CASE op = "single"
  <2>1. stats'[c]["single"].count = stats[c]["single"].count + n /\ stats'[c]["bulk"] = stats[c]["bulk"]
    BY <1>3, <1>5, <1>6, <1>7 DEF Op
  <2>2. QED
    BY <1>1, <1>6, <2>1 DEF Counted
<1>8. CASE op = "bulk"
  <2>1. stats'[c]["bulk"].count = stats[c]["bulk"].count + n /\ stats'[c]["single"] = stats[c]["single"]
    BY <1>3, <1>5, <1>6, <1>8 DEF Op
  <2>2. QED
    BY <1>1, <1>6, <2>1 DEF Counted
<1>9. QED
  BY <1>1, <1>7, <1>8

LEMMA SentRead ==
  ASSUME ReportInv, ReadRecord, NEW d \in Client, NEW P, SentOf(P, d)
  PROVE  SentOf(P, d)'
<1>1. PICK c \in Client : c = Current
  BY CurrentIn DEF ReadRecord, ReportInv, ToolType
<1> DEFINE l == pos[c].line
<1>2. PICK end \in RecordEnds(c) :
        /\ pos' = [pos EXCEPT ![c] = end]
        /\ IF Usable(c, Fields(pos[c], end))
             THEN /\ stats' = [stats EXCEPT ![c][rows[c][l].op] = Aggregated(@, Parsed(c, l))]
                  /\ taken' = [taken EXCEPT ![c] = @ \cup {l}]
             ELSE UNCHANGED <<stats, taken>>
  BY <1>1 DEF ReadRecord
<1>3. UNCHANGED cliVars /\ Prefix(P, d)' /\ (d \notin lost' => OnTheirWay(P, d)')
  BY DEF ReadRecord, cliVars, SentOf, OnTheirWay, Prefix
<1>4. CASE d # c
  <2>1. pos'[d] = pos[d] /\ taken'[d] = taken[d] /\ stats'[d] = stats[d]
    BY <1>2, <1>4 DEF ReportInv, ToolType
  <2>2. Done(d)' = Done(d) /\ Counted(d)' = Counted(d)
    BY <2>1 DEF Done, Counted
  <2>3. QED
    BY <1>3, <2>2 DEF SentOf
<1>5. CASE d = c
  <2> DEFINE use == Usable(c, Fields(pos[c], end))
  <2>1. /\ end.line = l + 1 \/ end.line = l
        /\ l \in Nat /\ l <= Len(rows[c]) /\ Len(rows[c]) \in Nat
        /\ l + 1 \notin taken[c] /\ Counted(c) \in Nat
    BY RecordShape, DoneInSight DEF ReportInv
  <2>2. /\ pos'[c] = end /\ taken'[c] = IF use THEN taken[c] \cup {l} ELSE taken[c]
    BY <1>2 DEF ReportInv, ToolType
  <2>3. P \in [Nat -> Nat] /\ \A k \in 1..Len(rows[c]) : P[k] = P[k - 1] + rows[c][k].count
    BY <1>5 DEF SentOf, Prefix
  <2>4. Counted(c) <= P[Done(c)]
    BY <1>5 DEF SentOf
  <2>5. CASE use
    <3>1. l \in 1..Len(rows[c]) /\ l \notin taken[c] /\ rows[c][l] \in RowType
      BY <2>5, UsableRow
    <3>2. /\ stats' = [stats EXCEPT ![c][rows[c][l].op] = Aggregated(@, Parsed(c, l))]
          /\ taken'[c] = taken[c] \cup {l}
      BY <1>2, <2>2, <2>5
    <3>3. Counted(c)' <= Counted(c) + rows[c][l].count /\ Counted(c)' \in Nat
      BY <3>1, <3>2, CountedMore
    <3>4. Done(c) = l - 1 /\ l - 1 \in Nat
      BY <2>1, <3>1 DEF Done
    <3>5. Done(c)' = l
      <4>1. CASE end.line = l
        BY <2>2, <3>2, <4>1 DEF Done
      <4>2. CASE end.line = l + 1
        <5>1. end.line # 0 /\ end.line \notin taken'[c] /\ end.line - 1 = l
          BY <2>1, <3>2, <4>2
        <5>2. QED
          BY <2>2, <5>1 DEF Done
      <4>3. QED
        BY <2>1, <4>1, <4>2
    <3>6. P[l] = P[l - 1] + rows[c][l].count /\ P[l - 1] \in Nat /\ rows[c][l].count \in Nat
      BY <2>3, <3>1, <3>4 DEF RowType
    <3>7. Counted(c)' <= P[l]
      <4>1. Counted(c) <= P[l - 1]
        BY <2>4, <3>4
      <4>2. PICK n \in Nat, n2 \in Nat, p \in Nat, k \in Nat :
              n = Counted(c) /\ n2 = Counted(c)' /\ p = P[l - 1] /\ k = rows[c][l].count
        BY <2>1, <3>3, <3>6
      <4>3. n <= p /\ n2 <= n + k
        BY <3>3, <4>1, <4>2
      <4>4. n2 <= p + k
        BY <4>3
      <4>5. QED
        BY <3>6, <4>2, <4>4
    <3>8. QED
      BY <1>3, <1>5, <3>5, <3>7 DEF SentOf
  <2>6. CASE ~use
    <3>1. stats' = stats /\ taken'[c] = taken[c]
      BY <1>2, <2>2, <2>6
    <3>2. Counted(c)' = Counted(c)
      BY <3>1 DEF Counted
    <3>3. CASE end.line = l
      <4>1. Done(c)' = Done(c)
        BY <2>2, <3>1, <3>3 DEF Done
      <4>2. QED
        BY <1>3, <1>5, <2>4, <3>2, <4>1 DEF SentOf
    <3>4. CASE end.line = l + 1
      <4>1. Done(c)' = l
        <5>1. end.line # 0 /\ end.line \notin taken'[c] /\ end.line - 1 = l
          BY <2>1, <3>1, <3>4
        <5>2. QED
          BY <2>2, <5>1 DEF Done
      <4>2. Counted(c) <= P[l]
        <5>1. CASE Done(c) = l
          BY <2>4, <5>1
        <5>2. CASE Done(c) # l
          <6>1. l \in 1..Len(rows[c]) /\ Done(c) = l - 1 /\ l - 1 \in Nat
            BY <2>1, <5>2 DEF Done
          <6>2. rows[c][l].count \in Nat
            <7>1. rows[c] \in Seq(RowType)
              BY DoneInSight
            <7>2. rows[c][l] \in RowType
              BY <6>1, <7>1, ElementOfSeq
            <7>3. QED
              BY <7>2 DEF RowType
          <6>3. P[l] = P[l - 1] + rows[c][l].count /\ P[l - 1] \in Nat
            BY <2>3, <6>1
          <6>4. Counted(c) <= P[l - 1]
            BY <2>4, <6>1
          <6>5. QED
            BY <2>1, <6>2, <6>3, <6>4
        <5>3. QED
          BY <5>1, <5>2
      <4>3. QED
        BY <1>3, <1>5, <3>2, <4>1, <4>2 DEF SentOf
    <3>5. QED
      BY <2>1, <3>3, <3>4
  <2>7. QED
    BY <2>5, <2>6
<1>6. QED
  BY <1>4, <1>5

LEMMA SentOpen ==
  ASSUME ReportInv, OpenFile, NEW d \in Client, NEW P, SentOf(P, d)
  PROVE  SentOf(P, d)'
<1>1. UNCHANGED <<cliVars, stats, taken>>
  BY DEF OpenFile
<1>2. Done(d)' = Done(d)
  <2>1. CASE pos'[d] = pos[d]
    BY <1>1, <2>1 DEF Done
  <2>2. CASE pos'[d] # pos[d]
    <3>1. PICK c \in Client : c = Current /\ c \in files /\ tool = "open"
      BY CurrentIn DEF OpenFile, ReportInv, ToolType
    <3>2. PICK end \in RecordEnds(c) : pos' = [pos EXCEPT ![c] = end]
      BY <2>2, <3>1 DEF OpenFile
    <3>3. d = c
      BY <2>2, <3>2 DEF ReportInv, ToolType
    <3>4. pos[c].line = 0 /\ taken[c] = {}
      BY <3>1 DEF ReportInv, FilesInv, Untouched, LineStart
    <3>5. end.line = 1 \/ end.line = 0
      BY <3>4, RecordShape DEF ReportInv
    <3>6. pos'[c] = end /\ taken'[c] = {}
      BY <1>1, <3>2, <3>4 DEF ReportInv, ToolType
    <3>7. QED
      BY <3>3, <3>4, <3>5, <3>6 DEF Done
  <2>3. QED
    BY <2>1, <2>2
<1>3. QED
  BY <1>1, <1>2 DEF SentOf, OnTheirWay, Prefix, Counted, cliVars

LEMMA NextSent == ReportInv /\ SentInv /\ [Next]_vars => SentInv'
<1> SUFFICES ASSUME ReportInv, SentInv, [Next]_vars, NEW c \in Client PROVE \E P : SentOf(P, c)'
  BY DEF SentInv
<1>1. PICK P : SentOf(P, c)
  BY DEF SentInv
<1>2. CASE ClientSide
  BY <1>1, <1>2, SentByClients
<1>3. CASE ReadRecord
  BY <1>1, <1>3, SentRead
<1>4. CASE OpenFile
  BY <1>1, <1>4, SentOpen
<1>5. CASE UNCHANGED <<cliVars, pos, stats, taken>>
  BY <1>1, <1>5 DEF SentOf, OnTheirWay, Prefix, Counted, Done, cliVars
<1>6. StartTool \/ EndOfFile \/ Render \/ UNCHANGED vars => UNCHANGED <<cliVars, pos, stats, taken>>
  BY DEF StartTool, EndOfFile, Render, vars, cliVars, toolVars
<1>7. QED
  BY <1>2, <1>3, <1>4, <1>5, <1>6, NextSides DEF ToolStep

(* Of a client whose load connection stands, the report counts no command that *)
(* is not on its way to the leader (ReportedWereSent): SentInv follows each command from cliWriter through the *)
(* line that reports it to the reader.                                         *)
THEOREM ReportedWereAlwaysSent == Spec => []ReportedWereSent
<1>1. Init => SentInv
  <2> SUFFICES ASSUME Init, NEW c \in Client PROVE \E P : SentOf(P, c)
    BY DEF SentInv
  <2> DEFINE P == [l \in Nat |-> 0]
  <2>1. Len(rows[c]) = 0
    BY EmptySeq DEF Init
  <2>2. Counted(c) = 0 /\ Done(c) = 0
    BY DEF Init, Counted, Done, NoStats, Op, LineStart
  <2>3. bulk[c].i = 0 /\ sent[c] = 0 /\ buf[c] = 0
    BY DEF Init, NoBulk
  <2>4. P \in [Nat -> Nat] /\ \A l \in 0..0 : P[l] = 0
    OBVIOUS
  <2>5. SentOf(P, c)
    BY <2>1, <2>2, <2>3, <2>4 DEF SentOf, OnTheirWay, Prefix
  <2>6. QED
    BY <2>5
<1>2. ReportInv /\ SentInv => ReportedWereSent
  <2> SUFFICES ASSUME ReportInv, SentInv, NEW c \in Client \ lost PROVE Counted(c) <= sent[c]
    BY DEF ReportedWereSent
  <2>1. PICK P : SentOf(P, c)
    BY DEF SentInv
  <2>2. Done(c) \in 0..Len(rows[c]) /\ Counted(c) \in Nat /\ Done(c) \in Nat
    BY DoneInSight
  <2>3. /\ P[Done(c)] \in Nat /\ P[Done(c)] <= sent[c] /\ Counted(c) <= P[Done(c)]
    BY <2>1, <2>2 DEF SentOf, OnTheirWay, Prefix
  <2>4. sent[c] \in Nat
    BY DEF ReportInv, ClientType
  <2>5. QED
    BY <2>2, <2>3, <2>4
<1>3. QED
  BY <1>1, <1>2, ReportAlways, NextSent, PTL DEF Spec

-------------------------------------------------------------------------------
(* What the statistics say *)

Lines(c, op) == {l \in taken[c] : rows[c][l].op = op}

Counts(c, L) == [l \in L |-> rows[c][l].count]
Times(c, L) == [l \in L |-> rows[c][l].rtt]
Failed(c, L) == [l \in L |-> IF rows[c][l].status = "ERROR" THEN rows[c][l].count ELSE 0]

(* The sums of s are those of the lines in L, zero if there are none.          *)
SumsOf(s, c, L) ==
  /\ s.count = SumFunctionOnSet(Counts(c, L), L)
  /\ s.sum = SumFunctionOnSet(Times(c, L), L)
  /\ s.errors = SumFunctionOnSet(Failed(c, L), L)

(* Its extremes are times of such lines, none of which lies beyond them.       *)
ExtremesOf(s, c, L) ==
  /\ \E l \in L : s.min = rows[c][l].rtt
  /\ \E l \in L : s.max = rows[c][l].rtt
  /\ \A l \in L : s.min <= rows[c][l].rtt /\ rows[c][l].rtt <= s.max

StatsOf(s, c, L) ==
  /\ SumsOf(s, c, L)
  /\ L = {} => s = NoStats
  /\ L # {} => s.count > 0 /\ ExtremesOf(s, c, L)

StatsInv == ~wide => \A c \in Client, op \in Op : StatsOf(stats[c][op], c, Lines(c, op))

(* Rows that a sum may range over.                                             *)
LEMMA LineValues ==
  ASSUME NEW c, NEW L, \A l \in L : rows[c][l] \in RowType
  PROVE  Counts(c, L) \in [L -> Nat] /\ Times(c, L) \in [L -> Nat] /\ Failed(c, L) \in [L -> Nat]
<1>1. \A l \in L : rows[c][l].count \in Nat /\ rows[c][l].rtt \in Nat
  BY ReportAssumption DEF RowType
<1>2. QED
  BY <1>1 DEF Counts, Times, Failed

(* One more line.                                                              *)
LEMMA StatsGrow ==
  ASSUME NEW c, NEW L, IsFiniteSet(L), NEW l, l \notin L,
         \A k \in L \cup {l} : rows[c][k] \in RowType,
         NEW s \in StatsType, StatsOf(s, c, L)
  PROVE  StatsOf(Aggregated(s, rows[c][l]), c, L \cup {l})
<1> DEFINE r == rows[c][l]  t == Aggregated(s, r)  M == L \cup {l}
<1>1. /\ r \in RowType /\ r.count \in Nat \ {0} /\ r.rtt \in Nat
      /\ s.count \in Nat /\ s.sum \in Nat /\ s.errors \in Nat /\ s.min \in Nat /\ s.max \in Nat
  BY ReportAssumption DEF RowType, StatsType
<1>2. /\ Counts(c, L) \in [L -> Nat] /\ Times(c, L) \in [L -> Nat] /\ Failed(c, L) \in [L -> Nat]
      /\ Counts(c, M) \in [M -> Nat] /\ Times(c, M) \in [M -> Nat] /\ Failed(c, M) \in [M -> Nat]
  BY LineValues
<1>3. /\ \A k \in L : Counts(c, M)[k] = Counts(c, L)[k] /\ Times(c, M)[k] = Times(c, L)[k]
                      /\ Failed(c, M)[k] = Failed(c, L)[k]
      /\ Counts(c, M)[l] = r.count /\ Times(c, M)[l] = r.rtt
      /\ Failed(c, M)[l] = IF r.status = "ERROR" THEN r.count ELSE 0
  BY DEF Counts, Times, Failed
<1>4. /\ t.count = s.count + r.count /\ t.sum = s.sum + r.rtt
      /\ t.errors = (IF r.status = "ERROR" THEN s.errors + r.count ELSE s.errors)
      /\ t.min = (IF s = NoStats THEN r.rtt ELSE Min({s.min, r.rtt}))
      /\ t.max = (IF s = NoStats THEN r.rtt ELSE Max({s.max, r.rtt}))
  BY DEF Aggregated
<1>5. SumsOf(t, c, M)
  <2>1. SumFunctionOnSet(Counts(c, M), M) = s.count + r.count
    <3>1. SumFunctionOnSet(Counts(c, M), L \cup {l}) = SumFunctionOnSet(Counts(c, L), L) + Counts(c, M)[l]
      <4>1. PICK f, g : f = Counts(c, L) /\ g = Counts(c, M)
        OBVIOUS
      <4>2. f \in [L -> Nat] /\ g \in [L \cup {l} -> Nat] /\ \A y \in L : g[y] = f[y]
        BY <1>2, <1>3, <4>1
      <4>3. SumFunctionOnSet(g, L \cup {l}) = SumFunctionOnSet(f, L) + g[l]
        BY <4>2, SumGrows
      <4>4. QED
        BY <4>1, <4>3
    <3>2. QED
      BY <1>3, <3>1 DEF StatsOf, SumsOf
  <2>2. SumFunctionOnSet(Times(c, M), M) = s.sum + r.rtt
    <3>1. SumFunctionOnSet(Times(c, M), L \cup {l}) = SumFunctionOnSet(Times(c, L), L) + Times(c, M)[l]
      <4>1. PICK f, g : f = Times(c, L) /\ g = Times(c, M)
        OBVIOUS
      <4>2. f \in [L -> Nat] /\ g \in [L \cup {l} -> Nat] /\ \A y \in L : g[y] = f[y]
        BY <1>2, <1>3, <4>1
      <4>3. SumFunctionOnSet(g, L \cup {l}) = SumFunctionOnSet(f, L) + g[l]
        BY <4>2, SumGrows
      <4>4. QED
        BY <4>1, <4>3
    <3>2. QED
      BY <1>3, <3>1 DEF StatsOf, SumsOf
  <2>3. SumFunctionOnSet(Failed(c, M), M) = s.errors + (IF r.status = "ERROR" THEN r.count ELSE 0)
    <3>1. SumFunctionOnSet(Failed(c, M), L \cup {l}) = SumFunctionOnSet(Failed(c, L), L) + Failed(c, M)[l]
      <4>1. PICK f, g : f = Failed(c, L) /\ g = Failed(c, M)
        OBVIOUS
      <4>2. f \in [L -> Nat] /\ g \in [L \cup {l} -> Nat] /\ \A y \in L : g[y] = f[y]
        BY <1>2, <1>3, <4>1
      <4>3. SumFunctionOnSet(g, L \cup {l}) = SumFunctionOnSet(f, L) + g[l]
        BY <4>2, SumGrows
      <4>4. QED
        BY <4>1, <4>3
    <3>2. QED
      BY <1>3, <3>1 DEF StatsOf, SumsOf
  <2> HIDE DEF r, t, M
  <2>4. t.errors = s.errors + (IF r.status = "ERROR" THEN r.count ELSE 0)
    BY <1>1, <1>4
  <2>5. QED
    BY <1>4, <2>1, <2>2, <2>3, <2>4 DEF SumsOf
<1>6. t.count > 0
  <2> HIDE DEF r, t
  <2>1. QED
    BY <1>1, <1>4
<1>7. ExtremesOf(t, c, M)
  <2>1. CASE L = {}
    <3>1. t.min = r.rtt /\ t.max = r.rtt /\ \A k \in M : k = l
      BY <1>4, <2>1 DEF StatsOf
    <3>2. r.rtt <= r.rtt
      BY <1>1
    <3> HIDE DEF t
    <3>3. QED
      BY <3>1, <3>2 DEF ExtremesOf
  <2>2. CASE L # {}
    <3>1. s # NoStats /\ ExtremesOf(s, c, L)
      BY <2>2 DEF StatsOf, NoStats
    <3>2. /\ t.min = IF s.min <= r.rtt THEN s.min ELSE r.rtt
          /\ t.max = IF s.max >= r.rtt THEN s.max ELSE r.rtt
      <4>1. /\ Min({s.min, r.rtt}) = IF s.min <= r.rtt THEN s.min ELSE r.rtt
            /\ Max({s.max, r.rtt}) = IF s.max >= r.rtt THEN s.max ELSE r.rtt
        <5>1. PICK x \in Nat, y \in Nat, z \in Nat : x = s.min /\ y = s.max /\ z = r.rtt
          BY <1>1
        <5>2. /\ Min({x, z}) = IF x <= z THEN x ELSE z
              /\ Max({y, z}) = IF y >= z THEN y ELSE z
          BY Pairs
        <5>3. QED
          BY <5>1, <5>2
      <4>2. QED
        BY <1>4, <3>1, <4>1
    <3> HIDE DEF t
    <3>3. \A k \in L : rows[c][k].rtt \in Nat
      BY ReportAssumption DEF RowType
    <3>4. \A k \in L : t.min <= rows[c][k].rtt /\ rows[c][k].rtt <= t.max
      BY <1>1, <3>1, <3>2, <3>3 DEF ExtremesOf
    <3>5. t.min <= r.rtt /\ r.rtt <= t.max
      BY <1>1, <3>2
    <3>6. (\E k \in M : t.min = rows[c][k].rtt) /\ (\E k \in M : t.max = rows[c][k].rtt)
      BY <3>1, <3>2 DEF ExtremesOf
    <3>7. QED
      BY <3>4, <3>5, <3>6 DEF ExtremesOf
  <2>3. QED
    BY <2>1, <2>2
<1>8. QED
  BY <1>5, <1>6, <1>7 DEF StatsOf

LEMMA TakenLines ==
  ASSUME ReportInv, NEW c \in Client
  PROVE  /\ IsFiniteSet(taken[c])
         /\ \A l \in taken[c] : l \in 1..Len(rows[c]) /\ rows[c][l] \in RowType
<1>1. /\ taken[c] \subseteq 1..Len(rows[c]) /\ rows[c] \in Seq(RowType) /\ Len(rows[c]) \in Nat
  <2>1. taken[c] \subseteq 1..pos[c].line /\ taken[c] \subseteq 0..Len(rows[c])
    BY DEF ReportInv, ReadInv, InSight
  <2>2. rows[c] \in Seq(RowType) /\ Len(rows[c]) \in Nat /\ pos[c].line \in Nat
    BY DoneInSight
  <2>3. QED
    BY <2>1, <2>2
<1>2. IsFiniteSet(1..Len(rows[c]))
  <2>1. 1 \in Int /\ Len(rows[c]) \in Int
    BY <1>1
  <2>2. QED
    BY <2>1, FS_Interval
<1>3. QED
  BY <1>1, <1>2, FS_Subset, ElementOfSeq

(* Lines that are there do not change, so neither does what they add up to.    *)
LEMMA StatsKept ==
  ASSUME ReportInv, NEW c \in Client, NEW op \in Op, StatsOf(stats[c][op], c, Lines(c, op)),
         \A l \in taken[c] : rows'[c][l] = rows[c][l],
         stats'[c][op] = stats[c][op], Lines(c, op)' = Lines(c, op)
  PROVE  StatsOf(stats[c][op], c, Lines(c, op))'
<1>1. PICK L, s : L = Lines(c, op) /\ s = stats[c][op]
  OBVIOUS
<1>2. L = Lines(c, op)' /\ s = stats'[c][op]
  BY <1>1
<1>3. \A l \in L : rows'[c][l] = rows[c][l]
  BY <1>1 DEF Lines
<1>4. StatsOf(s, c, L)
  BY <1>1
<1>5. SumsOf(s, c, L)'
  <2>1. Counts(c, L)' = Counts(c, L)
    BY <1>3 DEF Counts
  <2>2. Times(c, L)' = Times(c, L)
    BY <1>3 DEF Times
  <2>3. Failed(c, L)' = Failed(c, L)
    BY <1>3 DEF Failed
  <2>4. SumsOf(s, c, L)
    BY <1>4 DEF StatsOf
  <2>5. QED
    BY <2>1, <2>2, <2>3, <2>4 DEF SumsOf
<1>6. ExtremesOf(s, c, L) => ExtremesOf(s, c, L)'
  BY <1>3 DEF ExtremesOf
<1>7. StatsOf(s, c, L)'
  BY <1>4, <1>5, <1>6 DEF StatsOf
<1>8. QED
  BY <1>2, <1>7

LEMMA StatsRead ==
  ASSUME ReportInv, StatsInv, ~wide, ReadRecord, NEW d \in Client, NEW op \in Op
  PROVE  StatsOf(stats[d][op], d, Lines(d, op))'
<1>1. PICK c \in Client : c = Current
  BY CurrentIn DEF ReadRecord, ReportInv, ToolType
<1> DEFINE l == pos[c].line
<1>2. PICK end \in RecordEnds(c) :
        IF Usable(c, Fields(pos[c], end))
          THEN /\ stats' = [stats EXCEPT ![c][rows[c][l].op] = Aggregated(@, Parsed(c, l))]
               /\ taken' = [taken EXCEPT ![c] = @ \cup {l}]
          ELSE UNCHANGED <<stats, taken>>
  BY <1>1 DEF ReadRecord
<1>3. rows' = rows /\ StatsOf(stats[d][op], d, Lines(d, op))
  BY DEF ReadRecord, cliVars, StatsInv
<1>4. stats \in [Client -> [Op -> StatsType]] /\ taken \in [Client -> SUBSET Nat]
  BY DEF ReportInv, ToolType
<1>5. ASSUME stats'[d][op] = stats[d][op], Lines(d, op)' = Lines(d, op)
      PROVE  StatsOf(stats[d][op], d, Lines(d, op))'
  BY <1>3, <1>5, StatsKept
<1>6. CASE ~Usable(c, Fields(pos[c], end)) \/ d # c
  <2>1. stats'[d] = stats[d] /\ taken'[d] = taken[d]
    BY <1>2, <1>4, <1>6
  <2>2. QED
    BY <1>3, <1>5, <2>1 DEF Lines
<1>7. CASE Usable(c, Fields(pos[c], end)) /\ d = c
  <2>1. l \notin taken[c] /\ rows[c][l] \in RowType
    BY <1>7, UsableRow
  <2> DEFINE r == rows[c][l]
  <2>2. r.op \in Op /\ Parsed(c, l) = r
    BY <2>1, ParsedType
  <2>3. /\ taken'[c] = taken[c] \cup {l}
        /\ stats'[c] = [stats[c] EXCEPT ![r.op] = Aggregated(stats[c][r.op], r)]
    <3>1. /\ stats' = [stats EXCEPT ![c] = [stats[c] EXCEPT ![r.op] = Aggregated(stats[c][r.op], Parsed(c, l))]]
          /\ taken' = [taken EXCEPT ![c] = taken[c] \cup {l}]
      BY <1>2, <1>7
    <3>2. QED
      BY <1>4, <2>2, <3>1
  <2>4. CASE op # r.op
    <3>1. stats'[c][op] = stats[c][op]
      BY <1>4, <2>3, <2>4
    <3>2. Lines(c, op)' = Lines(c, op)
      BY <1>3, <2>3, <2>4 DEF Lines
    <3>3. QED
      BY <1>5, <1>7, <3>1, <3>2
  <2>5. CASE op = r.op
    <3>1. PICK L, s, t, M : /\ L = Lines(c, op) /\ s = stats[c][op]
                            /\ t = Aggregated(s, r) /\ M = L \cup {l}
      OBVIOUS
    <3>2. IsFiniteSet(L) /\ l \notin L /\ \A k \in L \cup {l} : rows[c][k] \in RowType
      <4>1. L \subseteq taken[c]
        BY <3>1 DEF Lines
      <4>2. QED
        BY <2>1, <4>1, TakenLines, FS_Subset
    <3>3. s \in StatsType /\ StatsOf(s, c, L)
      BY <1>3, <1>4, <1>7, <3>1
    <3>4. StatsOf(t, c, M)
      BY <3>1, <3>2, <3>3, StatsGrow
    <3>5. stats'[c][op] = t /\ Lines(c, op)' = M
      <4>1. stats'[c][op] = t
        BY <1>4, <2>3, <2>5, <3>1
      <4>2. Lines(c, op)' = M
        BY <1>3, <2>3, <2>5, <3>1 DEF Lines
      <4>3. QED
        BY <4>1, <4>2
    <3>6. StatsOf(t, c, M)'
      BY <1>3, <3>4 DEF StatsOf, SumsOf, ExtremesOf, Counts, Times, Failed
    <3>7. QED
      BY <1>7, <3>5, <3>6
  <2>6. QED
    BY <2>4, <2>5
<1>8. QED
  BY <1>6, <1>7

LEMMA NextStats == ReportInv /\ StatsInv /\ [Next]_vars => StatsInv'
<1> SUFFICES ASSUME ReportInv, StatsInv, [Next]_vars, ~wide', NEW c \in Client, NEW op \in Op
             PROVE  StatsOf(stats[c][op], c, Lines(c, op))'
  BY DEF StatsInv
<1>1. wide' = wide
  <2>1. CASE ClientSide
    BY <2>1, ClientSteps DEF ReportInv
  <2>2. CASE StartTool \/ ToolStep \/ UNCHANGED vars
    BY <2>2 DEF StartTool, ToolStep, OpenFile, ReadRecord, EndOfFile, Render, vars, cliVars
  <2>3. QED
    BY <2>1, <2>2, NextSides
<1>2. ~wide /\ StatsOf(stats[c][op], c, Lines(c, op))
  BY <1>1 DEF StatsInv
<1>3. CASE ReadRecord
  BY <1>2, <1>3, StatsRead
<1>4. CASE UNCHANGED <<stats, taken>> /\ \A l \in taken[c] : rows'[c][l] = rows[c][l]
  <2>1. Lines(c, op)' = Lines(c, op)
    BY <1>4 DEF Lines
  <2>2. QED
    BY <1>2, <1>4, <2>1, StatsKept
<1>5. CASE ClientSide
  <2>1. UNCHANGED toolVars /\ Printed(c)
    BY <1>5, ClientSteps DEF ReportInv
  <2>2. \A l \in taken[c] : rows'[c][l] = rows[c][l]
    BY <2>1, TakenLines, LinesStay DEF ReportInv
  <2>3. QED
    BY <1>4, <2>1, <2>2 DEF toolVars
<1>6. StartTool \/ OpenFile \/ EndOfFile \/ Render \/ UNCHANGED vars => UNCHANGED <<rows, stats, taken>>
  BY DEF StartTool, OpenFile, EndOfFile, Render, vars, cliVars, toolVars
<1>7. QED
  BY <1>3, <1>4, <1>5, <1>6, NextSides DEF ToolStep

(* Statistics that agree with the lines are what OpStats should say of them.   *)
LEMMA StatsSummary ==
  ASSUME NEW c, NEW L, \A l \in L : rows[c][l] \in RowType, NEW s \in StatsType, StatsOf(s, c, L)
  PROVE  s = Summary(c, L)
<1>1. CASE L = {}
  BY <1>1 DEF StatsOf, Summary
<1>2. CASE L # {}
  <2> DEFINE times == {rows[c][l].rtt : l \in L}
  <2>1. /\ s.min \in times /\ \A x \in times : s.min <= x
        /\ s.max \in times /\ \A x \in times : s.max >= x
    <3>1. ExtremesOf(s, c, L)
      BY <1>2 DEF StatsOf
    <3>2. \A l \in L : rows[c][l].rtt \in Nat
      BY ReportAssumption DEF RowType
    <3>3. QED
      BY <3>1, <3>2 DEF ExtremesOf, StatsType
  <2>2. \A x \in times : x \in Nat
    <3>1. \A l \in L : rows[c][l].rtt \in Nat
      BY ReportAssumption DEF RowType
    <3>2. QED
      BY <3>1
  <2> HIDE DEF times
  <2>3. Min(times) = s.min
    <3>1. \A x \in times : (\A y \in times : x <= y) => x = s.min
      <4> SUFFICES ASSUME NEW x \in times, \A y \in times : x <= y PROVE x = s.min
        OBVIOUS
      <4>1. x \in Nat /\ s.min \in Nat /\ x <= s.min /\ s.min <= x
        BY <2>1, <2>2
      <4>2. QED
        BY <4>1
    <3>2. QED
      BY <2>1, <3>1 DEF Min
  <2>4. Max(times) = s.max
    <3>1. \A x \in times : (\A y \in times : x >= y) => x = s.max
      <4> SUFFICES ASSUME NEW x \in times, \A y \in times : x >= y PROVE x = s.max
        OBVIOUS
      <4>1. x \in Nat /\ s.max \in Nat /\ x >= s.max /\ s.max >= x
        BY <2>1, <2>2
      <4>2. QED
        BY <4>1
    <3>2. QED
      BY <2>1, <3>1 DEF Max
  <2>5. /\ s.count = SumFunctionOnSet([l \in L |-> rows[c][l].count], L)
        /\ s.sum = SumFunctionOnSet([l \in L |-> rows[c][l].rtt], L)
        /\ s.errors = SumFunctionOnSet([l \in L |-> IF rows[c][l].status = "ERROR" THEN rows[c][l].count ELSE 0], L)
    BY DEF StatsOf, SumsOf, Counts, Times, Failed
  <2>6. s = [count |-> s.count, min |-> s.min, max |-> s.max, sum |-> s.sum, errors |-> s.errors]
    BY DEF StatsType
  <2>7. Summary(c, L) = [count |-> s.count, sum |-> s.sum, min |-> Min(times), max |-> Max(times), errors |-> s.errors]
    BY <1>2, <2>5 DEF Summary, times
  <2>8. QED
    BY <2>3, <2>4, <2>6, <2>7
<1>3. QED
  BY <1>1, <1>2

(* Whatever the reader sees of lines that are still being written, the         *)
(* statistics are those of a set of whole lines, each counted once             *)
(* (StatsMatchRows).                                                           *)
THEOREM StatsAlwaysMatch == Spec => []StatsMatchRows
<1>1. Init => StatsInv
  <2> SUFFICES ASSUME Init, NEW c \in Client, NEW op \in Op
               PROVE  StatsOf(stats[c][op], c, Lines(c, op))
    BY DEF StatsInv
  <2>1. PICK L : L = Lines(c, op) /\ L = {}
    BY DEF Lines, Init
  <2>2. stats[c][op] = NoStats
    BY DEF Init
  <2>3. /\ Counts(c, L) \in [{} -> Nat] /\ Times(c, L) \in [{} -> Nat] /\ Failed(c, L) \in [{} -> Nat]
    BY <2>1 DEF Counts, Times, Failed
  <2>4. /\ SumFunctionOnSet(Counts(c, L), {}) = 0 /\ SumFunctionOnSet(Times(c, L), {}) = 0
        /\ SumFunctionOnSet(Failed(c, L), {}) = 0
    BY <2>3, SumOfNone
  <2>5. NoStats.count = 0 /\ NoStats.sum = 0 /\ NoStats.errors = 0
    BY DEF NoStats
  <2>6. StatsOf(stats[c][op], c, L)
    BY <2>1, <2>2, <2>4, <2>5 DEF StatsOf, SumsOf
  <2>7. QED
    BY <2>1, <2>6
<1>2. ReportInv /\ StatsInv => StatsMatchRows
  <2> SUFFICES ASSUME ReportInv, StatsInv, ~wide, NEW c \in Client, NEW op \in Op
               PROVE  stats[c][op] = Summary(c, Lines(c, op))
    BY DEF StatsMatchRows, Lines
  <2>1. stats[c][op] \in StatsType /\ StatsOf(stats[c][op], c, Lines(c, op))
    BY DEF StatsInv, ReportInv, ToolType
  <2>2. \A l \in Lines(c, op) : rows[c][l] \in RowType
    BY TakenLines DEF Lines
  <2>3. QED
    BY <2>1, <2>2, StatsSummary
<1>3. QED
  BY <1>1, <1>2, ReportAlways, NextStats, PTL DEF Spec
===============================================================================
