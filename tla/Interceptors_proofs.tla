--------------------------- MODULE Interceptors_proofs ---------------------------
(* What module Interceptors promises, for any number of requests and crashes.  *)
EXTENDS Interceptors, FiniteSetTheorems, TLAPS

(* The links, by their depth.                                                  *)
LEMMA Links ==
  /\ Len(Chain) = 4
  /\ \A d \in 1..4 : Chain[d] = "recovery" <=> d = 1
  /\ \A d \in 1..4 : Chain[d] = "requestid" <=> d = 2
  /\ \A d \in 1..4 : Chain[d] = "logging" <=> d = 3
  /\ \A d \in 1..4 : Chain[d] = "metrics" <=> d = 4
<1>1. Len(Chain) = 4 /\ Chain[1] = "recovery" /\ Chain[2] = "requestid"
  BY DEF Chain
<1>2. Chain[3] = "logging" /\ Chain[4] = "metrics"
  BY DEF Chain
<1>3. \A d \in 1..4 : d = 1 \/ d = 2 \/ d = 3 \/ d = 4
  OBVIOUS
<1> QED
  BY <1>1, <1>2, <1>3

-------------------------------------------------------------------------------
(* TypeOK holds initially.                                                     *)
LEMMA InitType == Init => TypeOK
BY InterceptorsAssumption DEF Init, TypeOK, NoCount, NoAnswer, Answers, Results

(* Every step keeps TypeOK.                                                    *)
LEMMA NextType == TypeOK /\ [Next]_vars => TypeOK'
<1> SUFFICES ASSUME TypeOK, [Next]_vars PROVE TypeOK'
  OBVIOUS
<1> USE Links DEF TypeOK
<1>0. Results \subseteq Answers /\ "internal" \in Answers /\ "none" \notin Answers
  BY DEF Answers, Results
<1>1. ASSUME NEW r \in Req, Arrive(r) PROVE TypeOK'
  BY <1>1 DEF Arrive
<1>2. ASSUME NEW r \in Req, Descend(r) PROVE TypeOK'
  <2>1. depth' \in [Req -> 0..(Len(Chain) + 1)]
    BY <1>2 DEF Descend
  <2>2. reqId' \in [Req -> Nat \cup {NoId}] /\ drawn' \in Nat
    BY <1>2 DEF Descend
  <2>3. log' \subseteq [kind : {"started", "finished", "failed", "panic"}, of : Req, id : Nat \cup {NoId}]
    BY <1>2 DEF Descend, Entry
  <2>4. \A s \in Req :
         /\ way'[s] \in {"idle", "done"} => depth'[s] = 0
         /\ way'[s] = "down" => depth'[s] > 0
         /\ way'[s] \in {"up", "panic"} => depth'[s] <= Len(Chain)
         /\ way'[s] = "up" => result'[s] # "none"
    BY <1>2 DEF Descend
  <2> QED
    BY <1>2, <2>1, <2>2, <2>3, <2>4 DEF Descend
<1>3. ASSUME NEW r \in Req, Handle(r) PROVE TypeOK'
  BY <1>0, <1>3 DEF Handle
<1>4. ASSUME NEW r \in Req, Ascend(r) PROVE TypeOK'
  <2>1. depth' \in [Req -> 0..(Len(Chain) + 1)]
    BY <1>4 DEF Ascend
  <2>2. total' \in [{"success", "error"} -> Nat]
    BY <1>4 DEF Ascend, Counted
  <2>3. log' \subseteq [kind : {"started", "finished", "failed", "panic"}, of : Req, id : Nat \cup {NoId}]
    BY <1>4 DEF Ascend, Entry
  <2>4. \A s \in Req :
         /\ way'[s] \in {"idle", "done"} => depth'[s] = 0
         /\ way'[s] = "down" => depth'[s] > 0
         /\ way'[s] \in {"up", "panic"} => depth'[s] <= Len(Chain)
         /\ way'[s] = "up" => result'[s] # "none"
    BY <1>4 DEF Ascend
  <2> QED
    BY <1>4, <2>1, <2>2, <2>3, <2>4 DEF Ascend
<1>5. ASSUME NEW r \in Req, Unwind(r) PROVE TypeOK'
  <2>1. depth' \in [Req -> 0..(Len(Chain) + 1)]
    BY <1>5 DEF Unwind
  <2>2. log' \subseteq [kind : {"started", "finished", "failed", "panic"}, of : Req, id : Nat \cup {NoId}]
    BY <1>5 DEF Unwind
  <2>3. \A s \in Req :
         /\ way'[s] \in {"idle", "done"} => depth'[s] = 0
         /\ way'[s] = "down" => depth'[s] > 0
         /\ way'[s] \in {"up", "panic"} => depth'[s] <= Len(Chain)
         /\ way'[s] = "up" => result'[s] # "none"
    BY <1>0, <1>5 DEF Unwind
  <2> QED
    BY <1>0, <1>5, <2>1, <2>2, <2>3 DEF Unwind
<1>6. ASSUME NEW r \in Req, Reply(r) PROVE TypeOK'
  <2>1. result[r] \in Answers /\ answer' \in [Req -> Answers \cup {"none", "deadline", "unavailable"}]
    BY <1>6 DEF Reply
  <2>2. answered' \in [Answers -> Nat]
    BY <1>6, <2>1 DEF Reply
  <2> QED
    BY <1>6, <2>1, <2>2 DEF Reply
<1>7. ASSUME NEW r \in Req, GiveUp(r) PROVE TypeOK'
  BY <1>7 DEF GiveUp
<1>8. CASE Crash
  <2>1. crashes' \in 0..MaxCrash
    BY <1>8, InterceptorsAssumption DEF Crash
  <2>2. total' \in [{"success", "error"} -> Nat] /\ answered' \in [Answers -> Nat]
    BY <1>8 DEF Crash, NoCount, NoAnswer
  <2>3. way' \in [Req -> {"idle", "down", "up", "panic", "done", "gone"}]
    BY <1>8 DEF Crash
  <2>4. \A s \in Req :
         /\ way'[s] \in {"idle", "done"} => depth'[s] = 0
         /\ way'[s] = "down" => depth'[s] > 0
         /\ way'[s] \in {"up", "panic"} => depth'[s] <= Len(Chain)
         /\ way'[s] = "up" => result'[s] # "none"
    BY <1>8 DEF Crash
  <2>5. answer' \in [Req -> Answers \cup {"none", "deadline", "unavailable"}]
    BY <1>8 DEF Crash
  <2> QED
    BY <1>8, <2>1, <2>2, <2>3, <2>4, <2>5 DEF Crash
<1>9. CASE Start
  BY <1>9 DEF Start
<1>10. CASE UNCHANGED vars
  BY <1>10 DEF vars
<1> QED
  BY <1>1, <1>2, <1>3, <1>4, <1>5, <1>6, <1>7, <1>8, <1>9, <1>10 DEF Next, Serve

(* Type correctness, for any number of requests and crashes.                   *)
THEOREM TypeCorrect == Spec => []TypeOK
BY InitType, NextType, PTL DEF Spec

-------------------------------------------------------------------------------
(* Where r has been closed already, and where not yet.                         *)
Closed(r) == way[r] = "done" \/ (way[r] = "up" /\ depth[r] <= 2)
Unclosed(r) == way[r] \in {"idle", "down", "panic"} \/ (way[r] = "up" /\ depth[r] >= 3)

ClosingInv ==
  \A r \in Req :
    /\ Closed(r) => \E e \in log : Closings(r) = {e}
    /\ Unclosed(r) => Closings(r) = {}
    /\ answer[r] \in Answers => way[r] = "done"

(* What an entry says.                                                         *)
LEMMA EntrySays ==
  \A kind : \A r \in Req :
    /\ Entry(kind, r).kind = kind
    /\ Entry(kind, r).of = r
    /\ Entry(kind, r).id = reqId[r]
BY DEF Entry

(* A step that adds no closing entry about s leaves its closings as they are.  *)
LEMMA OtherEntry ==
  \A s, x :
    (x.of # s \/ x.kind = "started") /\ log' \in {log, log \cup {x}}
      => Closings(s)' = Closings(s)
BY DEF Closings

(* A closing entry about s, when s has none.                                   *)
LEMMA FirstEntry ==
  \A s, x :
    /\ x.of = s /\ x.kind \in {"finished", "failed", "panic"}
    /\ log' = log \cup {x} /\ Closings(s) = {}
    => \E e \in log' : Closings(s)' = {e}
BY DEF Closings

(* What a step that is about r leaves alone of any other request.              *)
LEMMA Others ==
  ASSUME TypeOK, NEW r \in Req, NEW s \in Req, s # r,
         Arrive(r) \/ Serve(r) \/ GiveUp(r)
  PROVE  /\ way'[s] = way[s] /\ depth'[s] = depth[s] /\ reqId'[s] = reqId[s]
         /\ result'[s] = result[s] /\ answer'[s] = answer[s]
         /\ Closings(s)' = Closings(s)
<1>1. /\ way'[s] = way[s] /\ depth'[s] = depth[s] /\ reqId'[s] = reqId[s]
      /\ result'[s] = result[s] /\ answer'[s] = answer[s]
  BY DEF TypeOK, Arrive, Serve, Descend, Handle, Ascend, Unwind, Reply, GiveUp
<1>2. CASE Arrive(r) \/ Handle(r) \/ Reply(r) \/ GiveUp(r)
  <2>1. log' = log
    BY <1>2 DEF Arrive, Handle, Reply, GiveUp
  <2> QED
    BY <1>1, <2>1 DEF Closings
<1>3. CASE Descend(r)
  <2>1. log' \in {log, log \cup {Entry("started", r)}}
    BY <1>3 DEF Descend
  <2> QED
    BY <1>1, <2>1, OtherEntry, EntrySays
<1>4. CASE Ascend(r)
  <2>1. PICK kind : log' \in {log, log \cup {Entry(kind, r)}}
    BY <1>4 DEF Ascend
  <2> QED
    BY <1>1, <2>1, OtherEntry, EntrySays
<1>5. CASE Unwind(r)
  <2>1. log' \in {log, log \cup {[kind |-> "panic", of |-> r, id |-> NoId]}}
    BY <1>5 DEF Unwind
  <2> QED
    BY <1>1, <2>1, OtherEntry
<1> QED
  BY <1>2, <1>3, <1>4, <1>5 DEF Serve

(* ClosingInv for one request.                                                 *)
ClosedRight(r) ==
  /\ Closed(r) => \E e \in log : Closings(r) = {e}
  /\ Unclosed(r) => Closings(r) = {}
  /\ answer[r] \in Answers => way[r] = "done"

LEMMA StepCloses ==
  ASSUME TypeOK, NEW r \in Req, ClosedRight(r), Arrive(r) \/ Serve(r) \/ GiveUp(r)
  PROVE  ClosedRight(r)'
<1> USE Links DEF TypeOK, ClosedRight, Closed, Unclosed
<1>1. CASE Arrive(r)
  BY <1>1 DEF Arrive, Closings
<1>2. CASE Descend(r)
  <2>1. log' \in {log, log \cup {Entry("started", r)}}
    BY <1>2 DEF Descend
  <2>2. Closings(r)' = Closings(r)
    BY <2>1, OtherEntry, EntrySays
  <2> QED
    BY <1>2, <2>2 DEF Descend
<1>3. CASE Handle(r)
  <2>1. Closings(r)' = {}
    BY <1>3 DEF Handle, Closings
  <2>2. Unclosed(r)' /\ ~Closed(r)' /\ answer' = answer /\ way[r] # "done"
    BY <1>3 DEF Handle
  <2> QED
    BY <2>1, <2>2
<1>4. CASE Ascend(r)
  <2>1. CASE depth[r] = 3
    <3>1. PICK kind \in {"failed", "finished"} : log' = log \cup {Entry(kind, r)}
      BY <1>4, <2>1 DEF Ascend
    <3>2. Closings(r) = {}
      BY <1>4, <2>1 DEF Ascend
    <3>3. Entry(kind, r).of = r /\ Entry(kind, r).kind \in {"finished", "failed", "panic"}
      BY EntrySays
    <3>4. \E e \in log' : Closings(r)' = {e}
      BY <3>1, <3>2, <3>3, FirstEntry
    <3> QED
      BY <1>4, <2>1, <3>4 DEF Ascend
  <2>2. CASE depth[r] # 3
    <3>1. log' = log
      BY <1>4, <2>2 DEF Ascend
    <3>2. Closings(r)' = Closings(r)
      BY <3>1 DEF Closings
    <3> QED
      BY <1>4, <2>2, <3>1, <3>2 DEF Ascend
  <2> QED
    BY <2>1, <2>2
<1>5. CASE Unwind(r)
  <2>1. CASE depth[r] = 1
    <3>1. log' = log \cup {[kind |-> "panic", of |-> r, id |-> NoId]}
      BY <1>5, <2>1 DEF Unwind
    <3>2. Closings(r) = {}
      BY <1>5 DEF Unwind
    <3>3. \E e \in log' : Closings(r)' = {e}
      BY <3>1, <3>2, FirstEntry
    <3> QED
      BY <1>5, <2>1, <3>3 DEF Unwind
  <2>2. CASE depth[r] # 1
    <3>1. log' = log
      BY <1>5, <2>2 DEF Unwind
    <3>2. Closings(r)' = Closings(r)
      BY <3>1 DEF Closings
    <3> QED
      BY <1>5, <2>2, <3>2 DEF Unwind
  <2> QED
    BY <2>1, <2>2
<1>6. CASE Reply(r)
  BY <1>6 DEF Reply, Closings
<1>7. CASE GiveUp(r)
  BY <1>7 DEF GiveUp, Waiting, Closings, Answers, Results
<1> QED
  BY <1>1, <1>2, <1>3, <1>4, <1>5, <1>6, <1>7 DEF Serve

(* Every step keeps ClosingInv.                                                *)
LEMMA NextClosing == TypeOK /\ ClosingInv /\ [Next]_vars => ClosingInv'
<1> SUFFICES ASSUME TypeOK, ClosingInv, [Next]_vars, NEW s \in Req PROVE ClosedRight(s)'
  BY DEF ClosingInv, ClosedRight
<1>1. ClosedRight(s)
  BY DEF ClosingInv, ClosedRight
<1>2. ASSUME NEW r \in Req, Arrive(r) \/ Serve(r) \/ GiveUp(r) PROVE ClosedRight(s)'
  <2>1. CASE r = s
    BY <1>1, <1>2, <2>1, StepCloses
  <2>2. CASE r # s
    <3>1. way'[s] = way[s] /\ depth'[s] = depth[s] /\ answer'[s] = answer[s]
      BY <1>2, <2>2, Others
    <3>2. Closings(s)' = Closings(s) /\ log \subseteq log'
      BY <1>2, <2>2, Others DEF Arrive, Serve, Descend, Handle, Ascend, Unwind, Reply, GiveUp
    <3> QED
      BY <1>1, <3>1, <3>2 DEF ClosedRight, Closed, Unclosed
  <2> QED
    BY <2>1, <2>2
<1>3. CASE Crash
  <2>1. Closings(s)' = Closings(s) /\ log' = log /\ depth' = depth
    BY <1>3 DEF Crash, Closings
  <2>2. (way'[s] = way[s] /\ answer'[s] = answer[s]) \/ way'[s] = "gone"
    BY <1>3 DEF Crash, Waiting, TypeOK
  <2>3. answer'[s] = answer[s] \/ answer'[s] = "unavailable"
    BY <1>3 DEF Crash, TypeOK
  <2>4. way[s] = "done" => way'[s] = "done"
    BY <1>3 DEF Crash, TypeOK
  <2> QED
    BY <1>1, <2>1, <2>2, <2>3, <2>4 DEF ClosedRight, Closed, Unclosed, Answers, Results
<1>4. CASE Start \/ UNCHANGED vars
  BY <1>1, <1>4 DEF Start, vars, ClosedRight, Closed, Unclosed, Closings
<1> QED
  BY <1>2, <1>3, <1>4 DEF Next

(* A handler's answer leaves exactly one closing entry (interceptors run).     *)
THEOREM ClosedOnce == Spec => []OneClosingEntry
<1>1. Init => ClosingInv
  BY DEF Init, ClosingInv, Closed, Unclosed, Closings, Answers, Results
<1>2. TypeOK /\ ClosingInv => OneClosingEntry
  BY FS_Singleton DEF ClosingInv, OneClosingEntry, Closed
<1> QED
  BY <1>1, <1>2, NextClosing, TypeCorrect, PTL DEF Spec

-------------------------------------------------------------------------------
(* An ID is drawn once, kept, and there before the logger needs it.            *)
Below(r) == way[r] \in {"down", "up"} /\ depth[r] >= 3
Above(r) == way[r] = "idle" \/ (way[r] = "down" /\ depth[r] <= 2)

DrawnOnce ==
  /\ \A r \in Req : reqId[r] \in Nat => reqId[r] < drawn
  /\ \A r, s \in Req : reqId[r] \in Nat /\ reqId[r] = reqId[s] => r = s
DrawnInTime ==
  \A r \in Req :
    /\ Above(r) => reqId[r] = NoId
    /\ Below(r) => reqId[r] \in Nat
EntriesCarryId == \A e \in log : e.kind # "panic" => e.id \in Nat /\ e.id = reqId[e.of]
IdInv == DrawnOnce /\ DrawnInTime /\ EntriesCarryId

(* Only the link "requestid" draws, and it finds no ID.                        *)
LEMMA NextDraw ==
  TypeOK /\ IdInv /\ [Next]_vars
    => \/ reqId' = reqId /\ drawn' = drawn
       \/ \E r \in Req : /\ reqId[r] = NoId
                         /\ reqId' = [reqId EXCEPT ![r] = drawn]
                         /\ drawn' = drawn + 1
<1> SUFFICES ASSUME TypeOK, IdInv, [Next]_vars, ~(reqId' = reqId /\ drawn' = drawn)
             PROVE  \E r \in Req : /\ reqId[r] = NoId
                                   /\ reqId' = [reqId EXCEPT ![r] = drawn]
                                   /\ drawn' = drawn + 1
  OBVIOUS
<1>1. PICK r \in Req : Descend(r)
  BY DEF Next, Serve, Arrive, Handle, Ascend, Unwind, Reply, GiveUp, Crash, Start, vars
<1>2. /\ Chain[depth[r]] = "requestid"
      /\ reqId' = [reqId EXCEPT ![r] = drawn] /\ drawn' = drawn + 1
  BY <1>1 DEF Descend
<1>3. way[r] = "down" /\ depth[r] \in 1..4
  BY <1>1, Links DEF Descend, TypeOK
<1>4. reqId[r] = NoId
  BY <1>2, <1>3, Links DEF IdInv, DrawnInTime, Above
<1> QED
  BY <1>2, <1>4

(* What a step adds to the log is about a request that has an ID.              *)
LEMMA NextEntry ==
  TypeOK /\ IdInv /\ [Next]_vars
    => \A e \in log' \ log : e.kind # "panic" => e.id \in Nat /\ e.id = reqId'[e.of]
<1> SUFFICES ASSUME TypeOK, IdInv, [Next]_vars, NEW e \in log' \ log, e.kind # "panic"
             PROVE  e.id \in Nat /\ e.id = reqId'[e.of]
  OBVIOUS
<1> USE Links, EntrySays DEF TypeOK, IdInv, DrawnInTime, Below
<1>1. ASSUME NEW r \in Req, Descend(r) PROVE e.id \in Nat /\ e.id = reqId'[e.of]
  <2>1. e = Entry("started", r) /\ depth[r] = 3 /\ way[r] = "down" /\ reqId' = reqId
    BY <1>1 DEF Descend
  <2> QED
    BY <2>1
<1>2. ASSUME NEW r \in Req, Ascend(r) PROVE e.id \in Nat /\ e.id = reqId'[e.of]
  <2>1. PICK kind : e = Entry(kind, r) /\ depth[r] = 3 /\ way[r] = "up" /\ reqId' = reqId
    BY <1>2 DEF Ascend
  <2> QED
    BY <2>1
<1>3. ASSUME NEW r \in Req, Unwind(r) PROVE FALSE
  BY <1>3 DEF Unwind
<1>4. (\E r \in Req : Arrive(r) \/ Handle(r) \/ Reply(r) \/ GiveUp(r)) \/ Crash \/ Start \/ UNCHANGED vars
        => log' = log
  BY DEF Arrive, Handle, Reply, GiveUp, Crash, Start, vars
<1> QED
  BY <1>1, <1>2, <1>3, <1>4 DEF Next, Serve

LEMMA NextId == TypeOK /\ IdInv /\ [Next]_vars => IdInv'
<1> SUFFICES ASSUME TypeOK, IdInv, [Next]_vars PROVE IdInv'
  OBVIOUS
<1>1. DrawnOnce'
  <2>1. CASE reqId' = reqId /\ drawn' = drawn
    BY <2>1 DEF IdInv, DrawnOnce
  <2>2. ASSUME NEW r \in Req, reqId' = [reqId EXCEPT ![r] = drawn], drawn' = drawn + 1
        PROVE  DrawnOnce'
    <3>1. \A s \in Req : reqId'[s] = IF s = r THEN drawn ELSE reqId[s]
      BY <2>2 DEF TypeOK
    <3>2. drawn \in Nat /\ \A s \in Req : reqId[s] \in Nat => reqId[s] < drawn
      BY DEF TypeOK, IdInv, DrawnOnce
    <3>3. \A s \in Req : reqId'[s] \in Nat => reqId'[s] < drawn'
      BY <2>2, <3>1, <3>2
    <3>4. ASSUME NEW s \in Req, NEW t \in Req, reqId'[s] \in Nat, reqId'[s] = reqId'[t]
          PROVE  s = t
      BY <3>1, <3>2, <3>4 DEF IdInv, DrawnOnce
    <3> QED
      BY <3>3, <3>4 DEF DrawnOnce
  <2> QED
    BY <2>1, <2>2, NextDraw
<1>2. EntriesCarryId'
  <2> SUFFICES ASSUME NEW e \in log', e.kind # "panic" PROVE e.id \in Nat /\ e.id = reqId'[e.of]
    BY DEF EntriesCarryId
  <2>1. CASE e \in log
    <3>1. e.id \in Nat /\ e.id = reqId[e.of] /\ e.of \in Req
      BY <2>1 DEF IdInv, EntriesCarryId, TypeOK
    <3>2. reqId'[e.of] = reqId[e.of]
      BY <3>1, NextDraw, InterceptorsAssumption DEF TypeOK
    <3> QED
      BY <3>1, <3>2
  <2>2. CASE e \notin log
    BY <2>2, NextEntry
  <2> QED
    BY <2>1, <2>2
<1>3. DrawnInTime'
  <2> SUFFICES ASSUME NEW s \in Req
               PROVE  (Above(s) => reqId[s] = NoId)' /\ (Below(s) => reqId[s] \in Nat)'
    BY DEF DrawnInTime
  <2> USE DEF IdInv, DrawnInTime, Above, Below, TypeOK
  <2>1. ASSUME NEW r \in Req, Arrive(r) \/ Serve(r) \/ GiveUp(r), r # s
        PROVE  (Above(s) => reqId[s] = NoId)' /\ (Below(s) => reqId[s] \in Nat)'
    <3>1. way'[s] = way[s] /\ depth'[s] = depth[s] /\ reqId'[s] = reqId[s]
      BY <2>1, Others
    <3> QED
      BY <3>1
  <2>2. CASE Descend(s)
    BY <2>2, Links DEF Descend
  <2>3. CASE Arrive(s) \/ Ascend(s) \/ Unwind(s) \/ Reply(s) \/ GiveUp(s)
    BY <2>3, Links DEF Arrive, Ascend, Unwind, Reply, GiveUp
  <2>4. CASE Handle(s)
    BY <2>4, Links DEF Handle
  <2>5. CASE Crash \/ Start \/ UNCHANGED vars
    BY <2>5 DEF Crash, Start, vars
  <2> QED
    BY <2>1, <2>2, <2>3, <2>4, <2>5 DEF Next, Serve
<1> QED
  BY <1>1, <1>2, <1>3 DEF IdInv

(* The ID of an entry tells its request (interceptors run).                    *)
THEOREM IdsTellRequests == Spec => []IdTellsRequest
<1>1. Init => IdInv
  BY InterceptorsAssumption
     DEF Init, IdInv, DrawnOnce, DrawnInTime, EntriesCarryId, Above, Below
<1>2. TypeOK /\ IdInv => IdTellsRequest
  <2> SUFFICES ASSUME TypeOK, IdInv,
                      NEW e \in log, NEW f \in log, e.kind # "panic", f.kind # "panic"
               PROVE  e.id # NoId /\ (e.id = f.id <=> e.of = f.of)
    BY DEF IdTellsRequest
  <2>1. e.id \in Nat /\ e.id = reqId[e.of] /\ f.id = reqId[f.of] /\ e.of \in Req /\ f.of \in Req
    BY DEF IdInv, EntriesCarryId, TypeOK
  <2> QED
    BY <2>1, InterceptorsAssumption DEF IdInv, DrawnOnce
<1> QED
  BY <1>1, <1>2, NextId, TypeCorrect, PTL DEF Spec

-------------------------------------------------------------------------------
(* Results that are counted and on their way to a caller who still waits.      *)
Due(results) ==
  {r \in Req : way[r] = "up" /\ depth[r] < 4 /\ result[r] \in results /\ answer[r] = "none"}

DueReplies == Due({"ok", "notok"})
DueErrors == Due({"error"})

CountInv ==
  /\ total["success"] >= answered["ok"] + answered["notok"] + Cardinality(DueReplies)
  /\ total["error"] >= answered["error"] + Cardinality(DueErrors)

(* How many are due, when it changes by r.                                     *)
LEMMA DueCounts ==
  \A S \in SUBSET Req : \A T, r :
    /\ Cardinality(S) \in Nat
    /\ T \subseteq S => Cardinality(T) <= Cardinality(S)
    /\ T \subseteq S \cup {r} => Cardinality(T) <= Cardinality(S) + 1
    /\ r \in S /\ T \subseteq S \ {r} => Cardinality(T) + 1 <= Cardinality(S)
<1> SUFFICES ASSUME NEW S \in SUBSET Req, NEW T, NEW r
             PROVE  /\ Cardinality(S) \in Nat
                    /\ T \subseteq S => Cardinality(T) <= Cardinality(S)
                    /\ T \subseteq S \cup {r} => Cardinality(T) <= Cardinality(S) + 1
                    /\ r \in S /\ T \subseteq S \ {r} => Cardinality(T) + 1 <= Cardinality(S)
  OBVIOUS
<1>1. IsFiniteSet(S)
  BY InterceptorsAssumption, FS_Subset
<1>2. \A U : IsFiniteSet(U) => Cardinality(U) \in Nat
  BY FS_CardinalityType
<1>3. \A U, V : IsFiniteSet(U) /\ V \subseteq U => IsFiniteSet(V) /\ Cardinality(V) <= Cardinality(U)
  BY FS_Subset
<1>4. IsFiniteSet(S \cup {r}) /\ Cardinality(S \cup {r}) <= Cardinality(S) + 1
  BY <1>1, <1>2, FS_AddElement
<1>5. r \in S => IsFiniteSet(S \ {r}) /\ Cardinality(S \ {r}) = Cardinality(S) - 1
  BY <1>1, FS_RemoveElement
<1>6. T \subseteq S \cup {r} => Cardinality(T) <= Cardinality(S) + 1
  BY <1>1, <1>2, <1>3, <1>4
<1>7. r \in S /\ T \subseteq S \ {r} => Cardinality(T) + 1 <= Cardinality(S)
  BY <1>1, <1>2, <1>3, <1>5
<1>8. T \subseteq S => Cardinality(T) <= Cardinality(S)
  BY <1>1, <1>3
<1> QED
  BY <1>1, <1>2, <1>6, <1>7, <1>8

(* The sets and numbers that CountInv is about.                                *)
DueTypes ==
  /\ DueReplies \in SUBSET Req /\ DueErrors \in SUBSET Req
  /\ Cardinality(DueReplies) \in Nat /\ Cardinality(DueErrors) \in Nat
  /\ total["success"] \in Nat /\ total["error"] \in Nat
  /\ answered["ok"] \in Nat /\ answered["notok"] \in Nat /\ answered["error"] \in Nat

LEMMA DueTyped == TypeOK => DueTypes
<1>1. DueReplies \in SUBSET Req /\ DueErrors \in SUBSET Req
  BY DEF DueReplies, DueErrors, Due
<1> QED
  BY <1>1, DueCounts DEF TypeOK, Answers, Results, DueTypes

LEMMA DueTypedNext == TypeOK' => DueTypes'
BY DueTyped, PTL

(* How a step may change how many are due.                                     *)
LEMMA DueChange ==
  TypeOK => \A r :
    /\ DueReplies' \subseteq DueReplies => Cardinality(DueReplies') <= Cardinality(DueReplies)
    /\ DueErrors' \subseteq DueErrors => Cardinality(DueErrors') <= Cardinality(DueErrors)
    /\ DueReplies' \subseteq DueReplies \cup {r} => Cardinality(DueReplies') <= Cardinality(DueReplies) + 1
    /\ DueErrors' \subseteq DueErrors \cup {r} => Cardinality(DueErrors') <= Cardinality(DueErrors) + 1
    /\ r \in DueReplies /\ DueReplies' \subseteq DueReplies \ {r}
         => Cardinality(DueReplies') + 1 <= Cardinality(DueReplies)
    /\ r \in DueErrors /\ DueErrors' \subseteq DueErrors \ {r}
         => Cardinality(DueErrors') + 1 <= Cardinality(DueErrors)
BY DueTyped, DueCounts DEF DueTypes

(* A step that counts nothing and answers nobody makes nothing due.            *)
LEMMA QuietStep ==
  TypeOK /\ TypeOK' /\ CountInv /\ UNCHANGED <<total, answered>>
    /\ DueReplies' \subseteq DueReplies /\ DueErrors' \subseteq DueErrors
    => CountInv'
<1> SUFFICES ASSUME TypeOK, TypeOK', CountInv, UNCHANGED <<total, answered>>,
                    DueReplies' \subseteq DueReplies, DueErrors' \subseteq DueErrors
             PROVE  CountInv'
  OBVIOUS
<1>1. DueTypes /\ DueTypes'
  BY DueTyped, DueTypedNext
<1>2. /\ Cardinality(DueReplies') <= Cardinality(DueReplies)
      /\ Cardinality(DueErrors') <= Cardinality(DueErrors)
  BY DueChange
<1> QED
  BY <1>1, <1>2 DEF CountInv, DueTypes

(* Every step keeps CountInv: what Ascend makes due, it counts.                *)
LEMMA NextCount == TypeOK /\ TypeOK' /\ CountInv /\ [Next]_vars => CountInv'
<1> SUFFICES ASSUME TypeOK, TypeOK', CountInv, [Next]_vars PROVE CountInv'
  OBVIOUS
<1> DEFINE Fewer == DueReplies' \subseteq DueReplies /\ DueErrors' \subseteq DueErrors
<1>a. /\ Cardinality(DueReplies) \in Nat /\ Cardinality(DueReplies') \in Nat
      /\ Cardinality(DueErrors) \in Nat /\ Cardinality(DueErrors') \in Nat
  BY DueTyped, DueTypedNext DEF DueTypes
<1>b. /\ total["success"] \in Nat /\ total["error"] \in Nat
      /\ answered["ok"] \in Nat /\ answered["notok"] \in Nat /\ answered["error"] \in Nat
      /\ answered'["ok"] \in Nat /\ answered'["notok"] \in Nat
  BY DueTyped, DueTypedNext DEF DueTypes
<1>1. ASSUME NEW r \in Req, Arrive(r) \/ Descend(r) \/ Handle(r) \/ Unwind(r) \/ GiveUp(r)
      PROVE  CountInv'
  <2>1. UNCHANGED <<total, answered>>
    BY <1>1 DEF Arrive, Descend, Handle, Unwind, GiveUp
  <2>2. Fewer
    BY <1>1, Links DEF TypeOK, Arrive, Descend, Handle, Unwind, GiveUp, DueReplies, DueErrors, Due
  <2> QED
    BY <2>1, <2>2, QuietStep
<1>2. ASSUME NEW r \in Req, Ascend(r) PROVE CountInv'
  <2> USE Links DEF TypeOK
  <2>1. CASE depth[r] # 4
    <3>1. UNCHANGED <<total, answered>>
      BY <1>2, <2>1 DEF Ascend
    <3>2. Fewer
      BY <1>2, <2>1 DEF Ascend, DueReplies, DueErrors, Due
    <3> QED
      BY <3>1, <3>2, QuietStep
  <2>2. CASE depth[r] = 4
    <3>1. total' = Counted(r) /\ answered' = answered
      BY <1>2, <2>2 DEF Ascend
    <3>2. DueReplies' \subseteq DueReplies \cup {r} /\ DueErrors' \subseteq DueErrors \cup {r}
      BY <1>2 DEF Ascend, DueReplies, DueErrors, Due
    <3>3. CASE IsError(r)
      <4>1. total'["error"] = total["error"] + 1 /\ total'["success"] = total["success"]
        BY <3>1, <3>3 DEF Counted
      <4>2. DueReplies' \subseteq DueReplies
        BY <1>2, <3>3 DEF IsError, Ascend, DueReplies, Due
      <4>3. /\ Cardinality(DueReplies') <= Cardinality(DueReplies)
            /\ Cardinality(DueErrors') <= Cardinality(DueErrors) + 1
        BY <4>2, <3>2, DueChange
      <4> QED
        BY <1>a, <1>b, <3>1, <4>1, <4>3 DEF CountInv
    <3>4. CASE ~IsError(r)
      <4>1. total'["success"] = total["success"] + 1 /\ total'["error"] = total["error"]
        BY <3>1, <3>4 DEF Counted
      <4>2. DueErrors' \subseteq DueErrors
        BY <1>2, <3>4 DEF IsError, Ascend, DueErrors, Due
      <4>3. /\ Cardinality(DueReplies') <= Cardinality(DueReplies) + 1
            /\ Cardinality(DueErrors') <= Cardinality(DueErrors)
        BY <4>2, <3>2, DueChange
      <4> QED
        BY <1>a, <1>b, <3>1, <4>1, <4>3 DEF CountInv
    <3> QED
      BY <3>3, <3>4
  <2> QED
    BY <2>1, <2>2
<1>3. ASSUME NEW r \in Req, Reply(r) PROVE CountInv'
  <2>1. /\ DueReplies' \subseteq DueReplies \ {r}
        /\ DueErrors' \subseteq DueErrors \ {r}
    BY <1>3 DEF TypeOK, Reply, DueReplies, DueErrors, Due
  <2>2. total' = total
    BY <1>3 DEF Reply
  <2>3. CASE answered' = answered
    BY <2>1, <2>2, <2>3, QuietStep
  <2>4. CASE answered' # answered
    <3>1. /\ way[r] = "up" /\ depth[r] = 0 /\ answer[r] = "none" /\ result[r] # "none"
          /\ answered' = [answered EXCEPT ![result[r]] = @ + 1]
      BY <1>3, <2>4 DEF TypeOK, Reply
    <3>2. CASE result[r] = "error"
      <4>1. /\ answered'["error"] = answered["error"] + 1
            /\ answered'["ok"] = answered["ok"] /\ answered'["notok"] = answered["notok"]
        BY <3>1, <3>2 DEF Answers, Results, TypeOK
      <4>2. r \in DueErrors
        BY <3>1, <3>2 DEF DueErrors, Due
      <4>3. /\ Cardinality(DueReplies') <= Cardinality(DueReplies)
            /\ Cardinality(DueErrors') + 1 <= Cardinality(DueErrors)
        BY <4>2, <2>1, DueChange
      <4> QED
        BY <1>a, <1>b, <2>2, <4>1, <4>3 DEF CountInv
    <3>3. CASE result[r] \in {"ok", "notok"}
      <4>1. /\ answered'["error"] = answered["error"]
            /\ answered'["ok"] + answered'["notok"] = answered["ok"] + answered["notok"] + 1
        <5>1. answered \in [{"ok", "notok", "error", "internal"} -> Nat]
          BY DEF TypeOK, Answers, Results
        <5>2. CASE result[r] = "ok"
          BY <1>b, <3>1, <5>1, <5>2
        <5>3. CASE result[r] = "notok"
          BY <1>b, <3>1, <5>1, <5>3
        <5> QED
          BY <3>3, <5>2, <5>3
      <4>2. r \in DueReplies
        BY <3>1, <3>3 DEF DueReplies, Due
      <4>3. /\ Cardinality(DueReplies') + 1 <= Cardinality(DueReplies)
            /\ Cardinality(DueErrors') <= Cardinality(DueErrors)
        BY <4>2, <2>1, DueChange
      <4> QED
        BY <1>a, <1>b, <2>2, <4>1, <4>3 DEF CountInv
    <3>4. CASE result[r] = "internal"
      <4>1. /\ answered'["error"] = answered["error"]
            /\ answered'["ok"] = answered["ok"] /\ answered'["notok"] = answered["notok"]
        BY <3>1, <3>4 DEF Answers, Results, TypeOK
      <4>2. /\ Cardinality(DueReplies') <= Cardinality(DueReplies)
            /\ Cardinality(DueErrors') <= Cardinality(DueErrors)
        BY <2>1, DueChange
      <4> QED
        BY <1>a, <1>b, <2>2, <4>1, <4>2 DEF CountInv
    <3> QED
      BY <3>1, <3>2, <3>3, <3>4 DEF TypeOK, Answers, Results
  <2> QED
    BY <2>3, <2>4
<1>4. CASE Crash
  <2>1. DueReplies' = {} /\ DueErrors' = {}
    BY <1>4 DEF TypeOK, Crash, DueReplies, DueErrors, Due
  <2>2. Cardinality(DueReplies') = 0 /\ Cardinality(DueErrors') = 0
    BY <2>1, FS_EmptySet
  <2>3. /\ total'["success"] = 0 /\ total'["error"] = 0
        /\ answered'["ok"] = 0 /\ answered'["notok"] = 0 /\ answered'["error"] = 0
    BY <1>4 DEF Crash, NoCount, NoAnswer, Answers, Results
  <2> QED
    BY <2>2, <2>3 DEF CountInv
<1>5. CASE Start \/ UNCHANGED vars
  <2>1. Fewer /\ UNCHANGED <<total, answered>>
    BY <1>5 DEF Start, vars, DueReplies, DueErrors, Due
  <2> QED
    BY <2>1, QuietStep
<1> QED
  BY <1>1, <1>2, <1>3, <1>4, <1>5 DEF Next, Serve

(* Requests that are counted already, or will not be any more.                 *)
Spent ==
  {r \in Req : way[r] \in {"done", "gone"} \/
                 (way[r] = "up" /\ depth[r] < 4 /\ result[r] # "internal")}

(* A request uses up at most one count, and the counter or the Internal error  *)
(* is what it uses it for: the error comes from the outermost link.            *)
SpentInv ==
  /\ total["success"] + total["error"] + answered["internal"] <= Cardinality(Spent)
  /\ \A r \in Req : way[r] = "up" /\ result[r] = "internal" => depth[r] = 0

(* The set and the numbers that SpentInv is about.                             *)
SpentTypes ==
  /\ Spent \in SUBSET Req /\ Cardinality(Spent) \in Nat
  /\ total["success"] \in Nat /\ total["error"] \in Nat /\ answered["internal"] \in Nat

LEMMA SpentTyped == TypeOK => SpentTypes
<1>1. Spent \in SUBSET Req
  BY DEF Spent
<1>2. Cardinality(Spent) \in Nat
  BY <1>1, DueCounts
<1> QED
  BY <1>1, <1>2 DEF TypeOK, Answers, SpentTypes

LEMMA SpentTypedNext == TypeOK' => SpentTypes'
BY SpentTyped, PTL

(* What more spent requests make of the bound.                                 *)
LEMMA SpentGrows ==
  TypeOK /\ TypeOK' =>
    /\ Spent \subseteq Spent' => Cardinality(Spent) <= Cardinality(Spent')
    /\ \A r : r \in Spent' \ Spent /\ Spent \subseteq Spent'
                => Cardinality(Spent) + 1 <= Cardinality(Spent')
<1> SUFFICES ASSUME TypeOK, TypeOK'
             PROVE  /\ Spent \subseteq Spent' => Cardinality(Spent) <= Cardinality(Spent')
                    /\ \A r : r \in Spent' \ Spent /\ Spent \subseteq Spent'
                                => Cardinality(Spent) + 1 <= Cardinality(Spent')
  OBVIOUS
<1>1. Spent' \in SUBSET Req
  BY SpentTypedNext DEF SpentTypes
<1> QED
  BY <1>1, DueCounts

LEMMA NextSpent == TypeOK /\ TypeOK' /\ SpentInv /\ [Next]_vars => SpentInv'
<1> SUFFICES ASSUME TypeOK, TypeOK', SpentInv, [Next]_vars PROVE SpentInv'
  OBVIOUS
<1> USE Links
<1>a. /\ Cardinality(Spent) \in Nat /\ Cardinality(Spent') \in Nat
      /\ total["success"] \in Nat /\ total["error"] \in Nat /\ answered["internal"] \in Nat
      /\ total'["success"] \in Nat /\ total'["error"] \in Nat /\ answered'["internal"] \in Nat
  BY SpentTyped, SpentTypedNext DEF SpentTypes
<1>b. ASSUME UNCHANGED <<total, answered>>, Spent \subseteq Spent'
      PROVE  total'["success"] + total'["error"] + answered'["internal"] <= Cardinality(Spent')
  BY <1>a, <1>b, SpentGrows DEF SpentInv
<1>1. \A r \in Req : way'[r] = "up" /\ result'[r] = "internal" => depth'[r] = 0
  <2>1. ASSUME NEW r \in Req, Arrive(r) \/ Descend(r) \/ Handle(r) \/ GiveUp(r)
        PROVE  \A s \in Req : way'[s] = "up" /\ result'[s] = "internal" => depth'[s] = 0
    BY <2>1 DEF TypeOK, SpentInv, Results, Arrive, Descend, Handle, GiveUp
  <2>2. ASSUME NEW r \in Req, Ascend(r) \/ Unwind(r) \/ Reply(r)
        PROVE  \A s \in Req : way'[s] = "up" /\ result'[s] = "internal" => depth'[s] = 0
    BY <2>2 DEF TypeOK, SpentInv, Ascend, Unwind, Reply
  <2>3. CASE Crash \/ Start \/ UNCHANGED vars
    BY <2>3 DEF TypeOK, SpentInv, Crash, Start, vars
  <2> QED
    BY <2>1, <2>2, <2>3 DEF Next, Serve
<1>2. ASSUME NEW r \in Req, Arrive(r) \/ Descend(r) \/ Handle(r) \/ Unwind(r) \/ GiveUp(r)
      PROVE  SpentInv'
  <2>1. UNCHANGED <<total, answered>>
    BY <1>2 DEF Arrive, Descend, Handle, Unwind, GiveUp
  <2>2. Spent \subseteq Spent'
    BY <1>2 DEF TypeOK, Spent, Arrive, Descend, Handle, Unwind, GiveUp
  <2> QED
    BY <2>1, <2>2, <1>1, <1>b DEF SpentInv
<1>3. ASSUME NEW r \in Req, Ascend(r) PROVE SpentInv'
  <2>1. Spent \subseteq Spent'
    BY <1>3 DEF TypeOK, Spent, Ascend
  <2>2. CASE depth[r] # 4
    <3>1. UNCHANGED <<total, answered>>
      BY <1>3, <2>2 DEF TypeOK, Ascend
    <3> QED
      BY <2>1, <3>1, <1>1, <1>b DEF SpentInv
  <2>3. CASE depth[r] = 4
    <3>1. total' = Counted(r) /\ answered' = answered
      BY <1>3, <2>3 DEF Ascend
    <3>2. total'["success"] + total'["error"] = total["success"] + total["error"] + 1
      BY <1>a, <3>1 DEF Counted, TypeOK
    <3>3. r \in Spent' \ Spent
      BY <1>3, <2>3 DEF TypeOK, SpentInv, Spent, Ascend
    <3>4. Cardinality(Spent) + 1 <= Cardinality(Spent')
      BY <2>1, <3>3, SpentGrows
    <3> QED
      BY <1>a, <1>1, <3>1, <3>2, <3>4 DEF SpentInv
  <2> QED
    BY <2>2, <2>3
<1>4. ASSUME NEW r \in Req, Reply(r) PROVE SpentInv'
  <2>1. Spent \subseteq Spent' /\ total' = total
    BY <1>4 DEF TypeOK, Spent, Reply
  <2>2. CASE answered'["internal"] = answered["internal"]
    <3>1. Cardinality(Spent) <= Cardinality(Spent')
      BY <2>1, SpentGrows
    <3> QED
      BY <1>a, <1>1, <2>1, <2>2, <3>1 DEF SpentInv
  <2>3. CASE answered'["internal"] # answered["internal"]
    <3>1. result[r] = "internal" /\ answered'["internal"] = answered["internal"] + 1
      BY <1>4, <2>3 DEF TypeOK, Reply, Answers
    <3>2. r \in Spent' \ Spent
      BY <1>4, <3>1 DEF TypeOK, Spent, Reply
    <3>3. Cardinality(Spent) + 1 <= Cardinality(Spent')
      BY <2>1, <3>2, SpentGrows
    <3> QED
      BY <1>a, <1>1, <2>1, <3>1, <3>3 DEF SpentInv
  <2> QED
    BY <2>2, <2>3
<1>5. CASE Crash
  <2>1. total'["success"] = 0 /\ total'["error"] = 0 /\ answered'["internal"] = 0
    BY <1>5 DEF Crash, NoCount, NoAnswer, Answers
  <2> QED
    BY <1>a, <1>1, <2>1 DEF SpentInv
<1>6. CASE Start \/ UNCHANGED vars
  <2>1. UNCHANGED <<total, answered>> /\ Spent' = Spent
    BY <1>6 DEF Start, vars, Spent
  <2> QED
    BY <2>1, <1>1, <1>b DEF SpentInv
<1> QED
  BY <1>2, <1>3, <1>4, <1>5, <1>6 DEF Next, Serve

(* The collectors are never behind the callers of handlers, and count each     *)
(* request at most once, one that panicked not at all (interceptors run).      *)
THEOREM AlwaysCounted == Spec => []CountedBeforeAnswer
<1>1. Init => CountInv
  <2> SUFFICES ASSUME Init PROVE CountInv
    OBVIOUS
  <2>1. DueReplies = {} /\ DueErrors = {}
    BY DEF Init, DueReplies, DueErrors, Due
  <2>2. Cardinality(DueReplies) = 0 /\ Cardinality(DueErrors) = 0
    BY <2>1, FS_EmptySet
  <2> QED
    BY <2>2 DEF Init, CountInv, NoCount, NoAnswer, Answers, Results
<1>2. Init => SpentInv
  <2> SUFFICES ASSUME Init PROVE SpentInv
    OBVIOUS
  <2>1. Cardinality(Spent) \in Nat
    BY InitType, SpentTyped DEF SpentTypes
  <2> QED
    BY <2>1 DEF Init, SpentInv, NoCount, NoAnswer, Answers
<1>3. TypeOK /\ CountInv /\ SpentInv => CountedBeforeAnswer
  <2> SUFFICES ASSUME TypeOK, CountInv, SpentInv PROVE CountedBeforeAnswer
    OBVIOUS
  <2> DEFINE Arrived == {r \in Req : way[r] # "idle"}
  <2>1. Arrived \in SUBSET Req /\ Spent \subseteq Arrived
    BY DEF Spent
  <2>2. Cardinality(Spent) <= Cardinality(Arrived) /\ Cardinality(Arrived) \in Nat
    BY <2>1, DueCounts
  <2>3. total["success"] + total["error"] + answered["internal"] <= Cardinality(Arrived)
    BY <2>2, SpentTyped DEF SpentInv, SpentTypes
  <2>4. /\ total["success"] >= answered["ok"] + answered["notok"]
        /\ total["error"] >= answered["error"]
    BY DueTyped DEF DueTypes, CountInv
  <2> QED
    BY <2>3, <2>4 DEF CountedBeforeAnswer
<1> QED
  BY <1>1, <1>2, <1>3, NextCount, NextSpent, TypeCorrect, PTL DEF Spec
===============================================================================
