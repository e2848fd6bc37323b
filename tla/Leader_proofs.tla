---------------------------- MODULE Leader_proofs ----------------------------
(* Theorems about Leader, for every cluster, tolerance, number of requests  *)
(* and bound on crashes, with their proofs.                                 *)
EXTENDS Leader, Balancer_proofs

USE DEF leaderVars, saveVars, crashVars, storeVars, getVars

-------------------------------------------------------------------------------
(* Types *)

(* The records that are stored have the types their readers expect.         *)
LEMMA InfoTypes ==
  ASSUME NEW log \in [Member -> Info \cup {NoInfo}], NEW m \in Member, log[m] # NoInfo
  PROVE  log[m] \in Info
  OBVIOUS

LEMMA StateTypes ==
  /\ NoLog \in [Member -> Info \cup {NoInfo}]
  /\ NoMap \in [Id -> SUBSET Member]
  /\ EmptyState \in StateType
  /\ NewInfo \in Info
  /\ \A ms \in Seq(Member), log \in [Member -> Info \cup {NoInfo}], map \in [Id -> SUBSET Member] :
       LeaderState(ms, log, map) \in StateType
  BY DEF NoLog, NoMap, EmptyState, StateType, NewInfo, Info, LeaderState

LEMMA InitType == Init => TypeOK
<1> SUFFICES ASSUME Init PROVE TypeOK
  OBVIOUS
<1>1. Known \in Seq(Member) /\ KnownLog \in [Member -> Info \cup {NoInfo}]
  BY LeaderAssumption, StateTypes DEF KnownLog
<1>2. file \in [status : {"absent", "torn", "ok"}, state : StateType]
  BY <1>1, StateTypes DEF Init
<1>3. QED
  BY <1>1, <1>2, StateTypes, SentinelAssumption DEF Init, TypeOK, Content

(* A two-dimensional table after one of its entries is replaced.            *)
LEMMA TableUpdate ==
  ASSUME NEW A, NEW B, NEW V, NEW f \in [A -> [B -> V]], NEW a \in A, NEW b \in B, NEW v \in V
  PROVE  /\ [f EXCEPT ![a][b] = v] \in [A -> [B -> V]]
         /\ \A x \in A, y \in B :
              [f EXCEPT ![a][b] = v][x][y] = IF x = a /\ y = b THEN v ELSE f[x][y]
  OBVIOUS

LEMMA AppendType ==
  ASSUME NEW s \in Seq(Member), NEW m \in Member PROVE Append(s, m) \in Seq(Member)
  OBVIOUS

(* The same table after one of its rows is replaced.                        *)
LEMMA RowUpdate ==
  ASSUME NEW A, NEW B, NEW V, NEW f \in [A -> [B -> V]], NEW a \in A, NEW row \in [B -> V]
  PROVE  [f EXCEPT ![a] = row] \in [A -> [B -> V]]
  OBVIOUS

(* The registry after a revival, a count, a time-out or a mark keeps its    *)
(* type, and the same members have an entry.                                *)
LEMMA RevivedType ==
  ASSUME memberLog \in [Member -> Info \cup {NoInfo}],
         NEW m \in Member, memberLog[m] # NoInfo
  PROVE  Revived(m) \in [Member -> Info \cup {NoInfo}]
<1>1. memberLog[m] \in Info
  OBVIOUS
<1>2. QED
  BY <1>1 DEF Revived, Info

LEMMA CountedInfo ==
  ASSUME NEW info \in Info
  PROVE  /\ [info EXCEPT !.cnt = @ + 1] \in Info
         /\ [info EXCEPT !.cnt = @ + 1].cnt = info.cnt + 1
  BY DEF Info

LEMMA CountedLogType ==
  ASSUME memberLog \in [Member -> Info \cup {NoInfo}], NEW o \in Op
  PROVE  /\ CountedLog(o) \in [Member -> Info \cup {NoInfo}]
         /\ \A m \in Member : CountedLog(o)[m] # NoInfo <=> memberLog[m] # NoInfo
<1>1. ASSUME NEW m \in Member, memberLog[m] # NoInfo
      PROVE  [memberLog[m] EXCEPT !.cnt = @ + 1] \in Info
  <2>1. memberLog[m] \in Info
    BY <1>1
  <2>2. QED
    BY <2>1, CountedInfo
<1>2. NoInfo \notin Info
  BY SentinelAssumption DEF Info
<1>3. QED
  BY <1>1, <1>2 DEF CountedLog

LEMMA NextType == TypeOK /\ [Next]_vars => TypeOK'
<1> SUFFICES ASSUME TypeOK, [Next]_vars PROVE TypeOK'
  OBVIOUS
<1> USE DEF TypeOK
<1>1. ASSUME NEW o \in Op, StoreCall(o) PROVE TypeOK'
  <2> DEFINE RpcRow(S) == [m \in Member |-> IF m \in S THEN "pending" ELSE "none"]
             HandlerRow(S) == [m \in Member |-> IF m \in S THEN "net" ELSE "none"]
  <2>1. PICK S \in Picks(Strategy, Candidates, Load, Tolerance) :
          \/ pc' = [pc EXCEPT ![o] = "failed"] /\ UNCHANGED <<rpc, handler>>
          \/ /\ pc' = [pc EXCEPT ![o] = "send"]
             /\ rpc' = [rpc EXCEPT ![o] = RpcRow(S)]
             /\ handler' = [handler EXCEPT ![o] = HandlerRow(S)]
    BY <1>1 DEF StoreCall
  <2>2. /\ RpcRow(S) \in [Member -> {"none", "pending", "ok", "err"}]
        /\ HandlerRow(S) \in [Member -> {"none", "net", "open", "written"}]
    OBVIOUS
  <2> HIDE DEF RpcRow, HandlerRow
  <2>3. rpc' \in [Op -> [Member -> {"none", "pending", "ok", "err"}]]
    <3>1. [rpc EXCEPT ![o] = RpcRow(S)] \in [Op -> [Member -> {"none", "pending", "ok", "err"}]]
      BY <2>2
    <3>2. QED
      BY ONLY <2>1, <3>1, TypeOK DEF TypeOK
  <2>4. handler' \in [Op -> [Member -> {"none", "net", "open", "written"}]]
    <3>1. [handler EXCEPT ![o] = HandlerRow(S)] \in [Op -> [Member -> {"none", "net", "open", "written"}]]
      BY <2>2
    <3>2. QED
      BY ONLY <2>1, <3>1, TypeOK DEF TypeOK
  <2>5. pc' \in [Op -> {"idle", "send", "save", "ok", "failed", "lost"}]
    BY <2>1
  <2>6. QED
    BY <1>1, <2>3, <2>4, <2>5 DEF StoreCall
<1>2. ASSUME NEW o \in Op, StoreCollect(o) PROVE TypeOK'
  <2>1. memberLog' \in [Member -> Info \cup {NoInfo}]
    BY <1>2, CountedLogType DEF StoreCollect
  <2>2. Succeeded(o) \subseteq Member /\ opId[o] \in Id
    BY DEF Succeeded
  <2>3. msgMap' = msgMap \/ msgMap' = [msgMap EXCEPT ![opId[o]] = Succeeded(o)]
    BY <1>2 DEF StoreCollect
  <2>4. msgMap' \in [Id -> SUBSET Member]
    BY <2>2, <2>3
  <2>5. want' \subseteq Proc
    BY <1>2 DEF StoreCollect, Proc
  <2>6. pc' = [pc EXCEPT ![o] = "save"] \/ pc' = [pc EXCEPT ![o] = "failed"]
    BY <1>2 DEF StoreCollect
  <2>7. pc' \in [Op -> {"idle", "send", "save", "ok", "failed", "lost"}]
    BY <2>6
  <2>8. QED
    BY <1>2, <2>1, <2>4, <2>5, <2>7 DEF StoreCollect
<1>3. ASSUME NEW o \in Op, NEW m \in Member, RpcFail(o, m) PROVE TypeOK'
  BY <1>3 DEF RpcFail
<1>4. ASSUME NEW o \in Op, NEW m \in Member, MemberOpen(o, m) PROVE TypeOK'
  <2>1. disk' \in [Member -> [Id -> Content]]
    BY <1>4, TableUpdate, Partial \in Content DEF MemberOpen, Content
  <2>2. handler' \in [Op -> [Member -> {"none", "net", "open", "written"}]]
    BY <1>4 DEF MemberOpen
  <2>3. QED
    BY <1>4, <2>1, <2>2 DEF MemberOpen
<1>5. ASSUME NEW o \in Op, NEW m \in Member, MemberDrop(o, m) PROVE TypeOK'
  BY <1>5 DEF MemberDrop
<1>6. ASSUME NEW o \in Op, NEW m \in Member, MemberFlush(o, m) PROVE TypeOK'
  <2>1. PICK c \in Content : disk' = [disk EXCEPT ![m][opId[o]] = c]
    BY <1>6 DEF MemberFlush, Content
  <2>2. disk' \in [Member -> [Id -> Content]]
    BY <2>1, TableUpdate
  <2>3. handler' \in [Op -> [Member -> {"none", "net", "open", "written"}]]
    BY <1>6 DEF MemberFlush
  <2>4. QED
    BY <1>6, <2>2, <2>3 DEF MemberFlush
<1>7. ASSUME NEW o \in Op, NEW m \in Member, MemberWritePart(o, m) PROVE TypeOK'
  <2>1. disk' \in [Member -> [Id -> Content]]
    BY <1>7, TableUpdate DEF MemberWritePart, Content
  <2>2. QED
    BY <1>7, <2>1 DEF MemberWritePart
<1>8. ASSUME NEW o \in Op, NEW m \in Member, MemberWriteError(o, m) PROVE TypeOK'
  BY <1>8 DEF MemberWriteError
<1>9. ASSUME NEW o \in Op, NEW m \in Member, MemberReply(o, m) PROVE TypeOK'
  BY <1>9 DEF MemberReply
<1>10. ASSUME NEW g \in Getter, GetCall(g) PROVE TypeOK'
  <2>1. msgMap[getId[g]] \subseteq Member /\ RangeOf(members) \subseteq Member
    BY DEF RangeOf
  <2>2. todo' \in [Getter -> SUBSET Member]
    BY <1>10, <2>1 DEF GetCall
  <2>3. gpc' \in [Getter -> {"idle", "probe", "wait", "done", "notfound", "lost"}]
    BY <1>10 DEF GetCall
  <2>4. acked' \in [Getter -> SUBSET Op]
    BY <1>10 DEF GetCall
  <2>5. QED
    BY <1>10, <2>2, <2>3, <2>4 DEF GetCall
<1>11. ASSUME NEW g \in Getter, GetCheck(g) PROVE TypeOK'
  <2>1. PICK m \in todo[g] :
          /\ todo' = [todo EXCEPT ![g] = @ \ {m}]
          /\ \/ /\ gpc' = [gpc EXCEPT ![g] = "wait"]
                /\ cur' = [cur EXCEPT ![g] = m]
             \/ UNCHANGED <<gpc, cur>>
    BY <1>11 DEF GetCheck
  <2>2. m \in Member
    OBVIOUS
  <2>3. todo' \in [Getter -> SUBSET Member]
    BY <2>1
  <2>4. CASE UNCHANGED <<gpc, cur>>
    BY <1>11, <2>3, <2>4 DEF GetCheck
  <2>5. CASE gpc' = [gpc EXCEPT ![g] = "wait"] /\ cur' = [cur EXCEPT ![g] = m]
    <3>1. /\ cur' \in [Getter -> Member \cup {NoMember}]
          /\ gpc' \in [Getter -> {"idle", "probe", "wait", "done", "notfound", "lost"}]
      BY <2>2, <2>5
    <3>2. \A h \in Getter : gpc'[h] = "wait" <=> cur'[h] \in Member
      BY <2>2, <2>5
    <3>3. QED
      BY <1>11, <2>3, <3>1, <3>2 DEF GetCheck
  <2>6. QED
    BY <2>1, <2>4, <2>5
<1>12. ASSUME NEW g \in Getter, MemberRead(g) PROVE TypeOK'
  <2>1. ReadMessage(cur[g], getId[g]) \subseteq Content
    BY <1>12 DEF MemberRead, ReadMessage, Content
  <2>2. got' \in [Getter -> Content]
    BY <1>12, <2>1 DEF MemberRead
  <2>3. QED
    BY <1>12, <2>2 DEF MemberRead
<1>13. ASSUME NEW g \in Getter, GetAnswer(g) PROVE TypeOK'
  BY <1>13, SentinelAssumption DEF GetAnswer
<1>14. ASSUME NEW g \in Getter, GetMiss(g) PROVE TypeOK'
  <2>1. got' \in [Getter -> Content]
    BY <1>14 DEF GetMiss, Content
  <2>2. QED
    BY <1>14, <2>1, SentinelAssumption DEF GetMiss
<1>15. ASSUME NEW g \in Getter, GetNotFound(g) PROVE TypeOK'
  BY <1>15 DEF GetNotFound
<1>16. ASSUME NEW m \in Member, MemberStart(m) PROVE TypeOK'
  BY <1>16 DEF MemberStart
<1>17. ASSUME NEW m \in Member, RegisterMember(m) PROVE TypeOK'
  <2>1. memberLog' \in [Member -> Info \cup {NoInfo}]
    <3>1. CASE Registered(m)
      BY <1>17, <3>1, RevivedType DEF RegisterMember, Registered
    <3>2. CASE ~Registered(m)
      <4>1. memberLog' = [memberLog EXCEPT ![m] = NewInfo]
        BY <1>17, <3>2 DEF RegisterMember
      <4>2. NewInfo \in Info \cup {NoInfo} /\ memberLog \in [Member -> Info \cup {NoInfo}]
        BY StateTypes
      <4>3. QED
        BY ONLY <4>1, <4>2
    <3>3. QED
      BY <3>1, <3>2
  <2>2. members' \in Seq(Member)
    <3>1. members' = members \/ members' = Append(members, m)
      BY <1>17 DEF RegisterMember
    <3>2. members \in Seq(Member) /\ Append(members, m) \in Seq(Member)
      BY AppendType
    <3>3. QED
      BY ONLY <3>1, <3>2
  <2>3. /\ mstate' \in [Member -> {"down", "joining", "waiting", "answered", "refused", "up"}]
        /\ want' = want \/ want' = want \cup {m}
    BY <1>17 DEF RegisterMember
  <2>4. want' \subseteq Proc
    BY <2>3 DEF Proc
  <2>5. QED
    BY <1>17, <2>1, <2>2, <2>3, <2>4 DEF RegisterMember
<1>18. ASSUME NEW m \in Member, RegisterReply(m) PROVE TypeOK'
  BY <1>18 DEF RegisterReply
<1>19. ASSUME NEW m \in Member PROVE HandlersWithout(m) \in
                 [Op -> [Member -> {"none", "net", "open", "written"}]]
  BY DEF HandlersWithout
<1>20. ASSUME NEW m \in Member, RegisterFail(m) PROVE TypeOK'
  BY <1>19, <1>20 DEF RegisterFail
<1>21. ASSUME NEW m \in Member, MemberCrash(m) PROVE TypeOK'
  BY <1>19, <1>21 DEF MemberCrash
<1>22. ASSUME NEW m \in Member, Heartbeat(m) PROVE TypeOK'
  <2>1. memberLog' \in [Member -> Info \cup {NoInfo}]
    BY <1>22, RevivedType DEF Heartbeat
  <2>2. QED
    BY <1>22, <2>1 DEF Heartbeat
<1>23. ASSUME NEW m \in Member, TimePasses(m) PROVE TypeOK'
  <2>1. memberLog[m] \in Info
    BY <1>23 DEF TimePasses
  <2>2. memberLog' \in [Member -> Info \cup {NoInfo}]
    BY <1>23, <2>1 DEF TimePasses, Info
  <2>3. QED
    BY <1>23, <2>2 DEF TimePasses
<1>24. ASSUME NEW p \in Proc, SaveBegin(p) PROVE TypeOK'
  BY <1>24, StateTypes DEF SaveBegin
<1>25. ASSUME NEW p \in Proc, AfterSave(p)
       PROVE  /\ want' \subseteq Proc /\ saver' = NoProc
              /\ pc' \in [Op -> {"idle", "send", "save", "ok", "failed", "lost"}]
              /\ UNCHANGED <<leaderVars, crashVars, mstate, disk, opId, rpc, handler, getVars>>
  BY <1>25 DEF AfterSave
<1>26. ASSUME NEW p \in Proc, SaveEnd(p) PROVE TypeOK'
  <2>1. file' \in [status : {"absent", "torn", "ok"}, state : StateType]
    BY <1>26, StateTypes DEF SaveEnd
  <2>2. UNCHANGED lost
    BY <1>26 DEF SaveEnd
  <2>3. QED
    BY <1>25, <1>26, <2>1, <2>2 DEF SaveEnd
<1>27. ASSUME NEW p \in Proc, SaveError(p) PROVE TypeOK'
  <2>1. UNCHANGED file /\ lost' = TRUE
    BY <1>27 DEF SaveError
  <2>2. QED
    BY <1>25, <1>27, <2>1 DEF SaveError
<1>28. CASE WatcherTick
  <2>1. ASSUME NEW m \in Member, memberLog[m] # NoInfo
        PROVE  [memberLog[m] EXCEPT !.alive = FALSE] \in Info
    <3>1. memberLog[m] \in Info
      BY <2>1
    <3>2. QED
      BY <3>1 DEF Info
  <2>2. memberLog' \in [Member -> Info \cup {NoInfo}]
    BY <1>28, <2>1 DEF WatcherTick, Expired, IsAlive
  <2>3. want' \subseteq Proc
    BY <1>28 DEF WatcherTick, Proc
  <2>4. QED
    BY <1>28, <2>2, <2>3 DEF WatcherTick
<1>29. CASE LeaderCrash
  <2>1. /\ pc' \in [Op -> {"idle", "send", "save", "ok", "failed", "lost"}]
        /\ rpc' \in [Op -> [Member -> {"none", "pending", "ok", "err"}]]
    BY <1>29 DEF LeaderCrash
  <2>2. /\ gpc' \in [Getter -> {"idle", "probe", "wait", "done", "notfound", "lost"}]
        /\ todo' \in [Getter -> SUBSET Member]
        /\ cur' \in [Getter -> Member \cup {NoMember}]
        /\ got' \in [Getter -> Content]
    BY <1>29 DEF LeaderCrash, Content
  <2>3. mstate' \in [Member -> {"down", "joining", "waiting", "answered", "refused", "up"}]
    BY <1>29 DEF LeaderCrash
  <2>4. /\ leaderUp' = FALSE /\ members' = << >> /\ memberLog' = NoLog /\ msgMap' = NoMap
        /\ saver' = NoProc /\ want' = {} /\ leaderCrashes' = leaderCrashes + 1
    BY <1>29 DEF LeaderCrash
  <2>5. /\ leaderUp' \in BOOLEAN /\ members' \in Seq(Member)
        /\ memberLog' \in [Member -> Info \cup {NoInfo}]
        /\ msgMap' \in [Id -> SUBSET Member]
        /\ saver' \in Proc \cup {NoProc} /\ want' \subseteq Proc
        /\ leaderCrashes' \in Nat
    <3>1. << >> \in Seq(Member) /\ leaderCrashes + 1 \in Nat
      OBVIOUS
    <3>2. QED
      BY ONLY <2>4, <3>1, StateTypes
  <2>6. \A g \in Getter : gpc'[g] # "wait" /\ cur'[g] \notin Member
    BY <1>29, SentinelAssumption DEF LeaderCrash
  <2>7. QED
    BY <1>29, <2>1, <2>2, <2>3, <2>5, <2>6 DEF LeaderCrash
<1>30. CASE LeaderStart
  <2>1. file.state \in StateType
    OBVIOUS
  <2>2. /\ members' \in Seq(Member)
        /\ memberLog' \in [Member -> Info \cup {NoInfo}]
        /\ msgMap' \in [Id -> SUBSET Member]
    BY <1>30, <2>1 DEF LeaderStart, LoadedLog, StateType
  <2>3. leaderUp' \in BOOLEAN /\ lost' \in BOOLEAN
    BY <1>30 DEF LeaderStart
  <2>4. QED
    BY <1>30, <2>2, <2>3 DEF LeaderStart
<1>31. CASE UNCHANGED vars
  BY <1>31 DEF vars
<1>32. QED
  BY <1>1, <1>2, <1>3, <1>4, <1>5, <1>6, <1>8, <1>9, <1>10, <1>11, <1>12, <1>14, <1>15,
     <1>16, <1>17, <1>18, <1>20, <1>21, <1>22, <1>23, <1>24, <1>26, <1>27, <1>28, <1>29,
     <1>30, <1>31, <1>7, <1>13
     DEF Next, StoreNext, GetNext, MemberNext, SaveNext

(* Every reachable state is well typed (TypeOK).                            *)
THEOREM TypeCorrect == Spec => []TypeOK
<1>1. Init => TypeOK
  BY InitType
<1>2. TypeOK /\ [Next]_vars => TypeOK'
  BY NextType
<1>3. QED
  BY <1>1, <1>2, PTL DEF Spec

-------------------------------------------------------------------------------
(* What a step may change *)

(* No step removes a file.                                                   *)
LEMMA DiskStep ==
  ASSUME [Next]_vars
  PROVE  \/ UNCHANGED disk
         \/ \E o \in Op, m \in Member :
              MemberOpen(o, m) \/ MemberWritePart(o, m) \/ MemberFlush(o, m)
<1>1. ASSUME NEW o \in Op, StoreCall(o) \/ StoreCollect(o) PROVE UNCHANGED disk
  BY <1>1 DEF StoreCall, StoreCollect
<1>2. ASSUME NEW o \in Op, NEW m \in Member,
             \/ RpcFail(o, m) \/ MemberDrop(o, m)
             \/ MemberWriteError(o, m) \/ MemberReply(o, m)
      PROVE  UNCHANGED disk
  BY <1>2 DEF RpcFail, MemberDrop, MemberWriteError, MemberReply
<1>3. ASSUME NEW g \in Getter, GetNext(g) PROVE UNCHANGED disk
  BY <1>3 DEF GetNext, GetCall, GetCheck, MemberRead, GetAnswer, GetMiss, GetNotFound
<1>4. ASSUME NEW m \in Member, MemberNext(m) PROVE UNCHANGED disk
  BY <1>4 DEF MemberNext, MemberStart, RegisterMember, RegisterReply, RegisterFail,
              MemberCrash, Heartbeat, TimePasses
<1>5. ASSUME NEW p \in Proc, SaveNext(p) PROVE UNCHANGED disk
  BY <1>5 DEF SaveNext, SaveBegin, SaveEnd, SaveError, AfterSave
<1>6. WatcherTick \/ LeaderCrash \/ LeaderStart \/ UNCHANGED vars => UNCHANGED disk
  BY DEF WatcherTick, LeaderCrash, LeaderStart, vars
<1>7. QED
  BY <1>1, <1>2, <1>3, <1>4, <1>5, <1>6 DEF Next, StoreNext

LEMMA DiskGrows ==
  ASSUME TypeOK, [Next]_vars, NEW m \in Member, NEW i \in Id, disk[m][i] # NoFile
  PROVE  disk'[m][i] # NoFile
<1>1. CASE UNCHANGED disk
  BY <1>1
<1>2. ASSUME NEW o \in Op, NEW n \in Member, NEW c \in Op \cup {Partial, Mixed},
             disk' = [disk EXCEPT ![n][opId[o]] = c]
      PROVE  disk'[m][i] # NoFile
  <2>1. c # NoFile
    BY SentinelAssumption
  <2>2. disk \in [Member -> [Id -> Content]] /\ opId[o] \in Id
    BY DEF TypeOK
  <2>3. disk'[m][i] = c \/ disk'[m][i] = disk[m][i]
    BY <1>2, <2>2
  <2>4. QED
    BY <2>1, <2>3
<1>3. ASSUME NEW o \in Op, NEW n \in Member, MemberOpen(o, n) PROVE disk'[m][i] # NoFile
  BY <1>2, <1>3 DEF MemberOpen
<1>4. ASSUME NEW o \in Op, NEW n \in Member, MemberWritePart(o, n) \/ MemberFlush(o, n)
      PROVE  disk'[m][i] # NoFile
  <2>1. PICK c \in Op \cup {Partial, Mixed} : disk' = [disk EXCEPT ![n][opId[o]] = c]
    BY <1>4 DEF MemberWritePart, MemberFlush
  <2>2. QED
    BY <1>2, <2>1
<1>5. QED
  BY <1>1, <1>3, <1>4, DiskStep

(* The state file is left alone, truncated, or replaced by what is in memory *)
(* at that moment.                                                           *)
LEMMA FileStep ==
  ASSUME [Next]_vars
  PROVE  \/ UNCHANGED file
         \/ file'.state = EmptyState
         \/ /\ file'.state = LeaderState(members, memberLog, msgMap)
            /\ UNCHANGED <<members, memberLog, msgMap>>
<1>1. ASSUME NEW o \in Op, StoreCall(o) \/ StoreCollect(o) PROVE UNCHANGED file
  BY <1>1 DEF StoreCall, StoreCollect
<1>2. ASSUME NEW o \in Op, NEW m \in Member,
             \/ RpcFail(o, m) \/ MemberOpen(o, m) \/ MemberDrop(o, m) \/ MemberFlush(o, m)
             \/ MemberWritePart(o, m) \/ MemberWriteError(o, m) \/ MemberReply(o, m)
      PROVE  UNCHANGED file
  BY <1>2 DEF RpcFail, MemberOpen, MemberDrop, MemberWritePart, MemberFlush, MemberWriteError, MemberReply
<1>3. ASSUME NEW g \in Getter, GetNext(g) PROVE UNCHANGED file
  BY <1>3 DEF GetNext, GetCall, GetCheck, MemberRead, GetAnswer, GetMiss, GetNotFound
<1>4. ASSUME NEW m \in Member, MemberNext(m) PROVE UNCHANGED file
  BY <1>4 DEF MemberNext, MemberStart, RegisterMember, RegisterReply, RegisterFail,
              MemberCrash, Heartbeat, TimePasses
<1>5. ASSUME NEW p \in Proc, SaveBegin(p) PROVE file'.state = EmptyState
  BY <1>5 DEF SaveBegin
<1>6. ASSUME NEW p \in Proc, SaveEnd(p)
      PROVE  /\ file'.state = LeaderState(members, memberLog, msgMap)
             /\ UNCHANGED <<members, memberLog, msgMap>>
  BY <1>6 DEF SaveEnd, AfterSave
<1>7. ASSUME NEW p \in Proc, SaveError(p) PROVE UNCHANGED file
  BY <1>7 DEF SaveError
<1>8. WatcherTick \/ LeaderCrash \/ LeaderStart \/ UNCHANGED vars => UNCHANGED file
  BY DEF WatcherTick, LeaderCrash, LeaderStart, vars
<1>9. QED
  BY <1>1, <1>2, <1>3, <1>4, <1>5, <1>6, <1>7, <1>8 DEF Next, StoreNext, SaveNext

(* The registry keeps its members, gains the one that registers (which then *)
(* asks for a save), is lost                                                *)
(* with the process or comes back from the file; the counts change only in  *)
(* StoreCollect, and MsgMap too.                                            *)
Keeps ==
  /\ UNCHANGED <<members, msgMap>>
  /\ \A m \in Member :
       /\ memberLog'[m] # NoInfo <=> memberLog[m] # NoInfo
       /\ memberLog[m] # NoInfo => memberLog'[m].cnt = memberLog[m].cnt

Gains(m) ==
  /\ memberLog[m] = NoInfo
  /\ members' = Append(members, m)
  /\ memberLog' = [memberLog EXCEPT ![m] = NewInfo]
  /\ want' = want \cup {m}
  /\ UNCHANGED msgMap

LEMMA RegistryStep ==
  ASSUME TypeOK, [Next]_vars
  PROVE  \/ Keeps
         \/ \E m \in Member : Gains(m)
         \/ \E o \in Op : StoreCollect(o)
         \/ LeaderCrash
         \/ LeaderStart
<1> DEFINE Same == UNCHANGED <<members, memberLog, msgMap>>
<1>1. Same => Keeps
  BY DEF Keeps
<1>2. ASSUME NEW o \in Op, StoreCall(o) PROVE Same
  BY <1>2 DEF StoreCall
<1>3. ASSUME NEW o \in Op, NEW m \in Member,
             \/ RpcFail(o, m) \/ MemberOpen(o, m) \/ MemberDrop(o, m) \/ MemberFlush(o, m)
             \/ MemberWritePart(o, m) \/ MemberWriteError(o, m) \/ MemberReply(o, m)
      PROVE  Same
  BY <1>3 DEF RpcFail, MemberOpen, MemberDrop, MemberWritePart, MemberFlush, MemberWriteError, MemberReply
<1>4. ASSUME NEW g \in Getter, GetNext(g) PROVE Same
  BY <1>4 DEF GetNext, GetCall, GetCheck, MemberRead, GetAnswer, GetMiss, GetNotFound
<1>5. ASSUME NEW m \in Member,
             MemberStart(m) \/ RegisterReply(m) \/ RegisterFail(m) \/ MemberCrash(m)
      PROVE  Same
  BY <1>5 DEF MemberStart, RegisterReply, RegisterFail, MemberCrash
<1>6. ASSUME NEW p \in Proc, SaveNext(p) PROVE Same
  BY <1>6 DEF SaveNext, SaveBegin, SaveEnd, SaveError, AfterSave
<1>7. UNCHANGED vars => Same
  BY DEF vars
<1>8. ASSUME NEW m \in Member, memberLog[m] # NoInfo, memberLog' = Revived(m),
             UNCHANGED <<members, msgMap>>
      PROVE  Keeps
  <2>1. memberLog \in [Member -> Info \cup {NoInfo}] /\ memberLog[m] \in Info
    BY <1>8 DEF TypeOK
  <2>2. Revived(m)[m] \in Info /\ Revived(m)[m].cnt = memberLog[m].cnt
    BY <2>1 DEF Revived, Info
  <2>3. \A n \in Member : n # m => Revived(m)[n] = memberLog[n]
    BY <2>1 DEF Revived
  <2>4. NoInfo \notin Info
    BY SentinelAssumption DEF Info
  <2>5. QED
    BY <1>8, <2>2, <2>3, <2>4 DEF Keeps
<1>9. ASSUME NEW m \in Member, RegisterMember(m) PROVE Keeps \/ Gains(m)
  <2>1. CASE Registered(m)
    BY <1>8, <1>9, <2>1 DEF RegisterMember, Registered
  <2>2. CASE ~Registered(m)
    BY <1>9, <2>2 DEF RegisterMember, Registered, Gains
  <2>3. QED
    BY <2>1, <2>2
<1>10. ASSUME NEW m \in Member, Heartbeat(m) PROVE Keeps
  <2>1. CASE memberLog[m] # NoInfo
    BY <1>8, <1>10, <2>1 DEF Heartbeat
  <2>2. CASE memberLog[m] = NoInfo
    BY <1>1, <1>10, <2>2 DEF Heartbeat
  <2>3. QED
    BY <2>1, <2>2
<1>11. ASSUME NEW m \in Member, TimePasses(m) PROVE Keeps
  <2>1. memberLog \in [Member -> Info \cup {NoInfo}] /\ memberLog[m] \in Info
    BY <1>11 DEF TypeOK, TimePasses
  <2>2. /\ memberLog'[m] \in Info /\ memberLog'[m].cnt = memberLog[m].cnt
        /\ \A n \in Member : n # m => memberLog'[n] = memberLog[n]
        /\ UNCHANGED <<members, msgMap>>
    BY <1>11, <2>1 DEF TimePasses, Info
  <2>3. NoInfo \notin Info
    BY SentinelAssumption DEF Info
  <2>4. QED
    BY <2>2, <2>3, <1>11 DEF Keeps, TimePasses
<1>12. ASSUME WatcherTick PROVE Keeps
  <2>1. UNCHANGED <<members, msgMap>>
    BY <1>12 DEF WatcherTick
  <2>2. ASSUME NEW m \in Member
        PROVE  /\ memberLog'[m] # NoInfo <=> memberLog[m] # NoInfo
               /\ memberLog[m] # NoInfo => memberLog'[m].cnt = memberLog[m].cnt
    <3>1. CASE memberLog[m] # NoInfo /\ Expired(m)
      <4>1. memberLog[m] \in Info
        BY <3>1 DEF TypeOK
      <4>2. memberLog'[m] = [memberLog[m] EXCEPT !.alive = FALSE]
        BY <1>12, <3>1 DEF WatcherTick
      <4>3. memberLog'[m] \in Info /\ memberLog'[m].cnt = memberLog[m].cnt
        BY <4>1, <4>2 DEF Info
      <4>4. QED
        BY <3>1, <4>3, SentinelAssumption DEF Info
    <3>2. CASE ~(memberLog[m] # NoInfo /\ Expired(m))
      BY <1>12, <3>2 DEF WatcherTick, Expired, IsAlive
    <3>3. QED
      BY <3>1, <3>2
  <2>3. QED
    BY <2>1, <2>2 DEF Keeps
<1>13. QED
  BY <1>1, <1>2, <1>3, <1>4, <1>5, <1>6, <1>7, <1>9, <1>10, <1>11, <1>12
     DEF Next, StoreNext, MemberNext

-------------------------------------------------------------------------------
(* s.Members and s.MemberLog *)

LEMMA MatchesEmpty == Matches(EmptyState.members, EmptyState.memberLog)
  BY DEF Matches, EmptyState, LeaderState, NoLog, NoDuplicates, RangeOf

LEMMA MatchesKnown == Matches(Known, KnownLog)
<1>1. RangeOf(Known) \subseteq Member
  BY LeaderAssumption DEF RangeOf
<1>2. NewInfo # NoInfo
  BY StateTypes, SentinelAssumption DEF Info
<1>3. QED
  BY <1>1, <1>2, LeaderAssumption DEF Matches, NoDuplicates, KnownLog

(* Appending an address that has no entry yet keeps both sides equal.       *)
LEMMA MatchesAppend ==
  ASSUME TypeOK, Matches(members, memberLog), NEW m \in Member, Gains(m)
  PROVE  Matches(members', memberLog')
<1>1. /\ members \in Seq(Member) /\ memberLog \in [Member -> Info \cup {NoInfo}]
      /\ members' = Append(members, m) /\ memberLog' = [memberLog EXCEPT ![m] = NewInfo]
      /\ memberLog[m] = NoInfo
  BY DEF TypeOK, Gains
<1>2. NewInfo # NoInfo
  BY StateTypes, SentinelAssumption DEF Info
<1>3. m \notin RangeOf(members)
  BY <1>1 DEF Matches
<1>4. /\ DOMAIN members' = 1..(Len(members) + 1)
      /\ \A i \in DOMAIN members : members'[i] = members[i]
      /\ DOMAIN members = 1..Len(members) /\ Len(members) \in Nat
      /\ members'[Len(members) + 1] = m
  BY <1>1
<1>5. NoDuplicates(members')
  BY <1>3, <1>4 DEF Matches, NoDuplicates, RangeOf
<1>6. RangeOf(members') = RangeOf(members) \cup {m}
  BY <1>4 DEF RangeOf
<1>7. {n \in Member : memberLog'[n] # NoInfo} = {n \in Member : memberLog[n] # NoInfo} \cup {m}
  BY <1>1, <1>2
<1>8. QED
  BY <1>5, <1>6, <1>7 DEF Matches

LEMMA NextMembersMatch ==
  TypeOK /\ MembersMatchLog /\ [Next]_vars => MembersMatchLog'
<1> SUFFICES ASSUME TypeOK, MembersMatchLog, [Next]_vars PROVE MembersMatchLog'
  OBVIOUS
<1> USE DEF MembersMatchLog
<1>1. Matches(members', memberLog')
  <2>1. CASE Keeps
    BY <2>1 DEF Keeps, Matches
  <2>2. ASSUME NEW m \in Member, Gains(m) PROVE Matches(members', memberLog')
    BY <2>2, MatchesAppend
  <2>3. ASSUME NEW o \in Op, StoreCollect(o) PROVE Matches(members', memberLog')
    <3>1. members' = members /\ memberLog' = CountedLog(o)
      BY <2>3 DEF StoreCollect
    <3>2. \A m \in Member : CountedLog(o)[m] # NoInfo <=> memberLog[m] # NoInfo
      BY CountedLogType DEF TypeOK
    <3>3. QED
      BY <3>1, <3>2 DEF Matches
  <2>4. CASE LeaderCrash
    BY <2>4, MatchesEmpty DEF LeaderCrash, EmptyState, LeaderState
  <2>5. CASE LeaderStart
    BY <2>5 DEF LeaderStart, LoadedLog
  <2>6. QED
    BY <2>1, <2>2, <2>3, <2>4, <2>5, RegistryStep
<1>2. Matches(file'.state.members, file'.state.memberLog)
  <2>1. CASE UNCHANGED file
    BY <2>1
  <2>2. CASE file'.state = EmptyState
    BY <2>2, MatchesEmpty
  <2>3. CASE file'.state = LeaderState(members, memberLog, msgMap)
    BY <2>3 DEF LeaderState
  <2>4. QED
    BY <2>1, <2>2, <2>3, FileStep
<1>3. QED
  BY <1>1, <1>2

(* s.Members lists every registered address exactly once, in memory and in  *)
(* the state file, in every reachable state (MembersMatchLog).              *)
THEOREM MembersAlwaysMatch == Spec => []MembersMatchLog
<1>1. Init => MembersMatchLog
  BY MatchesKnown, MatchesEmpty DEF Init, MembersMatchLog, EmptyState, LeaderState
<1>2. TypeOK /\ MembersMatchLog /\ [Next]_vars => MembersMatchLog'
  BY NextMembersMatch
<1>3. QED
  BY <1>1, <1>2, TypeCorrect, PTL DEF Spec

-------------------------------------------------------------------------------
(* MsgMap and the files of the members *)

(* The targets of a SET, and what an RPC that got past the truncation of    *)
(* the file implies: the invariant that makes IndexReplicated inductive.    *)
Contacted(o) == {m \in Member : rpc[o][m] # "none"}

TargetsBounded == \A o \in Op : Cardinality(Contacted(o)) <= Tolerance

WrittenFirst ==
  \A o \in Op, m \in Member :
    rpc[o][m] = "ok" \/ handler[o][m] \in {"open", "written"} => disk[m][opId[o]] # NoFile

IndexInv == TargetsBounded /\ WrittenFirst /\ IndexReplicated

LEMMA ContactedFinite ==
  ASSUME NEW o \in Op
  PROVE  /\ IsFiniteSet(Contacted(o)) /\ Cardinality(Contacted(o)) \in Nat
         /\ IsFiniteSet(Succeeded(o)) /\ Cardinality(Succeeded(o)) \in Nat
         /\ Cardinality(Succeeded(o)) <= Cardinality(Contacted(o))
<1>1. Succeeded(o) \subseteq Contacted(o) /\ Contacted(o) \subseteq Member
  BY DEF Succeeded, Contacted
<1>2. QED
  BY <1>1, LeaderAssumption, FS_Subset, FS_CardinalityType

(* Only StoreCall chooses targets, an RPC succeeds only after its handler   *)
(* has written, and a handler opens the file before it writes.              *)
RpcMoves(o, m) ==
  /\ rpc'[o][m] # "none" => rpc[o][m] # "none"
  /\ rpc'[o][m] = "ok" => rpc[o][m] = "ok" \/ handler[o][m] = "written"
  /\ handler'[o][m] \in {"open", "written"} =>
       handler[o][m] \in {"open", "written"} \/ disk'[m][opId[o]] = Partial

LEMMA RpcStep ==
  ASSUME TypeOK, [Next]_vars, NEW o \in Op, NEW m \in Member
  PROVE  \/ StoreCall(o)
         \/ RpcMoves(o, m)
<1> USE DEF TypeOK
<1>1. UNCHANGED <<rpc, handler>> => RpcMoves(o, m)
  BY DEF RpcMoves
<1>2. ASSUME NEW p \in Op, p # o, StoreCall(p) PROVE RpcMoves(o, m)
  <2>1. rpc'[o] = rpc[o] /\ handler'[o] = handler[o]
    BY <1>2 DEF StoreCall
  <2>2. QED
    BY <2>1 DEF RpcMoves
<1>3. ASSUME NEW p \in Op, StoreCollect(p) PROVE UNCHANGED <<rpc, handler>>
  BY <1>3 DEF StoreCollect
<1>4. ASSUME NEW p \in Op, NEW n \in Member, RpcFail(p, n) PROVE RpcMoves(o, m)
  BY <1>4 DEF RpcFail, RpcMoves
<1>5. ASSUME NEW p \in Op, NEW n \in Member, MemberOpen(p, n) PROVE RpcMoves(o, m)
  <2>1. rpc' = rpc /\ opId[p] \in Id
    BY <1>5 DEF MemberOpen
  <2>2. CASE p = o /\ n = m
    BY <1>5, <2>1, <2>2 DEF MemberOpen, RpcMoves
  <2>3. CASE ~(p = o /\ n = m)
    <3>1. handler'[o][m] = handler[o][m]
      BY <1>5, <2>3 DEF MemberOpen
    <3>2. QED
      BY <2>1, <3>1 DEF RpcMoves
  <2>4. QED
    BY <2>2, <2>3
<1>6. ASSUME NEW p \in Op, NEW n \in Member, MemberDrop(p, n) PROVE RpcMoves(o, m)
  BY <1>6 DEF MemberDrop, RpcMoves
<1>7. ASSUME NEW p \in Op, NEW n \in Member, MemberFlush(p, n) PROVE RpcMoves(o, m)
  BY <1>7 DEF MemberFlush, RpcMoves
<1>8. ASSUME NEW p \in Op, NEW n \in Member, MemberWritePart(p, n) PROVE RpcMoves(o, m)
  BY <1>8 DEF MemberWritePart, RpcMoves
<1>9. ASSUME NEW p \in Op, NEW n \in Member, MemberWriteError(p, n) PROVE RpcMoves(o, m)
  BY <1>9 DEF MemberWriteError, RpcMoves
<1>10. ASSUME NEW p \in Op, NEW n \in Member, MemberReply(p, n) PROVE RpcMoves(o, m)
  BY <1>10 DEF MemberReply, RpcMoves
<1>11. ASSUME NEW g \in Getter, GetNext(g) PROVE UNCHANGED <<rpc, handler>>
  BY <1>11 DEF GetNext, GetCall, GetCheck, MemberRead, GetAnswer, GetMiss, GetNotFound
<1>12. ASSUME NEW n \in Member,
              \/ MemberStart(n) \/ RegisterMember(n) \/ RegisterReply(n)
              \/ Heartbeat(n) \/ TimePasses(n)
       PROVE  UNCHANGED <<rpc, handler>>
  BY <1>12 DEF MemberStart, RegisterMember, RegisterReply, Heartbeat, TimePasses
<1>13. ASSUME NEW n \in Member, rpc' = rpc, handler' = HandlersWithout(n) PROVE RpcMoves(o, m)
  BY <1>13 DEF HandlersWithout, RpcMoves
<1>14. ASSUME NEW n \in Member, RegisterFail(n) \/ MemberCrash(n) PROVE RpcMoves(o, m)
  BY <1>13, <1>14 DEF RegisterFail, MemberCrash
<1>15. ASSUME NEW p \in Proc, SaveNext(p) PROVE UNCHANGED <<rpc, handler>>
  BY <1>15 DEF SaveNext, SaveBegin, SaveEnd, SaveError, AfterSave
<1>16. ASSUME LeaderCrash PROVE RpcMoves(o, m)
  BY <1>16 DEF LeaderCrash, RpcMoves
<1>17. WatcherTick \/ LeaderStart \/ UNCHANGED vars => UNCHANGED <<rpc, handler>>
  BY DEF WatcherTick, LeaderStart, vars
<1>18. QED
  BY <1>1, <1>2, <1>3, <1>4, <1>5, <1>6, <1>7, <1>9, <1>10, <1>11, <1>12, <1>14, <1>15,
     <1>16, <1>17, <1>8 DEF Next, StoreNext, MemberNext

LEMMA OpIdConstant == ASSUME [Next]_vars PROVE opId' = opId
<1>1. ASSUME NEW o \in Op, StoreNext(o) PROVE opId' = opId
  BY <1>1 DEF StoreNext, StoreCall, StoreCollect, RpcFail, MemberOpen, MemberDrop, MemberWritePart, MemberFlush,
              MemberWriteError, MemberReply
<1>2. ASSUME NEW g \in Getter, GetNext(g) PROVE opId' = opId
  BY <1>2 DEF GetNext, GetCall, GetCheck, MemberRead, GetAnswer, GetMiss, GetNotFound
<1>3. ASSUME NEW m \in Member, MemberNext(m) PROVE opId' = opId
  BY <1>3 DEF MemberNext, MemberStart, RegisterMember, RegisterReply, RegisterFail,
              MemberCrash, Heartbeat, TimePasses
<1>4. ASSUME NEW p \in Proc, SaveNext(p) PROVE opId' = opId
  BY <1>4 DEF SaveNext, SaveBegin, SaveEnd, SaveError, AfterSave
<1>5. WatcherTick \/ LeaderCrash \/ LeaderStart \/ UNCHANGED vars => opId' = opId
  BY DEF WatcherTick, LeaderCrash, LeaderStart, vars
<1>6. QED
  BY <1>1, <1>2, <1>3, <1>4, <1>5 DEF Next

(* StoreCall contacts at most Tolerance members, and nothing is written yet. *)
LEMMA StoreCallTargets ==
  ASSUME TypeOK, TargetsBounded, NEW o \in Op, StoreCall(o)
  PROVE  /\ Cardinality(Contacted(o)') <= Tolerance
         /\ \A m \in Member :
              \/ rpc'[o][m] = rpc[o][m] /\ handler'[o][m] = handler[o][m]
              \/ rpc'[o][m] \in {"none", "pending"} /\ handler'[o][m] \in {"none", "net"}
<1>1. PICK S \in Picks(Strategy, Candidates, Load, Tolerance) :
        IF Cardinality(S) < Tolerance
          THEN UNCHANGED <<rpc, handler>>
          ELSE /\ rpc' = [rpc EXCEPT ![o] = [m \in Member |-> IF m \in S THEN "pending" ELSE "none"]]
               /\ handler' = [handler EXCEPT ![o] = [m \in Member |-> IF m \in S THEN "net" ELSE "none"]]
  BY DEF StoreCall
<1>2. Candidates \subseteq Member /\ IsFiniteSet(Candidates)
  <2>1. RangeOf(members) \subseteq Member
    BY DEF TypeOK, RangeOf
  <2>2. QED
    BY <2>1, LeaderAssumption, FS_Subset DEF Candidates
<1>3. Load \in [Candidates -> Nat]
  BY <1>2 DEF Load, Candidates, IsAlive, TypeOK, Info
<1>4. S \subseteq Candidates /\ Cardinality(S) <= Tolerance
  <2>1. Candidates \in SUBSET Nat /\ Tolerance \in Nat
    BY <1>2, LeaderAssumption
  <2>2. QED
    BY <1>2, <1>3, <2>1, PickBounded
<1>5. CASE Cardinality(S) < Tolerance
  BY <1>1, <1>5 DEF TargetsBounded, Contacted
<1>6. CASE ~(Cardinality(S) < Tolerance)
  <2>1. \A m \in Member : /\ rpc'[o][m] = IF m \in S THEN "pending" ELSE "none"
                          /\ handler'[o][m] = IF m \in S THEN "net" ELSE "none"
    BY <1>1, <1>6 DEF TypeOK
  <2>2. Contacted(o)' = S
    BY <1>2, <1>4, <2>1 DEF Contacted
  <2>3. QED
    BY <1>4, <2>1, <2>2
<1>7. QED
  BY <1>5, <1>6

LEMMA NextTargets ==
  TypeOK /\ TargetsBounded /\ [Next]_vars => TargetsBounded'
<1> SUFFICES ASSUME TypeOK, TargetsBounded, [Next]_vars, NEW o \in Op
             PROVE  Cardinality(Contacted(o)') <= Tolerance
  BY DEF TargetsBounded
<1>1. CASE StoreCall(o)
  BY <1>1, StoreCallTargets
<1>2. CASE \A m \in Member : RpcMoves(o, m)
  <2>1. Contacted(o)' \subseteq Contacted(o)
    BY <1>2 DEF Contacted, RpcMoves
  <2>2. Cardinality(Contacted(o)') <= Cardinality(Contacted(o))
    BY <2>1, ContactedFinite, FS_Subset
  <2>3. Cardinality(Contacted(o)') \in Nat /\ Cardinality(Contacted(o)) \in Nat
    BY <2>1, ContactedFinite, FS_Subset, FS_CardinalityType
  <2>4. QED
    BY <2>2, <2>3, LeaderAssumption DEF TargetsBounded
<1>3. QED
  BY <1>1, <1>2, RpcStep

LEMMA NextWritten ==
  TypeOK /\ TargetsBounded /\ WrittenFirst /\ [Next]_vars => WrittenFirst'
<1> SUFFICES ASSUME TypeOK, TargetsBounded, WrittenFirst, [Next]_vars,
                    NEW o \in Op, NEW m \in Member,
                    rpc'[o][m] = "ok" \/ handler'[o][m] \in {"open", "written"}
             PROVE  disk'[m][opId'[o]] # NoFile
  BY DEF WrittenFirst
<1>1. opId' = opId /\ opId[o] \in Id
  BY OpIdConstant DEF TypeOK
<1>2. rpc[o][m] = "ok" \/ handler[o][m] \in {"open", "written"} => disk'[m][opId[o]] # NoFile
  BY <1>1, DiskGrows DEF WrittenFirst
<1>3. CASE StoreCall(o)
  BY <1>1, <1>2, <1>3, StoreCallTargets
<1>4. CASE RpcMoves(o, m)
  BY <1>1, <1>2, <1>4, SentinelAssumption DEF RpcMoves
<1>5. QED
  BY <1>3, <1>4, RpcStep

LEMMA NextIndex ==
  TypeOK /\ IndexInv /\ [Next]_vars => IndexInv'
<1> SUFFICES ASSUME TypeOK, IndexInv, [Next]_vars PROVE IndexInv'
  OBVIOUS
<1>1. TargetsBounded' /\ WrittenFirst'
  BY NextTargets, NextWritten DEF IndexInv
<1>2. /\ msgMap \in [Id -> SUBSET Member] /\ file.state.msgMap \in [Id -> SUBSET Member]
      /\ Replicated(msgMap) /\ Replicated(file.state.msgMap)
  BY DEF TypeOK, StateType, IndexInv, IndexReplicated
<1>3. \A map \in [Id -> SUBSET Member] :
        Replicated(map) => \A i \in Id : map[i] # {} =>
          /\ Cardinality(map[i]) = Tolerance
          /\ \A m \in map[i] : disk'[m][i] # NoFile
  BY DiskGrows DEF Replicated
<1>4. ASSUME NEW o \in Op, StoreCollect(o) PROVE Replicated(msgMap)'
  <2>1. CASE Cardinality(Succeeded(o)) >= Tolerance
    <3>1. msgMap' = [msgMap EXCEPT ![opId[o]] = Succeeded(o)] /\ disk' = disk /\ opId[o] \in Id
      BY <1>4, <2>1 DEF StoreCollect, TypeOK
    <3>2. Cardinality(Succeeded(o)) = Tolerance
      BY <2>1, ContactedFinite, LeaderAssumption DEF IndexInv, TargetsBounded
    <3>3. \A m \in Succeeded(o) : disk[m][opId[o]] # NoFile
      BY DEF Succeeded, IndexInv, WrittenFirst
    <3>4. QED
      BY <1>2, <3>1, <3>2, <3>3 DEF Replicated
  <2>2. CASE ~(Cardinality(Succeeded(o)) >= Tolerance)
    BY <1>2, <1>3, <1>4, <2>2 DEF StoreCollect, Replicated
  <2>3. QED
    BY <2>1, <2>2
<1>5. Replicated(msgMap)'
  <2>1. CASE UNCHANGED msgMap
    BY <1>2, <1>3, <2>1 DEF Replicated
  <2>2. CASE LeaderCrash
    BY <2>2 DEF LeaderCrash, Replicated, NoMap
  <2>3. CASE LeaderStart
    <3>1. msgMap' = file.state.msgMap
      BY <2>3 DEF LeaderStart
    <3>2. QED
      BY <1>2, <1>3, <3>1 DEF Replicated
  <2>4. QED
    BY <1>4, <2>1, <2>2, <2>3, RegistryStep DEF Keeps, Gains
<1>6. Replicated(file.state.msgMap)'
  <2>1. CASE UNCHANGED file
    BY <1>2, <1>3, <2>1 DEF Replicated
  <2>2. CASE file'.state = EmptyState
    BY <2>2 DEF Replicated, EmptyState, LeaderState, NoMap
  <2>3. CASE file'.state = LeaderState(members, memberLog, msgMap)
    <3>1. file'.state.msgMap = msgMap
      BY <2>3 DEF LeaderState
    <3>2. QED
      BY <1>2, <1>3, <3>1 DEF Replicated
  <2>4. QED
    BY <2>1, <2>2, <2>3, FileStep
<1>7. QED
  BY <1>1, <1>5, <1>6 DEF IndexInv, IndexReplicated

LEMMA InitIndex == Init => IndexInv
<1> SUFFICES ASSUME Init PROVE IndexInv
  OBVIOUS
<1>1. TargetsBounded
  <2>1. ASSUME NEW o \in Op PROVE Contacted(o) = {}
    BY DEF Init, Contacted
  <2>2. Cardinality({}) <= Tolerance
    BY FS_EmptySet, LeaderAssumption
  <2>3. QED
    BY <2>1, <2>2 DEF TargetsBounded
<1>2. WrittenFirst
  BY DEF Init, WrittenFirst
<1>3. IndexReplicated
  <2>1. msgMap = NoMap /\ file.state.msgMap = NoMap
    BY DEF Init, EmptyState, LeaderState
  <2>2. QED
    BY <2>1 DEF IndexReplicated, Replicated, NoMap
<1>4. QED
  BY <1>1, <1>2, <1>3 DEF IndexInv

(* An entry of MsgMap, in memory or in the state file, always names exactly *)
(* Tolerance members that hold a file for that id (IndexReplicated): the    *)
(* bound on targets gives "not more", the test in Store "not fewer", and    *)
(* WrittenFirst the file.                                                   *)
THEOREM IndexAlwaysReplicated == Spec => []IndexReplicated
<1>1. IndexInv => IndexReplicated
  BY DEF IndexInv
<1>2. QED
  BY <1>1, InitIndex, NextIndex, TypeCorrect, PTL DEF Spec
===============================================================================
