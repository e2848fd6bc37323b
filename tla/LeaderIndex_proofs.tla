--------------------------- MODULE LeaderIndex_proofs ---------------------------
(* The leader implements DurableIndex; the invariants about acknowledged SETs   *)
(* that rest on the order of saves and answers; and what the members hold and   *)
(* the leader counts: the copies of an acknowledged SET, what a GET reads of    *)
(* them, and MessageCnt.                                                        *)
EXTENDS LeaderIndex, Leader_proofs

(* Who holds stateMu for a save asked for it; a SET asked exactly while it is   *)
(* in "save", and its entry is there; nobody asks a leader that is not running. *)
SaveInv ==
  /\ saver # NoProc => saver \in want
  /\ want # {} => leaderUp
  /\ \A o \in Op : o \in want <=> pc[o] = "save"
  /\ \A o \in Op : pc[o] = "save" => msgMap[opId[o]] # {}

(* The progress of a SET moves in its own steps and when the leader dies.       *)
LEMMA PcStep ==
  ASSUME TypeOK, [Next]_vars
  PROVE  \/ UNCHANGED <<pc, msgMap>> /\ want \cap Op = want' \cap Op
         \/ \E o \in Op : \/ StoreCall(o) \/ StoreCollect(o)
                          \/ SaveEnd(o) \/ SaveError(o)
         \/ LeaderCrash
         \/ LeaderStart
<1> DEFINE Same == UNCHANGED <<pc, msgMap>> /\ want \cap Op = want' \cap Op
<1>1. ASSUME UNCHANGED <<pc, msgMap, want>> PROVE Same
  BY <1>1
<1>2. ASSUME NEW o \in Op, NEW m \in Member,
             \/ RpcFail(o, m) \/ MemberOpen(o, m) \/ MemberDrop(o, m) \/ MemberFlush(o, m)
             \/ MemberWritePart(o, m) \/ MemberWriteError(o, m) \/ MemberReply(o, m)
      PROVE  Same
  BY <1>2 DEF RpcFail, MemberOpen, MemberDrop, MemberWritePart, MemberFlush, MemberWriteError, MemberReply,
              leaderVars, saveVars, storeVars
<1>3. ASSUME NEW g \in Getter, GetNext(g) PROVE Same
  BY <1>3 DEF GetNext, GetCall, GetCheck, MemberRead, GetAnswer, GetMiss, GetNotFound,
              leaderVars, saveVars, storeVars
<1>4. ASSUME NEW m \in Member,
             \/ MemberStart(m) \/ RegisterReply(m) \/ RegisterFail(m) \/ MemberCrash(m)
             \/ Heartbeat(m) \/ TimePasses(m)
      PROVE  Same
  BY <1>4 DEF MemberStart, RegisterReply, RegisterFail, MemberCrash, Heartbeat, TimePasses,
              leaderVars, saveVars, storeVars
<1>5. ASSUME NEW m \in Member, RegisterMember(m) PROVE Same
  <2>1. m \notin Op
    BY SentinelAssumption
  <2>2. UNCHANGED <<pc, msgMap>> /\ want' \in {want, want \cup {m}}
    BY <1>5 DEF RegisterMember, storeVars
  <2> QED
    BY <2>1, <2>2
<1>6. ASSUME NEW p \in Proc, SaveBegin(p) PROVE Same
  BY <1>6 DEF SaveBegin, leaderVars, storeVars
<1>7. ASSUME NEW p \in Proc, p \notin Op, SaveEnd(p) \/ SaveError(p) PROVE Same
  <2>1. AfterSave(p)
    BY <1>7 DEF SaveEnd, SaveError
  <2> QED
    BY <1>7, <2>1 DEF AfterSave, leaderVars
<1>8. ASSUME WatcherTick PROVE Same
  BY <1>8, SentinelAssumption DEF WatcherTick, storeVars
<1>9. UNCHANGED vars => Same
  BY DEF vars, leaderVars, saveVars, storeVars
<1> QED
  BY <1>2, <1>3, <1>4, <1>5, <1>6, <1>7, <1>8, <1>9 DEF Next, StoreNext, MemberNext, SaveNext

(* A SET that is committed leaves an entry for its id.                          *)
LEMMA CommitStep ==
  ASSUME TypeOK, NEW o \in Op, StoreCollect(o)
  PROVE  \/ /\ Cardinality(Succeeded(o)) >= Tolerance /\ Succeeded(o) # {}
            /\ msgMap' = [msgMap EXCEPT ![opId[o]] = Succeeded(o)]
            /\ want' = want \cup {o} /\ pc' = [pc EXCEPT ![o] = "save"]
         \/ UNCHANGED <<msgMap, want>> /\ pc' = [pc EXCEPT ![o] = "failed"]
<1>1. CASE Cardinality(Succeeded(o)) >= Tolerance
  <2>1. Succeeded(o) # {}
    <3>1. Cardinality({}) = 0 /\ Tolerance \in Nat \ {0}
      BY FS_EmptySet, LeaderAssumption
    <3> QED
      BY <1>1, <3>1
  <2> QED
    BY <1>1, <2>1 DEF StoreCollect
<1>2. CASE ~(Cardinality(Succeeded(o)) >= Tolerance)
  BY <1>2 DEF StoreCollect
<1> QED
  BY <1>1, <1>2

(* Nobody reports a save or an answer that the mutex does not cover.            *)
LEMMA NextSave == TypeOK /\ SaveInv /\ [Next]_vars => SaveInv'
<1> SUFFICES ASSUME TypeOK, SaveInv, [Next]_vars PROVE SaveInv'
  OBVIOUS
<1>1. /\ opId' = opId /\ opId \in [Op -> Id]
      /\ pc \in [Op -> {"idle", "send", "save", "ok", "failed", "lost"}]
      /\ msgMap \in [Id -> SUBSET Member]
  BY OpIdConstant DEF TypeOK
<1> USE DEF SaveInv
<1>2. CASE UNCHANGED <<saver, want, leaderUp, pc, msgMap>>
  BY <1>1, <1>2
<1>3. ASSUME NEW o \in Op, NEW m \in Member,
             \/ RpcFail(o, m) \/ MemberOpen(o, m) \/ MemberDrop(o, m) \/ MemberFlush(o, m)
             \/ MemberWritePart(o, m) \/ MemberWriteError(o, m) \/ MemberReply(o, m)
      PROVE  UNCHANGED <<saver, want, leaderUp, pc, msgMap>>
  BY <1>3 DEF RpcFail, MemberOpen, MemberDrop, MemberWritePart, MemberFlush, MemberWriteError, MemberReply,
              leaderVars, saveVars, storeVars
<1>4. ASSUME NEW g \in Getter, GetNext(g) PROVE UNCHANGED <<saver, want, leaderUp, pc, msgMap>>
  BY <1>4 DEF GetNext, GetCall, GetCheck, MemberRead, GetAnswer, GetMiss, GetNotFound,
              leaderVars, saveVars, storeVars
<1>5. ASSUME NEW m \in Member,
             \/ MemberStart(m) \/ RegisterReply(m) \/ RegisterFail(m) \/ MemberCrash(m)
             \/ Heartbeat(m) \/ TimePasses(m)
      PROVE  UNCHANGED <<saver, want, leaderUp, pc, msgMap>>
  BY <1>5 DEF MemberStart, RegisterReply, RegisterFail, MemberCrash, Heartbeat, TimePasses,
              leaderVars, saveVars, storeVars
<1>6. ASSUME NEW o \in Op, StoreCall(o) PROVE SaveInv'
  <2>1. /\ UNCHANGED <<saver, want, leaderUp, msgMap>> /\ pc[o] = "idle"
        /\ \/ pc' = [pc EXCEPT ![o] = "failed"]
           \/ pc' = [pc EXCEPT ![o] = "send"]
    BY <1>6 DEF StoreCall, leaderVars, saveVars
  <2> QED
    BY <1>1, <2>1
<1>7. ASSUME NEW o \in Op, StoreCollect(o) PROVE SaveInv'
  <2>1. UNCHANGED <<saver, leaderUp>> /\ pc[o] = "send" /\ leaderUp
    BY <1>7 DEF StoreCollect
  <2> QED
    BY <1>1, <1>7, <2>1, CommitStep
<1>8. ASSUME NEW m \in Member, RegisterMember(m) PROVE SaveInv'
  <2>1. m \notin Op
    BY SentinelAssumption
  <2>2. /\ UNCHANGED <<pc, msgMap, saver, leaderUp>> /\ leaderUp
        /\ want' \in {want, want \cup {m}}
    BY <1>8 DEF RegisterMember, LockFree, storeVars
  <2> QED
    BY <1>1, <2>1, <2>2
<1>9. CASE WatcherTick
  <2>1. /\ UNCHANGED <<pc, msgMap, saver, leaderUp>> /\ leaderUp
        /\ want' = want \cup {Watcher} /\ Watcher \notin Op
    BY <1>9, SentinelAssumption DEF WatcherTick, LockFree, storeVars
  <2> QED
    BY <1>1, <2>1
<1>10. ASSUME NEW p \in Proc, SaveBegin(p) PROVE SaveInv'
  BY <1>1, <1>10 DEF SaveBegin, leaderVars, storeVars
<1>11. ASSUME NEW p \in Proc, SaveEnd(p) \/ SaveError(p) PROVE SaveInv'
  <2>1. AfterSave(p)
    BY <1>11 DEF SaveEnd, SaveError
  <2>2. /\ UNCHANGED <<leaderUp, msgMap>> /\ saver' = NoProc /\ want' = want \ {p}
        /\ pc' = IF p \in Op THEN [pc EXCEPT ![p] = "ok"] ELSE pc
    BY <2>1 DEF AfterSave, leaderVars
  <2> QED
    BY <1>1, <2>2
<1>12. CASE LeaderCrash
  <2>1. /\ saver' = NoProc /\ want' = {}
        /\ \A o \in Op : pc'[o] # "save"
    BY <1>1, <1>12 DEF LeaderCrash
  <2> QED
    BY <2>1
<1>13. CASE LeaderStart
  <2>1. /\ UNCHANGED <<saver, want, pc>> /\ want = {}
    BY <1>13 DEF LeaderStart, storeVars
  <2> QED
    BY <1>1, <2>1
<1>14. CASE UNCHANGED vars
  BY <1>2, <1>14 DEF vars, leaderVars, saveVars, storeVars
<1> QED
  BY <1>2, <1>3, <1>4, <1>5, <1>6, <1>7, <1>8, <1>9, <1>10, <1>11, <1>12, <1>13, <1>14
     DEF Next, StoreNext, MemberNext, SaveNext

LEMMA InitSave == Init => SaveInv
BY DEF Init, SaveInv

-------------------------------------------------------------------------------
(* What is acknowledged is saved, and what is not saved will be *)

(* All but the saves and the life of the leader leave the file alone, and only  *)
(* add to those who ask for a save.                                             *)
LEMMA QuietStep ==
  ASSUME [Next]_vars
  PROVE  \/ UNCHANGED <<file, lost, leaderUp>> /\ want \subseteq want'
         \/ \E p \in Proc : SaveBegin(p) \/ SaveEnd(p) \/ SaveError(p)
         \/ LeaderCrash
         \/ LeaderStart
<1> DEFINE Quiet == UNCHANGED <<file, lost, leaderUp>> /\ want \subseteq want'
<1>1. ASSUME NEW o \in Op, StoreNext(o) PROVE Quiet
  BY <1>1 DEF StoreNext, StoreCall, StoreCollect, RpcFail, MemberOpen, MemberDrop, MemberWritePart, MemberFlush,
              MemberWriteError, MemberReply, leaderVars, saveVars
<1>2. ASSUME NEW g \in Getter, GetNext(g) PROVE Quiet
  BY <1>2 DEF GetNext, GetCall, GetCheck, MemberRead, GetAnswer, GetMiss, GetNotFound,
              leaderVars, saveVars
<1>3. ASSUME NEW m \in Member, MemberNext(m) PROVE Quiet
  BY <1>3 DEF MemberNext, MemberStart, RegisterMember, RegisterReply, RegisterFail, MemberCrash,
              Heartbeat, TimePasses, leaderVars, saveVars
<1>4. WatcherTick \/ UNCHANGED vars => Quiet
  BY DEF WatcherTick, vars, leaderVars, saveVars
<1> HIDE DEF Quiet
<1>5. Quiet \/ (\E p \in Proc : SaveBegin(p) \/ SaveEnd(p) \/ SaveError(p))
            \/ LeaderCrash \/ LeaderStart
  BY <1>1, <1>2, <1>3, <1>4 DEF Next, SaveNext
<1> QED
  BY <1>5 DEF Quiet

(* Outside the saves nobody is answered OK, and no entry is dropped while the   *)
(* leader runs.                                                                 *)
LEMMA EntriesStay ==
  ASSUME TypeOK, [Next]_vars
  PROVE  \/ /\ \A o \in Op : pc'[o] = "ok" => pc[o] = "ok"
            /\ \A i \in Id : msgMap[i] # {} => msgMap'[i] # {}
            /\ \A i \in Id : msgMap'[i] # {} =>
                 msgMap[i] # {} \/ \E o \in want' \cap Op : opId[o] = i
         \/ \E o \in Op : SaveEnd(o) \/ SaveError(o)
         \/ LeaderCrash
         \/ LeaderStart
<1> DEFINE Stay == /\ \A o \in Op : pc'[o] = "ok" => pc[o] = "ok"
                   /\ \A i \in Id : msgMap[i] # {} => msgMap'[i] # {}
                   /\ \A i \in Id : msgMap'[i] # {} =>
                        msgMap[i] # {} \/ \E o \in want' \cap Op : opId[o] = i
<1>1. UNCHANGED <<pc, msgMap>> => Stay
  OBVIOUS
<1>2. ASSUME NEW o \in Op, StoreCall(o) PROVE Stay
  <2>1. /\ msgMap' = msgMap /\ pc \in [Op -> {"idle", "send", "save", "ok", "failed", "lost"}]
        /\ pc' = [pc EXCEPT ![o] = "failed"] \/ pc' = [pc EXCEPT ![o] = "send"]
    BY <1>2 DEF StoreCall, leaderVars, TypeOK
  <2> QED
    BY <2>1
<1>3. ASSUME NEW o \in Op, StoreCollect(o) PROVE Stay
  <2>1. /\ pc \in [Op -> {"idle", "send", "save", "ok", "failed", "lost"}]
        /\ msgMap \in [Id -> SUBSET Member] /\ opId[o] \in Id
    BY DEF TypeOK
  <2>2. \/ /\ Succeeded(o) # {} /\ msgMap' = [msgMap EXCEPT ![opId[o]] = Succeeded(o)]
           /\ want' = want \cup {o} /\ pc' = [pc EXCEPT ![o] = "save"]
        \/ msgMap' = msgMap /\ pc' = [pc EXCEPT ![o] = "failed"]
    BY <1>3, CommitStep
  <2> QED
    BY <2>1, <2>2
<1> HIDE DEF Stay
<1>4. Stay \/ (\E o \in Op : SaveEnd(o) \/ SaveError(o)) \/ LeaderCrash \/ LeaderStart
  BY <1>1, <1>2, <1>3, PcStep
<1> QED
  BY <1>4 DEF Stay

LEMMA SaveEndStep ==
  ASSUME NEW p \in Proc, SaveEnd(p)
  PROVE  /\ file'.state.msgMap = msgMap /\ file'.state.memberLog = memberLog
         /\ UNCHANGED <<msgMap, memberLog, lost, leaderUp>>
         /\ pc' = IF p \in Op THEN [pc EXCEPT ![p] = "ok"] ELSE pc
         /\ saver = p
BY DEF SaveEnd, AfterSave, LeaderState, leaderVars

LEMMA NextAcked == TypeOK /\ SaveInv /\ AckedIndexed /\ [Next]_vars => AckedIndexed'
<1> SUFFICES ASSUME TypeOK, SaveInv, AckedIndexed, [Next]_vars, ~lost',
                    NEW o \in Op, pc'[o] = "ok"
             PROVE  /\ leaderUp' => msgMap'[opId[o]] # {}
                    /\ file'.status # "torn" => file'.state.msgMap[opId[o]] # {}
  BY OpIdConstant DEF AckedIndexed
<1>1. opId[o] \in Id /\ pc \in [Op -> {"idle", "send", "save", "ok", "failed", "lost"}]
  BY DEF TypeOK
<1>2. ASSUME pc[o] = "ok", ~lost
      PROVE  /\ leaderUp => msgMap[opId[o]] # {}
             /\ file.status # "torn" => file.state.msgMap[opId[o]] # {}
  BY <1>2 DEF AckedIndexed
<1>3. ASSUME NEW p \in Proc, SaveEnd(p)
      PROVE  msgMap'[opId[o]] # {} /\ file'.state.msgMap[opId[o]] # {}
  <2>1. msgMap[opId[o]] # {}
    <3>1. p \in want /\ leaderUp /\ ~lost
      BY <1>3, SaveEndStep, SentinelAssumption DEF SaveInv, Proc
    <3>2. pc[o] = "ok" \/ (o = p /\ pc[o] = "save")
      BY <1>1, <1>3, <3>1, SaveEndStep DEF SaveInv
    <3> QED
      BY <1>2, <3>1, <3>2 DEF SaveInv
  <2> QED
    BY <1>3, <2>1, SaveEndStep
<1>4. ASSUME NEW p \in Proc, SaveError(p) PROVE FALSE
  BY <1>4 DEF SaveError
<1>5. ASSUME NEW p \in Proc, SaveBegin(p)
      PROVE  file'.status = "torn" /\ UNCHANGED <<pc, msgMap, lost, leaderUp>>
  BY <1>5 DEF SaveBegin, leaderVars, storeVars
<1>6. ASSUME LeaderCrash
      PROVE  ~leaderUp' /\ UNCHANGED <<file, lost>> /\ pc[o] = "ok"
  BY <1>1, <1>6 DEF LeaderCrash
<1>7. ASSUME LeaderStart
      PROVE  /\ UNCHANGED <<pc, file>> /\ msgMap' = file.state.msgMap
             /\ ~lost /\ file.status # "torn"
  BY <1>7 DEF LeaderStart, storeVars
<1>8. CASE /\ UNCHANGED <<file, lost, leaderUp>>
           /\ pc[o] = "ok" /\ (msgMap[opId[o]] # {} => msgMap'[opId[o]] # {})
  BY <1>2, <1>8
<1>9. Op \subseteq Proc
  BY DEF Proc
<1>10. CASE \E p \in Proc : SaveBegin(p) \/ SaveEnd(p) \/ SaveError(p)
  BY <1>2, <1>3, <1>4, <1>5, <1>10
<1>11. CASE LeaderCrash \/ LeaderStart
  BY <1>2, <1>6, <1>7, <1>11
<1> QED
  BY <1>1, <1>8, <1>9, <1>10, <1>11, QuietStep, EntriesStay

(* An acknowledged id stays in the index and in every state file that can be    *)
(* read, for any number of SETs, members and crashes (AckedIndexed): by SaveInv *)
(* a SET is answered by a save that sees its entry, and a save replaces the     *)
(* file by what is in memory at that moment.                                    *)
THEOREM AckedAlwaysIndexed == Spec => []AckedIndexed
<1>1. Init => AckedIndexed
  BY DEF Init, AckedIndexed
<1> QED
  BY <1>1, NextAcked, InitSave, NextSave, TypeCorrect, PTL DEF Spec

LEMMA NextPending == TypeOK /\ UnsavedIsPending /\ [Next]_vars => UnsavedIsPending'
<1> SUFFICES ASSUME TypeOK, UnsavedIsPending, [Next]_vars,
                    leaderUp', ~lost', file'.status # "torn"
             PROVE  /\ \A m \in Member : memberLog'[m] # NoInfo =>
                         m \in want' \/ file'.state.memberLog[m] # NoInfo
                    /\ \A i \in Id : msgMap'[i] # {} =>
                         (\E o \in want' \cap Op : opId[o] = i) \/ file'.state.msgMap[i] # {}
  BY OpIdConstant DEF UnsavedIsPending
<1>1. ASSUME NEW p \in Proc, SaveBegin(p) \/ SaveError(p) PROVE FALSE
  BY <1>1 DEF SaveBegin, SaveError
<1>2. CASE \E p \in Proc : SaveEnd(p)
  BY <1>2, SaveEndStep
<1>3. CASE LeaderCrash
  BY <1>3 DEF LeaderCrash
<1>4. CASE LeaderStart
  BY <1>4 DEF LeaderStart, LoadedLog
<1>5. CASE /\ UNCHANGED <<file, lost, leaderUp>> /\ want \subseteq want'
           /\ ~LeaderCrash /\ ~LeaderStart /\ ~(\E p \in Proc : SaveEnd(p) \/ SaveError(p))
  <2>1. \A m \in Member : memberLog'[m] # NoInfo => memberLog[m] # NoInfo \/ m \in want'
    <3>1. CASE Keeps
      BY <3>1 DEF Keeps
    <3>2. ASSUME NEW n \in Member, Gains(n)
          PROVE  \A m \in Member : memberLog'[m] # NoInfo => memberLog[m] # NoInfo \/ m \in want'
      BY <3>2 DEF Gains, TypeOK
    <3>3. ASSUME NEW o \in Op, StoreCollect(o)
          PROVE  \A m \in Member : memberLog'[m] # NoInfo => memberLog[m] # NoInfo
      BY <3>3, CountedLogType DEF StoreCollect, TypeOK
    <3> QED
      BY <1>5, <3>1, <3>2, <3>3, RegistryStep
  <2>2. \A i \in Id : msgMap'[i] # {} => msgMap[i] # {} \/ \E o \in want' \cap Op : opId[o] = i
    BY <1>5, EntriesStay DEF Proc
  <2> QED
    BY <1>5, <2>1, <2>2 DEF UnsavedIsPending
<1> QED
  BY <1>1, <1>2, <1>3, <1>4, <1>5, QuietStep

(* Whatever a running leader knows is in its state file or has a caller of      *)
(* saveState that is still to come (UnsavedIsPending).                          *)
THEOREM UnsavedAlwaysPending == Spec => []UnsavedIsPending
<1>1. Init => UnsavedIsPending
  BY DEF Init, UnsavedIsPending, NoMap, KnownLog, LeaderState, RangeOf
<1> QED
  BY <1>1, NextPending, TypeCorrect, PTL DEF Spec

-------------------------------------------------------------------------------
(* The refinement *)

(* The names of the stages of a SET.                                            *)
LEMMA Stages ==
  /\ AnswerOf("idle") = "none" /\ AnswerOf("send") = "open" /\ AnswerOf("save") = "committed"
  /\ AnswerOf("ok") = "ok" /\ AnswerOf("failed") = "failed" /\ AnswerOf("lost") = "lost"
BY DEF AnswerOf

LEMMA AnswerMoves ==
  ASSUME TypeOK, NEW o \in Op, NEW s, pc' = [pc EXCEPT ![o] = s]
  PROVE  Answer' = [Answer EXCEPT ![o] = AnswerOf(s)]
BY DEF Answer, TypeOK

(* What a step does to the files, seen as the set of pairs.                     *)
LEMMA WrittenMoves ==
  ASSUME TypeOK, NEW m \in Member, NEW i \in Id, NEW c, c # NoFile,
         disk' = [disk EXCEPT ![m][i] = c]
  PROVE  Written' = Written \cup {<<m, i>>}
<1>1. ASSUME NEW w \in Member \X Id
      PROVE  disk'[w[1]][w[2]] # NoFile <=> disk[w[1]][w[2]] # NoFile \/ w = <<m, i>>
  <2>1. PICK n \in Member, j \in Id : w = <<n, j>>
    OBVIOUS
  <2>2. disk'[n][j] = IF n = m /\ j = i THEN c ELSE disk[n][j]
    BY DEF TypeOK
  <2> QED
    BY <2>1, <2>2
<1> QED
  BY <1>1 DEF Written

(* Every step of the leader and its members is a step of DurableIndex.          *)
LEMMA NextImplements ==
  TypeOK /\ SaveInv /\ IndexInv /\ [Next]_vars => [Index!Next]_(Index!vars)
<1> SUFFICES ASSUME TypeOK, SaveInv, IndexInv, [Next]_vars
             PROVE  Index!Next \/ UNCHANGED Index!vars
  OBVIOUS
<1> USE OpIdConstant, Stages
<1>1. /\ opId' = opId /\ opId \in [Op -> Id]
      /\ \A o \in Op : Answer[o] = AnswerOf(pc[o])
      /\ \A o \in Op : pc[o] \in {"idle", "send", "save", "ok", "failed", "lost"}
  BY DEF TypeOK, Answer
<1> DEFINE Same == /\ UNCHANGED <<leaderUp, msgMap>> /\ file'.state.msgMap = file.state.msgMap
                   /\ UNCHANGED <<disk, pc>>
<1>2. Same => UNCHANGED Index!vars
  BY <1>1 DEF Index!vars, Written, Answer
<1>3. ASSUME NEW o \in Op, NEW m \in Member,
             RpcFail(o, m) \/ MemberDrop(o, m) \/ MemberWriteError(o, m) \/ MemberReply(o, m)
      PROVE  Same
  BY <1>3 DEF RpcFail, MemberDrop, MemberWriteError, MemberReply, leaderVars, saveVars
<1>4. ASSUME NEW g \in Getter, GetNext(g) PROVE Same
  BY <1>4 DEF GetNext, GetCall, GetCheck, MemberRead, GetAnswer, GetMiss, GetNotFound,
              leaderVars, saveVars, storeVars
<1>5. ASSUME NEW m \in Member, MemberNext(m) PROVE Same
  BY <1>5 DEF MemberNext, MemberStart, RegisterMember, RegisterReply, RegisterFail, MemberCrash,
              Heartbeat, TimePasses, leaderVars, saveVars, storeVars
<1>6. WatcherTick \/ UNCHANGED vars => Same
  BY DEF WatcherTick, vars, leaderVars, saveVars, storeVars
<1>7. ASSUME NEW o \in Op, NEW m \in Member, MemberOpen(o, m) \/ MemberWritePart(o, m) \/ MemberFlush(o, m)
      PROVE  Index!Write(m, opId[o])
  <2>1. PICK c \in Op \cup {Partial, Mixed} : disk' = [disk EXCEPT ![m][opId[o]] = c]
    BY <1>7 DEF MemberOpen, MemberWritePart, MemberFlush
  <2>2. c # NoFile
    BY SentinelAssumption
  <2>3. Written' = Written \cup {<<m, opId[o]>>}
    BY <1>1, <2>1, <2>2, WrittenMoves
  <2>4. UNCHANGED <<leaderUp, msgMap, file, pc>>
    BY <1>7 DEF MemberOpen, MemberWritePart, MemberFlush, leaderVars, saveVars, storeVars
  <2> QED
    BY <1>1, <2>3, <2>4 DEF Index!Write, Answer
<1>8. ASSUME NEW o \in Op, StoreCall(o) PROVE Index!Accept(o) \/ Index!Refuse(o)
  <2>1. /\ leaderUp /\ pc[o] = "idle"
        /\ \/ pc' = [pc EXCEPT ![o] = "failed"]
           \/ pc' = [pc EXCEPT ![o] = "send"]
        /\ UNCHANGED <<leaderUp, msgMap, file, disk>>
    BY <1>8 DEF StoreCall, LockFree, leaderVars, saveVars
  <2>2. Written' = Written
    BY <2>1 DEF Written
  <2>3. CASE pc' = [pc EXCEPT ![o] = "failed"]
    <3>1. Answer' = [Answer EXCEPT ![o] = "failed"]
      BY <2>3, AnswerMoves
    <3> QED
      BY <1>1, <2>1, <2>2, <3>1 DEF Index!Refuse, Index!Answered
  <2>4. CASE pc' = [pc EXCEPT ![o] = "send"]
    <3>1. Answer' = [Answer EXCEPT ![o] = "open"]
      BY <2>4, AnswerMoves
    <3> QED
      BY <1>1, <2>1, <2>2, <3>1 DEF Index!Accept, Index!Answered
  <2> QED
    BY <2>1, <2>3, <2>4
<1>9. ASSUME NEW o \in Op, StoreCollect(o) PROVE Index!Commit(o) \/ Index!Refuse(o)
  <2>1. leaderUp /\ pc[o] = "send" /\ UNCHANGED <<leaderUp, file, disk>>
    BY <1>9 DEF StoreCollect
  <2>2. Written' = Written
    BY <2>1 DEF Written
  <2>3. CASE pc' = [pc EXCEPT ![o] = "failed"] /\ msgMap' = msgMap
    <3>1. Answer' = [Answer EXCEPT ![o] = "failed"]
      BY <2>3, AnswerMoves
    <3> QED
      BY <1>1, <2>1, <2>2, <2>3, <3>1 DEF Index!Refuse, Index!Answered
  <2>4. CASE /\ Cardinality(Succeeded(o)) >= Tolerance
             /\ msgMap' = [msgMap EXCEPT ![opId[o]] = Succeeded(o)]
             /\ pc' = [pc EXCEPT ![o] = "save"]
    <3>1. pc' = [pc EXCEPT ![o] = "save"]
      BY <2>4
    <3>2. Answer' = [Answer EXCEPT ![o] = AnswerOf("save")]
      BY <3>1, AnswerMoves
    <3>3. Answer' = [Answer EXCEPT ![o] = "committed"]
      BY <3>2, Stages
    <3>4. Cardinality(Succeeded(o)) = Tolerance
      BY <2>4, ContactedFinite, LeaderAssumption DEF IndexInv, TargetsBounded
    <3>5. \A m \in Succeeded(o) : <<m, opId[o]>> \in Written
      BY <1>1 DEF Succeeded, IndexInv, WrittenFirst, Written
    <3>6. Succeeded(o) \in SUBSET Member
      BY DEF Succeeded
    <3>7. leaderUp /\ Answer[o] = "open"
      BY <1>1, <2>1, Stages
    <3>8. \E S \in Replicas :
            /\ \A m \in S : <<m, opId[o]>> \in Written
            /\ msgMap' = [msgMap EXCEPT ![opId[o]] = S]
      BY <2>4, <3>4, <3>5, <3>6 DEF Replicas
    <3>9. UNCHANGED <<leaderUp, file.state.msgMap, Written, opId>>
      BY <1>1, <2>1, <2>2
    <3>10. Index!Answered(o, {"open"}, "committed")
      BY <3>3, <3>7 DEF Index!Answered
    <3>11. Index!Commit(o)
      BY <3>8, <3>9, <3>10 DEF Index!Commit
    <3> QED
      BY <3>11
  <2>5. \/ /\ Cardinality(Succeeded(o)) >= Tolerance
           /\ msgMap' = [msgMap EXCEPT ![opId[o]] = Succeeded(o)]
           /\ pc' = [pc EXCEPT ![o] = "save"]
        \/ pc' = [pc EXCEPT ![o] = "failed"] /\ msgMap' = msgMap
    BY <1>9, CommitStep
  <2> QED
    BY <2>3, <2>4, <2>5
<1>10. ASSUME NEW p \in Proc, SaveBegin(p) PROVE Index!BeginSave
  <2>1. /\ leaderUp /\ file'.state.msgMap = Index!NoIndex
        /\ UNCHANGED <<leaderUp, msgMap, disk, pc>>
    BY <1>10 DEF SaveBegin, LockFree, EmptyState, LeaderState, NoMap, Index!NoIndex, leaderVars,
                storeVars
  <2> QED
    BY <1>1, <2>1 DEF Index!BeginSave, Written, Answer
<1>11. ASSUME NEW p \in Proc, SaveEnd(p) \/ SaveError(p)
       PROVE  Index!Next \/ UNCHANGED Index!vars
  <2>1. /\ AfterSave(p) /\ UNCHANGED <<leaderUp, msgMap, disk>>
        /\ p \in want /\ leaderUp
    BY <1>11, SentinelAssumption DEF SaveEnd, SaveError, AfterSave, LockFree, leaderVars, SaveInv, Proc
  <2>2. \/ file'.state.msgMap = msgMap
        \/ SaveMayFail /\ file'.state.msgMap = file.state.msgMap
    BY <1>11 DEF SaveEnd, SaveError, LeaderState
  <2>3. Written' = Written
    BY <2>1 DEF Written
  <2>4. CASE p \in Op
    <3>1. pc[p] = "save" /\ pc' = [pc EXCEPT ![p] = "ok"]
      BY <2>1, <2>4 DEF AfterSave, SaveInv
    <3>2. Answer' = [Answer EXCEPT ![p] = "ok"]
      BY <2>4, <3>1, AnswerMoves
    <3>3. Index!Ack(p)
      BY <1>1, <2>1, <2>2, <2>3, <2>4, <3>1, <3>2 DEF Index!Ack, Index!Answered
    <3> QED
      BY <2>4, <3>3 DEF Index!Next
  <2>5. CASE p \notin Op
    <3>1. pc' = pc /\ Answer' = Answer
      BY <2>1, <2>5 DEF AfterSave, Answer
    <3>2. CASE file'.state.msgMap = msgMap
      <4>1. Index!Save
        BY <1>1, <2>1, <2>3, <3>1, <3>2 DEF Index!Save
      <4> QED
        BY <4>1 DEF Index!Next
    <3>3. CASE file'.state.msgMap = file.state.msgMap
      BY <1>2, <2>1, <3>1, <3>3
    <3> QED
      BY <2>2, <3>2, <3>3
  <2> QED
    BY <2>4, <2>5
<1>12. ASSUME LeaderCrash PROVE Index!Crash
  <2>1. /\ leaderUp /\ leaderUp' = FALSE /\ msgMap' = Index!NoIndex
        /\ UNCHANGED <<file, disk>>
    BY <1>12 DEF LeaderCrash, NoMap, Index!NoIndex
  <2>2. Answer' = [o \in Op |-> IF Answer[o] \in {"open", "committed"} THEN "lost" ELSE Answer[o]]
    <3>1. ASSUME NEW o \in Op
          PROVE  AnswerOf(pc'[o]) = IF Answer[o] \in {"open", "committed"} THEN "lost" ELSE Answer[o]
      BY <1>1, <1>12 DEF LeaderCrash
    <3> QED
      BY <3>1 DEF Answer
  <2> QED
    BY <1>1, <2>1, <2>2 DEF Index!Crash, Written
<1>13. ASSUME LeaderStart PROVE Index!Recover
  BY <1>1, <1>13 DEF LeaderStart, Index!Recover, Written, Answer, storeVars
<1> DEFINE Step == Index!Next \/ UNCHANGED Index!vars
<1>14. ASSUME NEW o \in Op, StoreNext(o) PROVE Step
  <2>1. CASE \E m \in Member : RpcFail(o, m) \/ MemberDrop(o, m) \/ MemberWriteError(o, m)
                              \/ MemberReply(o, m)
    <3>1. Same
      BY <1>3, <2>1
    <3> QED
      BY <1>2, <3>1
  <2>2. CASE \E m \in Member : MemberOpen(o, m) \/ MemberWritePart(o, m) \/ MemberFlush(o, m)
    <3>1. PICK m \in Member : Index!Write(m, opId[o])
      BY <1>7, <2>2
    <3> QED
      BY <1>1, <3>1 DEF Index!Next
  <2>3. CASE StoreCall(o) \/ StoreCollect(o)
    <3>1. Index!Accept(o) \/ Index!Refuse(o) \/ Index!Commit(o)
      BY <1>8, <1>9, <2>3
    <3> QED
      BY <3>1 DEF Index!Next
  <2> HIDE DEF Step
  <2> QED
    BY <1>14, <2>1, <2>2, <2>3 DEF StoreNext
<1>15. ASSUME NEW p \in Proc, SaveNext(p) PROVE Step
  <2>1. CASE SaveBegin(p)
    <3>1. Index!BeginSave
      BY <1>10, <2>1
    <3> QED
      BY <3>1 DEF Index!Next
  <2>2. CASE SaveEnd(p) \/ SaveError(p)
    BY <1>11, <2>2
  <2> HIDE DEF Step
  <2> QED
    BY <1>15, <2>1, <2>2 DEF SaveNext
<1>16. LeaderCrash \/ LeaderStart => Step
  BY <1>12, <1>13 DEF Index!Next
<1>17. (\E g \in Getter : GetNext(g)) \/ (\E m \in Member : MemberNext(m))
       \/ WatcherTick \/ UNCHANGED vars => Step
  <2>1. (\E g \in Getter : GetNext(g)) \/ (\E m \in Member : MemberNext(m))
        \/ WatcherTick \/ UNCHANGED vars => Same
    <3> HIDE DEF Same
    <3> QED
      BY <1>4, <1>5, <1>6
  <2> QED
    BY <1>2, <2>1
<1> HIDE DEF Step
<1>18. Step
  BY <1>14, <1>15, <1>16, <1>17 DEF Next
<1> QED
  BY <1>18 DEF Step

(* The leader implements DurableIndex: its message index and its answers behave *)
(* as that module says, whatever the RPCs, locks, registrations, heartbeats,    *)
(* saves and crashes beneath them do, for any number of SETs, members and ids.  *)
THEOREM LeaderImplementsIndex == Spec => ImplementsIndex
<1>1. Init => Index!Init
  <2> SUFFICES ASSUME Init PROVE Index!Init
    OBVIOUS
  <2>1. msgMap = Index!NoIndex /\ file.state.msgMap = Index!NoIndex
    BY DEF Init, EmptyState, LeaderState, NoMap, Index!NoIndex
  <2>2. Written = {}
    BY DEF Init, Written
  <2>3. Answer = [o \in Op |-> "none"]
    BY Stages DEF Init, Answer
  <2> QED
    BY <2>1, <2>2, <2>3 DEF Init, Index!Init
<1> QED
  BY <1>1, NextImplements, InitType, NextType, InitSave, NextSave, InitIndex, NextIndex, PTL
     DEF Spec, ImplementsIndex, Index!Spec

-------------------------------------------------------------------------------
(* MessageCnt and MsgMap *)

USE DEF leaderVars, saveVars, crashVars, storeVars, getVars

(* A SET in progress has contacted members that the leader knows, and a leader *)
(* that is not running has no SET in progress.                                 *)
TargetsKnown ==
  /\ ~leaderUp => \A o \in Op : pc[o] # "send"
  /\ \A o \in Op, m \in Member : pc[o] = "send" /\ rpc[o][m] # "none" => memberLog[m] # NoInfo

(* Only StoreCall brings a SET into "send", and it picks registered members.   *)
LEMMA SendStep ==
  ASSUME TypeOK, [Next]_vars, NEW o \in Op, pc'[o] = "send"
  PROVE  pc[o] = "send" \/ StoreCall(o)
<1> USE DEF TypeOK
<1>1. CASE UNCHANGED pc
  BY <1>1
<1>2. ASSUME NEW p \in Op, StoreCall(p) \/ StoreCollect(p), ~StoreCall(o) PROVE pc[o] = "send"
  <2>1. pc' \in {[pc EXCEPT ![p] = "failed"], [pc EXCEPT ![p] = "send"], [pc EXCEPT ![p] = "save"]}
    BY <1>2 DEF StoreCall, StoreCollect
  <2>2. CASE p = o
    BY <1>2, <2>2 DEF StoreCollect
  <2>3. CASE p # o
    BY <2>1, <2>3
  <2> QED
    BY <2>2, <2>3
<1>3. ASSUME NEW p \in Op, SaveEnd(p) \/ SaveError(p) PROVE pc[o] = "send"
  BY <1>3 DEF SaveEnd, SaveError, AfterSave
<1>4. CASE LeaderCrash \/ LeaderStart
  BY <1>4 DEF LeaderCrash, LeaderStart
<1> QED
  BY <1>1, <1>2, <1>3, <1>4, PcStep

LEMMA StoreCallKnown ==
  ASSUME TypeOK, NEW o \in Op, StoreCall(o), NEW m \in Member,
         pc'[o] = "send", rpc'[o][m] # "none"
  PROVE  memberLog'[m] # NoInfo
<1>1. PICK S \in Picks(Strategy, Candidates, Load, Tolerance) :
        IF Cardinality(S) < Tolerance
          THEN pc' = [pc EXCEPT ![o] = "failed"]
          ELSE rpc' = [rpc EXCEPT ![o] = [n \in Member |-> IF n \in S THEN "pending" ELSE "none"]]
  BY DEF StoreCall
<1>2. Candidates \subseteq Member /\ IsFiniteSet(Candidates)
  <2>1. RangeOf(members) \subseteq Member
    BY DEF TypeOK, RangeOf
  <2> QED
    BY <2>1, LeaderAssumption, FS_Subset DEF Candidates
<1>3. Load \in [Candidates -> Nat]
  BY <1>2 DEF Load, Candidates, IsAlive, TypeOK, Info
<1>4. S \subseteq Candidates
  <2>1. Candidates \in SUBSET Nat /\ Tolerance \in Nat
    BY <1>2, LeaderAssumption
  <2> QED
    BY <1>2, <1>3, <2>1, PickBounded
<1>5. m \in S
  BY <1>1 DEF TypeOK
<1> QED
  BY <1>4, <1>5 DEF Candidates, IsAlive, StoreCall

(* The process dies and starts in its own two steps, and a SET begins while it *)
(* runs.                                                                       *)
LEMMA UpStep ==
  ASSUME [Next]_vars
  PROVE  leaderUp' = leaderUp \/ LeaderCrash \/ LeaderStart
<1>1. ASSUME NEW o \in Op, StoreNext(o) PROVE leaderUp' = leaderUp
  BY <1>1 DEF StoreNext, StoreCall, StoreCollect, RpcFail, MemberOpen, MemberDrop, MemberWritePart, MemberFlush,
              MemberWriteError, MemberReply
<1>2. ASSUME NEW g \in Getter, GetNext(g) PROVE leaderUp' = leaderUp
  BY <1>2 DEF GetNext, GetCall, GetCheck, MemberRead, GetAnswer, GetMiss, GetNotFound
<1>3. ASSUME NEW m \in Member, MemberNext(m) PROVE leaderUp' = leaderUp
  BY <1>3 DEF MemberNext, MemberStart, RegisterMember, RegisterReply, RegisterFail,
              MemberCrash, Heartbeat, TimePasses
<1>4. ASSUME NEW p \in Proc, SaveNext(p) PROVE leaderUp' = leaderUp
  BY <1>4 DEF SaveNext, SaveBegin, SaveEnd, SaveError, AfterSave
<1>5. WatcherTick \/ UNCHANGED vars => leaderUp' = leaderUp
  BY DEF WatcherTick, vars
<1> QED
  BY <1>1, <1>2, <1>3, <1>4, <1>5 DEF Next

(* The leader forgets a member only with its process.                          *)
LEMMA EntryStays ==
  ASSUME TypeOK, [Next]_vars, NEW m \in Member, memberLog[m] # NoInfo
  PROVE  memberLog'[m] # NoInfo \/ LeaderCrash \/ LeaderStart
<1>1. ASSUME NEW o \in Op, StoreCollect(o) PROVE memberLog'[m] # NoInfo
  BY <1>1, CountedLogType DEF StoreCollect, TypeOK
<1>2. ASSUME NEW n \in Member, Gains(n) PROVE memberLog'[m] # NoInfo
  BY <1>2 DEF Gains, TypeOK
<1> QED
  BY <1>1, <1>2, RegistryStep DEF Keeps

LEMMA NextKnown == TypeOK /\ TargetsKnown /\ [Next]_vars => TargetsKnown'
<1> SUFFICES ASSUME TypeOK, TargetsKnown, [Next]_vars PROVE TargetsKnown'
  OBVIOUS
<1>1. ASSUME ~leaderUp', NEW o \in Op, pc'[o] = "send" PROVE FALSE
  <2>1. CASE LeaderCrash
    BY <1>1, <2>1 DEF LeaderCrash, TypeOK
  <2>2. CASE LeaderStart
    BY <1>1, <2>2 DEF LeaderStart
  <2>3. CASE leaderUp' = leaderUp
    BY <1>1, <2>3, SendStep DEF TargetsKnown, StoreCall, LockFree
  <2> QED
    BY <2>1, <2>2, <2>3, UpStep
<1>2. ASSUME NEW o \in Op, NEW m \in Member, pc'[o] = "send", rpc'[o][m] # "none"
      PROVE  memberLog'[m] # NoInfo
  <2>1. CASE StoreCall(o)
    BY <1>2, <2>1, StoreCallKnown
  <2>2. CASE ~StoreCall(o)
    <3>1. pc[o] = "send" /\ rpc[o][m] # "none"
      BY <1>2, <2>2, SendStep, RpcStep DEF RpcMoves
    <3>2. ~LeaderCrash /\ ~LeaderStart
      BY <1>2, <3>1 DEF LeaderCrash, LeaderStart, TypeOK, TargetsKnown
    <3> QED
      BY <3>1, <3>2, EntryStays DEF TargetsKnown
  <2> QED
    BY <2>1, <2>2
<1> QED
  BY <1>1, <1>2 DEF TargetsKnown

(* A set of ids that all name a member, with and without one of them.          *)
LEMMA IdSets ==
  ASSUME NEW J \in SUBSET Id, NEW i \in Id
  PROVE  /\ IsFiniteSet(J) /\ Cardinality(J) \in Nat
         /\ IsFiniteSet(J \ {i}) /\ Cardinality(J \ {i}) \in Nat
         /\ Cardinality(J) <= Cardinality(J \ {i}) + 1
         /\ Cardinality({}) = 0
<1>1. IsFiniteSet(J) /\ IsFiniteSet(J \ {i})
  BY LeaderAssumption, FS_Subset
<1>2. Cardinality(J) \in Nat /\ Cardinality(J \ {i}) \in Nat
  BY <1>1, FS_CardinalityType
<1>3. i \in J => Cardinality(J \ {i}) = Cardinality(J) - 1
  BY <1>1, FS_RemoveElement
<1>4. i \notin J => J \ {i} = J
  OBVIOUS
<1>5. Cardinality({}) = 0
  BY FS_EmptySet
<1>6. Cardinality(J) <= Cardinality(J \ {i}) + 1
  <2>1. CASE i \in J
    BY <1>2, <1>3, <2>1
  <2>2. CASE i \notin J
    BY <1>2, <1>4, <2>2
  <2> QED
    BY <2>1, <2>2
<1> QED
  BY <1>1, <1>2, <1>5, <1>6

(* StoreCollect counts every member that it enters into MsgMap.                *)
LEMMA HeldCollect ==
  ASSUME TypeOK, TargetsKnown, Held(memberLog, msgMap), NEW o \in Op, StoreCollect(o)
  PROVE  Held(memberLog', msgMap')
<1> SUFFICES ASSUME NEW m \in Member, NEW J \in SUBSET Id, J # {}, \A i \in J : m \in msgMap'[i]
             PROVE  memberLog'[m] # NoInfo /\ memberLog'[m].cnt >= Cardinality(J)
  BY DEF Held
<1> DEFINE K == J \ {opId[o]}
<1>1. /\ memberLog' = CountedLog(o) /\ pc[o] = "send"
      /\ msgMap' \in {msgMap, [msgMap EXCEPT ![opId[o]] = Succeeded(o)]}
      /\ opId[o] \in Id /\ msgMap \in [Id -> SUBSET Member]
  BY DEF StoreCollect, TypeOK
<1>2. \A i \in K : m \in msgMap[i]
  BY <1>1
<1>3. K # {} => memberLog[m] # NoInfo /\ memberLog[m].cnt >= Cardinality(K)
  BY <1>2 DEF Held
<1>4. memberLog[m] # NoInfo => memberLog[m] \in Info /\ memberLog[m].cnt \in Nat
  BY DEF TypeOK, Info
<1>5. CASE m \in Succeeded(o)
  <2>1. memberLog[m] # NoInfo
    BY <1>1, <1>5 DEF Succeeded, TargetsKnown
  <2>2. memberLog'[m] # NoInfo /\ memberLog'[m].cnt = memberLog[m].cnt + 1
    <3>1. memberLog'[m] = [memberLog[m] EXCEPT !.cnt = @ + 1]
      BY <1>1, <1>5, <2>1 DEF CountedLog
    <3>2. memberLog'[m] \in Info /\ memberLog'[m].cnt = memberLog[m].cnt + 1
      BY <1>4, <2>1, <3>1, CountedInfo
    <3> QED
      BY <3>2, SentinelAssumption DEF Info
  <2>3. /\ Cardinality(J) \in Nat /\ Cardinality(K) \in Nat
        /\ Cardinality(J) <= Cardinality(K) + 1 /\ Cardinality({}) = 0
    BY <1>1, IdSets
  <2>4. memberLog[m].cnt >= Cardinality(K)
    <3> HIDE DEF K
    <3> QED
      BY <1>3, <1>4, <2>1, <2>3
  <2> QED
    <3> HIDE DEF K
    <3> QED
      BY <1>4, <2>1, <2>2, <2>3, <2>4
<1>6. CASE m \notin Succeeded(o)
  <2>1. memberLog'[m] = memberLog[m]
    BY <1>1, <1>6 DEF CountedLog
  <2>2. \A i \in J : m \in msgMap[i]
    BY <1>1, <1>6
  <2> QED
    BY <2>1, <2>2 DEF Held
<1> QED
  BY <1>5, <1>6

LEMMA NextHeld ==
  TypeOK /\ TargetsKnown /\ CountCoversIndex /\ [Next]_vars => CountCoversIndex'
<1> SUFFICES ASSUME TypeOK, TargetsKnown, CountCoversIndex, [Next]_vars PROVE CountCoversIndex'
  OBVIOUS
<1>1. Held(memberLog, msgMap) /\ Held(file.state.memberLog, file.state.msgMap)
  BY DEF CountCoversIndex
<1>2. \A log : Held(log, NoMap)
  BY DEF Held, NoMap
<1>3. Held(memberLog', msgMap')
  <2>1. CASE Keeps
    BY <1>1, <2>1 DEF Keeps, Held
  <2>2. ASSUME NEW n \in Member, Gains(n) PROVE Held(memberLog', msgMap')
    <3>1. msgMap' = msgMap /\ \A m \in Member : m # n => memberLog'[m] = memberLog[m]
      BY <2>2 DEF Gains, TypeOK
    <3>2. \A i \in Id : n \notin msgMap[i]
      <4> SUFFICES ASSUME NEW i \in Id, n \in msgMap[i] PROVE FALSE
        OBVIOUS
      <4>1. memberLog[n] # NoInfo
        <5>1. {i} \in SUBSET Id /\ {i} # {} /\ \A j \in {i} : n \in msgMap[j]
          OBVIOUS
        <5> QED
          BY <1>1, <5>1 DEF Held
      <4> QED
        BY <2>2, <4>1 DEF Gains
    <3> QED
      BY <1>1, <3>1, <3>2 DEF Held
  <2>3. ASSUME NEW o \in Op, StoreCollect(o) PROVE Held(memberLog', msgMap')
    BY <1>1, <2>3, HeldCollect
  <2>4. CASE LeaderCrash
    BY <1>2, <2>4 DEF LeaderCrash
  <2>5. CASE LeaderStart
    BY <1>1, <2>5 DEF LeaderStart, LoadedLog
  <2> QED
    BY <2>1, <2>2, <2>3, <2>4, <2>5, RegistryStep
<1>4. Held(file'.state.memberLog, file'.state.msgMap)
  <2>1. CASE UNCHANGED file
    BY <1>1, <2>1
  <2>2. CASE file'.state = EmptyState
    BY <1>2, <2>2 DEF EmptyState, LeaderState
  <2>3. CASE file'.state = LeaderState(members, memberLog, msgMap)
    BY <1>1, <2>3 DEF LeaderState
  <2> QED
    BY <2>1, <2>2, <2>3, FileStep
<1> QED
  BY <1>3, <1>4 DEF CountCoversIndex

(* MessageCnt is never below the number of ids whose entry names the member,   *)
(* in memory or in the state file (CountCoversIndex): a member is counted in   *)
(* the step that enters it, TargetsKnown has it in MemberLog by then, and both *)
(* tables are saved and loaded together.                                       *)
THEOREM CountAlwaysCovers == Spec => []CountCoversIndex
<1>1. Init => TargetsKnown
  BY DEF Init, TargetsKnown
<1>2. Init => CountCoversIndex
  <2>1. Init => msgMap = NoMap /\ file.state.msgMap = NoMap
    BY DEF Init, EmptyState, LeaderState
  <2> QED
    BY <2>1 DEF CountCoversIndex, Held, NoMap
<1> QED
  BY <1>1, <1>2, NextKnown, NextHeld, TypeCorrect, PTL DEF Spec

-------------------------------------------------------------------------------
(* The copies of a SET *)

(* No other SET on the id of o has been made.                                  *)
Sole(o) == \A p \in Op \ {o} : opId[p] = opId[o] => pc[p] = "idle"

(* How far the RPC of o to m has come, and what m has then.                    *)
CopyAt(o, m) ==
  /\ rpc[o][m] = "none" => handler[o][m] = "none" /\ disk[m][opId[o]] = NoFile
  /\ rpc[o][m] = "ok" => handler[o][m] = "none" /\ disk[m][opId[o]] = o
  /\ handler[o][m] = "net" => disk[m][opId[o]] = NoFile
  /\ handler[o][m] = "open" => disk[m][opId[o]] = Partial
  /\ handler[o][m] = "written" => disk[m][opId[o]] = o

Untouched(o) == \A m \in Member : rpc[o][m] = "none" /\ handler[o][m] = "none"

CopyInv ==
  /\ \A o \in Op : pc[o] = "idle" => Untouched(o)
  /\ \A o \in Op : Sole(o) => \A m \in Member : CopyAt(o, m)
  /\ \A o \in Op : pc[o] \in {"save", "ok"} => Cardinality(Succeeded(o)) >= Tolerance

(* Who moves an RPC.                                                           *)
LEMMA RowStep ==
  ASSUME [Next]_vars
  PROVE  \/ UNCHANGED <<rpc, handler, disk>>
         \/ \E o \in Op : StoreCall(o)
         \/ \E o \in Op, m \in Member :
              \/ RpcFail(o, m) \/ MemberOpen(o, m) \/ MemberDrop(o, m) \/ MemberFlush(o, m)
              \/ MemberWritePart(o, m) \/ MemberWriteError(o, m) \/ MemberReply(o, m)
         \/ \E m \in Member : RegisterFail(m) \/ MemberCrash(m)
         \/ LeaderCrash
<1> DEFINE Same == UNCHANGED <<rpc, handler, disk>>
<1>1. ASSUME NEW o \in Op, StoreCollect(o) PROVE Same
  BY <1>1 DEF StoreCollect
<1>2. ASSUME NEW g \in Getter, GetNext(g) PROVE Same
  BY <1>2 DEF GetNext, GetCall, GetCheck, MemberRead, GetAnswer, GetMiss, GetNotFound
<1>3. ASSUME NEW m \in Member,
             \/ MemberStart(m) \/ RegisterMember(m) \/ RegisterReply(m)
             \/ Heartbeat(m) \/ TimePasses(m)
      PROVE  Same
  BY <1>3 DEF MemberStart, RegisterMember, RegisterReply, Heartbeat, TimePasses
<1>4. ASSUME NEW p \in Proc, SaveNext(p) PROVE Same
  BY <1>4 DEF SaveNext, SaveBegin, SaveEnd, SaveError, AfterSave
<1>5. WatcherTick \/ LeaderStart \/ UNCHANGED vars => Same
  BY DEF WatcherTick, LeaderStart, vars
<1> QED
  BY <1>1, <1>2, <1>3, <1>4, <1>5 DEF Next, StoreNext, MemberNext

(* A SET that has been made stays so.                                          *)
LEMMA MadeOnce ==
  ASSUME TypeOK, [Next]_vars, NEW o \in Op, pc[o] # "idle"
  PROVE  pc'[o] # "idle"
<1> USE DEF TypeOK
<1>1. CASE UNCHANGED pc
  BY <1>1
<1>2. ASSUME NEW p \in Op, StoreCall(p) \/ StoreCollect(p) \/ SaveEnd(p) \/ SaveError(p)
      PROVE  pc'[o] # "idle"
  <2>1. PICK v \in {"failed", "send", "save", "ok"} : pc' = [pc EXCEPT ![p] = v]
    BY <1>2 DEF StoreCall, StoreCollect, SaveEnd, SaveError, AfterSave
  <2> QED
    BY <2>1
<1>3. CASE LeaderCrash \/ LeaderStart
  BY <1>3 DEF LeaderCrash, LeaderStart
<1> QED
  BY <1>1, <1>2, <1>3, PcStep

LEMMA SoleBefore ==
  ASSUME TypeOK, [Next]_vars, NEW o \in Op, Sole(o)' PROVE Sole(o)
BY MadeOnce, OpIdConstant DEF Sole

(* The RPCs of a SET that is not made are not made either.                     *)
LEMMA NextUntouched ==
  ASSUME TypeOK, [Next]_vars, NEW o \in Op, pc[o] = "idle", Untouched(o), pc'[o] = "idle"
  PROVE  Untouched(o)'
<1> SUFFICES ASSUME NEW m \in Member PROVE rpc'[o][m] = "none" /\ handler'[o][m] = "none"
  BY DEF Untouched
<1> USE DEF TypeOK, Untouched
<1>1. CASE UNCHANGED <<rpc, handler>>
  BY <1>1
<1>2. ASSUME NEW p \in Op, StoreCall(p) PROVE rpc'[o][m] = "none" /\ handler'[o][m] = "none"
  <2>1. p # o
    BY <1>2 DEF StoreCall
  <2> QED
    BY <1>2, <2>1 DEF StoreCall
<1>3. ASSUME NEW p \in Op, NEW n \in Member,
             \/ RpcFail(p, n) \/ MemberOpen(p, n) \/ MemberDrop(p, n) \/ MemberFlush(p, n)
             \/ MemberWritePart(p, n) \/ MemberWriteError(p, n) \/ MemberReply(p, n)
      PROVE  rpc'[o][m] = "none" /\ handler'[o][m] = "none"
  <2>1. ~(p = o /\ n = m)
    BY <1>3 DEF RpcFail, MemberOpen, MemberDrop, MemberWritePart, MemberFlush, MemberWriteError, MemberReply
  <2> QED
    BY <1>3, <2>1 DEF RpcFail, MemberOpen, MemberDrop, MemberWritePart, MemberFlush, MemberWriteError, MemberReply
<1>4. ASSUME NEW n \in Member, RegisterFail(n) \/ MemberCrash(n)
      PROVE  rpc'[o][m] = "none" /\ handler'[o][m] = "none"
  BY <1>4 DEF RegisterFail, MemberCrash, HandlersWithout
<1>5. CASE LeaderCrash
  BY <1>5 DEF LeaderCrash
<1> QED
  BY <1>1, <1>2, <1>3, <1>4, <1>5, RowStep

(* Nobody else writes the file of a sole SET: another SET with a handler at m  *)
(* has been made, so it carries another id.                                    *)
LEMMA OthersElsewhere ==
  ASSUME TypeOK, CopyInv, NEW o \in Op, Sole(o), NEW p \in Op \ {o}, NEW n \in Member,
         handler[p][n] # "none"
  PROVE  opId[p] # opId[o]
BY DEF CopyInv, Sole, Untouched

LEMMA CopyMoves ==
  ASSUME TypeOK, CopyInv, [Next]_vars, NEW o \in Op, Sole(o), NEW m \in Member
  PROVE  CopyAt(o, m)'
<1> USE DEF TypeOK
<1>1. CopyAt(o, m) /\ opId' = opId /\ opId[o] \in Id
  BY OpIdConstant DEF CopyInv
<1>2. ASSUME rpc'[o][m] = rpc[o][m], handler'[o][m] = handler[o][m],
             disk'[m][opId[o]] = disk[m][opId[o]]
      PROVE  CopyAt(o, m)'
  BY <1>1, <1>2 DEF CopyAt
<1>3. CASE UNCHANGED <<rpc, handler, disk>>
  BY <1>2, <1>3
<1>4. ASSUME NEW p \in Op, StoreCall(p) PROVE CopyAt(o, m)'
  <2>1. disk' = disk
    BY <1>4 DEF StoreCall
  <2>2. CASE p = o
    <3>1. rpc[o][m] = "none" /\ handler[o][m] = "none" /\ disk[m][opId[o]] = NoFile
      BY <1>1, <1>4, <2>2 DEF StoreCall, CopyInv, Untouched, CopyAt
    <3>2. \/ rpc'[o][m] = "none" /\ handler'[o][m] = "none"
          \/ rpc'[o][m] = "pending" /\ handler'[o][m] = "net"
      BY <1>4, <2>2, <3>1 DEF StoreCall
    <3> QED
      BY <1>1, <2>1, <3>1, <3>2 DEF CopyAt
  <2>3. CASE p # o
    <3>1. rpc'[o] = rpc[o] /\ handler'[o] = handler[o]
      BY <1>4, <2>3 DEF StoreCall
    <3> QED
      BY <1>2, <2>1, <3>1
  <2> QED
    BY <2>2, <2>3
<1>5. ASSUME NEW p \in Op, NEW n \in Member, ~(p = o /\ n = m),
             \/ RpcFail(p, n) \/ MemberOpen(p, n) \/ MemberDrop(p, n) \/ MemberFlush(p, n)
             \/ MemberWritePart(p, n) \/ MemberWriteError(p, n) \/ MemberReply(p, n)
      PROVE  CopyAt(o, m)'
  <2>1. rpc'[o][m] = rpc[o][m] /\ handler'[o][m] = handler[o][m]
    <3>1. rpc' = rpc \/ \E v : rpc' = [rpc EXCEPT ![p][n] = v]
      BY <1>5 DEF RpcFail, MemberOpen, MemberDrop, MemberWritePart, MemberFlush, MemberWriteError, MemberReply
    <3>2. handler' = handler \/ \E v : handler' = [handler EXCEPT ![p][n] = v]
      BY <1>5 DEF RpcFail, MemberOpen, MemberDrop, MemberWritePart, MemberFlush, MemberWriteError, MemberReply
    <3>3. \A v : [rpc EXCEPT ![p][n] = v][o][m] = rpc[o][m]
      BY <1>5
    <3>4. \A v : [handler EXCEPT ![p][n] = v][o][m] = handler[o][m]
      BY <1>5
    <3>5. rpc'[o][m] = rpc[o][m]
      BY ONLY <3>1, <3>3
    <3>6. handler'[o][m] = handler[o][m]
      BY ONLY <3>2, <3>4
    <3> QED
      BY <3>5, <3>6
  <2>2. disk'[m][opId[o]] = disk[m][opId[o]]
    <3>1. CASE MemberOpen(p, n) \/ MemberWritePart(p, n) \/ MemberFlush(p, n)
      <4>1. PICK c : disk' = [disk EXCEPT ![n][opId[p]] = c]
        BY <3>1 DEF MemberOpen, MemberWritePart, MemberFlush
      <4>2. handler[p][n] # "none"
        BY <3>1 DEF MemberOpen, MemberWritePart, MemberFlush
      <4>3. n # m \/ opId[p] # opId[o]
        BY <1>5, <4>2, OthersElsewhere
      <4> QED
        BY <1>1, <4>1, <4>3
    <3>2. CASE ~(MemberOpen(p, n) \/ MemberWritePart(p, n) \/ MemberFlush(p, n))
      BY <1>5, <3>2 DEF RpcFail, MemberDrop, MemberWriteError, MemberReply
    <3> QED
      BY <3>1, <3>2
  <2> QED
    BY <1>2, <2>1, <2>2
<1>6. CASE RpcFail(o, m)
  BY <1>1, <1>6 DEF RpcFail, CopyAt
<1>7. CASE MemberOpen(o, m)
  <2>1. /\ rpc' = rpc /\ handler[o][m] = "net" /\ handler'[o][m] = "open"
        /\ disk'[m][opId[o]] = Partial
    BY <1>1, <1>7 DEF MemberOpen
  <2> QED
    BY <1>1, <2>1 DEF CopyAt
<1>8. CASE MemberDrop(o, m)
  BY <1>1, <1>8 DEF MemberDrop, CopyAt
<1>9. CASE MemberFlush(o, m)
  <2>1. AloneIn(o, m)
    BY <1>1, <1>9, OthersElsewhere DEF MemberFlush, AloneIn, CopyAt
  <2>2. /\ rpc' = rpc /\ handler[o][m] = "open" /\ handler'[o][m] = "written"
        /\ disk'[m][opId[o]] = o
    BY <1>1, <1>9, <2>1 DEF MemberFlush
  <2> QED
    BY <1>1, <2>2 DEF CopyAt
<1>10. CASE MemberWritePart(o, m)
  BY <1>1, <1>10, OthersElsewhere DEF MemberWritePart, AloneIn, CopyAt
<1>11. CASE MemberWriteError(o, m)
  <2>1. /\ disk' = disk /\ handler[o][m] = "open" /\ handler'[o][m] = "none"
        /\ rpc'[o][m] = IF rpc[o][m] = "pending" THEN "err" ELSE rpc[o][m]
    BY <1>11 DEF MemberWriteError
  <2> QED
    BY <1>1, <2>1 DEF CopyAt
<1>12. CASE MemberReply(o, m)
  <2>1. /\ disk' = disk /\ handler[o][m] = "written" /\ handler'[o][m] = "none"
        /\ rpc'[o][m] = IF rpc[o][m] = "pending" THEN "ok" ELSE rpc[o][m]
    BY <1>12 DEF MemberReply
  <2> QED
    BY <1>1, <2>1 DEF CopyAt
<1>13. ASSUME NEW n \in Member, RegisterFail(n) \/ MemberCrash(n) PROVE CopyAt(o, m)'
  <2>1. rpc' = rpc /\ disk' = disk /\ handler'[o][m] \in {handler[o][m], "none"}
    BY <1>13 DEF RegisterFail, MemberCrash, HandlersWithout
  <2> QED
    BY <1>1, <2>1 DEF CopyAt
<1>14. CASE LeaderCrash
  <2>1. /\ disk' = disk /\ handler' = handler
        /\ rpc'[o][m] = IF rpc[o][m] = "pending" THEN "err" ELSE rpc[o][m]
    BY <1>14 DEF LeaderCrash
  <2> QED
    BY <1>1, <2>1 DEF CopyAt
<1> QED
  BY <1>3, <1>4, <1>5, <1>6, <1>7, <1>8, <1>9, <1>11, <1>12, <1>13, <1>14, <1>10, RowStep

(* An RPC that has succeeded stays so, and a SET is saved when enough have.    *)
LEMMA NextEnough ==
  ASSUME TypeOK, SaveInv, CopyInv, [Next]_vars, NEW o \in Op, pc'[o] \in {"save", "ok"}
  PROVE  Cardinality(Succeeded(o)') >= Tolerance
<1> USE DEF TypeOK
<1>1. ASSUME Cardinality(Succeeded(o)) >= Tolerance, ~StoreCall(o)
      PROVE  Cardinality(Succeeded(o)') >= Tolerance
  <2>1. Succeeded(o) \subseteq Succeeded(o)'
    <3> SUFFICES ASSUME NEW m \in Member, rpc[o][m] = "ok" PROVE rpc'[o][m] = "ok"
      BY DEF Succeeded
    <3>1. ASSUME NEW p \in Op, StoreCall(p) PROVE rpc'[o][m] = "ok"
      BY <1>1, <3>1 DEF StoreCall
    <3>2. ASSUME NEW p \in Op, NEW n \in Member,
                 \/ RpcFail(p, n) \/ MemberOpen(p, n) \/ MemberDrop(p, n) \/ MemberFlush(p, n)
                 \/ MemberWritePart(p, n) \/ MemberWriteError(p, n) \/ MemberReply(p, n)
          PROVE  rpc'[o][m] = "ok"
      BY <3>2 DEF RpcFail, MemberOpen, MemberDrop, MemberWritePart, MemberFlush, MemberWriteError, MemberReply
    <3>3. ASSUME NEW n \in Member, RegisterFail(n) \/ MemberCrash(n) PROVE rpc'[o][m] = "ok"
      BY <3>3 DEF RegisterFail, MemberCrash
    <3>4. CASE LeaderCrash
      BY <3>4 DEF LeaderCrash
    <3> QED
      BY <3>1, <3>2, <3>3, <3>4, RowStep
  <2>2. Succeeded(o)' \subseteq Member
    BY DEF Succeeded
  <2>3. IsFiniteSet(Succeeded(o)')
    BY <2>2, LeaderAssumption, FS_Subset
  <2>4. Cardinality(Succeeded(o)) <= Cardinality(Succeeded(o)')
    BY <2>1, <2>3, FS_Subset
  <2>5. Cardinality(Succeeded(o)) \in Nat /\ Cardinality(Succeeded(o)') \in Nat
    BY <2>3, ContactedFinite, FS_CardinalityType
  <2> QED
    BY <1>1, <2>4, <2>5, LeaderAssumption
<1>2. ~StoreCall(o)
  <2> SUFFICES ASSUME StoreCall(o) PROVE FALSE
    OBVIOUS
  <2>1. pc' \in {[pc EXCEPT ![o] = "failed"], [pc EXCEPT ![o] = "send"]}
    BY DEF StoreCall
  <2> QED
    BY <2>1
<1>3. Cardinality(Succeeded(o)) >= Tolerance
  <2>1. CASE pc'[o] = pc[o]
    BY <2>1 DEF CopyInv
  <2>2. ASSUME NEW p \in Op, StoreCollect(p), pc'[o] # pc[o] PROVE Cardinality(Succeeded(o)) >= Tolerance
    <3>1. p = o /\ pc'[o] = "save"
      BY <2>2 DEF StoreCollect
    <3> QED
      BY <2>2, <3>1 DEF StoreCollect
  <2>3. ASSUME NEW p \in Op, SaveEnd(p) \/ SaveError(p), pc'[o] # pc[o]
        PROVE  Cardinality(Succeeded(o)) >= Tolerance
    <3>1. p = o
      BY <2>3 DEF SaveEnd, SaveError, AfterSave
    <3>2. saver = o \/ o \in want
      BY <2>3, <3>1 DEF SaveEnd, SaveError
    <3>3. pc[o] = "save"
      BY <3>2, SentinelAssumption DEF SaveInv
    <3> QED
      BY <3>3 DEF CopyInv
  <2>4. ASSUME LeaderCrash \/ LeaderStart, pc'[o] # pc[o] PROVE FALSE
    BY <2>4 DEF LeaderCrash, LeaderStart
  <2>5. ASSUME NEW p \in Op, StoreCall(p), pc'[o] # pc[o] PROVE FALSE
    BY <1>2, <2>5 DEF StoreCall
  <2> QED
    BY <2>1, <2>2, <2>3, <2>4, <2>5, PcStep
<1> QED
  BY <1>1, <1>2, <1>3

LEMMA NextCopies == TypeOK /\ SaveInv /\ CopyInv /\ [Next]_vars => CopyInv'
<1> SUFFICES ASSUME TypeOK, SaveInv, CopyInv, [Next]_vars PROVE CopyInv'
  OBVIOUS
<1>1. ASSUME NEW o \in Op, pc'[o] = "idle" PROVE Untouched(o)'
  BY <1>1, MadeOnce, NextUntouched DEF CopyInv
<1>2. ASSUME NEW o \in Op, Sole(o)', NEW m \in Member PROVE CopyAt(o, m)'
  BY <1>2, SoleBefore, CopyMoves
<1>3. ASSUME NEW o \in Op, pc'[o] \in {"save", "ok"} PROVE Cardinality(Succeeded(o)') >= Tolerance
  BY <1>3, NextEnough
<1> QED
  BY <1>1, <1>2, <1>3 DEF CopyInv

LEMMA InitCopies == Init => CopyInv
BY DEF Init, CopyInv, Untouched, CopyAt

(* With as many successes as targets, every target has succeeded.              *)
LEMMA AllSucceeded ==
  ASSUME TargetsBounded, CopyInv, NEW o \in Op, Settled(o)
  PROVE  Succeeded(o) = Contacted(o) /\ \A m \in Member : CopyAt(o, m)
<1>1. Cardinality(Succeeded(o)) >= Tolerance /\ \A m \in Member : CopyAt(o, m)
  BY DEF Settled, CopyInv, Sole
<1>2. Succeeded(o) \subseteq Contacted(o)
  BY DEF Succeeded, Contacted
<1>3. Cardinality(Contacted(o)) = Cardinality(Succeeded(o))
  BY <1>1, ContactedFinite, LeaderAssumption DEF TargetsBounded
<1> QED
  BY <1>1, <1>2, <1>3, ContactedFinite, FS_Subset

LEMMA CopiesSettled == TargetsBounded /\ CopyInv => SettledSurvives
<1> SUFFICES ASSUME TargetsBounded, CopyInv, NEW o \in Op, Settled(o)
             PROVE  /\ Cardinality({m \in Member : disk[m][opId[o]] = o}) >= Tolerance
                    /\ \A m \in Member : disk[m][opId[o]] \in {NoFile, o}
  BY DEF SettledSurvives
<1> DEFINE Copies == {m \in Member : disk[m][opId[o]] = o}
<1>1. Succeeded(o) = Contacted(o) /\ \A m \in Member : CopyAt(o, m)
  BY AllSucceeded
<1>2. Cardinality(Succeeded(o)) >= Tolerance /\ Succeeded(o) \subseteq Copies
  BY <1>1 DEF Succeeded, CopyAt, Settled, CopyInv
<1>3. \A m \in Member : disk[m][opId[o]] \in {NoFile, o}
  BY <1>1 DEF Succeeded, Contacted, CopyAt
<1>4. Cardinality(Copies) >= Tolerance
  <2>1. IsFiniteSet(Copies)
    BY LeaderAssumption, FS_Subset
  <2>2. Cardinality(Succeeded(o)) <= Cardinality(Copies)
    BY <1>2, <2>1, FS_Subset
  <2>3. Cardinality(Succeeded(o)) \in Nat /\ Cardinality(Copies) \in Nat
    BY <2>1, ContactedFinite, FS_CardinalityType
  <2> QED
    BY <1>2, <2>2, <2>3, LeaderAssumption
<1> QED
  BY <1>3, <1>4

(* Nobody is writing the file of an answered SET any more.                     *)
LEMMA NoneOpen ==
  ASSUME TargetsBounded, CopyInv, NEW o \in Op, Settled(o),
         NEW p \in Op, opId[p] = opId[o], NEW m \in Member
  PROVE  handler[p][m] # "open"
<1>1. CASE p = o
  BY <1>1, AllSucceeded DEF Succeeded, Contacted, CopyAt
<1>2. CASE p # o
  BY <1>2 DEF Settled, CopyInv, Untouched
<1> QED
  BY <1>1, <1>2

(* Once a SET has been answered OK its text is complete on at least Tolerance  *)
(* members, and no member has anything else for its id (SettledSurvives):      *)
(* CopyInv follows each RPC from the truncation of the file to the answer, and *)
(* TargetsBounded leaves no target that has not answered.                      *)
THEOREM SettledAlwaysSurvives == Spec => []SettledSurvives
<1>1. Init => TargetsBounded /\ CopyInv
  BY InitIndex, InitCopies DEF IndexInv
<1>2. TypeOK /\ SaveInv /\ TargetsBounded /\ CopyInv /\ [Next]_vars => (TargetsBounded /\ CopyInv)'
  BY NextTargets, NextCopies
<1> QED
  BY <1>1, <1>2, CopiesSettled, InitSave, NextSave, TypeCorrect, PTL DEF Spec

(* What a GET has read, and what was acknowledged when it was called.          *)
ReadsInv ==
  \A g \in Getter :
    /\ gpc[g] \in {"idle", "probe"} => got[g] = NoFile
    /\ gpc[g] = "done" => got[g] # NoFile
    /\ \A o \in acked[g] :
         pc[o] = "ok" /\ (Settled(o) /\ opId[o] = getId[g] => got[g] \in {NoFile, o})

Same(g) == gpc'[g] = gpc[g] /\ got'[g] = got[g] /\ acked'[g] = acked[g]

Moved(g) ==
  GetCall(g) \/ GetCheck(g) \/ MemberRead(g) \/ GetAnswer(g) \/ GetMiss(g) \/ GetNotFound(g)

(* Who moves a GET.                                                            *)
LEMMA GetStep ==
  ASSUME TypeOK, [Next]_vars, NEW g \in Getter
  PROVE  getId' = getId /\ (Same(g) \/ Moved(g) \/ LeaderCrash)
<1> DEFINE Still == UNCHANGED <<gpc, getId, got, acked>>
<1>1. Still => Same(g)
  BY DEF Same
<1>2. ASSUME NEW o \in Op, StoreNext(o) PROVE Still
  BY <1>2 DEF StoreNext, StoreCall, StoreCollect, RpcFail, MemberOpen, MemberDrop, MemberWritePart,
              MemberFlush, MemberWriteError, MemberReply
<1>3. ASSUME NEW h \in Getter, GetNext(h) PROVE getId' = getId /\ (Same(g) \/ Moved(g))
  <2>1. CASE h = g
    BY <1>3, <2>1 DEF GetNext, Moved, GetCall, GetCheck, MemberRead, GetAnswer, GetMiss, GetNotFound
  <2>2. CASE h # g
    <3>1. Moved(h)
      BY <1>3 DEF GetNext, Moved
    <3>2. /\ getId' = getId
          /\ gpc' = gpc \/ \E v : gpc' = [gpc EXCEPT ![h] = v]
          /\ got' = got \/ \E v : got' = [got EXCEPT ![h] = v]
          /\ acked' = acked \/ \E v : acked' = [acked EXCEPT ![h] = v]
      BY <3>1 DEF Moved, GetCall, GetCheck, MemberRead, GetAnswer, GetMiss, GetNotFound
    <3> QED
      BY <2>2, <3>2 DEF Same, TypeOK
  <2> QED
    BY <2>1, <2>2
<1>4. ASSUME NEW m \in Member, MemberNext(m) PROVE Still
  BY <1>4 DEF MemberNext, MemberStart, RegisterMember, RegisterReply, RegisterFail,
              MemberCrash, Heartbeat, TimePasses
<1>5. ASSUME NEW p \in Proc, SaveNext(p) PROVE Still
  BY <1>5 DEF SaveNext, SaveBegin, SaveEnd, SaveError, AfterSave
<1>6. WatcherTick \/ LeaderStart \/ UNCHANGED vars => Still
  BY DEF WatcherTick, LeaderStart, vars
<1>7. LeaderCrash => getId' = getId
  BY DEF LeaderCrash
<1> QED
  BY <1>1, <1>2, <1>3, <1>4, <1>5, <1>6, <1>7 DEF Next

(* A SET that was answered OK stays so.                                        *)
LEMMA AnsweredStays == ASSUME TypeOK, [Next]_vars, NEW o \in Op, pc[o] = "ok" PROVE pc'[o] = "ok"
<1> USE DEF TypeOK
<1>1. CASE UNCHANGED pc
  BY <1>1
<1>2. ASSUME NEW p \in Op, StoreCall(p) \/ StoreCollect(p) PROVE pc'[o] = "ok"
  BY <1>2 DEF StoreCall, StoreCollect
<1>3. ASSUME NEW p \in Op, SaveEnd(p) \/ SaveError(p) PROVE pc'[o] = "ok"
  BY <1>3 DEF SaveEnd, SaveError, AfterSave
<1>4. CASE LeaderCrash
  BY <1>4 DEF LeaderCrash
<1>5. CASE LeaderStart
  BY <1>5 DEF LeaderStart
<1> QED
  BY <1>1, <1>2, <1>3, <1>4, <1>5, PcStep

LEMMA NextReads ==
  TypeOK /\ TargetsBounded /\ CopyInv /\ SettledSurvives /\ ReadsInv /\ [Next]_vars => ReadsInv'
<1> SUFFICES ASSUME TypeOK, TargetsBounded, CopyInv, SettledSurvives, ReadsInv, [Next]_vars,
                    NEW g \in Getter
             PROVE  /\ gpc'[g] \in {"idle", "probe"} => got'[g] = NoFile
                    /\ gpc'[g] = "done" => got'[g] # NoFile
                    /\ \A o \in acked'[g] :
                         pc'[o] = "ok" /\ (Settled(o)' /\ opId'[o] = getId'[g] => got'[g] \in {NoFile, o})
  BY DEF ReadsInv
<1> USE DEF TypeOK
<1>1. opId' = opId /\ getId' = getId
  BY OpIdConstant, GetStep
<1>2. ASSUME NEW o \in Op, pc[o] = "ok" PROVE pc'[o] = "ok" /\ (Settled(o)' => Settled(o))
  BY <1>2, AnsweredStays, SoleBefore DEF Settled, Sole
<1>3. \A o \in acked[g] : o \in Op /\ pc[o] = "ok"
  BY DEF ReadsInv
<1>4. CASE Same(g)
  BY <1>1, <1>2, <1>3, <1>4 DEF ReadsInv, Same
<1>5. CASE GetCall(g)
  <2>1. gpc'[g] = "probe" /\ got'[g] = NoFile /\ acked'[g] = {o \in Op : pc[o] = "ok"}
    BY <1>5 DEF GetCall, ReadsInv
  <2> QED
    BY <1>2, <2>1
<1>6. CASE GetCheck(g)
  <2>1. gpc'[g] \in {"probe", "wait"} /\ got'[g] = NoFile /\ acked'[g] = acked[g]
    BY <1>6 DEF GetCheck, ReadsInv
  <2> QED
    BY <1>2, <1>3, <2>1
<1>7. CASE MemberRead(g)
  <2>1. PICK c \in ReadMessage(cur[g], getId[g]) : got' = [got EXCEPT ![g] = c]
    BY <1>7 DEF MemberRead
  <2>2. /\ gpc'[g] = "wait" /\ got'[g] = c /\ acked'[g] = acked[g]
        /\ cur[g] \in Member /\ disk[cur[g]][getId[g]] # NoFile
    BY <1>7, <2>1 DEF MemberRead
  <2>3. ASSUME NEW o \in Op, Settled(o), opId[o] = getId[g] PROVE c = o
    <3>1. disk[cur[g]][getId[g]] = o
      <4>1. \A m \in Member : disk[m][opId[o]] \in {NoFile, o}
        BY <2>3 DEF SettledSurvives
      <4> QED
        BY <2>2, <2>3, <4>1
    <3>2. ASSUME NEW p \in Op, opId[p] = getId[g] PROVE handler[p][cur[g]] # "open"
      <4>1. opId[p] = opId[o]
        BY <2>3, <3>2
      <4> QED
        BY <2>2, <2>3, <4>1, NoneOpen
    <3> QED
      BY <3>1, <3>2 DEF ReadMessage
  <2> QED
    BY <1>1, <1>2, <1>3, <2>2, <2>3
<1>8. CASE GetAnswer(g)
  <2>1. gpc'[g] = "done" /\ got'[g] = got[g] /\ got[g] # NoFile /\ acked'[g] = acked[g]
    BY <1>8 DEF GetAnswer
  <2> QED
    BY <1>1, <1>2, <1>3, <2>1 DEF ReadsInv
<1>9. CASE GetMiss(g)
  <2>1. gpc'[g] = "probe" /\ got'[g] = NoFile /\ acked'[g] = acked[g]
    BY <1>9 DEF GetMiss
  <2> QED
    BY <1>2, <1>3, <2>1
<1>10. CASE GetNotFound(g)
  <2>1. gpc'[g] = "notfound" /\ got'[g] = got[g] /\ acked'[g] = acked[g]
    BY <1>10 DEF GetNotFound
  <2> QED
    BY <1>1, <1>2, <1>3, <2>1 DEF ReadsInv
<1>11. CASE LeaderCrash
  <2>1. /\ gpc'[g] = (IF gpc[g] \in {"probe", "wait"} THEN "lost" ELSE gpc[g])
        /\ got'[g] = (IF gpc[g] = "wait" THEN NoFile ELSE got[g]) /\ acked' = acked
    BY <1>11 DEF LeaderCrash
  <2>2. CASE gpc[g] = "wait"
    BY <1>2, <1>3, <2>1, <2>2
  <2>3. CASE gpc[g] # "wait"
    BY <1>1, <1>2, <1>3, <2>1, <2>3 DEF ReadsInv
  <2> QED
    BY <2>2, <2>3
<1> QED
  BY <1>4, <1>5, <1>6, <1>7, <1>8, <1>9, <1>10, <1>11, GetStep DEF Moved

(* A GET that is called after the SET was acknowledged returns its text        *)
(* (ReadsSettled): from then on no member has anything else for that id        *)
(* (SettledSurvives) and none is writing (NoneOpen), and ReadsInv keeps what   *)
(* its RPCs have read until the reply is taken.                                *)
THEOREM ReadsAlwaysSettled == Spec => []ReadsSettled
<1>1. Init => TargetsBounded /\ CopyInv /\ ReadsInv
  BY InitIndex, InitCopies DEF IndexInv, Init, ReadsInv
<1>2. TypeOK /\ SaveInv /\ TargetsBounded /\ CopyInv /\ ReadsInv /\ [Next]_vars
        => (TargetsBounded /\ CopyInv /\ ReadsInv)'
  BY NextTargets, NextCopies, NextReads, CopiesSettled
<1>3. ReadsInv /\ TypeOK => ReadsSettled
  BY DEF ReadsInv, ReadsSettled, TypeOK
<1> QED
  BY <1>1, <1>2, <1>3, InitSave, NextSave, TypeCorrect, PTL DEF Spec

===============================================================================
