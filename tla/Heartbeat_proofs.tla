---------------------------- MODULE Heartbeat_proofs ----------------------------
(* What module Heartbeat promises, for all time limits that RoundFits allows.  *)
EXTENDS Heartbeat, TLAPS

(* EntryOf is the shape of an entry without the bound on its age.             *)
LEMMA EntryTypes ==
  /\ NoEntry \notin Entry /\ Torn \notin Entry /\ NoEntry # Torn
  /\ Fresh \in Entry
  /\ MaxAge \in Nat
  /\ \A e \in Entry : Older(e) \in Entry
  /\ Older(NoEntry) = NoEntry /\ Older(Torn) = Torn
<1>1. MaxAge \in Nat
  BY TimeAssumption DEF MaxAge
<1>2. NoEntry \notin Entry /\ Torn \notin Entry /\ NoEntry # Torn
  <2>1. \A e \in Entry : e \in [alive : BOOLEAN, age : Nat]
    BY <1>1 DEF Entry
  <2> QED
    BY <2>1, NoEntryAssumption
<1>3. Fresh \in Entry
  BY <1>1 DEF Fresh, Entry
<1>4. ASSUME NEW e \in Entry PROVE Older(e) \in Entry
  BY <1>1, <1>2, <1>4 DEF Older, Entry
<1>5. Older(NoEntry) = NoEntry /\ Older(Torn) = Torn
  BY DEF Older
<1> QED
  BY <1>1, <1>2, <1>3, <1>4, <1>5

(* Time moves the age of an entry by at most one, and nothing else of it.     *)
LEMMA OlderAge ==
  ASSUME NEW e \in Entry
  PROVE  /\ Older(e).alive = e.alive
         /\ Older(e).age <= e.age + 1
         /\ Older(e) \notin {NoEntry, Torn}
<1>1. Older(e) \in Entry /\ Older(e) \notin {NoEntry, Torn}
  BY EntryTypes
<1>2. e.age \in Nat /\ e \notin {NoEntry, Torn}
  BY EntryTypes DEF Entry
<1> QED
  BY <1>1, <1>2 DEF Older, Entry

(* The limit of each phase. *)
LEMMA Limits ==
  /\ Limit("off") = 0
  /\ Limit("dial") = DialLimit
  /\ Limit("rpc") = RpcLimit
  /\ Limit("reply") = RpcLimit
  /\ Limit("pause") = Pause + Jitter
  /\ \A p \in {"register", "saving", "refused", "registered"} : Limit(p) = RegisterLimit
BY DEF Limit

(* A process that has just begun to wait is within any limit. *)
LEMMA NoLimitPassed ==
  \A p \in {"off", "register", "saving", "refused", "registered", "dial", "rpc", "reply", "pause"} :
    Limit(p) \in Nat /\ 0 \in 0..Limit(p)
BY Limits, TimeAssumption

-------------------------------------------------------------------------------
(* TypeOK holds initially.                                                     *)
LEMMA InitType == Init => TypeOK
<1> SUFFICES ASSUME Init PROVE TypeOK
  OBVIOUS
<1>1. HeartbeatInterval \in 0..HeartbeatInterval
  BY TimeAssumption
<1>2. timer \in 0..Limit(phase)
  BY NoLimitPassed DEF Init
<1>3. late \subseteq {"register", "heartbeat"}
  BY DEF Init
<1> QED
  BY <1>1, <1>2, <1>3 DEF Init, TypeOK

(* Every step keeps it.                                                        *)
LEMMA NextType == TypeOK /\ [Next]_vars => TypeOK'
<1> SUFFICES ASSUME TypeOK, [Next]_vars PROVE TypeOK'
  OBVIOUS
<1> USE EntryTypes, NoLimitPassed, TimeAssumption DEF TypeOK
<1>1. CASE Start
  BY <1>1 DEF Start, Goto, leaderVars
<1>2. CASE Exit
  <2>1. late' \subseteq {"register", "heartbeat"}
    BY <1>2 DEF Exit
  <2>2. UNCHANGED <<leaderVars, unsafe, crashes>> /\ Goto("off") /\ exits' = exits + 1 /\ steady' = FALSE
    BY <1>2 DEF Exit
  <2>3. phase' = "off" /\ timer' \in 0..Limit(phase')
    BY <2>2 DEF Goto
  <2>4. UNCHANGED <<up, entry, saved, watch, watched>>
    BY <2>2 DEF leaderVars
  <2>5. exits' \in Nat /\ crashes' \in Nat
    BY <2>2
  <2> QED
    BY <2>1, <2>2, <2>3, <2>4, <2>5
<1>3. CASE RegisterMember
  BY <1>3, Limits DEF RegisterMember
<1>4. CASE RegisterSave
  <2>1. saved' \in Entry \cup {NoEntry, Torn} /\ unsafe' \in BOOLEAN
    BY <1>4 DEF RegisterSave, Written, FileAfterCut
  <2> QED
    BY <1>4, <2>1, Limits DEF RegisterSave
<1>5. CASE RegisterReply
  BY <1>5 DEF RegisterReply, Goto, leaderVars, histVars
<1>6. CASE DialOk
  BY <1>6 DEF DialOk, Goto, leaderVars, histVars
<1>7. CASE DialFail
  BY <1>7 DEF DialFail, Goto, leaderVars
<1>8. CASE HandleHeartbeat
  BY <1>8, Limits DEF HandleHeartbeat, Known
<1>9. CASE HeartbeatReply
  BY <1>9 DEF HeartbeatReply, Goto, leaderVars, histVars
<1>10. CASE HeartbeatFail
  BY <1>10 DEF HeartbeatFail, Goto, leaderVars
<1>11. CASE Wake
  BY <1>11 DEF Wake, Goto, leaderVars, histVars
<1>12. ASSUME NEW r \in {"register", "heartbeat"}, HandleLate(r) PROVE TypeOK'
  BY <1>12 DEF HandleLate, memberVars, histVars
<1>13. CASE WatcherTick
  <2>1. entry' \in Entry \cup {NoEntry}
    BY <1>13 DEF WatcherTick, Expired, Known, Entry
  <2> QED
    BY <1>13, <2>1 DEF WatcherTick, memberVars, histVars
<1>14. CASE SaveState
  <2>1. saved' \in Entry \cup {NoEntry, Torn}
    BY <1>14 DEF SaveState, Written, FileAfterCut
  <2> QED
    BY <1>14, <2>1 DEF SaveState, memberVars, histVars
<1>15. CASE LeaderCrash
  <2>1. watch' \in 0..HeartbeatInterval
    BY <1>15 DEF LeaderCrash
  <2>2. timer' \in 0..Limit(phase')
    BY <1>15, Limits DEF LeaderCrash
  <2>3. late' \subseteq {"register", "heartbeat"}
    BY <1>15 DEF LeaderCrash
  <2>4. /\ phase' \in {"off", "register", "saving", "refused", "registered",
                      "dial", "rpc", "reply", "pause"}
        /\ crashes' \in Nat
    BY <1>15 DEF LeaderCrash
  <2>5. up' = FALSE /\ entry' = NoEntry /\ watched' = FALSE /\ steady' = FALSE
        /\ UNCHANGED <<unsafe, exits>>
    BY <1>15 DEF LeaderCrash
  <2>6. saved' \in Entry \cup {NoEntry, Torn}
    BY <1>15 DEF LeaderCrash, FileAfterCut
  <2> QED
    BY <2>1, <2>2, <2>3, <2>4, <2>5, <2>6
<1>16. CASE LeaderStart
  BY <1>16 DEF LeaderStart, memberVars
<1>17. CASE Tick
  <2>1. entry' \in Entry \cup {NoEntry} /\ saved' \in Entry \cup {NoEntry, Torn}
    BY <1>17 DEF Tick
  <2>2. watch' \in 0..HeartbeatInterval
    BY <1>17 DEF Tick
  <2>3. timer' \in 0..Limit(phase')
    BY <1>17 DEF Tick
  <2> QED
    BY <1>17, <2>1, <2>2, <2>3 DEF Tick, histVars
<1>18. CASE UNCHANGED vars
  BY <1>18 DEF vars, leaderVars, memberVars, histVars
<1> QED
  BY <1>1, <1>2, <1>3, <1>4, <1>5, <1>6, <1>7, <1>8, <1>9, <1>10, <1>11, <1>12, <1>13, <1>14,
     <1>15, <1>16, <1>17, <1>18 DEF Next, MemberStep

(* The clocks and tables of the leader and of the member keep their types,    *)
(* whatever time passes, whoever crashes and however late a request arrives.  *)
THEOREM TypeCorrect == Spec => []TypeOK
BY InitType, NextType, PTL DEF Spec

-------------------------------------------------------------------------------
(* How long it takes at most until the leader handles the next heartbeat of a *)
(* process whose rounds succeed.                                              *)
Remaining(p) ==
  CASE p = "reply" -> RpcLimit + Pause + Jitter + DialLimit + RpcLimit
    [] p = "pause" -> Pause + Jitter + DialLimit + RpcLimit
    [] p = "dial" -> DialLimit + RpcLimit
    [] OTHER -> RpcLimit

(* The part of Inv behind NoFalseDown: what a steady process may still take    *)
(* fits into what is left of the timeout.                                      *)
GapFits ==
  steady =>
    /\ Joined /\ up
    /\ Known /\ entry.alive
    /\ entry.age + Remaining(phase) <= HeartbeatTimeout + timer

(* The part behind DeadDetected: the age of an alive entry and the time to     *)
(* the watcher's next tick.                                                    *)
WatchCovers ==
  /\ ~up => ~watched /\ ~Known
  /\ watched /\ Known /\ entry.alive =>
       entry.age + watch <= HeartbeatTimeout + HeartbeatInterval

(* The part behind JoinedKnown: who was answered is in the file, or in the     *)
(* memory of a leader whose file is torn.                                      *)
AnsweredSaved ==
  /\ phase = "saving" => up /\ Known
  /\ up /\ saved \in Entry => Known
  /\ (Joined \/ phase = "registered") /\ ~unsafe => saved # NoEntry /\ (up => Known)

LEMMA RemainingOf ==
  /\ Remaining("reply") = RpcLimit + Pause + Jitter + DialLimit + RpcLimit
  /\ Remaining("pause") = Pause + Jitter + DialLimit + RpcLimit
  /\ Remaining("dial") = DialLimit + RpcLimit
  /\ Remaining("rpc") = RpcLimit
BY DEF Remaining

(* Once a registration is answered, its entry stays in the file.              *)
LEMMA NextAnswered == TypeOK /\ AnsweredSaved /\ [Next]_vars => AnsweredSaved'
<1> SUFFICES ASSUME TypeOK, AnsweredSaved, [Next]_vars PROVE AnsweredSaved'
  OBVIOUS
<1> USE EntryTypes DEF AnsweredSaved, Known, Joined
<1> USE DEF TypeOK
<1>1. CASE Start
  BY <1>1 DEF Start, Goto, leaderVars
<1>2. CASE Exit
  <2>1. phase' = "off" /\ UNCHANGED <<up, entry, saved>>
    BY <1>2 DEF Exit, Goto, leaderVars
  <2> QED
    BY <2>1
<1>3. CASE RegisterMember
  BY <1>3 DEF RegisterMember, TypeOK
<1>4. CASE RegisterSave
  BY <1>4 DEF RegisterSave, Written, FileAfterCut
<1>5. CASE RegisterReply
  BY <1>5 DEF RegisterReply, Goto, leaderVars, histVars
<1>6. CASE DialOk
  BY <1>6 DEF DialOk, Goto, leaderVars, histVars
<1>7. CASE DialFail
  BY <1>7 DEF DialFail, Goto, leaderVars
<1>8. CASE HandleHeartbeat
  BY <1>8 DEF HandleHeartbeat
<1>9. CASE HeartbeatReply
  BY <1>9 DEF HeartbeatReply, Goto, leaderVars, histVars
<1>10. CASE HeartbeatFail
  BY <1>10 DEF HeartbeatFail, Goto, leaderVars
<1>11. CASE Wake
  BY <1>11 DEF Wake, Goto, leaderVars, histVars
<1>12. ASSUME NEW r \in {"register", "heartbeat"}, HandleLate(r) PROVE AnsweredSaved'
  BY <1>12 DEF HandleLate, memberVars, histVars
<1>13. CASE WatcherTick
  <2>1. entry # NoEntry => entry' # NoEntry
    BY <1>13 DEF WatcherTick, Expired, Entry, TypeOK
  <2> QED
    BY <1>13, <2>1 DEF WatcherTick, memberVars, histVars
<1>14. CASE SaveState
  <2>1. saved' \in {entry, saved, Torn}
    BY <1>14 DEF SaveState, Written, FileAfterCut
  <2> QED
    BY <1>14, <2>1 DEF SaveState, memberVars, histVars
<1>15. CASE LeaderCrash
  <2>1. /\ up' = FALSE /\ saved' \in {saved, Torn} /\ UNCHANGED unsafe
        /\ phase' = IF phase = "saving" THEN "refused" ELSE phase
    BY <1>15 DEF LeaderCrash, FileAfterCut
  <2> QED
    BY <2>1
<1>16. CASE LeaderStart
  BY <1>16 DEF LeaderStart, memberVars
<1>17. CASE Tick
  <2>1. /\ entry' = NoEntry <=> entry = NoEntry
        /\ saved' = NoEntry <=> saved = NoEntry
        /\ saved' \in Entry => saved \in Entry
    BY <1>17, OlderAge DEF Tick
  <2> QED
    BY <1>17, <2>1 DEF Tick, histVars
<1>18. CASE UNCHANGED vars
  BY <1>18 DEF vars, leaderVars, memberVars, histVars
<1> QED
  BY <1>1, <1>2, <1>3, <1>4, <1>5, <1>6, <1>7, <1>8, <1>9, <1>10, <1>11, <1>12, <1>13, <1>14,
     <1>15, <1>16, <1>17, <1>18 DEF Next, MemberStep

(* The time to the watcher's next tick and the age of an alive entry never    *)
(* add up to more than the timeout and one period.                             *)
LEMMA NextCovered == TypeOK /\ WatchCovers /\ [Next]_vars => WatchCovers'
<1> SUFFICES ASSUME TypeOK, WatchCovers, [Next]_vars PROVE WatchCovers'
  OBVIOUS
<1> USE EntryTypes, TimeAssumption DEF WatchCovers, Known
<1> HIDE DEF MaxAge
<1>1. /\ watch \in 0..HeartbeatInterval
      /\ Fresh.age = 0
      /\ entry # NoEntry => entry \in Entry /\ entry.age \in Nat
  BY DEF TypeOK, Fresh, Entry
<1>2. CASE UNCHANGED leaderVars
  BY <1>2 DEF leaderVars
<1>3. CASE up /\ UNCHANGED <<up, watch, watched>> /\ entry' \in {entry, Fresh}
  BY <1>1, <1>3
<1>4. CASE WatcherTick
  <2>1. entry' # NoEntry /\ entry'.alive =>
          entry # NoEntry /\ entry' = entry /\ entry.age <= HeartbeatTimeout
    BY <1>1, <1>4 DEF WatcherTick, Expired, Entry
  <2> QED
    BY <1>4, <1>1, <2>1 DEF WatcherTick
<1>5. CASE LeaderCrash
  <2>1. up' = FALSE /\ entry' = NoEntry /\ watched' = FALSE
    BY <1>5 DEF LeaderCrash
  <2> QED
    BY <2>1
<1>6. CASE LeaderStart
  BY <1>6 DEF LeaderStart
<1>7. CASE Tick
  <2>1. CASE entry = NoEntry
    BY <1>7, <2>1 DEF Tick
  <2>2. CASE entry # NoEntry
    <3>1. entry' = Older(entry) /\ entry'.alive = entry.alive /\ entry'.age <= entry.age + 1
      BY <1>7, <1>1, <2>2, OlderAge DEF Tick
    <3>2. up /\ up' /\ watch > 0 /\ watch' = watch - 1 /\ watched' = watched
      BY <1>7, <2>2 DEF Tick
    <3>3. entry'.age \in Nat
      BY <1>1, <3>1, <2>2 DEF Entry
    <3> QED
      BY <1>1, <2>2, <3>1, <3>2, <3>3
  <2> QED
    BY <2>1, <2>2
<1>8. ASSUME NEW r \in {"register", "heartbeat"}, HandleLate(r) PROVE WatchCovers'
  <2>1. up /\ UNCHANGED <<up, watch, watched>> /\ entry' \in {entry, Fresh}
    BY <1>8 DEF HandleLate
  <2> QED
    BY <2>1, <1>3
<1>9. CASE RegisterMember \/ HandleHeartbeat
  <2>1. up /\ UNCHANGED <<up, watch, watched>> /\ entry' \in {entry, Fresh}
    BY <1>9 DEF RegisterMember, HandleHeartbeat
  <2> QED
    BY <2>1, <1>3
<1>10. CASE RegisterSave \/ SaveState
  BY <1>10 DEF RegisterSave, SaveState
<1>11. CASE Start \/ Exit \/ MemberStep
  <2>1. UNCHANGED leaderVars
    BY <1>11 DEF Start, Exit, MemberStep, RegisterReply, DialOk, DialFail, HeartbeatReply,
                 HeartbeatFail, Wake
  <2> QED
    BY <2>1, <1>2
<1>12. CASE UNCHANGED vars
  BY <1>12, <1>2 DEF vars
<1> QED
  BY <1>4, <1>5, <1>6, <1>7, <1>8, <1>9, <1>10, <1>11, <1>12 DEF Next

(* A process whose rounds succeed always has time enough for the next one.    *)
LEMMA NextFits == TypeOK /\ GapFits /\ [Next]_vars => GapFits'
<1> SUFFICES ASSUME TypeOK, GapFits, [Next]_vars, steady'
             PROVE  GapFits'
  BY DEF GapFits
<1> USE EntryTypes, TimeAssumption, RoundFits, RemainingOf DEF GapFits, Known, Joined
<1> HIDE DEF MaxAge, Remaining, Limit
<1>1. /\ entry # NoEntry => entry \in Entry /\ entry.age \in Nat
      /\ Fresh.age = 0 /\ Fresh.alive
      /\ timer \in Nat /\ timer <= Limit(phase)
      /\ steady \in BOOLEAN /\ phase # "off" => Limit(phase) \in Nat
  BY NoLimitPassed DEF TypeOK, Fresh, Entry
<1>2. CASE RegisterMember \/ RegisterSave \/ RegisterReply \/ Start
  <2>1. ~steady' = ~steady /\ ~Joined
    BY <1>2 DEF RegisterMember, RegisterSave, RegisterReply, Start, histVars
  <2> QED
    BY <2>1
<1>3. CASE Exit \/ DialFail \/ HeartbeatFail \/ LeaderCrash
  BY <1>3 DEF Exit, DialFail, HeartbeatFail, LeaderCrash
<1>4. CASE HandleHeartbeat
  <2>1. /\ entry' = Fresh /\ up' /\ phase' = "reply"
        /\ timer' = timer
    BY <1>4 DEF HandleHeartbeat
  <2> QED
    BY <1>1, <2>1
<1>5. CASE DialOk
  <2>1. /\ phase = "dial" /\ phase' = "rpc" /\ timer' = 0 /\ steady
        /\ UNCHANGED <<up, entry>>
    BY <1>5 DEF DialOk, Goto, leaderVars, histVars
  <2>2. timer <= DialLimit
    BY <1>1, <2>1, Limits
  <2> QED
    BY <1>1, <2>1, <2>2
<1>6. CASE HeartbeatReply
  <2>1. /\ phase = "reply" /\ phase' = "pause" /\ timer' = 0 /\ steady
        /\ UNCHANGED <<up, entry>>
    BY <1>6 DEF HeartbeatReply, Goto, leaderVars, histVars
  <2>2. timer <= RpcLimit
    BY <1>1, <2>1, Limits
  <2> QED
    BY <1>1, <2>1, <2>2
<1>7. CASE Wake
  <2>1. /\ phase = "pause" /\ phase' = "dial" /\ timer' = 0 /\ steady
        /\ UNCHANGED <<up, entry>>
    BY <1>7 DEF Wake, Goto, leaderVars, histVars
  <2>2. timer <= Pause + Jitter
    BY <1>1, <2>1, Limits
  <2> QED
    BY <1>1, <2>1, <2>2
<1>8. ASSUME NEW r \in {"register", "heartbeat"}, HandleLate(r) PROVE GapFits'
  <2>1. /\ entry' \in {entry, Fresh} /\ steady
        /\ UNCHANGED <<up, phase, timer>>
    BY <1>8 DEF HandleLate, memberVars, histVars
  <2> QED
    BY <1>1, <2>1
<1>9. CASE WatcherTick
  <2>1. steady /\ UNCHANGED <<up, phase, timer>>
    BY <1>9 DEF WatcherTick, memberVars, histVars
  <2>2. timer <= Remaining(phase)
    BY <1>1, <2>1, Limits
  <2>3. entry' = entry
    BY <1>1, <1>9, <2>1, <2>2 DEF WatcherTick, Expired
  <2> QED
    BY <2>1, <2>3
<1>10. CASE SaveState \/ LeaderStart
  <2>1. steady /\ UNCHANGED <<up, entry, phase, timer>>
    BY <1>10 DEF SaveState, LeaderStart, memberVars, histVars
  <2> QED
    BY <2>1
<1>11. CASE Tick
  <2>1. steady /\ UNCHANGED <<up, phase>> /\ timer' = timer + 1 /\ entry' = Older(entry)
    BY <1>11 DEF Tick, histVars
  <2>2. /\ entry' \in Entry /\ entry'.age \in Nat
        /\ entry'.alive = entry.alive /\ entry'.age <= entry.age + 1
    BY <1>1, <2>1, OlderAge DEF Entry
  <2> QED
    BY <1>1, <2>1, <2>2
<1>12. CASE UNCHANGED vars
  BY <1>12 DEF vars, leaderVars, memberVars, histVars
<1> QED
  BY <1>2, <1>3, <1>4, <1>5, <1>6, <1>7, <1>8, <1>9, <1>10, <1>11, <1>12 DEF Next, MemberStep

-------------------------------------------------------------------------------
(* The inductive invariant. *)
Inv == TypeOK /\ AnsweredSaved /\ WatchCovers /\ GapFits

LEMMA InvHolds == Spec => []Inv
<1>1. Init => Inv
  BY InitType, EntryTypes
     DEF Init, Inv, AnsweredSaved, WatchCovers, GapFits, Known, Joined
<1>2. Inv /\ [Next]_vars => Inv'
  BY NextType, NextAnswered, NextCovered, NextFits DEF Inv
<1> QED
  BY <1>1, <1>2, PTL DEF Spec

(* A member whose rounds stay within their limits is never marked DOWN, for   *)
(* any limits with RpcLimit + Pause + Jitter + DialLimit + RpcLimit within    *)
(* the timeout.                                                               *)
THEOREM NeverFalselyDown == Spec => []NoFalseDown
<1>1. Inv => NoFalseDown
  BY DEF Inv, GapFits, NoFalseDown
<1> QED
  BY <1>1, InvHolds, PTL

(* A member that is silent is DOWN one watcher period after the timeout.      *)
THEOREM DeadIsDetected == Spec => []DeadDetected
<1>1. Inv => DeadDetected
  <2> SUFFICES ASSUME Inv, watched, Known, entry.alive
               PROVE  entry.age <= HeartbeatTimeout + HeartbeatInterval
    BY DEF DeadDetected
  <2>1. entry.age \in Nat /\ watch \in Nat
    BY EntryTypes, TimeAssumption DEF Inv, TypeOK, Entry, Known
  <2>2. entry.age + watch <= HeartbeatTimeout + HeartbeatInterval
    BY DEF Inv, WatchCovers
  <2> QED
    BY <2>1, <2>2, TimeAssumption
<1> QED
  BY <1>1, InvHolds, PTL

(* A registered member stays known over restarts of the leader, unless the    *)
(* file lacked it when it was answered or was torn by a later save.           *)
THEOREM JoinedStaysKnown == Spec => []JoinedKnown
<1>1. Inv => JoinedKnown
  BY DEF Inv, AnsweredSaved, JoinedKnown
<1> QED
  BY <1>1, InvHolds, PTL
===============================================================================
