-------------------------------- MODULE Leader --------------------------------
(***************************************************************************)
(* The leader of a Tolerex cluster with the members it replicates to:      *)
(* internal/server/leader/leader.go, the Store and Retrieve handlers of    *)
(* internal/server/member/member.go, the files of internal/storage and the *)
(* life of a member process from cmd/member/main.go.                       *)
(*                                                                         *)
(* Concurrent SET and GET requests run against each other, against the     *)
(* members' RPC handlers, registrations, heartbeats, the heartbeat watcher *)
(* and the writing of leader_state.json; RPCs are lost or given up while   *)
(* the member still works on them; members and the leader crash.           *)
(*                                                                         *)
(* An action is one critical section of stateMu, or one step of a member.  *)
(* stateMu is free between two actions except while saveState writes the   *)
(* file under it: saver is the process doing so.                           *)
(*                                                                         *)
(* Abstractions.  The text of a SET is the SET itself: a file that holds o *)
(* holds the text that o carried.  An address is a natural number (see     *)
(* Balancer).  LastSeen is the single fact the code derives from it: stale *)
(* means more than heartbeatTimeout ago.  The order of a slice of          *)
(* replicas, which is the order in which RPCs happened to end, is dropped. *)
(***************************************************************************)
EXTENDS Naturals, Sequences, FiniteSets, Balancer

CONSTANTS
  Member,          \* addresses of the members, natural numbers
  Op,              \* SET requests, each executed at most once
  Getter,          \* GET requests, each executed at most once
  Id,              \* message identifiers
  Tolerance,       \* the value ReadTolerance returned
  Strategy,        \* BALANCER_STRATEGY: "p2c" or "leastloaded"
  Known,           \* sequence of the members in the state file at boot
  SaveMayFail,     \* TRUE: os.WriteFile may return an error
  MaxLeaderCrash,  \* bound on leader crashes
  MaxMemberCrash,  \* bound on member crashes
  MaxSilence,      \* bound on how often a LastSeen grows stale
  NoInfo,          \* MemberLog has no entry
  NoMember,        \* no RPC in progress
  NoProc,          \* stateMu is not held by a saveState
  Watcher,         \* the goroutine of StartHeartbeatWatcher
  NoFile,          \* <id>.msg does not exist
  Partial,         \* it is truncated and not, or only partly, written
  Mixed            \* it holds bytes of several texts

RangeOf(s) == {s[i] : i \in DOMAIN s}

ASSUME LeaderAssumption ==
  /\ Member \subseteq Nat /\ IsFiniteSet(Member)
  /\ IsFiniteSet(Op) /\ IsFiniteSet(Id)
  /\ Tolerance \in Nat \ {0}
  /\ Strategy \in {"p2c", "leastloaded"}
  /\ Known \in Seq(Member)
  /\ \A i, j \in DOMAIN Known : Known[i] = Known[j] => i = j
  /\ SaveMayFail \in BOOLEAN
  /\ MaxLeaderCrash \in Nat /\ MaxMemberCrash \in Nat /\ MaxSilence \in Nat

(* The sentinels differ from the values they stand beside. *)
ASSUME SentinelAssumption ==
  /\ NoInfo \notin [cnt : Nat, alive : BOOLEAN, stale : BOOLEAN]
  /\ NoMember \notin Member
  /\ NoProc \notin Op \cup Member \cup {Watcher}
  /\ Watcher \notin Op \cup Member
  /\ Op \cap Member = {}
  /\ Op \cap {NoFile, Partial, Mixed} = {}
  /\ NoFile # Partial /\ NoFile # Mixed /\ Partial # Mixed

VARIABLES
  leaderUp,        \* the leader process runs
  members,         \* s.Members
  memberLog,       \* s.MemberLog: Info, or NoInfo for nil
  msgMap,          \* s.MsgMap: replicas of each id, {} when there is no entry
  file,            \* leader_state.json: its status and what loadState gets from it
  saver,           \* who holds stateMu while writing the file, or NoProc
  want,            \* who has to call saveState (or is inside it)
  lost,            \* history: a torn file was loaded or a save failed
  leaderCrashes,   \* history: bounded by MaxLeaderCrash
  memberCrashes,   \* history: bounded by MaxMemberCrash
  silences,        \* history: bounded by MaxSilence
  mstate,          \* life of each member process
  disk,            \* disk[m][id]: the member's <id>.msg
  pc,              \* progress of each SET
  opId,            \* the id each SET carries
  rpc,             \* rpc[o][m]: the Store RPC of o to m, as its caller sees it
  handler,         \* handler[o][m]: the same RPC on the way to and inside m
  gpc,             \* progress of each GET
  getId,           \* the id each GET asks for
  todo,            \* members a GET has yet to try
  cur,             \* member a GET waits for, or NoMember
  got,             \* what the member it asks has read; its answer, once done
  acked            \* history: SETs that were answered OK when a GET was called

leaderVars == <<leaderUp, members, memberLog, msgMap>>
saveVars   == <<file, saver, want, lost>>
crashVars  == <<leaderCrashes, memberCrashes, silences>>
storeVars  == <<pc, opId, rpc, handler>>
getVars    == <<gpc, getId, todo, cur, got, acked>>
vars == <<leaderVars, saveVars, crashVars, mstate, disk, storeVars, getVars>>

Info == [cnt : Nat, alive : BOOLEAN, stale : BOOLEAN]
Proc == Op \cup Member \cup {Watcher}
Content == Op \cup {NoFile, Partial, Mixed}

NoLog == [m \in Member |-> NoInfo]
NoMap == [i \in Id |-> {}]

(* Mutant: a struct whose MsgMap is not serialised. *)
LeaderState_NoMsgMap(ms, log, map) == [members |-> ms, memberLog |-> log, msgMap |-> NoMap]

(* LeaderState, the struct that is serialised. *)
LeaderState(ms, log, map) == [members |-> ms, memberLog |-> log, msgMap |-> map]

(* What loadState restores when there is no file, or none that parses. *)
EmptyState == LeaderState(<< >>, NoLog, NoMap)

(* A member as RegisterMember enters it. *)
NewInfo == [cnt |-> 0, alive |-> TRUE, stale |-> FALSE]

(* info != nil && info.Alive *)
IsAlive(m) == memberLog[m] # NoInfo /\ memberLog[m].alive

(* Mutant: a member marked DOWN is taken for a new one. *)
Registered_OnlyAlive(m) == IsAlive(m)

(* _, exists := s.MemberLog[addr] *)
Registered(m) == memberLog[m] # NoInfo

(* stateMu can be taken. *)
LockFree == leaderUp /\ saver = NoProc

(* Alive = true, LastSeen = now, as Heartbeat and RegisterMember both do. *)
Revived(m) == [memberLog EXCEPT ![m].alive = TRUE, ![m].stale = FALSE]

-------------------------------------------------------------------------------
(* A leader that has just loaded a state file naming Known, whose processes *)
(* are running, or that boots for the first time when Known is empty.       *)
KnownLog == [m \in Member |-> IF m \in RangeOf(Known) THEN NewInfo ELSE NoInfo]

Init ==
  /\ leaderUp = TRUE
  /\ members = Known
  /\ memberLog = KnownLog
  /\ msgMap = NoMap
  /\ file = IF Known = << >>
              THEN [status |-> "absent", state |-> EmptyState]
              ELSE [status |-> "ok", state |-> LeaderState(Known, KnownLog, NoMap)]
  /\ saver = NoProc /\ want = {} /\ lost = FALSE
  /\ leaderCrashes = 0 /\ memberCrashes = 0 /\ silences = 0
  /\ mstate = [m \in Member |-> IF m \in RangeOf(Known) THEN "up" ELSE "down"]
  /\ disk = [m \in Member |-> [i \in Id |-> NoFile]]
  /\ pc = [o \in Op |-> "idle"]
  /\ opId \in [Op -> Id]
  /\ rpc = [o \in Op |-> [m \in Member |-> "none"]]
  /\ handler = [o \in Op |-> [m \in Member |-> "none"]]
  /\ gpc = [g \in Getter |-> "idle"]
  /\ getId \in [Getter -> Id]
  /\ todo = [g \in Getter |-> {}]
  /\ cur = [g \in Getter |-> NoMember]
  /\ got = [g \in Getter |-> NoFile]
  /\ acked = [g \in Getter |-> {}]

-------------------------------------------------------------------------------
(* LeaderServer.Store *)

Candidates == {a \in RangeOf(members) : IsAlive(a)}
Load == [a \in Candidates |-> memberLog[a].cnt]

(* Snapshot under stateMu, Pick, and either give up or start one RPC per    *)
(* target.  Pick sees the snapshot only, so it is part of the same step.    *)
StoreCall(o) ==
  /\ pc[o] = "idle"
  /\ LockFree
  /\ \E S \in Picks(Strategy, Candidates, Load, Tolerance) :
       IF Cardinality(S) < Tolerance
         THEN /\ pc' = [pc EXCEPT ![o] = "failed"]
              /\ UNCHANGED <<rpc, handler>>
         ELSE /\ pc' = [pc EXCEPT ![o] = "send"]
              /\ rpc' = [rpc EXCEPT ![o] = [m \in Member |-> IF m \in S THEN "pending" ELSE "none"]]
              /\ handler' = [handler EXCEPT ![o] = [m \in Member |-> IF m \in S THEN "net" ELSE "none"]]
  /\ UNCHANGED <<leaderVars, saveVars, crashVars, mstate, disk, opId, getVars>>

(* dialMember fails, the RPC returns an error, its reply is lost, or        *)
(* rpcTimeout expires: to the caller all of them are a failed replica.  The *)
(* request itself may still be on its way, or being served.                 *)
RpcFail(o, m) ==
  /\ rpc[o][m] = "pending"
  /\ rpc' = [rpc EXCEPT ![o][m] = "err"]
  /\ UNCHANGED <<leaderVars, saveVars, crashVars, mstate, disk, pc, opId, handler, getVars>>

(* Mutant: a target counts whatever its RPC returned. *)
Succeeded_Contacted(o) == {m \in Member : rpc[o][m] # "none"}

(* What Store reads from the results channel. *)
Succeeded(o) == {m \in Member : rpc[o][m] = "ok"}

(* Mutant: Store waits for every target to succeed. *)
AllEnded_AllSucceeded(o) == \A m \in Member : rpc[o][m] \in {"none", "ok"}

(* wg.Wait() returns and the channel is closed. *)
AllEnded(o) == \A m \in Member : rpc[o][m] # "pending"

(* Mutant: MessageCnt-- for MessageCnt++. *)
CountedLog_Down(o) ==
  [m \in Member |-> IF m \in Succeeded(o) /\ memberLog[m] # NoInfo
                      THEN [memberLog[m] EXCEPT !.cnt = @ - 1]
                      ELSE memberLog[m]]

(* One more message for every member that answered. *)
CountedLog(o) ==
  [m \in Member |-> IF m \in Succeeded(o) /\ memberLog[m] # NoInfo
                      THEN [memberLog[m] EXCEPT !.cnt = @ + 1]
                      ELSE memberLog[m]]

(* Mutant: the SET is answered as soon as it is in MsgMap; the save follows. *)
StoreCollect_AckFirst(o) ==
  /\ pc[o] = "send"
  /\ AllEnded(o)
  /\ leaderUp
  /\ Succeeded(o) = {} \/ saver = NoProc
  /\ memberLog' = CountedLog(o)
  /\ IF Cardinality(Succeeded(o)) >= Tolerance
       THEN /\ msgMap' = [msgMap EXCEPT ![opId[o]] = Succeeded(o)]
            /\ want' = want \cup {o}
            /\ pc' = [pc EXCEPT ![o] = "ok"]
       ELSE /\ pc' = [pc EXCEPT ![o] = "failed"]
            /\ UNCHANGED <<msgMap, want>>
  /\ UNCHANGED <<leaderUp, members, file, saver, lost, crashVars, mstate, disk,
                 opId, rpc, handler, getVars>>

(* All RPCs have ended.  MessageCnt grows for each member that answered;    *)
(* MsgMap gets its entry only if enough did.                                *)
StoreCollect(o) ==
  /\ pc[o] = "send"
  /\ AllEnded(o)
  /\ leaderUp
  /\ Succeeded(o) = {} \/ saver = NoProc
  /\ memberLog' = CountedLog(o)
  /\ IF Cardinality(Succeeded(o)) >= Tolerance
       THEN /\ msgMap' = [msgMap EXCEPT ![opId[o]] = Succeeded(o)]
            /\ want' = want \cup {o}
            /\ pc' = [pc EXCEPT ![o] = "save"]
       ELSE /\ pc' = [pc EXCEPT ![o] = "failed"]
            /\ UNCHANGED <<msgMap, want>>
  /\ UNCHANGED <<leaderUp, members, file, saver, lost, crashVars, mstate, disk,
                 opId, rpc, handler, getVars>>

-------------------------------------------------------------------------------
(* MemberServer.Store and storage.WriteMessage *)

Serving(m) == mstate[m] # "down"

(* The request arrives, ctx is not done, and os.Create truncates the file.  *)
MemberOpen(o, m) ==
  /\ handler[o][m] = "net"
  /\ Serving(m)
  /\ handler' = [handler EXCEPT ![o][m] = "open"]
  /\ disk' = [disk EXCEPT ![m][opId[o]] = Partial]
  /\ UNCHANGED <<leaderVars, saveVars, crashVars, mstate, pc, opId, rpc, getVars>>

(* The request never arrives, or it is cancelled before the write; its      *)
(* caller has seen it fail (RpcFail, or the leader is gone).                *)
MemberDrop(o, m) ==
  /\ handler[o][m] = "net"
  /\ rpc[o][m] = "err"
  /\ handler' = [handler EXCEPT ![o][m] = "none"]
  /\ UNCHANGED <<leaderVars, saveVars, crashVars, mstate, disk, pc, opId, rpc, getVars>>

(* Mutant: the buffered writer is never flushed. *)
MemberFlush_Forgotten(o, m) ==
  /\ handler[o][m] = "open"
  /\ handler' = [handler EXCEPT ![o][m] = "written"]
  /\ UNCHANGED <<leaderVars, saveVars, crashVars, mstate, disk, pc, opId, rpc, getVars>>

(* No other handler has truncated or written the file o has truncated. *)
AloneIn(o, m) ==
  /\ disk[m][opId[o]] = Partial
  /\ \A p \in Op \ {o} : opId[p] = opId[o] => handler[p][m] # "open"

(* A piece of a long text is written over what other handlers wrote since.  *)
MemberWritePart(o, m) ==
  /\ handler[o][m] = "open"
  /\ ~AloneIn(o, m)
  /\ disk' = [disk EXCEPT ![m][opId[o]] = Mixed]
  /\ UNCHANGED <<leaderVars, saveVars, crashVars, mstate, storeVars, getVars>>

(* The rest of it is written, over whatever is there: a longer text of      *)
(* others keeps its tail, and a truncation between two pieces leaves a hole.*)
MemberFlush(o, m) ==
  /\ handler[o][m] = "open"
  /\ handler' = [handler EXCEPT ![o][m] = "written"]
  /\ \E c \in IF AloneIn(o, m) THEN {o} ELSE {o, Mixed} :
       disk' = [disk EXCEPT ![m][opId[o]] = c]
  /\ UNCHANGED <<leaderVars, saveVars, crashVars, mstate, pc, opId, rpc, getVars>>

(* WriteString or Flush fails after the truncation: the handler answers     *)
(* Ok = false and leaves the file as it is.                                 *)
MemberWriteError(o, m) ==
  /\ handler[o][m] = "open"
  /\ handler' = [handler EXCEPT ![o][m] = "none"]
  /\ rpc' = IF rpc[o][m] = "pending" THEN [rpc EXCEPT ![o][m] = "err"] ELSE rpc
  /\ UNCHANGED <<leaderVars, saveVars, crashVars, mstate, disk, pc, opId, getVars>>

(* The handler returns.  A caller that gave up in the meantime has made     *)
(* ctx done: the answer is Canceled and nobody reads it.                    *)
MemberReply(o, m) ==
  /\ handler[o][m] = "written"
  /\ handler' = [handler EXCEPT ![o][m] = "none"]
  /\ rpc' = IF rpc[o][m] = "pending" THEN [rpc EXCEPT ![o][m] = "ok"] ELSE rpc
  /\ UNCHANGED <<leaderVars, saveVars, crashVars, mstate, disk, pc, opId, getVars>>

-------------------------------------------------------------------------------
(* LeaderServer.Retrieve *)

(* Snapshot under stateMu: the replicas, or every member without an entry.  *)
GetCall(g) ==
  /\ gpc[g] = "idle"
  /\ LockFree
  /\ gpc' = [gpc EXCEPT ![g] = "probe"]
  /\ todo' = [todo EXCEPT ![g] = IF msgMap[getId[g]] # {}
                                   THEN msgMap[getId[g]]
                                   ELSE RangeOf(members)]
  /\ acked' = [acked EXCEPT ![g] = {o \in Op : pc[o] = "ok"}]
  /\ UNCHANGED <<leaderVars, saveVars, crashVars, mstate, disk, storeVars, getId, cur, got>>

(* The next target: skipped when marked DOWN, otherwise sent the RPC.       *)
GetCheck(g) ==
  /\ gpc[g] = "probe"
  /\ LockFree
  /\ \E m \in todo[g] :
       /\ todo' = [todo EXCEPT ![g] = @ \ {m}]
       /\ IF IsAlive(m)
            THEN /\ gpc' = [gpc EXCEPT ![g] = "wait"]
                 /\ cur' = [cur EXCEPT ![g] = m]
            ELSE UNCHANGED <<gpc, cur>>
  /\ UNCHANGED <<leaderVars, saveVars, crashVars, mstate, disk, storeVars, getId, got, acked>>

(* storage.ReadMessage: the file as it is at this moment; while a handler   *)
(* writes it, also a part of it, or of two texts.                           *)
ReadMessage(m, i) ==
  {disk[m][i]} \cup
    {c \in {Partial, Mixed} : \E o \in Op : opId[o] = i /\ handler[o][m] = "open"}

(* MemberServer.Retrieve has read the file; without one it answers          *)
(* NOT_FOUND, see GetMiss.                                                  *)
MemberRead(g) ==
  /\ gpc[g] = "wait" /\ got[g] = NoFile
  /\ Serving(cur[g]) /\ disk[cur[g]][getId[g]] # NoFile
  /\ \E c \in ReadMessage(cur[g], getId[g]) : got' = [got EXCEPT ![g] = c]
  /\ UNCHANGED <<leaderVars, saveVars, crashVars, mstate, disk, storeVars,
                 gpc, getId, todo, cur, acked>>

(* The reply arrives in time, whatever has happened since the read.         *)
GetAnswer(g) ==
  /\ gpc[g] = "wait" /\ got[g] # NoFile
  /\ gpc' = [gpc EXCEPT ![g] = "done"]
  /\ cur' = [cur EXCEPT ![g] = NoMember]
  /\ UNCHANGED <<leaderVars, saveVars, crashVars, mstate, disk, storeVars,
                 getId, todo, got, acked>>

(* Mutant: the target that failed is tried again. *)
GetMiss_Retry(g) ==
  /\ gpc[g] = "wait"
  /\ gpc' = [gpc EXCEPT ![g] = "probe"]
  /\ todo' = [todo EXCEPT ![g] = @ \cup {cur[g]}]
  /\ cur' = [cur EXCEPT ![g] = NoMember]
  /\ got' = [got EXCEPT ![g] = NoFile]
  /\ UNCHANGED <<leaderVars, saveVars, crashVars, mstate, disk, storeVars, getId, acked>>

(* No such file, the member is down, the dial or the RPC failed or timed    *)
(* out: the loop goes on to the next target and leaves MemberLog alone.     *)
GetMiss(g) ==
  /\ gpc[g] = "wait"
  /\ gpc' = [gpc EXCEPT ![g] = "probe"]
  /\ cur' = [cur EXCEPT ![g] = NoMember]
  /\ got' = [got EXCEPT ![g] = NoFile]
  /\ UNCHANGED <<leaderVars, saveVars, crashVars, mstate, disk, storeVars, getId, todo, acked>>

GetNotFound(g) ==
  /\ gpc[g] = "probe"
  /\ todo[g] = {}
  /\ gpc' = [gpc EXCEPT ![g] = "notfound"]
  /\ UNCHANGED <<leaderVars, saveVars, crashVars, mstate, disk, storeVars,
                 getId, todo, cur, got, acked>>

-------------------------------------------------------------------------------
(* Membership: RegisterMember, Heartbeat, the watcher, the member process *)

(* main(): the gRPC server is started, then the member registers.           *)
MemberStart(m) ==
  /\ mstate[m] = "down"
  /\ mstate' = [mstate EXCEPT ![m] = "joining"]
  /\ UNCHANGED <<leaderVars, saveVars, crashVars, disk, storeVars, getVars>>

(* A new member is appended and has to be saved before the reply is sent; a *)
(* known one is revived and answered at once, even while an earlier         *)
(* registration of the same address is still waiting to be saved.           *)
RegisterMember(m) ==
  /\ mstate[m] = "joining"
  /\ LockFree
  /\ IF Registered(m)
       THEN /\ memberLog' = Revived(m)
            /\ mstate' = [mstate EXCEPT ![m] = "answered"]
            /\ UNCHANGED <<members, want>>
       ELSE /\ members' = Append(members, m)
            /\ memberLog' = [memberLog EXCEPT ![m] = NewInfo]
            /\ want' = want \cup {m}
            /\ mstate' = [mstate EXCEPT ![m] = "waiting"]
  /\ UNCHANGED <<leaderUp, msgMap, file, saver, lost, crashVars, disk, storeVars, getVars>>

(* The reply arrives and the heartbeat loop starts.                         *)
RegisterReply(m) ==
  /\ mstate[m] = "answered" \/ (mstate[m] = "waiting" /\ m \notin want)
  /\ mstate' = [mstate EXCEPT ![m] = "up"]
  /\ UNCHANGED <<leaderVars, saveVars, crashVars, disk, storeVars, getVars>>

(* The handlers of a process that exits are gone; a request that has not    *)
(* arrived may still reach its next incarnation.                            *)
HandlersWithout(m) ==
  [o \in Op |-> [handler[o] EXCEPT ![m] = IF @ = "net" THEN "net" ELSE "none"]]

(* registerToLeader gets an error or runs into its 8 s limit, whatever the  *)
(* leader did with the request: the process exits.                          *)
RegisterFail(m) ==
  /\ mstate[m] \in {"joining", "waiting", "answered", "refused"}
  /\ mstate' = [mstate EXCEPT ![m] = "down"]
  /\ handler' = HandlersWithout(m)
  /\ UNCHANGED <<leaderVars, saveVars, crashVars, disk, pc, opId, rpc, getVars>>

MemberCrash(m) ==
  /\ mstate[m] # "down"
  /\ memberCrashes < MaxMemberCrash
  /\ memberCrashes' = memberCrashes + 1
  /\ mstate' = [mstate EXCEPT ![m] = "down"]
  /\ handler' = HandlersWithout(m)
  /\ UNCHANGED <<leaderVars, saveVars, leaderCrashes, silences, disk, pc, opId, rpc, getVars>>

(* An unknown sender is answered OK and nothing changes.                    *)
Heartbeat(m) ==
  /\ mstate[m] = "up"
  /\ LockFree
  /\ memberLog' = IF memberLog[m] # NoInfo THEN Revived(m) ELSE memberLog
  /\ UNCHANGED <<leaderUp, members, msgMap, saveVars, crashVars, mstate, disk, storeVars, getVars>>

(* No heartbeat of m has been handled for heartbeatTimeout.                 *)
TimePasses(m) ==
  /\ leaderUp
  /\ memberLog[m] # NoInfo /\ ~memberLog[m].stale
  /\ silences < MaxSilence
  /\ silences' = silences + 1
  /\ memberLog' = [memberLog EXCEPT ![m].stale = TRUE]
  /\ UNCHANGED <<leaderUp, members, msgMap, saveVars, leaderCrashes, memberCrashes, mstate, disk,
                 storeVars, getVars>>

Expired(m) == IsAlive(m) /\ memberLog[m].stale

(* One tick of the watcher that marks somebody DOWN; it saves afterwards.   *)
WatcherTick ==
  /\ LockFree /\ Watcher \notin want
  /\ \E m \in Member : Expired(m)
  /\ memberLog' = [m \in Member |->
                     IF Expired(m) THEN [memberLog[m] EXCEPT !.alive = FALSE] ELSE memberLog[m]]
  /\ want' = want \cup {Watcher}
  /\ UNCHANGED <<leaderUp, members, msgMap, file, saver, lost, crashVars, mstate, disk,
                 storeVars, getVars>>

-------------------------------------------------------------------------------
(* saveState, loadState and the leader process *)

(* What the caller of saveState does next, whatever saveState returned.     *)
AfterSave(p) ==
  /\ want' = want \ {p}
  /\ saver' = NoProc
  /\ pc' = IF p \in Op THEN [pc EXCEPT ![p] = "ok"] ELSE pc
  /\ UNCHANGED <<leaderVars, crashVars, mstate, disk, opId, rpc, handler, getVars>>

(* stateMu is taken and os.WriteFile truncates the old file.                *)
SaveBegin(p) ==
  /\ p \in want
  /\ LockFree
  /\ saver' = p
  /\ file' = [status |-> "torn", state |-> EmptyState]
  /\ UNCHANGED <<leaderVars, want, lost, crashVars, mstate, disk, storeVars, getVars>>

(* The serialised state is on disk; stateMu is released.                    *)
SaveEnd(p) ==
  /\ saver = p
  /\ file' = [status |-> "ok", state |-> LeaderState(members, memberLog, msgMap)]
  /\ UNCHANGED lost
  /\ AfterSave(p)

(* os.WriteFile fails, before or after truncating.  Every caller ignores it. *)
SaveError(p) ==
  /\ SaveMayFail
  /\ saver = p \/ (p \in want /\ LockFree)
  /\ lost' = TRUE
  /\ UNCHANGED file
  /\ AfterSave(p)

(* The process dies: what it held in memory is gone, requests in progress   *)
(* get no answer, a file being written stays torn.                          *)
LeaderCrash ==
  /\ leaderUp
  /\ leaderCrashes < MaxLeaderCrash
  /\ leaderCrashes' = leaderCrashes + 1
  /\ leaderUp' = FALSE
  /\ members' = << >> /\ memberLog' = NoLog /\ msgMap' = NoMap
  /\ saver' = NoProc /\ want' = {}
  /\ pc' = [o \in Op |-> IF pc[o] \in {"send", "save"} THEN "lost" ELSE pc[o]]
  /\ rpc' = [o \in Op |-> [m \in Member |->
               IF rpc[o][m] = "pending" THEN "err" ELSE rpc[o][m]]]
  /\ gpc' = [g \in Getter |-> IF gpc[g] \in {"probe", "wait"} THEN "lost" ELSE gpc[g]]
  /\ todo' = [g \in Getter |-> {}]
  /\ cur' = [g \in Getter |-> NoMember]
  /\ got' = [g \in Getter |-> IF gpc[g] = "wait" THEN NoFile ELSE got[g]]
  /\ mstate' = [m \in Member |->
                  IF mstate[m] = "waiting" /\ m \in want THEN "refused" ELSE mstate[m]]
  /\ UNCHANGED <<file, lost, memberCrashes, silences, disk, opId, handler, getId, acked>>

(* Mutant: loaded members are entered as if they had just registered. *)
LoadedLog_Fresh ==
  [m \in Member |-> IF file.state.memberLog[m] # NoInfo THEN NewInfo ELSE NoInfo]

(* What loadState makes of the MemberLog in the file. *)
LoadedLog == file.state.memberLog

(* NewLeaderServer: a file that cannot be parsed only costs a warning.      *)
LeaderStart ==
  /\ ~leaderUp
  /\ leaderUp' = TRUE
  /\ members' = file.state.members
  /\ memberLog' = LoadedLog
  /\ msgMap' = file.state.msgMap
  /\ lost' = (lost \/ file.status = "torn")
  /\ UNCHANGED <<file, saver, want, crashVars, mstate, disk, storeVars, getVars>>

-------------------------------------------------------------------------------
StoreNext(o) ==
  \/ StoreCall(o)
  \/ StoreCollect(o)
  \/ \E m \in Member :
       \/ RpcFail(o, m)
       \/ MemberOpen(o, m)
       \/ MemberDrop(o, m)
       \/ MemberWritePart(o, m)
       \/ MemberFlush(o, m)
       \/ MemberWriteError(o, m)
       \/ MemberReply(o, m)

GetNext(g) ==
  \/ GetCall(g)
  \/ GetCheck(g)
  \/ MemberRead(g)
  \/ GetAnswer(g)
  \/ GetMiss(g)
  \/ GetNotFound(g)

MemberNext(m) ==
  \/ MemberStart(m)
  \/ RegisterMember(m)
  \/ RegisterReply(m)
  \/ RegisterFail(m)
  \/ MemberCrash(m)
  \/ Heartbeat(m)
  \/ TimePasses(m)

SaveNext(p) ==
  \/ SaveBegin(p)
  \/ SaveEnd(p)
  \/ SaveError(p)

Next ==
  \/ \E o \in Op : StoreNext(o)
  \/ \E g \in Getter : GetNext(g)
  \/ \E m \in Member : MemberNext(m)
  \/ \E p \in Proc : SaveNext(p)
  \/ WatcherTick
  \/ LeaderCrash
  \/ LeaderStart

Spec == Init /\ [][Next]_vars

-------------------------------------------------------------------------------
(* Types *)

StateType == [members : Seq(Member),
              memberLog : [Member -> Info \cup {NoInfo}],
              msgMap : [Id -> SUBSET Member]]

(* Every variable has the values its declaration names, and a GET waits for *)
(* a member exactly while it is in "wait".                                  *)
TypeOK ==
  /\ leaderUp \in BOOLEAN
  /\ members \in Seq(Member)
  /\ memberLog \in [Member -> Info \cup {NoInfo}]
  /\ msgMap \in [Id -> SUBSET Member]
  /\ file \in [status : {"absent", "torn", "ok"}, state : StateType]
  /\ saver \in Proc \cup {NoProc}
  /\ want \subseteq Proc
  /\ lost \in BOOLEAN
  /\ leaderCrashes \in Nat /\ memberCrashes \in Nat /\ silences \in Nat
  /\ mstate \in [Member -> {"down", "joining", "waiting", "answered", "refused", "up"}]
  /\ disk \in [Member -> [Id -> Content]]
  /\ pc \in [Op -> {"idle", "send", "save", "ok", "failed", "lost"}]
  /\ opId \in [Op -> Id]
  /\ rpc \in [Op -> [Member -> {"none", "pending", "ok", "err"}]]
  /\ handler \in [Op -> [Member -> {"none", "net", "open", "written"}]]
  /\ gpc \in [Getter -> {"idle", "probe", "wait", "done", "notfound", "lost"}]
  /\ getId \in [Getter -> Id]
  /\ todo \in [Getter -> SUBSET Member]
  /\ cur \in [Getter -> Member \cup {NoMember}]
  /\ got \in [Getter -> Content] /\ acked \in [Getter -> SUBSET Op]
  /\ \A g \in Getter : gpc[g] = "wait" <=> cur[g] \in Member

-------------------------------------------------------------------------------
(* Safety *)

NoDuplicates(ms) == \A i, j \in DOMAIN ms : ms[i] = ms[j] => i = j

Matches(ms, log) ==
  /\ NoDuplicates(ms)
  /\ RangeOf(ms) = {m \in Member : log[m] # NoInfo}

(* s.Members lists each registered address once and exactly the addresses   *)
(* of s.MemberLog, in memory and in the state file, through registrations   *)
(* that race with each other, repeated registrations, and restarts.  Store  *)
(* relies on it: a duplicate in Members would be picked as two replicas.    *)
MembersMatchLog ==
  /\ Matches(members, memberLog)
  /\ Matches(file.state.members, file.state.memberLog)

Replicated(map) ==
  \A i \in Id : map[i] # {} =>
    /\ Cardinality(map[i]) = Tolerance
    /\ \A m \in map[i] : disk[m][i] # NoFile

(* An entry of MsgMap, in memory or in the state file, names exactly        *)
(* Tolerance distinct members and each of them has a file for that id: the  *)
(* index never points where nothing was written, although RPCs are given up *)
(* while the member still works on them and members and the leader crash.   *)
IndexReplicated == Replicated(msgMap) /\ Replicated(file.state.msgMap)

Held(log, map) ==
  \A m \in Member :
    \A J \in SUBSET Id :
      J # {} /\ (\A i \in J : m \in map[i]) =>
        log[m] # NoInfo /\ log[m].cnt >= Cardinality(J)

(* MessageCnt, which the balancer trusts, is never below the number of ids  *)
(* whose entry names the member: failed and repeated SETs may inflate it,   *)
(* but nothing, a restart from an old state file included, makes a member   *)
(* look emptier than the index says.                                        *)
CountCoversIndex ==
  /\ Held(memberLog, msgMap)
  /\ Held(file.state.memberLog, file.state.msgMap)

(* SETs that were answered OK without another SET on the same id having     *)
(* been made: what the client may count on.                                 *)
Settled(o) ==
  /\ pc[o] = "ok"
  /\ \A p \in Op \ {o} : opId[p] = opId[o] => pc[p] = "idle"

(* Once a SET has been answered OK, its text is complete on at least        *)
(* Tolerance members and no member has anything else for that id, whatever  *)
(* crashes and late RPCs follow: any Tolerance - 1 members may be lost.     *)
SettledSurvives ==
  \A o \in Op : Settled(o) =>
    /\ Cardinality({m \in Member : disk[m][opId[o]] = o}) >= Tolerance
    /\ \A m \in Member : disk[m][opId[o]] \in {NoFile, o}

(* An id that was acknowledged has its entry in memory and in every state   *)
(* file that can be read, unless a torn file was loaded or a save failed:   *)
(* a save never writes a snapshot that is older than the file it replaces,  *)
(* and the reply is never sent before the entry is on disk.                 *)
AckedIndexed ==
  ~lost => \A o \in Op : pc[o] = "ok" =>
    /\ leaderUp => msgMap[opId[o]] # {}
    /\ file.status # "torn" => file.state.msgMap[opId[o]] # {}

(* A GET that is called after the SET was acknowledged returns the text of  *)
(* that SET if it returns any, never an empty, torn or foreign file, also   *)
(* when the index was lost and it asks every member, and however long the   *)
(* member's reply takes.  (One that was called before may return an empty   *)
(* text after the acknowledgement: its member read in the truncated file.)  *)
ReadsSettled ==
  \A g \in Getter : \A o \in acked[g] :
    Settled(o) /\ opId[o] = getId[g] /\ gpc[g] = "done" => got[g] = o

(* Memory is never ahead of the state file without a save on its way: a     *)
(* registered member or an indexed id that the file does not have yet still *)
(* has a caller of saveState to come, unless a save failed.                 *)
UnsavedIsPending ==
  leaderUp /\ ~lost /\ file.status # "torn" =>
    /\ \A m \in Member : memberLog[m] # NoInfo =>
         m \in want \/ file.state.memberLog[m] # NoInfo
    /\ \A i \in Id : msgMap[i] # {} =>
         (\E o \in want \cap Op : opId[o] = i) \/ file.state.msgMap[i] # {}

-------------------------------------------------------------------------------
(* What the documentation says and the code does not do. *)

(* config.go: the system tolerates up to N failures by replicating to N     *)
(* members.  An acknowledged text survives the loss of any N members.       *)
ToleratesNFailures ==
  \A o \in Op : Settled(o) =>
    \A F \in SUBSET Member : Cardinality(F) <= Tolerance =>
      \E m \in Member \ F : disk[m][opId[o]] = o

(* leader.go: members and message replicas are persisted to disk for        *)
(* recovery.  A running leader knows the replicas of every acknowledged id. *)
AckedRecoverable ==
  leaderUp => \A o \in Op : pc[o] = "ok" => msgMap[opId[o]] # {}

-------------------------------------------------------------------------------
(* Liveness *)

(* What the runtime guarantees: time-outs expire, goroutines run, and a     *)
(* waiter gets a sync.Mutex in the end (it is starvation-free), hence the   *)
(* strong fairness of the critical sections.  Nothing is assumed of the     *)
(* members, the network, or of anybody's wish to start a request.           *)
Fairness ==
  /\ \A o \in Op :
       /\ \A m \in Member : WF_vars(RpcFail(o, m))
       /\ SF_vars(StoreCollect(o))
  /\ \A g \in Getter :
       /\ SF_vars(GetCheck(g))
       /\ WF_vars(GetMiss(g))
       /\ WF_vars(GetNotFound(g))
  /\ \A p \in Proc :
       /\ SF_vars(SaveBegin(p))
       /\ WF_vars(SaveEnd(p))

FairSpec == Spec /\ Fairness

(* Every SET that was accepted is answered, or lost with the leader: no RPC *)
(* outcome and no queue for stateMu keeps a client waiting for ever.        *)
StoreEnds == \A o \in Op : pc[o] \in {"send", "save"} ~> pc[o] \in {"ok", "failed", "lost"}

(* So is every GET, however many members are down.                          *)
GetEnds == \A g \in Getter : gpc[g] \in {"probe", "wait"} ~> gpc[g] \in {"done", "notfound", "lost"}
===============================================================================
