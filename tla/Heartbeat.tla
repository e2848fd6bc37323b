------------------------------- MODULE Heartbeat -------------------------------
(***************************************************************************)
(* Failure detection in time: one member process (registerToLeader and     *)
(* startHeartbeat of cmd/member/main.go), the leader's entry for it        *)
(* (RegisterMember, Heartbeat) and the heartbeat watcher                   *)
(* (StartHeartbeatWatcher of internal/server/leader/leader.go).            *)
(*                                                                         *)
(* A tick is one second.  The steps of a process take no time of their     *)
(* own: what a round of the heartbeat loop loses to scheduling and locks   *)
(* is Jitter.  Requests that their caller has given up may still be        *)
(* handled later.                                                          *)
(*                                                                         *)
(* Other members and SETs meet this member only in stateMu and in the      *)
(* state file: they appear as saves that may happen at any time.  A save   *)
(* truncates the file before it writes it, under stateMu: only a crash or  *)
(* a failed write can leave it torn (FileAfterCut).                        *)
(***************************************************************************)
EXTENDS Naturals

CONSTANTS
  HeartbeatTimeout,   \* heartbeatTimeout of the watcher
  HeartbeatInterval,  \* heartbeatInterval, the period of its ticker
  RegisterLimit,      \* the member's limit for dialling and registering
  DialLimit,          \* its limit for dialling in a heartbeat round
  RpcLimit,           \* its limit for the Heartbeat RPC
  Pause,              \* its sleep between two rounds
  Jitter,             \* bound on what a round is late by
  SaveMayFail,        \* TRUE: os.WriteFile may return an error
  MaxLeaderCrash,     \* bound on leader crashes
  MaxExit,            \* bound on exits of the member process
  NoEntry,            \* MemberLog does not know the member
  Torn                \* a state file that does not parse

ASSUME TimeAssumption ==
  /\ HeartbeatTimeout \in Nat /\ HeartbeatInterval \in Nat \ {0}
  /\ RegisterLimit \in Nat /\ DialLimit \in Nat /\ RpcLimit \in Nat
  /\ Pause \in Nat \ {0} /\ Jitter \in Nat
  /\ SaveMayFail \in BOOLEAN
  /\ MaxLeaderCrash \in Nat /\ MaxExit \in Nat

(* A slow round fits into the timeout: what the five time limits in the two *)
(* programs have to satisfy together.                                       *)
ASSUME RoundFits == RpcLimit + Pause + Jitter + DialLimit + RpcLimit <= HeartbeatTimeout

ASSUME NoEntryAssumption ==
  /\ {NoEntry, Torn} \cap [alive : BOOLEAN, age : Nat] = {}
  /\ NoEntry # Torn

VARIABLES
  up,        \* the leader process runs
  entry,     \* MemberLog's entry: Alive, and the age of LastSeen in ticks
  saved,     \* the same in leader_state.json, or Torn
  watch,     \* ticks until the watcher's next tick
  watched,   \* the watcher has ticked since the leader started
  phase,     \* where the member process is
  timer,     \* ticks since it began to wait there
  late,      \* requests given up by the member that may still be handled
  unsafe,    \* history: the running process was answered when the file
             \* lacked it, or the leader has loaded a torn file since
  steady,    \* history: since a heartbeat was handled no round has failed
  crashes,   \* history: bounded by MaxLeaderCrash
  exits      \* history: bounded by MaxExit

leaderVars == <<up, entry, saved, watch, watched>>
memberVars == <<phase, timer>>
histVars   == <<unsafe, steady, crashes, exits>>
vars == <<leaderVars, memberVars, late, histVars>>

(* Older than this is as old as this. *)
MaxAge == HeartbeatTimeout + HeartbeatInterval + 1

Entry == [alive : BOOLEAN, age : 0..MaxAge]

(* Alive = true, LastSeen = now. *)
Fresh == [alive |-> TRUE, age |-> 0]

Known == entry # NoEntry

(* The process is in its heartbeat loop. *)
Joined == phase \in {"dial", "rpc", "reply", "pause"}

(* How long the process stays in a phase at most. *)
Limit(p) ==
  CASE p = "dial" -> DialLimit
    [] p \in {"rpc", "reply"} -> RpcLimit
    [] p = "pause" -> Pause + Jitter
    [] p = "off" -> 0
    [] OTHER -> RegisterLimit

Init ==
  /\ up = TRUE /\ entry = NoEntry /\ saved = NoEntry
  /\ watch = HeartbeatInterval /\ watched = FALSE
  /\ phase = "off" /\ timer = 0 /\ late = {}
  /\ unsafe = FALSE /\ steady = FALSE /\ crashes = 0 /\ exits = 0

-------------------------------------------------------------------------------
(* Registration *)

(* Mutant: one context for all that the process waits for. *)
Goto_KeepDeadline(p) == phase' = p /\ timer' = IF p = "off" THEN 0 ELSE timer

Goto(p) == phase' = p /\ timer' = 0

(* The process starts, and dials the leader to register. *)
Start ==
  /\ phase = "off" /\ exits < MaxExit
  /\ Goto("register")
  /\ unsafe' = FALSE
  /\ UNCHANGED <<leaderVars, late, steady, crashes, exits>>

(* Mutant: the reply does not wait for saveState. *)
RegisterMember_NoSave ==
  /\ phase = "register" /\ up
  /\ entry' = Fresh
  /\ phase' = "registered"
  /\ unsafe' = (Known /\ saved \notin Entry)
  /\ UNCHANGED <<up, saved, watch, watched, timer, late, steady, crashes, exits>>

(* A known member is revived and answered at once, an unknown one is        *)
(* entered and answered after saveState.                                    *)
RegisterMember ==
  /\ phase = "register" /\ up
  /\ entry' = Fresh
  /\ phase' = IF Known THEN "registered" ELSE "saving"
  /\ unsafe' = (Known /\ saved \notin Entry)
  /\ UNCHANGED <<up, saved, watch, watched, timer, late, steady, crashes, exits>>

(* os.WriteFile truncates first: one that fails, or is cut by a crash, may  *)
(* have done so or not.                                                     *)
FileAfterCut == {saved, Torn}

(* os.WriteFile has returned.                                               *)
Written == {entry} \cup (IF SaveMayFail THEN FileAfterCut ELSE {})

(* saveState of the handler returns, its error is only logged. *)
RegisterSave ==
  /\ phase = "saving"
  /\ phase' = "registered"
  /\ saved' \in Written
  /\ unsafe' = (saved' \notin Entry)
  /\ UNCHANGED <<up, entry, watch, watched, timer, late, steady, crashes, exits>>

(* The reply arrives in time and the heartbeat loop starts. *)
RegisterReply ==
  /\ phase = "registered"
  /\ Goto("dial")
  /\ UNCHANGED <<leaderVars, late, histVars>>

(* The process exits, as logger.Fatal does when registering fails or runs   *)
(* into its limit, or as an operator makes it: a registration or heartbeat  *)
(* on its way may still arrive.                                             *)
Exit ==
  /\ phase # "off"
  /\ exits' = exits + 1
  /\ Goto("off")
  /\ late' \in {late, late \cup (CASE phase = "register" -> {"register"}
                                   [] phase = "rpc" -> {"heartbeat"}
                                   [] OTHER -> {})}
  /\ steady' = FALSE
  /\ UNCHANGED <<leaderVars, unsafe, crashes>>

-------------------------------------------------------------------------------
(* The heartbeat loop *)

DialOk ==
  /\ phase = "dial" /\ up
  /\ Goto("rpc")
  /\ UNCHANGED <<leaderVars, late, histVars>>

(* A blocking dial retries until its limit: the round is given up. *)
DialFail ==
  /\ phase = "dial" /\ timer = DialLimit
  /\ Goto("pause")
  /\ steady' = FALSE
  /\ UNCHANGED <<leaderVars, late, unsafe, crashes, exits>>

(* Mutant: only LastSeen is set. *)
HandleHeartbeat_SeenOnly ==
  /\ phase = "rpc" /\ up
  /\ phase' = "reply"
  /\ entry' = IF Known THEN [entry EXCEPT !.age = 0] ELSE entry
  /\ steady' = Known
  /\ UNCHANGED <<up, saved, watch, watched, timer, late, unsafe, crashes, exits>>

(* LeaderServer.Heartbeat: an unknown sender is answered, nothing changes.  *)
HandleHeartbeat ==
  /\ phase = "rpc" /\ up
  /\ phase' = "reply"
  /\ entry' = IF Known THEN Fresh ELSE entry
  /\ steady' = Known
  /\ UNCHANGED <<up, saved, watch, watched, timer, late, unsafe, crashes, exits>>

(* The RPC returns, with an error or without. *)
HeartbeatReply ==
  /\ phase = "reply"
  /\ Goto("pause")
  /\ UNCHANGED <<leaderVars, late, histVars>>

(* The RPC fails or runs into its limit before the leader has handled it;   *)
(* it may do so yet.                                                        *)
HeartbeatFail ==
  /\ phase = "rpc"
  /\ Goto("pause")
  /\ late' \in {late, late \cup {"heartbeat"}}
  /\ steady' = FALSE
  /\ UNCHANGED <<leaderVars, unsafe, crashes, exits>>

Wake ==
  /\ phase = "pause" /\ timer >= Pause
  /\ Goto("dial")
  /\ UNCHANGED <<leaderVars, late, histVars>>

(* The leader handles a request nobody waits for any more.  A registration  *)
(* of an unknown member is saved too (SaveState).                           *)
HandleLate(r) ==
  /\ r \in late /\ up
  /\ late' = late \ {r}
  /\ entry' = IF Known \/ r = "register" THEN Fresh ELSE entry
  /\ UNCHANGED <<up, saved, watch, watched, memberVars, histVars>>

-------------------------------------------------------------------------------
(* The leader process *)

(* Mutant: the watcher's period for the timeout. *)
Expired_Eager == Known /\ entry.alive /\ entry.age > HeartbeatInterval

(* now.Sub(m.LastSeen) > heartbeatTimeout && m.Alive *)
Expired == Known /\ entry.alive /\ entry.age > HeartbeatTimeout

(* Mutant: the ticker runs at the timeout. *)
WatcherTick_Slow ==
  /\ up /\ watch = 0
  /\ entry' = IF Expired THEN [entry EXCEPT !.alive = FALSE] ELSE entry
  /\ watch' = HeartbeatTimeout
  /\ watched' = TRUE
  /\ UNCHANGED <<up, saved, memberVars, late, histVars>>

(* One tick of the watcher, which runs under stateMu; the save it may ask   *)
(* for comes later (SaveState), or never when the leader dies first.        *)
WatcherTick ==
  /\ up /\ watch = 0
  /\ entry' = IF Expired THEN [entry EXCEPT !.alive = FALSE] ELSE entry
  /\ watch' = HeartbeatInterval
  /\ watched' = TRUE
  /\ UNCHANGED <<up, saved, memberVars, late, histVars>>

(* saveState on behalf of a SET, of another member or of the watcher. *)
SaveState ==
  /\ up
  /\ saved' \in Written
  /\ UNCHANGED <<up, entry, watch, watched, memberVars, late, histVars>>

(* What the leader has not yet handled or saved goes with it; if it is in a *)
(* save, for whomever, so may the file.                                     *)
LeaderCrash ==
  /\ up /\ crashes < MaxLeaderCrash
  /\ up' = FALSE /\ entry' = NoEntry
  /\ watch' = HeartbeatInterval /\ watched' = FALSE
  /\ phase' = IF phase = "saving" THEN "refused" ELSE phase
  /\ late' = {}
  /\ saved' \in FileAfterCut
  /\ steady' = FALSE
  /\ crashes' = crashes + 1
  /\ UNCHANGED <<timer, unsafe, exits>>

(* NewLeaderServer, loadState, which only warns of a torn file, and         *)
(* StartHeartbeatWatcher.                                                   *)
LeaderStart ==
  /\ ~up
  /\ up' = TRUE
  /\ entry' = IF saved = Torn THEN NoEntry ELSE saved
  /\ unsafe' = (unsafe \/ saved = Torn)
  /\ UNCHANGED <<saved, watch, watched, memberVars, late, steady, crashes, exits>>

-------------------------------------------------------------------------------
(* Time *)

Older(e) ==
  IF e \in {NoEntry, Torn} \/ e.age = MaxAge THEN e ELSE [e EXCEPT !.age = @ + 1]

(* A second passes: no limit is passed and the watcher keeps its period.    *)
Tick ==
  /\ up => watch > 0
  /\ phase # "off" => timer < Limit(phase)
  /\ entry' = Older(entry) /\ saved' = Older(saved)
  /\ watch' = IF up THEN watch - 1 ELSE watch
  /\ timer' = IF phase # "off" THEN timer + 1 ELSE timer
  /\ UNCHANGED <<up, watched, phase, late, histVars>>

MemberStep ==
  \/ RegisterReply
  \/ DialOk \/ DialFail
  \/ HeartbeatReply \/ HeartbeatFail
  \/ Wake

Next ==
  \/ Start \/ Exit
  \/ RegisterMember \/ RegisterSave
  \/ MemberStep
  \/ HandleHeartbeat
  \/ \E r \in {"register", "heartbeat"} : HandleLate(r)
  \/ WatcherTick \/ SaveState
  \/ LeaderCrash \/ LeaderStart
  \/ Tick

Spec == Init /\ [][Next]_vars

-------------------------------------------------------------------------------
(* Every variable has the values its declaration names. *)
TypeOK ==
  /\ up \in BOOLEAN /\ watched \in BOOLEAN
  /\ entry \in Entry \cup {NoEntry} /\ saved \in Entry \cup {NoEntry, Torn}
  /\ watch \in 0..HeartbeatInterval
  /\ phase \in {"off", "register", "saving", "refused", "registered",
                "dial", "rpc", "reply", "pause"}
  /\ timer \in 0..Limit(phase)
  /\ late \subseteq {"register", "heartbeat"}
  /\ unsafe \in BOOLEAN /\ steady \in BOOLEAN
  /\ crashes \in Nat /\ exits \in Nat

(* The watcher never marks a member DOWN whose rounds succeed, however slow *)
(* each of them is within its limits: from one handled heartbeat to the     *)
(* next, LastSeen never grows older than heartbeatTimeout.                  *)
NoFalseDown == steady => Known /\ entry.alive

(* A member of which nothing was heard is DOWN one watcher period after     *)
(* heartbeatTimeout at the latest, and so are members whose LastSeen came   *)
(* from the state file, from the watcher's first tick on: for no longer     *)
(* than that does Store pick a dead member.                                 *)
DeadDetected == watched /\ Known /\ entry.alive => entry.age <= HeartbeatTimeout + HeartbeatInterval

(* A member whose registration was answered is known to the leader, also to *)
(* one that crashed and restarted since: otherwise its heartbeats would be  *)
(* answered and ignored until it is restarted.  The exceptions are a file   *)
(* that lacked the member when it was answered (its own save failed, or the *)
(* handler of an earlier registration had still to save), and a crash in    *)
(* or after a later save, of anybody, that tore the file.                   *)
JoinedKnown == Joined /\ up /\ ~unsafe => Known

-------------------------------------------------------------------------------
(* Time passes, time limits and sleeps end, the handlers and the watcher    *)
(* run, and the network lets a heartbeat through again and again.           *)
Fairness ==
  /\ WF_vars(Tick)
  /\ WF_vars(MemberStep)
  /\ WF_vars(WatcherTick)
  /\ SF_vars(DialOk)
  /\ SF_vars(HandleHeartbeat)

FairSpec == Spec /\ Fairness

(* A member that was taken for dead is used again as long as its process    *)
(* and the leader go on, however many rounds failed: the loop never ends.   *)
Revives ==
  (up /\ Known /\ ~entry.alive /\ Joined) ~>
    (~up \/ ~Joined \/ (Known /\ entry.alive))
===============================================================================
