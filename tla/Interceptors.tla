----------------------------- MODULE Interceptors -----------------------------
(***************************************************************************)
(* The gRPC server of a node, leader or member: the chain of interceptors  *)
(* that cmd/leader/main.go and cmd/member/main.go put around every handler *)
(* (internal/middleware), with the collectors of internal/metrics and the  *)
(* log they write to.                                                      *)
(*                                                                         *)
(* A request goes down the chain to the handler; the handler's answer      *)
(* comes back up through the second half of each interceptor, but a panic  *)
(* skips those halves until it meets the deferred recover.  Requests run   *)
(* concurrently, callers give up at their deadline, the process crashes    *)
(* and starts again.  The log is a file, the collectors are memory.        *)
(*                                                                         *)
(* Abstractions.  The methods are one, since every label of a collector is *)
(* treated alike; the text of an entry is its kind, the request it is      *)
(* about and the request ID it carries.                                    *)
(***************************************************************************)
EXTENDS Naturals, Sequences, FiniteSets

CONSTANTS
  Req,       \* requests, each sent once
  MaxCrash,  \* bound on crashes of the process
  NoId       \* the context has no request ID

ASSUME InterceptorsAssumption ==
  /\ IsFiniteSet(Req)
  /\ MaxCrash \in Nat
  /\ NoId \notin Nat

VARIABLES
  up,        \* the process runs
  crashes,   \* history: bounded by MaxCrash
  way,       \* per request: where it is going
  depth,     \* per request: how many links of the chain it is inside
  reqId,     \* per request: the ID in the context of the innermost link
  drawn,     \* how many UUIDs have been drawn: the next one
  result,    \* per request: what the handler returned, or "none"
  answer,    \* per request: what its caller got
  log,       \* the entries of logs/tolerex.log
  total,     \* grpc_requests_total by status
  answered   \* history: answers to callers since the last start, by result

vars == <<up, crashes, way, depth, reqId, drawn, result, answer, log, total, answered>>

(* What a handler returns, and what reaches the caller of one that panics.  *)
Results == {"ok", "notok", "error"}
Answers == Results \cup {"internal"}

NoCount == [s \in {"success", "error"} |-> 0]
NoAnswer == [s \in Answers |-> 0]

(* Mutant: nothing recovers. *)
Chain_Unprotected == <<"requestid", "logging", "metrics">>

(* Mutant: the request ID is drawn below the logger that needs it. *)
Chain_LateId == <<"recovery", "logging", "requestid", "metrics">>

(* Mutant: panics are recovered below the logger. *)
Chain_InnerRecovery == <<"requestid", "logging", "recovery", "metrics">>

(* The interceptors in the order of grpc.ChainUnaryInterceptor.             *)
Chain == <<"recovery", "requestid", "logging", "metrics">>

Entry(kind, r) == [kind |-> kind, of |-> r, id |-> reqId[r]]

Init ==
  /\ up = TRUE /\ crashes = 0
  /\ way = [r \in Req |-> "idle"]
  /\ depth = [r \in Req |-> 0]
  /\ reqId = [r \in Req |-> NoId]
  /\ drawn = 0
  /\ result = [r \in Req |-> "none"]
  /\ answer = [r \in Req |-> "none"]
  /\ log = {}
  /\ total = NoCount
  /\ answered = NoAnswer

(* A caller sends r and the server starts a goroutine for it.               *)
Arrive(r) ==
  /\ up
  /\ way[r] = "idle"
  /\ way' = [way EXCEPT ![r] = "down"]
  /\ depth' = [depth EXCEPT ![r] = 1]
  /\ UNCHANGED <<up, crashes, reqId, drawn, result, answer, log, total, answered>>

(* The first half of the link r is in, up to its call of handler.           *)
Descend(r) ==
  /\ way[r] = "down" /\ depth[r] <= Len(Chain)
  /\ depth' = [depth EXCEPT ![r] = @ + 1]
  /\ IF Chain[depth[r]] = "requestid"
       THEN reqId' = [reqId EXCEPT ![r] = drawn] /\ drawn' = drawn + 1
       ELSE UNCHANGED <<reqId, drawn>>
  /\ log' = IF Chain[depth[r]] = "logging" THEN log \cup {Entry("started", r)} ELSE log
  /\ UNCHANGED <<up, crashes, way, result, answer, total, answered>>

(* The handler returns a reply (with Ok true or false), an error, or panics *)
Handle(r) ==
  /\ way[r] = "down" /\ depth[r] > Len(Chain)
  /\ depth' = [depth EXCEPT ![r] = @ - 1]
  /\ \/ \E out \in Results :
          /\ result' = [result EXCEPT ![r] = out]
          /\ way' = [way EXCEPT ![r] = "up"]
     \/ /\ way' = [way EXCEPT ![r] = "panic"]
        /\ UNCHANGED result
  /\ UNCHANGED <<up, crashes, reqId, drawn, answer, log, total, answered>>

IsError(r) == result[r] \in {"error", "internal"}

(* Mutant: errors return before the counter. *)
Counted_OnlySuccess(r) ==
  IF IsError(r) THEN total ELSE [total EXCEPT !["success"] = @ + 1]

(* err decides the status; a reply with Ok false has none.                  *)
Counted(r) == [total EXCEPT ![IF IsError(r) THEN "error" ELSE "success"] = @ + 1]

(* The second half of the link r is in.                                     *)
Ascend(r) ==
  /\ way[r] = "up" /\ depth[r] > 0
  /\ depth' = [depth EXCEPT ![r] = @ - 1]
  /\ log' = IF Chain[depth[r]] = "logging"
              THEN log \cup {Entry(IF IsError(r) THEN "failed" ELSE "finished", r)}
              ELSE log
  /\ total' = IF Chain[depth[r]] = "metrics" THEN Counted(r) ELSE total
  /\ UNCHANGED <<up, crashes, way, reqId, drawn, result, answer, answered>>

(* A panic leaves the link r is in: only the deferred recover stops it, and *)
(* it logs with the context of its own link, which has no ID yet.           *)
Unwind(r) ==
  /\ way[r] = "panic" /\ depth[r] > 0
  /\ depth' = [depth EXCEPT ![r] = @ - 1]
  /\ IF Chain[depth[r]] = "recovery"
       THEN /\ way' = [way EXCEPT ![r] = "up"]
            /\ result' = [result EXCEPT ![r] = "internal"]
            /\ log' = log \cup {[kind |-> "panic", of |-> r, id |-> NoId]}
       ELSE UNCHANGED <<way, result, log>>
  /\ UNCHANGED <<up, crashes, reqId, drawn, answer, total, answered>>

(* Mutant: the answer is sent from within the chain. *)
Reply_Early(r) ==
  /\ way[r] = "up"
  /\ way' = [way EXCEPT ![r] = "done"]
  /\ answer' = IF answer[r] = "none" THEN [answer EXCEPT ![r] = result[r]] ELSE answer
  /\ UNCHANGED <<up, crashes, depth, reqId, drawn, result, log, total, answered>>

(* The answer is sent; a caller that has given up does not see it.          *)
Reply(r) ==
  /\ way[r] = "up" /\ depth[r] = 0
  /\ way' = [way EXCEPT ![r] = "done"]
  /\ IF answer[r] = "none"
       THEN /\ answer' = [answer EXCEPT ![r] = result[r]]
            /\ answered' = [answered EXCEPT ![result[r]] = @ + 1]
       ELSE UNCHANGED <<answer, answered>>
  /\ UNCHANGED <<up, crashes, depth, reqId, drawn, result, log, total>>

Waiting(r) == way[r] \in {"down", "up", "panic"} /\ answer[r] = "none"

(* The deadline of the caller is over.                                      *)
GiveUp(r) ==
  /\ Waiting(r)
  /\ answer' = [answer EXCEPT ![r] = "deadline"]
  /\ UNCHANGED <<up, crashes, way, depth, reqId, drawn, result, log, total, answered>>

(* The process dies: its callers see the connection fail.                   *)
Crash ==
  /\ up /\ crashes < MaxCrash
  /\ up' = FALSE /\ crashes' = crashes + 1
  /\ answer' = [r \in Req |-> IF Waiting(r) THEN "unavailable" ELSE answer[r]]
  /\ way' = [r \in Req |-> IF way[r] \in {"down", "up", "panic"} THEN "gone" ELSE way[r]]
  /\ total' = NoCount /\ answered' = NoAnswer
  /\ UNCHANGED <<depth, reqId, drawn, result, log>>

(* main() runs again; metrics.Init registers collectors that are at zero.   *)
Start ==
  /\ ~up
  /\ up' = TRUE
  /\ UNCHANGED <<crashes, way, depth, reqId, drawn, result, answer, log, total, answered>>

Serve(r) == Descend(r) \/ Handle(r) \/ Ascend(r) \/ Unwind(r) \/ Reply(r)

Next ==
  \/ \E r \in Req : Arrive(r) \/ Serve(r) \/ GiveUp(r)
  \/ Crash
  \/ Start

Spec == Init /\ [][Next]_vars

(* The goroutine of a request runs, and handlers return: every wait in them *)
(* has a time limit.  Callers need not give up.                             *)
FairSpec == Spec /\ \A r \in Req : WF_vars(Serve(r))

-------------------------------------------------------------------------------
(* Every variable has the values its declaration names; a request is inside *)
(* no link before it arrives and after it is answered, in at least one on   *)
(* its way down, and beyond the last only then.                             *)
TypeOK ==
  /\ up \in BOOLEAN
  /\ crashes \in 0..MaxCrash
  /\ way \in [Req -> {"idle", "down", "up", "panic", "done", "gone"}]
  /\ depth \in [Req -> 0..(Len(Chain) + 1)]
  /\ reqId \in [Req -> Nat \cup {NoId}]
  /\ drawn \in Nat
  /\ result \in [Req -> Answers \cup {"none"}]
  /\ answer \in [Req -> Answers \cup {"none", "deadline", "unavailable"}]
  /\ log \subseteq [kind : {"started", "finished", "failed", "panic"}, of : Req, id : Nat \cup {NoId}]
  /\ total \in [{"success", "error"} -> Nat]
  /\ answered \in [Answers -> Nat]
  /\ \A r \in Req :
       /\ way[r] \in {"idle", "done"} => depth[r] = 0
       /\ way[r] = "down" => depth[r] > 0
       /\ way[r] \in {"up", "panic"} => depth[r] <= Len(Chain)
       /\ way[r] = "up" => result[r] # "none"

(* The collectors are never behind the callers, panics excepted: since the  *)
(* last start the server has counted at least as many successes as callers  *)
(* got replies and as many errors as they got errors from handlers.  And    *)
(* they are not ahead of the requests: each is counted at most once, and    *)
(* one whose caller got the Internal error of a panic not at all, although  *)
(* metrics.go says that all requests are consistently observed.  (A reply   *)
(* with Ok false is a success to the metrics and a failed replica to the    *)
(* leader.)                                                                 *)
CountedBeforeAnswer ==
  /\ total["success"] >= answered["ok"] + answered["notok"]
  /\ total["error"] >= answered["error"]
  /\ total["success"] + total["error"] + answered["internal"]
       <= Cardinality({r \in Req : way[r] # "idle"})

Closings(r) == {e \in log : e.of = r /\ e.kind \in {"finished", "failed", "panic"}}

(* Whoever gets an answer from a handler leaves exactly one closing entry   *)
(* in the log, the panic's or the logger's, never both, whatever the other  *)
(* requests, deadlines and crashes do.                                      *)
OneClosingEntry ==
  \A r \in Req : answer[r] \in Answers => Cardinality(Closings(r)) = 1

(* Entries of different requests never share an ID, and the two entries of  *)
(* one request carry the same: a grep for the ID finds its whole story,     *)
(* except for the entry of a panic.                                         *)
IdTellsRequest ==
  \A e, f \in {x \in log : x.kind # "panic"} :
    e.id # NoId /\ (e.id = f.id <=> e.of = f.of)

(* Every request that arrives is answered, or a crash of the process ends   *)
(* it: no panic gets past the chain, where it would end the process with    *)
(* all the requests in it.                                                  *)
AllAnswered == \A r \in Req : way[r] = "down" ~> answer[r] # "none"
===============================================================================
