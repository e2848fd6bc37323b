------------------------------- MODULE Session -------------------------------
(***************************************************************************)
(* One client with -measure (cmd/client/main.go) and the two TCP sessions  *)
(* the leader serves for it (LeaderServer.HandleClient).                   *)
(*                                                                         *)
(* Every command goes down the load channel, where nobody waits for the    *)
(* answer, and, unless it is an inner one of a bulk, down the measurement  *)
(* channel as well, where the client reads one line with a time limit and  *)
(* takes it for the answer.  The leader ends an answer with a prompt that  *)
(* has no newline, and HELP with a banner of many lines.                   *)
(*                                                                         *)
(* Abstractions.  A command is its position in cmds.  Of a line only what  *)
(* readSemanticLine tells apart is kept: it returns a "line", goes on      *)
(* after a "skip" (dashes, blank lines, and whatever starts with one of    *)
(* "-<SGHQ"), and a prompt in front of either makes it a "line".  A line   *)
(* arrives whole or not at all; which texts look like a "skip" is left     *)
(* open.                                                                   *)
(*                                                                         *)
(* The cluster behind Store and Retrieve (see Leader) is the set store[id] *)
(* of the SETs whose text the replicas that the index names may hold.  A   *)
(* Store takes time; it leaves its own text, that of every Store of the id *)
(* in progress meanwhile, since members and index may take the two in      *)
(* different orders, and that of every failed one, whose handlers may      *)
(* still run.                                                              *)
(*                                                                         *)
(* A connection may be lost, also because the leader dies: the answers     *)
(* that are out may arrive or not.  What the leader still does with        *)
(* commands that had reached it is not followed.                           *)
(***************************************************************************)
EXTENDS Naturals, Sequences, FiniteSets, SequencesExt

CONSTANTS
  MaxId,           \* ids are 1..MaxId
  MaxCmd,          \* bound on the commands sent when another or a bulk is typed
  Input,           \* the commands that standard input may give
  Bulks,           \* its bulks: how many SETs, and the first id drawn for them
  FlushEvery,      \* the -flush option
  MayFail,         \* the ids for which Store and Retrieve may return an error
  MayLose          \* the connections that may be lost

ASSUME SessionAssumption ==
  /\ MaxId \in Nat \ {0} /\ MaxCmd \in Nat /\ FlushEvery \in Nat \ {0}
  /\ Input \subseteq [op : {"set", "get", "help", "bad", "quit"}, id : 1..MaxId]
  /\ Bulks \subseteq [base : 1..MaxId, count : 1..MaxId]
  /\ \A b \in Bulks : b.base + b.count - 1 <= MaxId
  /\ MayFail \subseteq 1..MaxId /\ MayLose \subseteq {"load", "measure"}

Conn == {"load", "measure"}
Id == 1..MaxId

VARIABLES
  cmds,            \* commands so far; the last one is the current one
  buf,             \* cliWriter: commands since its last Flush
  inq,             \* inq[c]: commands written to c that are not handled (to the end)
  link,            \* link[c]: "up", "closed" by HandleClient, or "lost"
  busy,            \* busy[c]: the Store for the first command of inq[c] is in progress
  answering,       \* the measurement answer is out, its prompt is not
  out,             \* what the leader sent on the measurement channel, unread
  cpc,             \* where the client is
  bulk,            \* the bulk in progress: base id, next i, count (0: none)
  samples,         \* history: which command each measured answer belongs to
  timeouts,        \* history: reads that timed out or found the connection gone
  store,           \* store[id]: the SETs whose text a GET may find; 0: nothing is found
  met,             \* which Stores of one id were in progress at the same time
  failed           \* the SETs of which a Store failed

netVars == <<inq, link, answering, out>>
cliVars == <<cmds, buf, cpc, bulk>>
histVars == <<samples, timeouts>>
storeVars == <<busy, store, met, failed>>
vars == <<cliVars, netVars, histVars, storeVars>>

Command(op, id, measured) == [op |-> op, id |-> id, measured |-> measured]
Token(class, k) == [class |-> class, of |-> k]

(* What HandleClient prints on connection and for HELP, runs of skipped     *)
(* lines collapsed: dashes, "Basic Commands:", "Utility:", "1000 SET        *)
(* HELLO", dashes.                                                          *)
Banner(k) == <<Token("skip", k), Token("line", k), Token("line", k), Token("line", k),
               Token("skip", k)>>

NoBulk == [base |-> 0, i |-> 0, count |-> 0]

Init ==
  /\ cmds = << >> /\ buf = << >>
  /\ inq = [c \in Conn |-> << >>] /\ link = [c \in Conn |-> "up"]
  /\ answering = FALSE
  /\ out = Banner(0) \o <<Token("prompt", 0)>>
  /\ cpc = "startup" /\ bulk = NoBulk
  /\ samples = {} /\ timeouts = 0
  /\ busy = [c \in Conn |-> FALSE] /\ store = [i \in Id |-> {0}]
  /\ met = {} /\ failed = {}

-------------------------------------------------------------------------------
(* HandleClient *)

(* The session of c has read a command op and works on it. *)
Reads(c, op) ==
  /\ link[c] = "up" /\ inq[c] # << >>
  /\ c = "measure" => ~answering
  /\ cmds[Head(inq[c])].op = op

(* It is done with it; the answer goes to the client that measures, io.Copy *)
(* drains the other one.                                                    *)
Handle(c, op) ==
  /\ Reads(c, op)
  /\ inq' = [inq EXCEPT ![c] = Tail(@)]

Answer(c, tokens) ==
  /\ out' = IF c = "measure" THEN out \o tokens ELSE out
  /\ answering' = (answering \/ c = "measure")

Other(c) == IF c = "load" THEN "measure" ELSE "load"

Meeting(c, k, j) == [conn |-> c, set |-> k, other |-> j]

(* Store begins: from now on some replica may hold the text. *)
SetBegin(c) ==
  LET k == Head(inq[c])
      d == Other(c)
      j == Head(inq[d])
  IN /\ Reads(c, "set") /\ ~busy[c]
     /\ busy' = [busy EXCEPT ![c] = TRUE]
     /\ store' = [store EXCEPT ![cmds[k].id] = @ \cup {k}]
     /\ met' = IF busy[d] /\ j # k /\ cmds[j].id = cmds[k].id
                  THEN met \cup {Meeting(c, k, j), Meeting(d, j, k)} ELSE met
     /\ UNCHANGED <<cliVars, netVars, histVars, failed>>

(* What the replicas of a Store that succeeds may hold. *)
Texts(c, k) ==
  {k} \cup {w.other : w \in {v \in met : v.conn = c /\ v.set = k}}
      \cup {j \in failed : cmds[j].id = cmds[k].id}

(* Store returns: the index names its replicas, or it has failed. *)
SetEnd(c) ==
  LET k == Head(inq[c])
  IN /\ Handle(c, "set") /\ busy[c]
     /\ busy' = [busy EXCEPT ![c] = FALSE]
     /\ \/ store' = [store EXCEPT ![cmds[k].id] = Texts(c, k)] /\ UNCHANGED failed
        \/ cmds[k].id \in MayFail /\ failed' = failed \cup {k} /\ UNCHANGED store
     /\ Answer(c, <<Token("line", k)>>)
     /\ UNCHANGED <<cliVars, link, histVars, met>>

(* NOT_FOUND, an error, or a text, which may be empty while it is written. *)
ServeGet(c) ==
  LET k == Head(inq[c])
  IN /\ Handle(c, "get")
     /\ \E class \in IF 0 \in store[cmds[k].id] THEN {"line"} ELSE {"line", "skip"} :
          Answer(c, <<Token(class, k)>>)
     /\ UNCHANGED <<cliVars, link, histVars, storeVars>>

ServeHelp(c) ==
  /\ Handle(c, "help")
  /\ Answer(c, Banner(Head(inq[c])))
  /\ UNCHANGED <<cliVars, link, histVars, storeVars>>

(* An unknown or malformed command. *)
ServeError(c) ==
  /\ Handle(c, "bad")
  /\ Answer(c, <<Token("line", Head(inq[c]))>>)
  /\ UNCHANGED <<cliVars, link, histVars, storeVars>>

(* Mutant: QUIT is answered but the session goes on. *)
ServeQuit_StayOpen(c) ==
  /\ Handle(c, "quit")
  /\ Answer(c, <<Token("line", Head(inq[c]))>>)
  /\ UNCHANGED <<cliVars, link, histVars, storeVars>>

(* A line whose first word is QUIT or EXIT, also one the client took for an *)
(* ordinary command: what it writes from now on is not read any more.       *)
ServeQuit(c) ==
  /\ Handle(c, "quit")
  /\ link' = [link EXCEPT ![c] = "closed"]
  /\ out' = IF c = "measure" THEN Append(out, Token("line", Head(inq[c]))) ELSE out
  /\ UNCHANGED <<cliVars, answering, histVars, storeVars>>

(* The prompt that ends an answer may arrive later than the answer. *)
ServePrompt ==
  /\ answering /\ link["measure"] = "up"
  /\ answering' = FALSE
  /\ out' = Append(out, Token("prompt", 0))
  /\ UNCHANGED <<cliVars, inq, link, histVars, storeVars>>

Serve(c) ==
  SetBegin(c) \/ SetEnd(c) \/ ServeGet(c) \/ ServeHelp(c) \/ ServeError(c) \/ ServeQuit(c)

(* The connection breaks, or the leader dies (both do, then); of what was   *)
(* sent to the client a part arrives.                                       *)
Lose(c) ==
  /\ c \in MayLose /\ link[c] # "lost" /\ cpc # "end"
  /\ link' = [link EXCEPT ![c] = "lost"]
  /\ \E i \in 0..Len(out) : out' = IF c = "measure" THEN SubSeq(out, 1, i) ELSE out
  /\ UNCHANGED <<cliVars, inq, answering, histVars, storeVars>>

-------------------------------------------------------------------------------
(* The client *)

FirstIndex(class) == SelectInSeq(out, LAMBDA t : t.class = class)

(* Mutant: only the first line of the banner is drained. *)
Undrained_FirstLine == Tail(out)

(* What is left once drainMeasureStartup has seen the first prompt. *)
Undrained == SubSeq(out, FirstIndex("prompt") + 1, Len(out))

DrainStartup ==
  /\ cpc = "startup" /\ FirstIndex("prompt") # 0
  /\ out' = Undrained
  /\ cpc' = "ready"
  /\ UNCHANGED <<cmds, buf, bulk, inq, link, answering, histVars, storeVars>>

(* No prompt within 5 s, or the connection is gone: the client gives up. *)
StartupFails ==
  /\ cpc = "startup"
  /\ cpc' = "end"
  /\ UNCHANGED <<cmds, buf, bulk, netVars, histVars, storeVars>>

(* A command from standard input: buffered output goes first.  Errors of    *)
(* Write and Flush are ignored.                                             *)
Issue ==
  /\ cpc = "ready" /\ bulk = NoBulk /\ Len(cmds) < MaxCmd
  /\ \E c \in Input : cmds' = Append(cmds, Command(c.op, c.id, TRUE))
  /\ inq' = [load |-> inq["load"] \o Append(buf, Len(cmds')),
             measure |-> Append(inq["measure"], Len(cmds'))]
  /\ buf' = << >>
  /\ cpc' = "reading"
  /\ UNCHANGED <<bulk, link, answering, out, histVars, storeVars>>

(* <count> SET <text>: handleBulkSet picks the first id. *)
BulkBegin ==
  /\ cpc = "ready" /\ bulk = NoBulk /\ Len(cmds) < MaxCmd
  /\ \E b \in Bulks : bulk' = [base |-> b.base, i |-> 0, count |-> b.count]
  /\ UNCHANGED <<cmds, buf, cpc, netVars, histVars, storeVars>>

(* Mutant: for i := 0; i <= count; i++ *)
BulkMore_OneMore == bulk.count > 0 /\ bulk.i <= bulk.count

(* for i := 0; i < count; i++ *)
BulkMore == bulk.i < bulk.count

(* One SET of the bulk; only the first and the last one are measured. *)
BulkStep ==
  LET k == Len(cmds) + 1
      measured == bulk.i \in {0, bulk.count - 1}
      flush == (bulk.i + 1) % FlushEvery = 0
  IN /\ cpc = "ready" /\ BulkMore
     /\ cmds' = Append(cmds, Command("set", bulk.base + bulk.i, measured))
     /\ bulk' = [bulk EXCEPT !.i = @ + 1]
     /\ buf' = IF flush THEN << >> ELSE Append(buf, k)
     /\ inq' = [load |-> IF flush THEN inq["load"] \o Append(buf, k) ELSE inq["load"],
                measure |-> IF measured THEN Append(inq["measure"], k) ELSE inq["measure"]]
     /\ cpc' = IF measured THEN "reading" ELSE "ready"
     /\ UNCHANGED <<link, answering, out, histVars, storeVars>>

(* Mutant: a bulk leaves its last commands in the buffer. *)
BulkEnd_NoFlush ==
  /\ cpc = "ready" /\ bulk.count > 0 /\ bulk.i = bulk.count
  /\ bulk' = NoBulk
  /\ UNCHANGED <<cmds, cpc, buf, netVars, histVars, storeVars>>

BulkEnd ==
  /\ cpc = "ready" /\ bulk.count > 0 /\ bulk.i = bulk.count
  /\ bulk' = NoBulk
  /\ inq' = [inq EXCEPT !["load"] = @ \o buf]
  /\ buf' = << >>
  /\ UNCHANGED <<cmds, cpc, link, answering, out, histVars, storeVars>>

(* readSemanticLine: a prompt left over is glued to the line behind it.     *)
ReadLine ==
  LET i == SelectInSeq(out, LAMBDA t : t.class # "prompt")
  IN /\ cpc = "reading" /\ i # 0
     /\ out' = SubSeq(out, i + 1, Len(out))
     /\ IF i > 1 \/ out[i].class = "line"
          THEN /\ samples' = samples \cup {[cmd |-> Len(cmds), of |-> out[i].of]}
               /\ cpc' = "consume"
          ELSE UNCHANGED <<samples, cpc>>
     /\ UNCHANGED <<cmds, buf, bulk, inq, link, answering, timeouts, storeVars>>

(* Mutant: the read has no deadline. *)
ReadTimeout_Never == FALSE /\ UNCHANGED vars

(* No line came within the limit, or the connection is gone: a prompt that  *)
(* did come is thrown away with the partial line, and the sample is an      *)
(* error (or, in a bulk, not counted).                                      *)
ReadTimeout ==
  /\ cpc = "reading"
  /\ \A i \in DOMAIN out : out[i].class = "prompt"
  /\ out' = << >>
  /\ timeouts' = timeouts + 1
  /\ cpc' = "consume"
  /\ UNCHANGED <<cmds, buf, bulk, inq, link, answering, samples, storeVars>>

(* The prompt is there, or it is given up after 5 ms. *)
ConsumePrompt ==
  /\ cpc = "consume"
  /\ out' = IF out # << >> /\ Head(out).class = "prompt" THEN Tail(out) ELSE out
  /\ cpc' = "ready"
  /\ UNCHANGED <<cmds, buf, bulk, inq, link, answering, histVars, storeVars>>

(* A line that is QUIT or EXIT as a whole: QUIT is sent on both channels,   *)
(* and the client waits for the end of the load channel.                    *)
Quit ==
  /\ cpc = "ready" /\ bulk = NoBulk
  /\ cmds' = Append(cmds, Command("quit", 1, TRUE))
  /\ inq' = [load |-> inq["load"] \o Append(buf, Len(cmds')),
             measure |-> Append(inq["measure"], Len(cmds'))]
  /\ buf' = << >>
  /\ cpc' = "quit"
  /\ UNCHANGED <<bulk, link, answering, out, histVars, storeVars>>

(* Standard input ends without QUIT: it waits for a close nobody asked for. *)
EndOfInput ==
  /\ cpc = "ready" /\ bulk = NoBulk
  /\ cpc' = "eof"
  /\ UNCHANGED <<cmds, buf, bulk, netVars, histVars, storeVars>>

(* Mutant: main does not wait for the load channel. *)
Exit_NoWait ==
  /\ cpc \in {"quit", "eof"}
  /\ cpc' = "end"
  /\ UNCHANGED <<cmds, buf, bulk, netVars, histVars, storeVars>>

(* <-done: the copier of the load channel has ended, on EOF or an error. *)
Exit ==
  /\ cpc \in {"quit", "eof"}
  /\ link["load"] # "up"
  /\ cpc' = "end"
  /\ UNCHANGED <<cmds, buf, bulk, netVars, histVars, storeVars>>

ClientStep ==
  \/ DrainStartup \/ StartupFails \/ BulkStep \/ BulkEnd
  \/ ReadLine \/ ReadTimeout \/ ConsumePrompt \/ Exit

Next ==
  \/ \E c \in Conn : Serve(c) \/ Lose(c)
  \/ ServePrompt
  \/ ClientStep
  \/ Issue \/ BulkBegin \/ Quit \/ EndOfInput

Spec == Init /\ [][Next]_vars

-------------------------------------------------------------------------------
TokenType == [class : {"line", "skip", "prompt"}, of : Nat]

(* Every variable has the values its declaration names. *)
TypeOK ==
  /\ cmds \in Seq([op : {"set", "get", "help", "bad", "quit"}, id : Id, measured : BOOLEAN])
  /\ buf \in Seq(DOMAIN cmds) /\ inq \in [Conn -> Seq(DOMAIN cmds)]
  /\ link \in [Conn -> {"up", "closed", "lost"}] /\ answering \in BOOLEAN
  /\ out \in Seq(TokenType)
  /\ cpc \in {"startup", "ready", "reading", "consume", "quit", "eof", "end"}
  /\ bulk \in [base : Nat, i : Nat, count : Nat] /\ bulk.i <= bulk.count
  /\ samples \subseteq [cmd : DOMAIN cmds, of : Nat]
  /\ timeouts \in Nat
  /\ busy \in [Conn -> BOOLEAN] /\ store \in [Id -> SUBSET ({0} \cup DOMAIN cmds)]
  /\ met \subseteq [conn : Conn, set : DOMAIN cmds, other : DOMAIN cmds]
  /\ failed \subseteq DOMAIN cmds

Asked(op) == {k \in DOMAIN cmds : cmds[k].op = op}

(* How many commands the answer of a sample is late. *)
Lag(s) == Cardinality({k \in DOMAIN cmds : cmds[k].measured /\ s.of < k /\ k <= s.cmd})

(* The answer measured is never that of a later command, and each time-out  *)
(* (or read of a lost connection) makes the client lag by at most one       *)
(* command more, each HELP by three (its banner has three lines that pass   *)
(* for an answer, and a fourth when a prompt was missed): the channel never *)
(* drifts on its own.                                                       *)
LagBounded ==
  \A s \in samples : s.of <= s.cmd /\ Lag(s) <= timeouts + 3 * Cardinality(Asked("help"))

LastSet(id) ==
  LET sets == {k \in Asked("set") : cmds[k].id = id}
  IN IF sets = {} THEN 0 ELSE CHOOSE k \in sets : \A j \in sets : j <= k

(* An inner SET of a bulk goes down the load channel only, so a client that *)
(* no longer reads its own answers cannot tell whether an older SET of the  *)
(* same id, delayed on the measurement channel, has run before it.          *)
Overtakable(k) == ~cmds[k].measured /\ (timeouts > 0 \/ Asked("help") # {})

(* A SET j was in progress together with a copy of k. *)
Overlapped(j, k) == \E w \in met : w.set = k /\ w.other = j

(* Each SET that is measured runs twice, once per channel and in any        *)
(* interleaving.  Still, whenever the client is ready and both channels are *)
(* drained, a GET may find the last SET of an id, and an older text can     *)
(* have survived only if its Store overlapped one of that last SET or a     *)
(* Store failed: nothing stays in a buffer, and a late copy that runs by    *)
(* itself wins over nothing but an inner SET of a bulk after a time-out or  *)
(* HELP.                                                                    *)
Converges ==
  /\ cpc = "ready" /\ bulk = NoBulk
  /\ \A c \in Conn : inq[c] = << >>
  => \A id \in Id :
       LET k == LastSet(id)
       IN \/ k = 0 \/ Overtakable(k)
          \/ /\ k \in store[id]
             /\ \A j \in store[id] \ {k} : k \in failed \/ j \in failed \/ Overlapped(j, k)

(* When the client has exited and the load channel was not lost, it has     *)
(* flushed every command, and the leader has handled those on the load      *)
(* channel up to the first one it takes for QUIT, and none behind that.     *)
ExitDrained ==
  cpc = "end" /\ link["load"] # "lost" =>
    /\ buf = << >>
    /\ \A k \in DOMAIN cmds :
         (\E i \in DOMAIN inq["load"] : inq["load"][i] = k) <=> (\E j \in Asked("quit") : j < k)

(* The -measure option: RTT is measured per command.  Every sample without  *)
(* an error is the answer to its own command.                               *)
RttPerCommand == \A s \in samples : s.of = s.cmd

-------------------------------------------------------------------------------
(* Liveness *)

(* The client runs and its deadlines expire. *)
ClientFairness == WF_vars(ClientStep)

(* The leader's session goroutines run. *)
LeaderFairness == WF_vars(ServePrompt) /\ \A c \in Conn : WF_vars(Serve(c))

FairSpec == Spec /\ ClientFairness /\ LeaderFairness

(* A measured read comes to an end, also when the answer is a text that is  *)
(* skipped as a user-interface line or the connection is gone: the client   *)
(* is never stuck in it.                                                    *)
ReadEnds == cpc = "reading" ~> cpc = "ready"

(* After QUIT the client exits, also when a connection is lost. *)
QuitEnds == cpc = "quit" ~> cpc = "end"
===============================================================================
