-------------------------------- MODULE Report --------------------------------
(***************************************************************************)
(* A stress test and its report: the launcher starts clients               *)
(* (cmd/launcher/main.go), each client runs runStressTest and prints one   *)
(* CSV line per operation (cmd/client/main.go), and the report tool        *)
(* (cmd/report_tool/main.go) reads the files, possibly while the clients   *)
(* still write them: "Requires tests to be finished or running".           *)
(*                                                                         *)
(* A line of a CSV file has Columns fields.  What a client has printed     *)
(* becomes visible in its file bit by bit, so the reader meets the end of  *)
(* the file in the middle of a line, takes that for a record, and goes on  *)
(* with the rest of the line as the next record if it has appeared by      *)
(* then.  How far the file is visible is chosen when it is read.           *)
(*                                                                         *)
(* Abstractions.  SET, GET and STRESS_FILE are one operation, "single", as *)
(* are BULK_SET and BULK_FILE, "bulk".  Bytes are treated like round-trip  *)
(* times and left out.  A cut inside a field is the number of that field.  *)
(***************************************************************************)
EXTENDS Naturals, Sequences, FiniteSets, FiniteSetsExt

CONSTANTS
  NClients,    \* clients the launcher was asked for
  MaxSent,     \* per client: bound on its commands, short of the last bulk
  BulkCounts,  \* sizes of bulks
  FlushEvery,  \* the -flush option
  MayLose,     \* clients that may lose their load connection
  Rtts,        \* round-trip times
  Cuts         \* fields in which the visible part of a file may end

Columns == 9

ASSUME ReportAssumption ==
  /\ NClients \in Nat \ {0} /\ MaxSent \in [1..NClients -> Nat]
  /\ BulkCounts \subseteq Nat \ {0} /\ FlushEvery \in Nat \ {0}
  /\ MayLose \subseteq 1..NClients /\ Rtts \subseteq Nat \ {0} /\ Cuts \subseteq 1..Columns

Client == 1..NClients
Op == {"single", "bulk"}

VARIABLES
  launched,  \* clients the launcher has started
  running,   \* clients whose file exists and whose header is printed
  bulk,      \* per client: the bulk in progress (count 0: none)
  buf,       \* per client: commands in cliWriter
  lost,      \* clients whose load connection is gone
  sent,      \* history: commands flushed while it was there
  rows,      \* per client: the CSV lines printed after the header
  tool,      \* where the report tool is
  files,     \* the files it has still to read
  width,     \* per client: the fields of the first record read, 0 before
  pos,       \* per client: how far its file is read
  stats,     \* per client and operation: OpStats, or NoStats
  taken,     \* history: the rows that were aggregated
  torn,      \* history: the rows a read ended in, neither first nor last field
  page,      \* measured/report.html
  wide       \* the files are UTF-16, what ">" of PowerShell 5 writes

cliVars == <<launched, running, bulk, buf, lost, sent, rows, wide>>
toolVars == <<tool, files, width, pos, stats, taken, torn, page>>
vars == <<cliVars, toolVars>>

NoBulk == [i |-> 0, count |-> 0, samples |-> 0]
NoStats == [count |-> 0, min |-> 0, max |-> 0, sum |-> 0, errors |-> 0]
Row(op, count, rtt, status) == [op |-> op, count |-> count, rtt |-> rtt, status |-> status]

(* The start of line l; line 0 is the header.  field = k > 0: inside field k *)
LineStart(l) == [line |-> l, field |-> 0]

Init ==
  /\ launched = 0 /\ running = {} /\ lost = {}
  /\ bulk = [c \in Client |-> NoBulk]
  /\ buf = [c \in Client |-> 0] /\ sent = [c \in Client |-> 0]
  /\ rows = [c \in Client |-> << >>]
  /\ wide \in BOOLEAN
  /\ tool = "idle" /\ files = {}
  /\ width = [c \in Client |-> 0] /\ pos = [c \in Client |-> LineStart(0)]
  /\ stats = [c \in Client |-> [op \in Op |-> NoStats]]
  /\ taken = [c \in Client |-> {}] /\ torn = [c \in Client |-> {}]
  /\ page = "none"

-------------------------------------------------------------------------------
(* The launcher and the clients *)

(* A terminal for the next client; nobody looks whether it comes up.        *)
Launch ==
  /\ launched < NClients
  /\ launched' = launched + 1
  /\ UNCHANGED <<running, bulk, buf, lost, sent, rows, wide, toolVars>>

(* The terminal creates the file, the client prints the header.             *)
Start(c) ==
  /\ c <= launched /\ c \notin running
  /\ running' = running \cup {c}
  /\ UNCHANGED <<launched, bulk, buf, lost, sent, rows, wide, toolVars>>

(* cliWriter.Flush() with n more commands; its error is not looked at, and  *)
(* what it holds when the connection is gone reaches nobody.                *)
Flush(c, n) ==
  /\ sent' = [sent EXCEPT ![c] = IF c \in lost THEN @ ELSE @ + buf[c] + n]
  /\ buf' = [buf EXCEPT ![c] = 0]

(* After a loss nothing is sent, and MaxSent bounds the rows.               *)
Free(c) ==
  /\ c \in running /\ bulk[c] = NoBulk
  /\ sent[c] < MaxSent[c] /\ Len(rows[c]) < MaxSent[c]

(* The load connection breaks, or the leader ends.  (A loss after the last  *)
(* command changes nothing here.)                                           *)
Lose(c) ==
  /\ c \in (running \cap MayLose) \ lost
  /\ Free(c) \/ bulk[c] # NoBulk
  /\ lost' = lost \cup {c}
  /\ UNCHANGED <<launched, running, bulk, buf, sent, rows, wide, toolVars>>

(* sendStressCmd: flushed, measured on the other channel, printed.  A read  *)
(* there that times out, or finds that connection closed, makes an ERROR.   *)
SendStressCmd(c) ==
  /\ Free(c)
  /\ Flush(c, 1)
  /\ \E rtt \in Rtts, status \in {"OK", "ERROR"} :
       rows' = [rows EXCEPT ![c] = Append(@, Row("single", 1, rtt, status))]
  /\ UNCHANGED <<launched, running, bulk, lost, wide, toolVars>>

BulkBegin(c) ==
  /\ Free(c)
  /\ \E n \in BulkCounts : bulk' = [bulk EXCEPT ![c] = [NoBulk EXCEPT !.count = n]]
  /\ UNCHANGED <<launched, running, buf, lost, sent, rows, wide, toolVars>>

(* Mutant: for i := 0; i <= count; i++ *)
BulkMore_OneMore(c) == bulk[c].count > 0 /\ bulk[c].i <= bulk[c].count

BulkMore(c) == bulk[c].i < bulk[c].count

(* One command of a bulk; the first and the last are measured, and a read   *)
(* that fails gives no sample.                                              *)
BulkStep(c) ==
  LET i == bulk[c].i + 1
      measured == i \in {1, bulk[c].count}
  IN /\ BulkMore(c)
     /\ IF i % FlushEvery = 0
          THEN Flush(c, 1)
          ELSE buf' = [buf EXCEPT ![c] = @ + 1] /\ UNCHANGED sent
     /\ \E s \in {0} \cup {x \in {1} : measured} :
          bulk' = [bulk EXCEPT ![c].i = i, ![c].samples = @ + s]
     /\ UNCHANGED <<launched, running, lost, rows, wide, toolVars>>

(* One line for the whole bulk, its time the average of the samples; none   *)
(* if no sample was taken.                                                  *)
BulkRow(c) ==
  IF bulk[c].samples = 0
    THEN UNCHANGED rows
    ELSE \E rtt \in Rtts :
           rows' = [rows EXCEPT ![c] = Append(@, Row("bulk", bulk[c].count, rtt, "OK"))]

(* Mutant: the line is printed while commands are still in the buffer. *)
BulkEnd_NoFlush(c) ==
  /\ bulk[c].count > 0 /\ bulk[c].i = bulk[c].count
  /\ bulk' = [bulk EXCEPT ![c] = NoBulk]
  /\ BulkRow(c)
  /\ UNCHANGED <<launched, running, buf, lost, sent, wide, toolVars>>

BulkEnd(c) ==
  /\ bulk[c].count > 0 /\ bulk[c].i = bulk[c].count
  /\ bulk' = [bulk EXCEPT ![c] = NoBulk]
  /\ Flush(c, 0)
  /\ BulkRow(c)
  /\ UNCHANGED <<launched, running, lost, wide, toolVars>>

-------------------------------------------------------------------------------
(* The report tool *)

(* Once all clients are started the launcher offers to run the tool.        *)
StartTool ==
  /\ launched = NClients /\ tool = "idle"
  /\ files' = running
  /\ tool' = IF running = {} THEN "ended" ELSE "open"
  /\ UNCHANGED <<cliVars, width, pos, stats, taken, torn, page>>

(* The file being read: Glob sorts the names.                               *)
Current == Min(files)

CloseFile ==
  /\ files' = files \ {Current}
  /\ tool' = IF files' = {} THEN "render" ELSE "open"

(* csv.Reader: a record ends with its line, or in a field of it where the   *)
(* file ends for now.  No choice means that nothing is left to read.        *)
RecordEnds(c) ==
  IF pos[c].line > Len(rows[c]) THEN {}
  ELSE {LineStart(pos[c].line + 1)}
         \cup {[pos[c] EXCEPT !.field = k] : k \in {x \in Cuts : x > pos[c].field}}

Fields(from, to) ==
  LET last == IF to.line > from.line THEN Columns ELSE to.field
  IN last - Max({1, from.field}) + 1

(* The first record is taken for the header, and sets FieldsPerRecord; a    *)
(* file with nothing in it is left out of the report.                       *)
OpenFile ==
  LET c == Current
  IN /\ tool = "open"
     /\ \/ CloseFile /\ UNCHANGED <<width, pos>>
        \/ \E end \in RecordEnds(c) :
             /\ tool' = "read"
             /\ width' = [width EXCEPT ![c] = Fields(pos[c], end)]
             /\ pos' = [pos EXCEPT ![c] = end]
             /\ UNCHANGED files
     /\ UNCHANGED <<cliVars, stats, taken, torn, page>>

(* Mutant: if len(record) <= 9 *)
Usable_OffByOne(c, n) == n = width[c] /\ n > Columns

(* csv.Reader wants FieldsPerRecord fields, the tool at least nine.         *)
Usable(c, n) == n = width[c] /\ n >= Columns

(* What Atoi and ParseInt make of line l: zero, if every digit has a NUL.   *)
Parsed(c, l) ==
  LET row == rows[c][l]
  IN IF wide THEN Row(row.op, 0, 0, "unknown") ELSE row

(* Mutant: the first line of an operation does not set MinRTT. *)
Aggregated_ZeroMin(st, r) ==
  [count |-> st.count + r.count, sum |-> st.sum + r.rtt,
   min |-> Min({st.min, r.rtt}), max |-> Max({st.max, r.rtt}),
   errors |-> IF r.status = "ERROR" THEN st.errors + r.count ELSE st.errors]

Aggregated(st, r) ==
  [count |-> st.count + r.count, sum |-> st.sum + r.rtt,
   min |-> IF st = NoStats THEN r.rtt ELSE Min({st.min, r.rtt}),
   max |-> IF st = NoStats THEN r.rtt ELSE Max({st.max, r.rtt}),
   errors |-> IF r.status = "ERROR" THEN st.errors + r.count ELSE st.errors]

ReadRecord ==
  LET c == Current
      l == pos[c].line
  IN /\ tool = "read"
     /\ \E end \in RecordEnds(c) :
          /\ pos' = [pos EXCEPT ![c] = end]
          /\ IF Usable(c, Fields(pos[c], end))
               THEN /\ stats' = [stats EXCEPT ![c][rows[c][l].op] = Aggregated(@, Parsed(c, l))]
                    /\ taken' = [taken EXCEPT ![c] = @ \cup {l}]
               ELSE UNCHANGED <<stats, taken>>
          /\ torn' = IF end.line = l /\ end.field \notin {1, Columns}
                       THEN [torn EXCEPT ![c] = @ \cup {l}] ELSE torn
     /\ UNCHANGED <<cliVars, tool, files, width, page>>

(* Mutant: EOF is one more error to skip. *)
EndOfFile_Continue == FALSE /\ UNCHANGED vars

(* Nothing more is visible: the file is done, whatever appears later.       *)
EndOfFile ==
  /\ tool = "read"
  /\ CloseFile
  /\ UNCHANGED <<cliVars, width, pos, stats, taken, torn, page>>

Counted(c) == stats[c]["single"].count + stats[c]["bulk"].count

(* The page is written while the template runs.  The template calls div,    *)
(* which is declared for two int64, with Count, which is an int, for every  *)
(* operation whose Count is positive: Execute returns an error, and main    *)
(* panics.                                                                  *)
Render ==
  /\ tool = "render"
  /\ IF \E c \in Client : Counted(c) > 0
       THEN tool' = "panicked" /\ page' = "torn"
       ELSE tool' = "ended" /\ page' = "complete"
  /\ UNCHANGED <<cliVars, files, width, pos, stats, taken, torn>>

ToolStep == OpenFile \/ ReadRecord \/ EndOfFile \/ Render

Next ==
  \/ Launch
  \/ \E c \in Client :
       Start(c) \/ Lose(c) \/ SendStressCmd(c)
         \/ BulkBegin(c) \/ BulkStep(c) \/ BulkEnd(c)
  \/ StartTool
  \/ ToolStep

Spec == Init /\ [][Next]_vars

(* The tool runs; clients and user owe nothing.                             *)
FairSpec == Spec /\ WF_vars(ToolStep)

-------------------------------------------------------------------------------
Position == [line : Nat, field : 0..Columns]

(* Every variable has the values its declaration names, and the tool never  *)
(* reads past what it can see.                                              *)
TypeOK ==
  /\ launched \in 0..NClients /\ running \subseteq 1..launched /\ lost \subseteq running
  /\ \A c \in Client : bulk[c].samples <= bulk[c].i /\ bulk[c].i <= bulk[c].count
  /\ buf \in [Client -> Nat] /\ sent \in [Client -> Nat]
  /\ \A c \in Client : \A l \in DOMAIN rows[c] :
       rows[c][l] \in [op : Op, count : Nat, rtt : Rtts, status : {"OK", "ERROR"}]
  /\ pos \in [Client -> Position] /\ \A c \in Client : pos[c].line <= Len(rows[c]) + 1
  /\ tool \in {"idle", "open", "read", "render", "ended", "panicked"}
  /\ files \subseteq running
  /\ width \in [Client -> 0..Columns] /\ wide \in BOOLEAN
  /\ \A c \in Client : taken[c] \cup torn[c] \subseteq 0..Len(rows[c])
  /\ page \in {"none", "torn", "complete"}

(* What OpStats should say of a set of rows.                                *)
Summary(c, lines) ==
  LET Sum(f) == SumFunctionOnSet(f, lines)
      rtts == {rows[c][l].rtt : l \in lines}
      failed == [l \in lines |-> IF rows[c][l].status = "ERROR" THEN rows[c][l].count ELSE 0]
  IN IF lines = {} THEN NoStats
     ELSE [count |-> Sum([l \in lines |-> rows[c][l].count]),
           sum |-> Sum([l \in lines |-> rows[c][l].rtt]),
           min |-> Min(rtts), max |-> Max(rtts),
           errors |-> Sum(failed)]

(* Whatever the reader sees of lines that are still being written, the      *)
(* statistics are those of a set of whole lines, each counted once and with *)
(* the numbers the client printed (in a file that is not UTF-16).           *)
StatsMatchRows ==
  \A c \in Client, op \in Op :
    ~wide => stats[c][op] = Summary(c, {l \in taken[c] : rows[c][l].op = op})

(* If the header was seen whole, a line is missed only if the file ended in *)
(* it when it was read, and neither in its first field nor in its last.     *)
OnlyTornMissed ==
  \A c \in Client :
    width[c] = Columns => \A l \in 1..(pos[c].line - 1) : l \in taken[c] \cup torn[c]

(* Of a client whose load connection stands, the report counts no command   *)
(* that is not on its way to the leader, although bulks are buffered and    *)
(* are one line each.  (Of one that has lost it, it does: the line is       *)
(* printed all the same.)                                                   *)
ReportedWereSent == \A c \in Client \ lost : Counted(c) <= sent[c]

(* The tool ends, although it goes on after every error.                    *)
ToolEnds == tool = "open" ~> tool \in {"ended", "panicked"}

(* "Would you like to generate a visual HTML report now?": what the tool    *)
(* leaves in measured/ is never a page that stops in the middle.            *)
ReportGenerated == page # "torn"
===============================================================================
