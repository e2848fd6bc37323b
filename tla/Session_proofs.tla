---------------------------- MODULE Session_proofs -----------------------------
EXTENDS Session, FiniteSetTheorems, SequenceTheorems, TLAPS

(* Every set of naturals has a least element; a bounded one has a greatest. *)
LEMMA Least ==
  ASSUME NEW S \in SUBSET Nat, S # {}
  PROVE  \E m \in S : \A k \in S : m <= k
<1>1. PICK m \in S : \A k \in S : <<k, m>> \notin OpToRel(<, Nat)
  BY NatLessThanWellFounded, WFMin, Zenon
<1>2. \A k \in S : ~(k < m)
  BY <1>1 DEF OpToRel
<1>3. QED
  BY <1>2

LEMMA Greatest ==
  ASSUME NEW S \in SUBSET Nat, S # {}, NEW n \in Nat, \A k \in S : k <= n
  PROVE  \E m \in S : \A k \in S : k <= m
<1> DEFINE B == {m \in Nat : \A k \in S : k <= m}
<1>1. PICK m \in B : \A k \in B : m <= k
  <2>1. B \in SUBSET Nat /\ n \in B
    OBVIOUS
  <2> HIDE DEF B
  <2>2. QED
    BY <2>1, Least
<1>2. m \in S
  <2> SUFFICES ASSUME m \notin S PROVE FALSE
    OBVIOUS
  <2>1. PICK k \in S : TRUE
    OBVIOUS
  <2>2. m \in Nat /\ \A j \in S : j < m
    BY <1>1
  <2>3. m - 1 \in B
    BY <2>1, <2>2
  <2>4. QED
    BY <1>1, <2>2, <2>3
<1>3. QED
  BY <1>1, <1>2

LEMMA MinLeast ==
  ASSUME NEW S \in SUBSET Nat, S # {}
  PROVE  Min(S) \in S /\ \A k \in S : Min(S) <= k
BY Least DEF Min

(* What readSemanticLine looks for: the first token that is not a prompt.   *)
LEMMA FirstText ==
  ASSUME NEW s \in Seq(TokenType),
         NEW i, i = SelectInSeq(s, LAMBDA t : t.class # "prompt")
  PROVE  \/ i = 0 /\ \A j \in 1..Len(s) : s[j].class = "prompt"
         \/ /\ i \in 1..Len(s) /\ s[i].class # "prompt"
            /\ \A j \in 1..(i - 1) : s[j].class = "prompt"
<1> DEFINE I == {j \in 1..Len(s) : s[j].class # "prompt"}
<1>1. i = IF I # {} THEN Min(I) ELSE 0
  BY DEF SelectInSeq
<1>2. CASE I = {}
  BY <1>1, <1>2
<1>3. CASE I # {}
  <2>1. i \in I /\ \A k \in I : i <= k
    <3>1. I \in SUBSET Nat
      OBVIOUS
    <3> HIDE DEF I
    <3>2. QED
      BY <1>1, <1>3, <3>1, MinLeast
  <2>2. QED
    BY <2>1
<1>4. QED
  BY <1>2, <1>3

(* What the leader prints on connection.                                    *)
Greeting == Banner(0) \o <<Token("prompt", 0)>>

(* What drainMeasureStartup leaves of the greeting, or of the part of it     *)
(* that arrived, when it sees the prompt: nothing.                           *)
LEMMA GreetingDrained ==
  ASSUME out \in Seq(TokenType), Len(out) <= 6, \A p \in 1..Len(out) : out[p] = Greeting[p],
         FirstIndex("prompt") # 0
  PROVE  Undrained = << >>
<1> DEFINE I == {j \in 1..Len(out) : out[j].class = "prompt"}
<1>1. Len(out) \in Nat
  BY LenProperties
<1>2. \A p \in 1..6 : Greeting[p].class = "prompt" => p = 6
  BY DEF Greeting, Banner, Token
<1>3. FirstIndex("prompt") = IF I # {} THEN Min(I) ELSE 0
  BY DEF FirstIndex, SelectInSeq
<1>4. I # {} /\ FirstIndex("prompt") = Min(I)
  BY <1>3
<1>5. I \in SUBSET Nat /\ \A j \in I : j = 6 /\ j <= Len(out)
  BY <1>1, <1>2
<1> HIDE DEF I
<1>6. PICK m \in I : m = FirstIndex("prompt")
  <2>1. Min(I) \in I
    BY <1>4, <1>5, MinLeast
  <2>2. QED
    BY <1>4, <2>1
<1>7. FirstIndex("prompt") = 6 /\ Len(out) = 6
  <2>1. m = 6 /\ 6 <= Len(out)
    BY <1>5
  <2>2. PICK n \in Nat : n = Len(out)
    BY <1>1
  <2>3. n <= 6 /\ 6 <= n
    BY <2>1, <2>2
  <2>4. n = 6
    BY <2>3
  <2>5. QED
    BY <1>6, <2>1, <2>2, <2>4
<1>8. SubSeq(out, FirstIndex("prompt") + 1, Len(out)) = << >>
  BY <1>7, SubSeqEmpty
<1>9. QED
  BY <1>8 DEF Undrained

-------------------------------------------------------------------------------
(* Types *)

CmdType == [op : {"set", "get", "help", "bad", "quit"}, id : Id, measured : BOOLEAN]

BulkOK ==
  /\ bulk.count = 0 => bulk = NoBulk
  /\ bulk.count > 0 => bulk.base \in Id /\ bulk.base + bulk.count - 1 \in Id

(* Nothing happens before the greeting is drained.                          *)
StartupOK ==
  cpc = "startup" => /\ cmds = << >> /\ inq = [c \in Conn |-> << >>] /\ ~answering
                     /\ Len(out) <= 6 /\ \A p \in 1..Len(out) : out[p] = Greeting[p]

(* A Store in progress is for the first command of a queue.                  *)
BusyOK == \A c \in Conn : busy[c] => inq[c] # << >> /\ cmds[Head(inq[c])].op = "set"

TypeBase == TypeOK /\ BulkOK /\ BusyOK /\ (cpc = "reading" => cmds # << >>)

TypeInv == TypeBase /\ StartupOK

(* What the proofs use of the type of cmds.                                 *)
LEMMA Numbers ==
  ASSUME TypeOK
  PROVE  /\ cmds \in Seq(CmdType) /\ Len(cmds) \in Nat /\ DOMAIN cmds = 1..Len(cmds)
         /\ \A k \in DOMAIN cmds : cmds[k] \in CmdType
<1>1. cmds \in Seq(CmdType)
  BY DEF TypeOK, CmdType
<1>2. QED
  BY <1>1, LenProperties, ElementOfSeq

(* One more command.                                                        *)
LEMMA Grown ==
  ASSUME TypeOK, NEW x \in CmdType, cmds' = Append(cmds, x)
  PROVE  /\ cmds' \in Seq(CmdType) /\ Len(cmds') = Len(cmds) + 1
         /\ DOMAIN cmds' = 1..(Len(cmds) + 1) /\ cmds' # << >>
         /\ DOMAIN cmds \subseteq DOMAIN cmds' /\ Len(cmds') \in DOMAIN cmds'
         /\ \A k \in DOMAIN cmds : cmds'[k] = cmds[k]
         /\ cmds'[Len(cmds) + 1] = x
<1>1. cmds \in Seq(CmdType)
  BY Numbers
<1>2. QED
  BY <1>1, AppendProperties, LenProperties

(* What is left behind position i.                                          *)
LEMMA Suffix ==
  ASSUME NEW s \in Seq(TokenType), NEW i \in 1..Len(s), NEW t, t = SubSeq(s, i + 1, Len(s))
  PROVE  /\ t \in Seq(TokenType) /\ Len(t) = Len(s) - i
         /\ \A p \in 1..Len(t) : t[p] = s[p + i]
<1> DEFINE m == i + 1  n == Len(s)
<1>1. Len(s) \in Nat /\ \A j \in m..n : s[j] \in TokenType
  BY LenProperties, ElementOfSeq
<1>2. m \in Int /\ n \in Int /\ t = SubSeq(s, m, n)
  BY <1>1
<1> HIDE DEF m, n
<1>3. /\ t \in Seq(TokenType)
      /\ Len(t) = IF m <= n THEN n - m + 1 ELSE 0
      /\ \A p \in 1..(n - m + 1) : t[p] = s[m + p - 1]
  <2>1. /\ SubSeq(s, m, n) \in Seq(TokenType)
        /\ Len(SubSeq(s, m, n)) = IF m <= n THEN n - m + 1 ELSE 0
        /\ \A p \in 1..(n - m + 1) : SubSeq(s, m, n)[p] = s[m + p - 1]
    BY <1>1, <1>2
  <2>2. QED
    BY <1>2, <2>1
<1>4. QED
  BY <1>1, <1>2, <1>3 DEF m, n

(* What is put behind a queue does not change its first command.             *)
LEMMA HeadKept ==
  ASSUME NEW S, NEW s \in Seq(S), s # << >>, NEW u \in Seq(S), NEW x \in S
  PROVE  /\ s \o u # << >> /\ Head(s \o u) = Head(s)
         /\ Append(s, x) # << >> /\ Head(Append(s, x)) = Head(s)
<1>1. Len(s) \in Nat /\ Len(s) # 0 /\ Head(s) = s[1] /\ Len(u) \in Nat
  BY EmptySeq
<1>2. 1 \in 1..Len(s)
  BY <1>1
<1>3. s \o u \in Seq(S) /\ Len(s \o u) = Len(s) + Len(u) /\ (s \o u)[1] = s[1]
  BY <1>1, <1>2, ConcatProperties
<1>4. Append(s, x) \in Seq(S) /\ Len(Append(s, x)) = Len(s) + 1 /\ Append(s, x)[1] = s[1]
  BY <1>1, <1>2, AppendProperties
<1>5. QED
  BY <1>1, <1>3, <1>4

(* What is left of a sequence up to position i.                              *)
LEMMA Prefix ==
  ASSUME NEW s \in Seq(TokenType), NEW i \in 0..Len(s)
  PROVE  LET u == SubSeq(s, 1, i)
         IN u \in Seq(TokenType) /\ Len(u) = i /\ \A p \in 1..i : u[p] = s[p]
<1>1. Len(s) \in Nat /\ \A j \in 1..i : s[j] \in TokenType
  BY LenProperties, ElementOfSeq
<1>2. /\ SubSeq(s, 1, i) \in Seq(TokenType)
      /\ Len(SubSeq(s, 1, i)) = IF 1 <= i THEN i - 1 + 1 ELSE 0
      /\ \A p \in 1..(i - 1 + 1) : SubSeq(s, 1, i)[p] = s[1 + p - 1]
  BY <1>1
<1>3. i \in Nat
  BY <1>1
<1>4. QED
  BY <1>2, <1>3

(* The commands that are put down a channel are known.                      *)
LEMMA QueuesGrow ==
  ASSUME TypeOK, NEW x \in CmdType, cmds' = Append(cmds, x)
  PROVE  LET All == DOMAIN cmds'
         IN /\ buf \in Seq(All) /\ Append(buf, Len(cmds')) \in Seq(All)
            /\ \A c \in Conn :
                 /\ inq[c] \in Seq(All)
                 /\ Append(inq[c], Len(cmds')) \in Seq(All)
                 /\ inq[c] \o Append(buf, Len(cmds')) \in Seq(All)
<1> DEFINE All == DOMAIN cmds'
<1>1. DOMAIN cmds \subseteq All /\ Len(cmds') \in All
  BY Grown
<1> HIDE DEF All
<1>2. buf \in Seq(All) /\ \A c \in Conn : inq[c] \in Seq(All)
  BY <1>1, SeqMonotonic DEF TypeOK
<1>3. Append(buf, Len(cmds')) \in Seq(All)
  BY <1>1, <1>2, AppendProperties
<1>4. ASSUME NEW c \in Conn
      PROVE  /\ Append(inq[c], Len(cmds')) \in Seq(All)
             /\ inq[c] \o Append(buf, Len(cmds')) \in Seq(All)
  BY <1>1, <1>2, <1>3, AppendProperties, ConcatProperties
<1>5. QED
  BY <1>2, <1>3, <1>4 DEF All

LEMMA TypeInit == Init => TypeInv
<1> SUFFICES ASSUME Init PROVE TypeInv
  OBVIOUS
<1>1. cmds = << >> /\ DOMAIN cmds = {}
  BY DEF Init
<1>2. out \in Seq(TokenType)
  BY DEF Init, Banner, Token, TokenType
<1>3. buf \in Seq(DOMAIN cmds) /\ inq \in [Conn -> Seq(DOMAIN cmds)]
  BY EmptySeq DEF Init
<1>4. cmds \in Seq(CmdType)
  BY <1>1, EmptySeq
<1>5. bulk \in [base : Nat, i : Nat, count : Nat] /\ bulk.i <= bulk.count /\ BulkOK
  BY DEF Init, BulkOK, NoBulk
<1>6. /\ store \in [Id -> SUBSET ({0} \cup DOMAIN cmds)] /\ link \in [Conn -> {"up", "closed", "lost"}]
      /\ busy \in [Conn -> BOOLEAN]
  BY DEF Init
<1>7. cpc = "startup" /\ samples = {} /\ timeouts = 0 /\ failed = {} /\ met = {} /\ answering = FALSE
  BY DEF Init
<1>8. TypeOK
  BY <1>1, <1>2, <1>3, <1>4, <1>5, <1>6, <1>7 DEF TypeOK, CmdType
<1>9. StartupOK
  <2>1. out = Greeting /\ Len(out) = 6
    BY DEF Init, Greeting, Banner
  <2>2. QED
    BY <2>1 DEF Init, StartupOK
<1>10. BusyOK
  BY DEF Init, BusyOK
<1>11. QED
  BY <1>5, <1>7, <1>8, <1>9, <1>10 DEF TypeInv, TypeBase

(* The tokens of an answer.                                                 *)
LEMMA TokensTyped ==
  ASSUME NEW k \in Nat
  PROVE  /\ Banner(k) \in Seq(TokenType)
         /\ \A class \in {"line", "skip", "prompt"} : <<Token(class, k)>> \in Seq(TokenType)
  BY DEF Banner, Token, TokenType

(* A command handled on c: everything but the answer.                       *)
LEMMA Handled ==
  ASSUME TypeOK, NEW c \in Conn, NEW op, Handle(c, op)
  PROVE  /\ Head(inq[c]) \in DOMAIN cmds /\ Head(inq[c]) \in Nat
         /\ cmds[Head(inq[c])].id \in Id
         /\ inq' \in [Conn -> Seq(DOMAIN cmds)]
<1>1. inq[c] \in Seq(DOMAIN cmds) /\ inq[c] # << >>
  BY DEF TypeOK, Handle, Reads
<1>2. Head(inq[c]) \in DOMAIN cmds /\ Tail(inq[c]) \in Seq(DOMAIN cmds)
  BY <1>1, HeadTailProperties
<1>3. Head(inq[c]) \in Nat
  BY <1>2, Numbers
<1>4. cmds[Head(inq[c])] \in CmdType
  BY <1>2, Numbers
<1>5. cmds[Head(inq[c])].id \in Id
  BY <1>4 DEF CmdType
<1>6. inq' \in [Conn -> Seq(DOMAIN cmds)]
  BY <1>2 DEF Handle, TypeOK
<1>7. QED
  BY <1>2, <1>3, <1>5, <1>6

(* What every step of HandleClient has in common: the next command of c is  *)
(* taken off, and T is its answer.                                          *)
Served(c, T) ==
  LET k == Head(inq[c])
  IN /\ link[c] = "up" /\ inq[c] # << >> /\ inq' = [inq EXCEPT ![c] = Tail(@)]
     /\ out' = IF c = "measure" THEN out \o T ELSE out
     /\ \/ T \in {<<Token("line", k)>>, <<Token("skip", k)>>}
        \/ T = Banner(k) /\ cmds[k].op = "help"
     /\ link' = IF cmds[k].op = "quit" THEN [link EXCEPT ![c] = "closed"] ELSE link
     /\ \/ cmds[k].op # "set" /\ UNCHANGED storeVars
        \/ /\ cmds[k].op = "set" /\ busy[c] /\ busy' = [busy EXCEPT ![c] = FALSE] /\ UNCHANGED met
           /\ \/ store' = [store EXCEPT ![cmds[k].id] = Texts(c, k)] /\ UNCHANGED failed
              \/ UNCHANGED store /\ failed' = failed \cup {k}
     /\ answering' \in BOOLEAN
     /\ UNCHANGED <<cmds, buf, cpc, bulk, samples, timeouts>>

LEMMA ServeStep ==
  ASSUME TypeInv, NEW c \in Conn, Serve(c), ~SetBegin(c)
  PROVE  \E T : Served(c, T)
<1> DEFINE k == Head(inq[c])
<1> USE DEF Served, Handle, Reads, Answer, cliVars, histVars
<1>1. answering \in BOOLEAN /\ answering' \in BOOLEAN
  BY DEF TypeInv, TypeBase, TypeOK, Serve, SetEnd, ServeGet, ServeHelp, ServeError, ServeQuit
<1>2. CASE SetEnd(c)
  <2>1. Served(c, <<Token("line", k)>>)
    BY <1>1, <1>2 DEF SetEnd
  <2>2. QED
    BY <2>1
<1>3. CASE ServeGet(c)
  <2>1. \E class \in {"line", "skip"} : Answer(c, <<Token(class, k)>>)
    BY <1>3, Zenon DEF ServeGet
  <2>2. \E class \in {"line", "skip"} : Served(c, <<Token(class, k)>>)
    BY <1>1, <1>3, <2>1 DEF ServeGet
  <2>3. QED
    BY <2>2
<1>4. CASE ServeHelp(c)
  <2>1. Served(c, Banner(k))
    BY <1>1, <1>4 DEF ServeHelp
  <2>2. QED
    BY <2>1
<1>5. CASE ServeError(c)
  <2>1. Served(c, <<Token("line", k)>>)
    BY <1>1, <1>5 DEF ServeError
  <2>2. QED
    BY <2>1
<1>6. CASE ServeQuit(c)
  <2>1. Append(out, Token("line", k)) = out \o <<Token("line", k)>>
    <3>1. k \in Nat
      BY <1>6, Handled DEF ServeQuit, TypeInv, TypeBase
    <3>2. out \in Seq(TokenType) /\ Token("line", k) \in TokenType
      BY <3>1 DEF TypeInv, TypeBase, TypeOK, Token, TokenType
    <3>3. QED
      BY <3>2, AppendIsConcat
  <2>2. Served(c, <<Token("line", k)>>)
    BY <1>1, <1>6, <2>1 DEF ServeQuit
  <2>3. QED
    BY <2>2
<1>7. QED
  BY <1>2, <1>3, <1>4, <1>5, <1>6 DEF Serve

(* What every step that sends a command has in common: x is the command,    *)
(* and flush tells whether cliWriter is flushed after it.                   *)
Sent(x, flush) ==
  LET k == Len(cmds) + 1
  IN /\ cpc = "ready" /\ cmds' = Append(cmds, x)
     /\ inq' = [load |-> IF flush THEN inq["load"] \o Append(buf, k) ELSE inq["load"],
                measure |-> IF x.measured THEN Append(inq["measure"], k) ELSE inq["measure"]]
     /\ buf' = IF flush THEN << >> ELSE Append(buf, k)
     /\ \/ /\ bulk = NoBulk /\ flush /\ x.measured /\ bulk' = bulk
           /\ cpc' \in {"reading", "quit"} /\ (cpc' = "quit" => x.op = "quit")
        \/ /\ bulk.i < bulk.count /\ x.op = "set" /\ bulk' = [bulk EXCEPT !.i = @ + 1]
           /\ cpc' = IF x.measured THEN "reading" ELSE "ready"
     /\ UNCHANGED <<link, answering, out, samples, timeouts, storeVars>>

LEMMA SendStep ==
  ASSUME TypeInv, Issue \/ BulkStep \/ Quit
  PROVE  \E x \in CmdType, flush \in BOOLEAN : Sent(x, flush)
<1>1. cmds \in Seq(CmdType)
  BY Numbers DEF TypeInv, TypeBase
<1>2. CASE Issue
  <2>1. PICK c \in Input : cmds' = Append(cmds, Command(c.op, c.id, TRUE))
    BY <1>2 DEF Issue
  <2> DEFINE x == Command(c.op, c.id, TRUE)
  <2>2. x \in CmdType /\ x.measured
    BY SessionAssumption DEF Command, CmdType, Id
  <2>3. Len(cmds') = Len(cmds) + 1
    BY <1>1, <2>1, <2>2, AppendProperties
  <2> HIDE DEF x
  <2>4. Sent(x, TRUE)
    BY <1>2, <2>1, <2>2, <2>3 DEF Issue, Sent, x, histVars
  <2>5. QED
    BY <2>2, <2>4
<1>3. CASE BulkStep
  <2> DEFINE x == Command("set", bulk.base + bulk.i, bulk.i \in {0, bulk.count - 1})
             flush == (bulk.i + 1) % FlushEvery = 0
  <2>1. bulk.base + bulk.i \in Id
    <3>1. /\ bulk.base \in Nat /\ bulk.i \in Nat /\ bulk.count \in Nat /\ MaxId \in Nat
          /\ bulk.i < bulk.count
      BY <1>3, SessionAssumption DEF BulkStep, BulkMore, TypeInv, TypeBase, TypeOK
    <3>2. bulk.base \in 1..MaxId /\ bulk.base + bulk.count - 1 \in 1..MaxId
      BY <3>1 DEF TypeInv, TypeBase, BulkOK, Id
    <3>3. QED
      BY <3>1, <3>2 DEF Id
  <2>2. x \in CmdType /\ x.op = "set" /\ x.measured = (bulk.i \in {0, bulk.count - 1})
    BY <2>1 DEF Command, CmdType
  <2>3. Sent(x, flush)
    <3> HIDE DEF x
    <3>1. cmds' = Append(cmds, x)
      BY <1>3 DEF BulkStep, x
    <3>2. QED
      BY <1>3, <2>2, <3>1 DEF BulkStep, BulkMore, Sent, histVars
  <2> HIDE DEF x, flush
  <2>4. (flush = TRUE \/ flush = FALSE)
    BY DEF flush
  <2>5. QED
    BY <2>2, <2>3, <2>4
<1>4. CASE Quit
  <2> DEFINE x == Command("quit", 1, TRUE)
  <2>1. x \in CmdType /\ x.measured /\ x.op = "quit"
    BY SessionAssumption DEF Command, CmdType, Id
  <2>2. Len(cmds') = Len(cmds) + 1
    BY <1>1, <1>4, <2>1, AppendProperties DEF Quit
  <2>3. Sent(x, TRUE)
    BY <1>4, <2>1, <2>2 DEF Quit, Sent, histVars
  <2>4. QED
    BY <2>1, <2>3
<1>5. QED
  BY <1>2, <1>3, <1>4

(* The steps that neither send a command nor are done with one.              *)
OtherSteps ==
  \/ DrainStartup \/ StartupFails \/ BulkBegin \/ BulkEnd \/ ReadLine \/ ReadTimeout
  \/ ConsumePrompt \/ EndOfInput \/ Exit \/ ServePrompt
  \/ \E c \in Conn : SetBegin(c) \/ Lose(c)

(* The steps of Next, as the proofs take them.                              *)
LEMMA Steps ==
  ASSUME TypeInv, Next
  PROVE  \/ \E c \in Conn : \E T : Served(c, T)
         \/ \E x \in CmdType, flush \in BOOLEAN : Sent(x, flush)
         \/ OtherSteps
BY ServeStep, SendStep DEF Next, ClientStep, OtherSteps

(* What ReadLine takes.                                                     *)
LEMMA ReadStep ==
  ASSUME TypeInv, ReadLine
  PROVE  \E i \in 1..Len(out) :
           /\ out[i].class # "prompt" /\ \A j \in 1..(i - 1) : out[j].class = "prompt"
           /\ cpc = "reading" /\ out' = SubSeq(out, i + 1, Len(out))
           /\ IF i > 1 \/ out[i].class = "line"
                THEN /\ samples' = samples \cup {[cmd |-> Len(cmds), of |-> out[i].of]}
                     /\ cpc' = "consume"
                ELSE UNCHANGED <<samples, cpc>>
           /\ UNCHANGED <<cmds, buf, bulk, inq, link, answering, timeouts, storeVars>>
<1> DEFINE i == SelectInSeq(out, LAMBDA t : t.class # "prompt")
<1>1. out \in Seq(TokenType)
  BY DEF TypeInv, TypeBase, TypeOK
<1>2. i # 0
  BY DEF ReadLine
<1>3. i \in 1..Len(out) /\ out[i].class # "prompt" /\ \A j \in 1..(i - 1) : out[j].class = "prompt"
  <2>1. PICK k : k = i
    OBVIOUS
  <2>2. k # 0
    BY <1>2, <2>1
  <2>3. k \in 1..Len(out) /\ out[k].class # "prompt" /\ \A j \in 1..(k - 1) : out[j].class = "prompt"
    <3> HIDE DEF i
    <3>1. k = SelectInSeq(out, LAMBDA t : t.class # "prompt")
      BY <2>1 DEF i
    <3>2. QED
      BY <1>1, <2>2, <3>1, FirstText
  <2>4. QED
    BY <2>1, <2>3
<1>4. /\ cpc = "reading" /\ out' = SubSeq(out, i + 1, Len(out))
      /\ IF i > 1 \/ out[i].class = "line"
           THEN /\ samples' = samples \cup {[cmd |-> Len(cmds), of |-> out[i].of]}
                /\ cpc' = "consume"
           ELSE UNCHANGED <<samples, cpc>>
      /\ UNCHANGED <<cmds, buf, bulk, inq, link, answering, timeouts, storeVars>>
  BY DEF ReadLine
<1> HIDE DEF i
<1>5. QED
  BY <1>3, <1>4

(* What is sent is put behind the command that a Store is in progress for.   *)
LEMMA SentHeads ==
  ASSUME TypeInv, NEW x \in CmdType, NEW flush \in BOOLEAN, Sent(x, flush), NEW c \in Conn, busy[c]
  PROVE  /\ Head(inq[c]) \in DOMAIN cmds /\ cmds[Head(inq[c])].op = "set"
         /\ inq'[c] # << >> /\ Head(inq'[c]) = Head(inq[c])
         /\ cmds'[Head(inq[c])] = cmds[Head(inq[c])]
<1> DEFINE All == DOMAIN cmds'  k == Len(cmds) + 1
<1> USE DEF TypeInv, TypeBase
<1>1. inq[c] # << >> /\ cmds[Head(inq[c])].op = "set" /\ inq[c] \in Seq(DOMAIN cmds)
  BY DEF BusyOK, TypeOK
<1>2. Head(inq[c]) \in DOMAIN cmds
  BY <1>1, HeadTailProperties
<1>3. cmds'[Head(inq[c])] = cmds[Head(inq[c])] /\ Len(cmds') = k /\ k \in All
  BY <1>2, Grown DEF Sent
<1>4. inq[c] \in Seq(All) /\ Append(buf, k) \in Seq(All)
  BY <1>3, QueuesGrow DEF Sent
<1>5. \/ inq'[c] = inq[c]
      \/ inq'[c] = inq[c] \o Append(buf, k)
      \/ inq'[c] = Append(inq[c], k)
  <2>1. CASE c = "load"
    BY <2>1 DEF Sent
  <2>2. CASE c = "measure"
    BY <2>2 DEF Sent
  <2>3. QED
    BY <2>1, <2>2 DEF Conn
<1> HIDE DEF All, k
<1>6. /\ inq[c] \o Append(buf, k) # << >> /\ Head(inq[c] \o Append(buf, k)) = Head(inq[c])
      /\ Append(inq[c], k) # << >> /\ Head(Append(inq[c], k)) = Head(inq[c])
  BY <1>1, <1>3, <1>4, HeadKept
<1>7. QED
  BY <1>1, <1>2, <1>3, <1>5, <1>6

LEMMA SentType ==
  ASSUME TypeInv, NEW x \in CmdType, NEW flush \in BOOLEAN, Sent(x, flush)
  PROVE  TypeBase'
<1> DEFINE All == DOMAIN cmds'  k == Len(cmds) + 1
<1> USE DEF TypeInv, TypeBase
<1>1. /\ cmds' \in Seq(CmdType) /\ Len(cmds') = k /\ cmds' # << >> /\ DOMAIN cmds \subseteq All
      /\ cmds' = Append(cmds, x)
  BY Grown DEF Sent
<1>2. buf' \in Seq(All)
  BY <1>1, QueuesGrow, EmptySeq DEF Sent
<1>3. /\ inq["load"] \in Seq(All) /\ inq["measure"] \in Seq(All)
      /\ inq["load"] \o Append(buf, k) \in Seq(All)
      /\ Append(inq["measure"], k) \in Seq(All)
  BY <1>1, QueuesGrow DEF Conn
<1>4. inq' \in [Conn -> Seq(All)]
  <2>1. inq' = [load |-> inq'["load"], measure |-> inq'["measure"]]
    BY DEF Sent
  <2>2. inq'["load"] \in Seq(All) /\ inq'["measure"] \in Seq(All)
    BY <1>3 DEF Sent
  <2> HIDE DEF All
  <2>3. QED
    BY <2>1, <2>2 DEF Conn
<1>5. bulk' \in [base : Nat, i : Nat, count : Nat] /\ bulk'.i <= bulk'.count /\ BulkOK'
  <2>1. CASE bulk' = bulk
    BY <2>1 DEF TypeOK, BulkOK
  <2>2. CASE bulk.i < bulk.count /\ bulk' = [bulk EXCEPT !.i = @ + 1]
    <3>1. /\ bulk.base \in Nat /\ bulk.i \in Nat /\ bulk.count \in Nat
          /\ bulk' = [base |-> bulk.base, i |-> bulk.i + 1, count |-> bulk.count]
      BY <2>2 DEF TypeOK
    <3>2. bulk.count > 0
      BY <2>2, <3>1
    <3>3. bulk'.count = bulk.count /\ bulk'.base = bulk.base /\ bulk'.i = bulk.i + 1
      BY <3>1
    <3>4. BulkOK'
      BY <3>2, <3>3 DEF BulkOK
    <3>5. bulk' \in [base : Nat, i : Nat, count : Nat] /\ bulk'.i <= bulk'.count
      <4>1. bulk.i + 1 <= bulk.count
        BY <2>2, <3>1
      <4>2. QED
        BY <3>1, <3>3, <4>1
    <3>6. QED
      BY <3>4, <3>5
  <2>3. QED
    BY <2>1, <2>2 DEF Sent
<1>6. samples' \subseteq [cmd : All, of : Nat]
  BY <1>1 DEF Sent, TypeOK
<1>7. cpc' \in {"ready", "reading", "quit"} /\ UNCHANGED <<link, answering, out, timeouts, storeVars>>
  BY DEF Sent
<1>8. /\ store' \in [Id -> SUBSET ({0} \cup All)] /\ failed' \subseteq All /\ busy' \in [Conn -> BOOLEAN]
      /\ met' \subseteq [conn : Conn, set : All, other : All]
  <2>1. /\ UNCHANGED <<store, failed, busy, met>> /\ DOMAIN cmds \subseteq All
    BY <1>1, <1>7 DEF storeVars
  <2>2. \A id \in Id : store[id] \in SUBSET ({0} \cup All)
    BY <2>1 DEF TypeOK
  <2>3. \A w \in met : w \in [conn : Conn, set : All, other : All]
    BY <2>1 DEF TypeOK
  <2>4. failed \subseteq All /\ store \in [Id -> SUBSET ({0} \cup All)] /\ busy \in [Conn -> BOOLEAN]
    BY <2>1, <2>2 DEF TypeOK
  <2> HIDE DEF All
  <2>5. QED
    BY <2>1, <2>3, <2>4
<1>9. TypeOK'
  BY <1>1, <1>2, <1>4, <1>5, <1>6, <1>7, <1>8 DEF TypeOK, CmdType
<1>10. BusyOK'
  <2>1. busy' = busy
    BY <1>7 DEF storeVars
  <2>2. QED
    BY <2>1, SentHeads DEF BusyOK
<1>11. QED
  BY <1>1, <1>5, <1>9, <1>10

LEMMA ServedType ==
  ASSUME TypeInv, NEW c \in Conn, NEW T, Served(c, T)
  PROVE  TypeBase'
<1> DEFINE k == Head(inq[c])
<1> USE DEF TypeInv, TypeBase
<1>1. inq[c] \in Seq(DOMAIN cmds) /\ inq[c] # << >>
  BY DEF TypeOK, Served
<1>2. k \in DOMAIN cmds /\ Tail(inq[c]) \in Seq(DOMAIN cmds)
  BY <1>1, HeadTailProperties
<1>3. k \in Nat /\ cmds[k].id \in Id
  BY <1>2, Numbers DEF CmdType
<1>4. out' \in Seq(TokenType)
  <2>1. T \in Seq(TokenType)
    BY <1>3, TokensTyped DEF Served
  <2>2. QED
    BY <2>1, ConcatProperties DEF Served, TypeOK
<1>5. inq' \in [Conn -> Seq(DOMAIN cmds)]
  BY <1>2 DEF Served, TypeOK
<1>6. /\ link' \in [Conn -> {"up", "closed", "lost"}] /\ busy' \in [Conn -> BOOLEAN]
      /\ store' \in [Id -> SUBSET ({0} \cup DOMAIN cmds)] /\ failed' \subseteq DOMAIN cmds
      /\ met' \subseteq [conn : Conn, set : DOMAIN cmds, other : DOMAIN cmds] /\ answering' \in BOOLEAN
  <2>1. Texts(c, k) \in SUBSET ({0} \cup DOMAIN cmds)
    <3>1. \A w \in met : w.other \in DOMAIN cmds
      BY DEF TypeOK
    <3>2. QED
      BY <1>2, <3>1 DEF Texts, TypeOK
  <2>2. link' \in [Conn -> {"up", "closed", "lost"}] /\ answering' \in BOOLEAN
    BY DEF Served, TypeOK
  <2>3. CASE UNCHANGED storeVars
    BY <2>2, <2>3 DEF TypeOK, storeVars
  <2>4. CASE busy' = [busy EXCEPT ![c] = FALSE] /\ UNCHANGED met
    <3>1. store' \in {store, [store EXCEPT ![cmds[k].id] = Texts(c, k)]} /\ failed' \in {failed, failed \cup {k}}
      BY DEF Served, storeVars
    <3>2. store' \in [Id -> SUBSET ({0} \cup DOMAIN cmds)]
      BY <1>3, <2>1, <3>1 DEF TypeOK
    <3>3. failed' \subseteq DOMAIN cmds
      BY <1>2, <3>1 DEF TypeOK
    <3>4. busy' \in [Conn -> BOOLEAN] /\ met' \subseteq [conn : Conn, set : DOMAIN cmds, other : DOMAIN cmds]
      BY <2>4 DEF TypeOK
    <3>5. QED
      BY <2>2, <3>2, <3>3, <3>4
  <2>5. QED
    BY <2>3, <2>4 DEF Served
<1>7. UNCHANGED <<cmds, buf, cpc, bulk, samples, timeouts>>
  BY DEF Served
<1>8. TypeOK'
  BY <1>4, <1>5, <1>6, <1>7 DEF TypeOK
<1>9. BusyOK'
  <2>1. ~busy'[c] /\ \A d \in Conn \ {c} : busy'[d] = busy[d] /\ inq'[d] = inq[d]
    BY DEF Served, BusyOK, TypeOK, storeVars
  <2>2. QED
    BY <1>7, <2>1 DEF BusyOK
<1>10. QED
  BY <1>7, <1>8, <1>9 DEF BulkOK

LEMMA OtherType ==
  ASSUME TypeInv, OtherSteps
  PROVE  TypeBase'
<1> USE DEF TypeInv, TypeBase, netVars, histVars, storeVars
<1>1. CASE DrainStartup
  <2>1. out' \in Seq(TokenType)
    BY <1>1, GreetingDrained, EmptySeq DEF DrainStartup, StartupOK, TypeOK
  <2>2. QED
    BY <1>1, <2>1 DEF DrainStartup, TypeOK, BulkOK, BusyOK, storeVars
<1>2. CASE BulkBegin
  <2>1. PICK b \in Bulks : bulk' = [base |-> b.base, i |-> 0, count |-> b.count]
    BY <1>2 DEF BulkBegin
  <2>2. b.base \in 1..MaxId /\ b.count \in 1..MaxId /\ b.base + b.count - 1 <= MaxId /\ MaxId \in Nat
    BY <2>1, SessionAssumption
  <2>3. bulk' \in [base : Nat, i : Nat, count : Nat] /\ bulk'.i <= bulk'.count /\ BulkOK'
    BY <2>1, <2>2 DEF BulkOK, NoBulk, Id
  <2>4. QED
    BY <1>2, <2>3 DEF BulkBegin, TypeOK, BusyOK
<1>3. CASE BulkEnd
  <2>1. inq' \in [Conn -> Seq(DOMAIN cmds)]
    <3>1. inq["load"] \o buf \in Seq(DOMAIN cmds)
      BY ConcatProperties DEF TypeOK, Conn
    <3>2. QED
      BY <1>3, <3>1 DEF BulkEnd, TypeOK
  <2>2. buf' \in Seq(DOMAIN cmds)
    BY <1>3, EmptySeq DEF BulkEnd
  <2>3. BusyOK'
    <3> SUFFICES ASSUME NEW c \in Conn, busy[c]
                 PROVE  inq'[c] # << >> /\ Head(inq'[c]) = Head(inq[c])
      BY <1>3 DEF BulkEnd, BusyOK
    <3>1. inq[c] # << >> /\ inq[c] \in Seq(DOMAIN cmds) /\ buf \in Seq(DOMAIN cmds)
      BY DEF BusyOK, TypeOK
    <3>2. inq'[c] \in {inq[c], inq[c] \o buf}
      BY <1>3 DEF BulkEnd, TypeOK
    <3>3. Head(inq[c]) \in DOMAIN cmds
      BY <3>1, HeadTailProperties
    <3>4. QED
      BY <3>1, <3>2, <3>3, HeadKept
  <2>4. QED
    BY <1>3, <2>1, <2>2, <2>3 DEF BulkEnd, TypeOK, BulkOK, NoBulk
<1>4. CASE ReadLine
  <2>1. PICK i \in 1..Len(out) :
           /\ out' = SubSeq(out, i + 1, Len(out))
           /\ samples' \in {samples, samples \cup {[cmd |-> Len(cmds), of |-> out[i].of]}}
           /\ cpc = "reading" /\ cpc' \in {"reading", "consume"}
           /\ UNCHANGED <<cmds, buf, bulk, inq, link, answering, timeouts, storeVars>>
    BY <1>4, ReadStep
  <2>2. out' \in Seq(TokenType)
    BY <2>1, Suffix DEF TypeOK
  <2>3. out[i].of \in Nat
    <3>1. out[i] \in TokenType
      BY ElementOfSeq DEF TypeOK
    <3>2. QED
      BY <3>1 DEF TokenType
  <2>4. Len(cmds) \in DOMAIN cmds
    BY <2>1, Numbers, EmptySeq
  <2>5. samples' \subseteq [cmd : DOMAIN cmds, of : Nat]
    BY <2>1, <2>3, <2>4 DEF TypeOK
  <2>6. QED
    BY <2>1, <2>2, <2>5 DEF TypeOK, BulkOK, BusyOK
<1>5. CASE ReadTimeout
  BY <1>5, EmptySeq DEF ReadTimeout, TypeOK, BulkOK, BusyOK
<1>6. CASE ConsumePrompt
  <2>1. out' \in Seq(TokenType)
    BY <1>6, HeadTailProperties DEF ConsumePrompt, TypeOK
  <2>2. QED
    BY <1>6, <2>1 DEF ConsumePrompt, TypeOK, BulkOK, BusyOK
<1>7. CASE EndOfInput \/ Exit \/ StartupFails
  BY <1>7 DEF EndOfInput, Exit, StartupFails, TypeOK, BulkOK, BusyOK
<1>8. CASE ServePrompt
  <2>1. out' \in Seq(TokenType)
    BY <1>8, AppendProperties DEF ServePrompt, TypeOK, Token, TokenType
  <2>2. QED
    BY <1>8, <2>1 DEF ServePrompt, TypeOK, BulkOK, BusyOK, cliVars
<1>9. ASSUME NEW c \in Conn, SetBegin(c) PROVE TypeBase'
  <2> DEFINE k == Head(inq[c])  j == Head(inq[Other(c)])
  <2>1. k \in DOMAIN cmds
    <3>1. inq[c] \in Seq(DOMAIN cmds) /\ inq[c] # << >>
      BY <1>9 DEF SetBegin, Reads, TypeOK
    <3>2. QED
      BY <3>1, HeadTailProperties
  <2>2. met' \subseteq [conn : Conn, set : DOMAIN cmds, other : DOMAIN cmds]
    <3>1. CASE met' = met
      BY <3>1 DEF TypeOK
    <3>2. CASE busy[Other(c)] /\ met' = met \cup {Meeting(c, k, j), Meeting(Other(c), j, k)}
      <4>1. Other(c) \in Conn /\ inq[Other(c)] \in Seq(DOMAIN cmds)
        BY DEF Other, Conn, TypeOK
      <4>2. inq[Other(c)] # << >>
        BY <3>2, <4>1 DEF BusyOK
      <4>3. j \in DOMAIN cmds
        BY <4>1, <4>2, HeadTailProperties
      <4> HIDE DEF k, j
      <4>4. {Meeting(c, k, j), Meeting(Other(c), j, k)}
              \subseteq [conn : Conn, set : DOMAIN cmds, other : DOMAIN cmds]
        BY <2>1, <4>1, <4>3 DEF Meeting
      <4>5. QED
        BY <3>2, <4>4 DEF TypeOK
    <3>3. QED
      BY <1>9, <3>1, <3>2 DEF SetBegin
  <2>3. store' \in [Id -> SUBSET ({0} \cup DOMAIN cmds)] /\ busy' \in [Conn -> BOOLEAN]
    BY <1>9, <2>1 DEF SetBegin, TypeOK
  <2>4. BusyOK'
    <3>1. cmds[k].op = "set" /\ inq[c] # << >>
      BY <1>9 DEF SetBegin, Reads
    <3>2. QED
      BY <1>9, <3>1 DEF SetBegin, BusyOK, TypeOK, cliVars
  <2>5. QED
    BY <1>9, <2>2, <2>3, <2>4 DEF SetBegin, TypeOK, BulkOK, BusyOK, cliVars
<1>10. ASSUME NEW c \in Conn, Lose(c) PROVE TypeBase'
  <2>1. out' \in Seq(TokenType)
    <3>1. PICK i \in 0..Len(out) : out' = IF c = "measure" THEN SubSeq(out, 1, i) ELSE out
      BY <1>10 DEF Lose
    <3>2. out \in Seq(TokenType) /\ SubSeq(out, 1, i) \in Seq(TokenType)
      BY <3>1, Prefix DEF TypeOK
    <3>3. QED
      BY <3>1, <3>2
  <2>2. link' \in [Conn -> {"up", "closed", "lost"}]
    BY <1>10 DEF Lose, TypeOK
  <2>3. QED
    BY <1>10, <2>1, <2>2 DEF Lose, TypeOK, BulkOK, BusyOK, cliVars
<1>11. QED
  BY <1>1, <1>2, <1>3, <1>4, <1>5, <1>6, <1>7, <1>8, <1>9, <1>10 DEF OtherSteps

LEMMA StartupStep ==
  ASSUME TypeInv, Next
  PROVE  StartupOK'
<1> SUFFICES ASSUME cpc' = "startup" PROVE StartupOK'
  BY DEF StartupOK
<1>1. ASSUME NEW c \in Conn, NEW T, Served(c, T) PROVE FALSE
  BY <1>1 DEF Served, TypeInv, StartupOK
<1>2. ASSUME NEW x \in CmdType, NEW flush \in BOOLEAN, Sent(x, flush) PROVE FALSE
  BY <1>2 DEF Sent
<1>3. ASSUME NEW c \in Conn, Lose(c) PROVE StartupOK'
  <2>1. UNCHANGED <<cmds, inq, answering, cpc>> /\ cpc = "startup"
    BY <1>3 DEF Lose, cliVars
  <2>2. PICK i \in 0..Len(out) : out' = IF c = "measure" THEN SubSeq(out, 1, i) ELSE out
    BY <1>3 DEF Lose
  <2>3. out \in Seq(TokenType) /\ Len(out) \in Nat
    BY LenProperties DEF TypeInv, TypeBase, TypeOK
  <2>4. Len(out') <= Len(out) /\ \A p \in 1..Len(out') : p \in 1..Len(out) /\ out'[p] = out[p]
    <3>1. CASE out' = out
      BY <2>3, <3>1
    <3>2. CASE out' = SubSeq(out, 1, i)
      <4>1. Len(out') = i /\ \A p \in 1..i : out'[p] = out[p]
        BY <2>3, <3>2, Prefix
      <4>2. i <= Len(out) /\ \A p \in 1..i : p \in 1..Len(out)
        BY <2>3
      <4>3. QED
        BY <4>1, <4>2
    <3>3. QED
      BY <2>2, <3>1, <3>2
  <2>5. Len(out') \in Nat /\ Len(out') <= 6
    <3>1. out' \in Seq(TokenType)
      BY <2>2, <2>3, Prefix
    <3>2. Len(out') \in Nat /\ Len(out) <= 6
      BY <2>1, <3>1, LenProperties DEF TypeInv, StartupOK
    <3>3. QED
      BY <2>3, <2>4, <3>2
  <2>6. QED
    BY <2>1, <2>4, <2>5 DEF TypeInv, StartupOK
<1>4. OtherSteps => \E c \in Conn : Lose(c)
  BY DEF OtherSteps, DrainStartup, StartupFails, BulkBegin, BulkEnd, ReadLine, ReadTimeout,
         ConsumePrompt, EndOfInput, Exit, ServePrompt, SetBegin, Reads, cliVars, TypeInv, StartupOK
<1>5. QED
  BY <1>1, <1>2, <1>3, <1>4, Steps

LEMMA TypeStep ==
  ASSUME TypeInv, [Next]_vars
  PROVE  TypeInv'
<1>1. CASE UNCHANGED vars
  BY <1>1 DEF TypeInv, TypeBase, TypeOK, BulkOK, BusyOK, StartupOK, vars, cliVars, netVars, histVars,
              storeVars
<1>2. CASE Next
  <2>1. TypeBase'
    BY <1>2, Steps, ServedType, SentType, OtherType
  <2>2. QED
    BY <1>2, <2>1, StartupStep DEF TypeInv
<1>3. QED
  BY <1>1, <1>2

(* Every variable of a session has the values its declaration names, for any *)
(* ids, inputs and bounds.                                                   *)
THEOREM TypeCorrect == Spec => []TypeOK
<1>1. TypeInv /\ [Next]_vars => TypeInv'
  BY TypeStep
<1>2. TypeInv => TypeOK
  BY DEF TypeInv, TypeBase
<1>3. QED
  BY <1>1, <1>2, TypeInit, PTL DEF Spec
-------------------------------------------------------------------------------
(* The load channel *)

(* What is on its way down the load channel, then in cliWriter, are the      *)
(* latest commands in their order.                                           *)
LoadInv ==
  LET n == Len(cmds)  b == Len(buf)  q == inq["load"]
  IN /\ b + Len(q) <= n
     /\ \A i \in 1..b : buf[i] = n - b + i
     /\ \A i \in 1..Len(q) : q[i] = n - b - Len(q) + i
     /\ bulk.count = 0 => b = 0

(* The commands 1..Run are handled on the load channel.                      *)
Run == Len(cmds) - Len(buf) - Len(inq["load"])

(* The load session is closed for the first QUIT it reads, and with it it    *)
(* ends; nothing else ends the client but the loss of the channel.           *)
QuitInv ==
  /\ link["load"] = "up" => \A k \in DOMAIN cmds : k <= Run => cmds[k].op # "quit"
  /\ link["load"] = "closed" =>
       /\ Run \in DOMAIN cmds /\ cmds[Run].op = "quit"
       /\ \A k \in DOMAIN cmds : k < Run => cmds[k].op # "quit"
  /\ cpc \in {"startup", "quit", "eof", "end"} => bulk = NoBulk
  /\ cpc = "end" => link["load"] # "up" \/ cmds = << >>

(* Lengths and elements of the queues, for the provers.                      *)
LEMMA QueueNumbers ==
  ASSUME TypeInv
  PROVE  /\ Len(cmds) \in Nat /\ DOMAIN cmds = 1..Len(cmds)
         /\ buf \in Seq(Nat) /\ Len(buf) \in Nat
         /\ inq["load"] \in Seq(Nat) /\ Len(inq["load"]) \in Nat
         /\ inq["measure"] \in Seq(Nat) /\ Len(inq["measure"]) \in Nat
         /\ \A c \in Conn : inq[c] \in Seq(Nat) /\ inq[c] \in Seq(DOMAIN cmds)
<1>1. Len(cmds) \in Nat /\ DOMAIN cmds = 1..Len(cmds)
  BY Numbers DEF TypeInv, TypeBase
<1>2. buf \in Seq(DOMAIN cmds) /\ \A c \in Conn : inq[c] \in Seq(DOMAIN cmds)
  BY DEF TypeInv, TypeBase, TypeOK
<1>3. DOMAIN cmds \subseteq Nat
  BY <1>1
<1>4. buf \in Seq(Nat) /\ \A c \in Conn : inq[c] \in Seq(Nat)
  BY <1>2, <1>3, SeqMonotonic
<1>5. inq["load"] \in Seq(Nat) /\ inq["measure"] \in Seq(Nat)
  BY <1>4 DEF Conn
<1>6. QED
  BY <1>1, <1>2, <1>4, <1>5, LenProperties

(* What is in the queues is a command.                                       *)
LEMMA QueueElements ==
  ASSUME TypeInv
  PROVE  /\ \A i \in 1..Len(buf) : buf[i] \in 1..Len(cmds)
         /\ \A i \in 1..Len(inq["load"]) : inq["load"][i] \in 1..Len(cmds)
         /\ \A i \in 1..Len(inq["measure"]) : inq["measure"][i] \in 1..Len(cmds)
<1>1. DOMAIN cmds = 1..Len(cmds)
  BY QueueNumbers
<1>2. /\ buf \in Seq(DOMAIN cmds) /\ inq["load"] \in Seq(DOMAIN cmds)
      /\ inq["measure"] \in Seq(DOMAIN cmds)
  BY DEF TypeInv, TypeBase, TypeOK, Conn
<1>3. QED
  BY <1>1, <1>2, ElementOfSeq

(* The queues after a command is sent.                                       *)
LEMMA SentQueues ==
  ASSUME TypeInv, NEW x \in CmdType, NEW flush \in BOOLEAN, Sent(x, flush)
  PROVE  LET n == Len(cmds)  b == Len(buf)  l == inq["load"]  m == inq["measure"]
         IN /\ Len(cmds') = n + 1 /\ DOMAIN cmds' = 1..(n + 1)
            /\ cmds'[n + 1] = x /\ \A k \in 1..n : cmds'[k] = cmds[k]
            /\ flush => /\ Len(buf') = 0 /\ Len(inq'["load"]) = Len(l) + b + 1
                        /\ \A i \in 1..(Len(l) + b + 1) :
                             inq'["load"][i] = IF i <= Len(l) THEN l[i]
                                               ELSE IF i <= Len(l) + b THEN buf[i - Len(l)]
                                               ELSE n + 1
            /\ ~flush => /\ inq'["load"] = l /\ Len(buf') = b + 1 /\ buf'[b + 1] = n + 1
                         /\ \A i \in 1..b : buf'[i] = buf[i]
            /\ x.measured => /\ Len(inq'["measure"]) = Len(m) + 1
                             /\ inq'["measure"][Len(m) + 1] = n + 1
                             /\ \A i \in 1..Len(m) : inq'["measure"][i] = m[i]
            /\ ~x.measured => inq'["measure"] = m
<1> DEFINE n == Len(cmds)  b == Len(buf)  l == inq["load"]  m == inq["measure"]
           t == Append(buf, n + 1)
<1>1. n \in Nat /\ buf \in Seq(Nat) /\ l \in Seq(Nat) /\ m \in Seq(Nat) /\ n + 1 \in Nat
  BY QueueNumbers
<1>2. Len(cmds') = n + 1 /\ DOMAIN cmds' = 1..(n + 1) /\ cmds'[n + 1] = x
      /\ \A k \in 1..n : cmds'[k] = cmds[k]
  BY Grown, QueueNumbers DEF Sent, TypeInv, TypeBase
<1>3. /\ t \in Seq(Nat) /\ Len(t) = b + 1 /\ t[b + 1] = n + 1
      /\ \A i \in 1..b : t[i] = buf[i]
  BY <1>1, AppendProperties
<1>4. /\ Len(l \o t) = Len(l) + b + 1
      /\ \A i \in 1..(Len(l) + b + 1) :
           (l \o t)[i] = IF i <= Len(l) THEN l[i]
                         ELSE IF i <= Len(l) + b THEN buf[i - Len(l)] ELSE n + 1
  <2> HIDE DEF t, l, n
  <2>1. /\ Len(l \o t) = Len(l) + Len(t)
        /\ \A i \in 1..(Len(l) + Len(t)) :
             (l \o t)[i] = IF i <= Len(l) THEN l[i] ELSE t[i - Len(l)]
    BY <1>1, <1>3, ConcatProperties
  <2>2. Len(l) \in Nat /\ b \in Nat
    BY <1>1, LenProperties
  <2>3. Len(l \o t) = Len(l) + b + 1
    BY <1>3, <2>1, <2>2
  <2>4. ASSUME NEW i \in 1..(Len(l) + b + 1)
        PROVE  (l \o t)[i] = IF i <= Len(l) THEN l[i]
                             ELSE IF i <= Len(l) + b THEN buf[i - Len(l)] ELSE n + 1
    <3>1. (l \o t)[i] = IF i <= Len(l) THEN l[i] ELSE t[i - Len(l)]
      BY <1>3, <2>1, <2>2
    <3>2. CASE i <= Len(l)
      BY <3>1, <3>2
    <3>3. CASE i > Len(l) /\ i <= Len(l) + b
      <4>1. i - Len(l) \in 1..b
        BY <2>2, <3>3
      <4>2. QED
        BY <1>3, <2>2, <3>1, <3>3, <4>1
    <3>4. CASE i > Len(l) + b
      <4>1. i - Len(l) = b + 1 /\ ~(i <= Len(l))
        BY <2>2, <3>4
      <4>2. QED
        BY <1>3, <2>2, <3>1, <3>4, <4>1
    <3>5. i <= Len(l) \/ (i > Len(l) /\ i <= Len(l) + b) \/ i > Len(l) + b
      BY <2>2
    <3>6. QED
      BY <3>2, <3>3, <3>4, <3>5, Zenon
  <2>5. QED
    BY <2>3, <2>4
<1>5. /\ Len(Append(m, n + 1)) = Len(m) + 1 /\ Append(m, n + 1)[Len(m) + 1] = n + 1
      /\ \A i \in 1..Len(m) : Append(m, n + 1)[i] = m[i]
  BY <1>1, AppendProperties
<1>6. CASE flush
  BY <1>2, <1>4, <1>5, <1>6 DEF Sent
<1>7. CASE ~flush
  BY <1>2, <1>3, <1>5, <1>7 DEF Sent
<1>8. QED
  BY <1>6, <1>7

(* The queues after a command is handled.                                    *)
LEMMA ServedQueues ==
  ASSUME TypeInv, NEW c \in Conn, NEW T, Served(c, T)
  PROVE  /\ Len(inq[c]) > 0 /\ Head(inq[c]) = inq[c][1]
         /\ Head(inq[c]) \in DOMAIN cmds
         /\ Len(inq'[c]) = Len(inq[c]) - 1
         /\ \A i \in 1..Len(inq'[c]) : inq'[c][i] = inq[c][i + 1]
         /\ \A d \in Conn \ {c} : inq'[d] = inq[d]
<1>1. inq[c] # << >> /\ inq' = [inq EXCEPT ![c] = Tail(@)]
  BY DEF Served
<1>2. inq[c] \in Seq(Nat) /\ inq[c] # << >> /\ inq' = [inq EXCEPT ![c] = Tail(@)]
  BY <1>1, QueueNumbers
<1>3. inq \in [Conn -> Seq(DOMAIN cmds)]
  BY DEF TypeInv, TypeBase, TypeOK
<1>4. Len(inq[c]) > 0 /\ Head(inq[c]) = inq[c][1]
  BY <1>2, EmptySeq
<1>5. Len(Tail(inq[c])) = Len(inq[c]) - 1 /\ \A i \in 1..Len(Tail(inq[c])) : Tail(inq[c])[i] = inq[c][i + 1]
  BY <1>2, HeadTailProperties
<1>6. inq'[c] = Tail(inq[c]) /\ \A d \in Conn \ {c} : inq'[d] = inq[d]
  BY <1>2, <1>3
<1>7. Head(inq[c]) \in DOMAIN cmds
  BY <1>2, <1>3, HeadTailProperties
<1>8. QED
  BY <1>4, <1>5, <1>6, <1>7

LEMMA LoadServed ==
  ASSUME TypeInv, LoadInv, QuitInv, NEW c \in Conn, NEW T, Served(c, T)
  PROVE  LoadInv' /\ QuitInv'
<1> DEFINE n == Len(cmds)  b == Len(buf)  q == inq["load"]  r == inq'["load"]
           l == Len(q)  m == Len(r)
<1>1. n \in Nat /\ b \in Nat /\ l \in Nat /\ DOMAIN cmds = 1..n
  BY QueueNumbers
<1> HIDE DEF n, b, q, r, l, m
<1>2. UNCHANGED <<cmds, buf, bulk, cpc>>
  BY DEF Served, n, b, q, r, l, m
<1>3. CASE c = "load"
  <2>1. /\ l > 0 /\ m = l - 1 /\ Head(q) = q[1]
        /\ \A i \in 1..m : r[i] = q[i + 1]
    BY <1>3, ServedQueues DEF n, b, q, r, l, m
  <2>2. /\ b + l <= n
        /\ \A i \in 1..b : buf[i] = n - b + i
        /\ \A i \in 1..l : q[i] = n - b - l + i
        /\ bulk.count = 0 => b = 0
    BY DEF LoadInv, n, b, q, r, l, m
  <2>3. ASSUME NEW i \in 1..m PROVE r[i] = n - b - m + i
    <3>1. i + 1 \in 1..l /\ r[i] = q[i + 1]
      BY <1>1, <2>1
    <3>2. q[i + 1] = n - b - l + (i + 1)
      BY <2>2, <3>1
    <3>3. QED
      BY <1>1, <2>1, <3>1, <3>2
  <2>4. b + m <= n
    BY <1>1, <2>1, <2>2
  <2>5. LoadInv'
    BY <1>2, <2>2, <2>3, <2>4 DEF LoadInv, n, b, q, r, l, m
  <2>6. link["load"] = "up" /\ Head(q) \in 1..n
    BY <1>1, <1>3, ServedQueues DEF Served, n, b, q, r, l, m
  <2>7. Run = n - b - l /\ Run' = Run + 1 /\ Run' = Head(q)
    <3>1. q[1] = n - b - l + 1
      BY <1>1, <2>1, <2>2
    <3>2. Run = n - b - l /\ Run' = n - b - m
      BY <1>2 DEF Run, n, b, q, r, l, m
    <3>3. QED
      BY <1>1, <2>1, <3>1, <3>2
  <2>8. link'["load"] = IF cmds[Head(q)].op = "quit" THEN "closed" ELSE "up"
    BY <1>3, <2>6 DEF Served, TypeInv, TypeBase, TypeOK, n, b, q, r, l, m
  <2>9. ASSUME NEW k \in 1..n, k < Run' PROVE cmds[k].op # "quit"
    <3>1. k <= Run
      BY <1>1, <2>7, <2>9
    <3>2. QED
      BY <1>1, <2>6, <3>1 DEF QuitInv
  <2>10. QuitInv'
    <3>1. ASSUME link'["load"] = "up", NEW k \in 1..n, k <= Run' PROVE cmds[k].op # "quit"
      <4>1. cmds[Head(q)].op # "quit"
        BY <2>8, <3>1
      <4>2. k = Head(q) \/ k < Run'
        BY <1>1, <2>6, <2>7, <3>1
      <4>3. QED
        BY <2>9, <4>1, <4>2
    <3>2. link'["load"] = "closed" => cmds[Run'].op = "quit"
      BY <2>7, <2>8
    <3>3. cpc # "end"
      BY <1>1, <2>6 DEF QuitInv, TypeInv, TypeBase, TypeOK, n
    <3>4. QED
      BY <1>1, <1>2, <2>6, <2>7, <2>9, <3>1, <3>2, <3>3 DEF QuitInv
  <2>11. QED
    BY <2>5, <2>10
<1>4. CASE c # "load"
  <2>1. r = q
    BY <1>4, ServedQueues DEF Conn, n, b, q, r, l, m
  <2>2. link'["load"] = link["load"]
    BY <1>4 DEF Served, TypeInv, TypeBase, TypeOK, Conn, n, b, q, r, l, m
  <2>3. LoadInv'
    BY <1>2, <2>1 DEF LoadInv, n, b, q, r, l, m
  <2>4. QuitInv'
    <3>1. Run' = Run
      BY <1>2, <2>1 DEF Run, q, r
    <3>2. QED
      BY <1>2, <2>2, <3>1 DEF QuitInv
  <2>5. QED
    BY <2>3, <2>4
<1>5. QED
  BY <1>3, <1>4

LEMMA LoadSent ==
  ASSUME TypeInv, LoadInv, QuitInv, NEW x \in CmdType, NEW flush \in BOOLEAN, Sent(x, flush)
  PROVE  LoadInv' /\ QuitInv'
<1> DEFINE n == Len(cmds)  b == Len(buf)  q == inq["load"]  r == inq'["load"]
           l == Len(q)  m == Len(r)
<1>1. n \in Nat /\ b \in Nat /\ l \in Nat /\ DOMAIN cmds = 1..n
  BY QueueNumbers
<1> HIDE DEF n, b, q, r, l, m
<1>2. /\ Len(cmds') = n + 1 /\ DOMAIN cmds' = 1..(n + 1)
      /\ cmds'[n + 1] = x /\ \A k \in 1..n : cmds'[k] = cmds[k]
  BY SentQueues DEF n, b, q, r, l, m
<1>3. /\ b + l <= n
      /\ \A i \in 1..b : buf[i] = n - b + i
      /\ \A i \in 1..l : q[i] = n - b - l + i
      /\ bulk.count = 0 => b = 0
  BY DEF LoadInv, n, b, q, r, l, m
<1>4. LoadInv'
  <2>1. CASE flush
    <3>1. /\ Len(buf') = 0 /\ m = l + b + 1
          /\ \A i \in 1..(l + b + 1) :
               r[i] = IF i <= l THEN q[i] ELSE IF i <= l + b THEN buf[i - l] ELSE n + 1
      BY <2>1, SentQueues DEF n, b, q, r, l, m
    <3>2. ASSUME NEW i \in 1..m PROVE r[i] = (n + 1) - 0 - m + i
      <4>1. CASE i <= l
        BY <1>1, <1>3, <3>1, <4>1
      <4>2. CASE i > l /\ i <= l + b
        <5>1. i - l \in 1..b /\ r[i] = buf[i - l]
          BY <1>1, <3>1, <4>2
        <5>2. buf[i - l] = n - b + (i - l)
          BY <1>3, <5>1
        <5>3. QED
          BY <1>1, <3>1, <5>1, <5>2
      <4>3. CASE i > l + b
        BY <1>1, <3>1, <4>3
      <4>4. QED
        BY <1>1, <3>1, <4>1, <4>2, <4>3
    <3>3. 0 + m <= n + 1
      BY <1>1, <1>3, <3>1
    <3>4. QED
      <4>1. \A i \in 1..m : r[i] = Len(cmds') - Len(buf') - m + i
        BY <1>2, <3>1, <3>2
      <4>2. Len(buf') + m <= Len(cmds')
        BY <1>2, <3>1, <3>3
      <4>3. 1..Len(buf') = {}
        BY <3>1
      <4>4. QED
        BY <3>1, <4>1, <4>2, <4>3 DEF LoadInv, r, m
  <2>2. CASE ~flush
    <3>1. /\ r = q /\ Len(buf') = b + 1 /\ buf'[b + 1] = n + 1
          /\ \A i \in 1..b : buf'[i] = buf[i]
      BY <2>2, SentQueues DEF n, b, q, r, l, m
    <3>2. bulk.count # 0 /\ bulk'.count = bulk.count
      BY <2>2 DEF Sent, TypeInv, TypeBase, TypeOK, n, b, q, r, l, m
    <3>3. ASSUME NEW i \in 1..(b + 1) PROVE buf'[i] = (n + 1) - (b + 1) + i
      BY <1>1, <1>3, <3>1
    <3>4. ASSUME NEW i \in 1..l PROVE q[i] = (n + 1) - (b + 1) - l + i
      BY <1>1, <1>3
    <3>5. b + 1 + l <= n + 1
      BY <1>1, <1>3
    <3>6. QED
      BY <1>2, <3>1, <3>2, <3>3, <3>4, <3>5 DEF LoadInv, n, b, q, r, l, m
  <2>3. QED
    BY <2>1, <2>2
<1>5. QuitInv'
  <2>1. cpc = "ready" /\ cpc' \notin {"startup", "end"} /\ (cpc' \in {"quit", "eof"} => bulk' = NoBulk) /\ link' = link
    BY DEF Sent, n, b, q, r, l, m
  <2>2. Run' = Run /\ Run = n - b - l
    <3>1. CASE flush
      <4>1. Len(buf') = 0 /\ m = l + b + 1
        BY <3>1, SentQueues DEF n, b, q, r, l, m
      <4>2. Run = n - b - l /\ Run' = (n + 1) - 0 - m
        BY <1>2, <4>1 DEF Run, n, b, q, r, l, m
      <4>3. QED
        BY <1>1, <4>1, <4>2
    <3>2. CASE ~flush
      <4>1. Len(buf') = b + 1 /\ m = l
        BY <3>2, SentQueues DEF n, b, q, r, l, m
      <4>2. Run = n - b - l /\ Run' = (n + 1) - (b + 1) - l
        BY <1>2, <4>1 DEF Run, n, b, q, r, l, m
      <4>3. QED
        BY <1>1, <4>2
    <3>3. QED
      BY <3>1, <3>2
  <2>3. ASSUME NEW k \in 1..(n + 1), k <= Run' PROVE k \in 1..n /\ k <= Run /\ cmds'[k] = cmds[k]
    <3>1. k \in 1..n
      BY <1>1, <2>2, <2>3
    <3>2. QED
      BY <1>2, <2>2, <2>3, <3>1
  <2>4. ASSUME NEW k \in 1..(n + 1), k < Run' PROVE k \in 1..n /\ k < Run /\ cmds'[k] = cmds[k]
    <3>1. k <= Run'
      BY <1>1, <2>2, <2>4
    <3>2. QED
      BY <2>2, <2>3, <2>4, <3>1
  <2>5. Run \in 1..n => Run' \in 1..(n + 1) /\ cmds'[Run'] = cmds[Run]
    BY <1>1, <1>2, <2>2
  <2>6. QED
    BY <1>1, <1>2, <2>1, <2>3, <2>4, <2>5 DEF QuitInv
<1>6. QED
  BY <1>4, <1>5

LEMMA LoadOther ==
  ASSUME TypeInv, LoadInv, QuitInv, OtherSteps
  PROVE  LoadInv' /\ QuitInv'
<1> USE DEF netVars, histVars, cliVars, Run
<1>1. CASE DrainStartup \/ ReadTimeout \/ ConsumePrompt
  BY <1>1 DEF DrainStartup, ReadTimeout, ConsumePrompt, LoadInv, QuitInv
<1>2. CASE ReadLine
  <2>1. /\ cpc = "reading" /\ cpc' \in {"reading", "consume"}
        /\ UNCHANGED <<cmds, buf, bulk, inq, link>>
    BY <1>2, ReadStep
  <2>2. QED
    BY <2>1 DEF LoadInv, QuitInv
<1>3. CASE EndOfInput \/ Exit
  BY <1>3 DEF EndOfInput, Exit, LoadInv, QuitInv
<1>4. CASE ServePrompt
  BY <1>4 DEF ServePrompt, LoadInv, QuitInv
<1>5. CASE StartupFails
  <2>1. cmds = << >> /\ bulk = NoBulk
    BY <1>5 DEF StartupFails, TypeInv, StartupOK, QuitInv
  <2>2. UNCHANGED <<cmds, buf, bulk, inq, link>> /\ cpc' = "end"
    BY <1>5 DEF StartupFails
  <2>3. QED
    BY <2>1, <2>2 DEF LoadInv, QuitInv
<1>6. ASSUME NEW c \in Conn, SetBegin(c) PROVE LoadInv' /\ QuitInv'
  BY <1>6 DEF SetBegin, LoadInv, QuitInv
<1>7. ASSUME NEW c \in Conn, Lose(c) PROVE LoadInv' /\ QuitInv'
  <2>1. link'["load"] \in {link["load"], "lost"} /\ cpc # "end" /\ UNCHANGED <<cmds, buf, bulk, cpc, inq>>
    BY <1>7 DEF Lose, TypeInv, TypeBase, TypeOK
  <2>2. QED
    BY <2>1 DEF LoadInv, QuitInv
<1>8. CASE BulkBegin
  <2>1. bulk.count = 0 /\ bulk' # NoBulk
    <3>1. PICK b \in Bulks : bulk' = [base |-> b.base, i |-> 0, count |-> b.count]
      BY <1>8 DEF BulkBegin
    <3>2. b.count \in 1..MaxId
      BY <3>1, SessionAssumption
    <3>3. b.count # 0
      BY <3>2
    <3>4. QED
      BY <1>8, <3>1, <3>3 DEF BulkBegin, NoBulk
  <2>2. Len(buf) = 0
    BY <2>1 DEF LoadInv
  <2>3. UNCHANGED <<cmds, buf, inq, link, cpc>> /\ cpc = "ready"
    BY <1>8 DEF BulkBegin
  <2>4. LoadInv'
    BY <2>2, <2>3 DEF LoadInv
  <2>5. QED
    BY <2>3, <2>4 DEF QuitInv
<1>9. CASE BulkEnd
  <2> DEFINE n == Len(cmds)  b == Len(buf)  q == inq["load"]  r == inq'["load"]
             l == Len(q)  m == Len(r)
  <2>1. n \in Nat /\ b \in Nat /\ l \in Nat /\ buf \in Seq(Nat) /\ q \in Seq(Nat)
    BY QueueNumbers
  <2> HIDE DEF n, b, q, r, l, m
  <2>2. /\ b + l <= n
        /\ \A i \in 1..b : buf[i] = n - b + i
        /\ \A i \in 1..l : q[i] = n - b - l + i
    BY DEF LoadInv, n, b, q, r, l, m
  <2>3. r = q \o buf
    BY <1>9 DEF BulkEnd, TypeInv, TypeBase, TypeOK, Conn, n, b, q, r, l, m
  <2>4. /\ m = l + b
        /\ \A i \in 1..(l + b) : r[i] = IF i <= l THEN q[i] ELSE buf[i - l]
    BY <2>1, <2>3, ConcatProperties DEF n, b, q, r, l, m
  <2>5. ASSUME NEW i \in 1..m PROVE r[i] = n - 0 - m + i
    <3>1. CASE i <= l
      BY <2>1, <2>2, <2>4, <3>1
    <3>2. CASE i > l
      <4>1. i - l \in 1..b /\ r[i] = buf[i - l]
        BY <2>1, <2>4, <3>2
      <4>2. buf[i - l] = n - b + (i - l)
        BY <2>2, <4>1
      <4>3. QED
        BY <2>1, <2>4, <4>1, <4>2
    <3>3. QED
      BY <2>1, <2>4, <3>1, <3>2
  <2>6. Len(buf') = 0 /\ cmds' = cmds /\ 0 + m <= n
    BY <1>9, <2>1, <2>2, <2>4 DEF BulkEnd, n, b, q, r, l, m
  <2>7. LoadInv'
    <3>1. \A i \in 1..m : r[i] = Len(cmds') - Len(buf') - m + i
      BY <2>5, <2>6 DEF n
    <3>2. Len(buf') + m <= Len(cmds')
      BY <2>6 DEF n
    <3>3. 1..Len(buf') = {}
      BY <2>6
    <3>4. QED
      BY <2>6, <3>1, <3>2, <3>3 DEF LoadInv, r, m
  <2>8. QuitInv'
    <3>1. Run' = Run
      <4>1. Run = n - b - l /\ Run' = Len(cmds') - Len(buf') - m
        BY DEF n, b, q, r, l, m
      <4>2. Run' = n - 0 - m
        BY <2>6, <4>1 DEF n
      <4>3. m = l + b
        BY <2>4
      <4>4. n - 0 - m = n - b - l
        BY <2>1, <4>3
      <4>5. QED
        BY <4>1, <4>2, <4>4
    <3>2. UNCHANGED <<cmds, cpc, link>> /\ cpc = "ready"
      BY <1>9 DEF BulkEnd
    <3> HIDE DEF Run
    <3>3. QED
      BY <3>1, <3>2 DEF QuitInv
  <2>9. QED
    BY <2>7, <2>8
<1>10. QED
  BY <1>1, <1>2, <1>3, <1>4, <1>5, <1>6, <1>7, <1>8, <1>9 DEF OtherSteps

LEMMA LoadStep ==
  ASSUME TypeInv, LoadInv, QuitInv, [Next]_vars
  PROVE  LoadInv' /\ QuitInv'
<1>1. CASE UNCHANGED vars
  BY <1>1 DEF LoadInv, QuitInv, Run, vars, cliVars, netVars
<1>2. QED
  BY <1>1, Steps, LoadServed, LoadSent, LoadOther

LEMMA LoadInit == Init => LoadInv /\ QuitInv
<1> SUFFICES ASSUME Init PROVE LoadInv /\ QuitInv
  OBVIOUS
<1>1. /\ Len(cmds) = 0 /\ Len(buf) = 0 /\ Len(inq["load"]) = 0 /\ link["load"] = "up" /\ cpc = "startup"
      /\ DOMAIN cmds = {} /\ bulk = NoBulk
  BY DEF Init, Conn
<1>2. QED
  BY <1>1 DEF LoadInv, QuitInv

(* When the client has exited and the load channel was not lost, the leader  *)
(* has handled exactly the commands up to the first one it takes for QUIT;   *)
(* for any ids, inputs and bounds.                                           *)
THEOREM Drained == Spec => []ExitDrained
<1>1. Init => LoadInv /\ QuitInv
  BY LoadInit
<1>2. TypeInv /\ LoadInv /\ QuitInv => ExitDrained
  <2> SUFFICES ASSUME TypeInv, LoadInv, QuitInv, cpc = "end", link["load"] # "lost"
               PROVE  /\ buf = << >>
                      /\ \A k \in DOMAIN cmds :
                           (\E i \in DOMAIN inq["load"] : inq["load"][i] = k)
                             <=> (\E j \in Asked("quit") : j < k)
    BY DEF ExitDrained
  <2> DEFINE n == Len(cmds)  q == inq["load"]  l == Len(q)
  <2>1. n \in Nat /\ l \in Nat /\ DOMAIN cmds = 1..n /\ DOMAIN q = 1..l
    BY QueueNumbers
  <2>2. Len(buf) = 0
    <3>1. bulk = NoBulk
      BY DEF QuitInv
    <3>2. QED
      BY <3>1 DEF LoadInv, NoBulk
  <2>3. buf = << >>
    BY <2>2, QueueNumbers, EmptySeq
  <2>4. Run = n - l /\ l <= n /\ \A i \in 1..l : q[i] = n - l + i
    <3>1. Run = n - Len(buf) - l
      BY DEF Run
    <3>2. Len(buf) + l <= n /\ \A i \in 1..l : q[i] = n - Len(buf) - l + i
      BY DEF LoadInv
    <3> HIDE DEF n, q, l
    <3>3. QED
      BY <2>1, <2>2, <3>1, <3>2
  <2>5. ASSUME NEW k \in 1..n
        PROVE  (\E i \in 1..l : q[i] = k) <=> (\E j \in Asked("quit") : j < k)
    <3>1. /\ Run \in 1..n /\ cmds[Run].op = "quit"
          /\ \A j \in 1..n : j < Run => cmds[j].op # "quit"
      <4>1. cmds # << >>
        BY <2>1, <2>5
      <4>2. link["load"] = "closed"
        BY <4>1 DEF QuitInv, TypeInv, TypeBase, TypeOK, Conn
      <4>3. QED
        BY <2>1, <4>2 DEF QuitInv
    <3> HIDE DEF n, q, l
    <3>2. (\E i \in 1..l : q[i] = k) <=> Run < k
      <4>1. ASSUME NEW i \in 1..l, q[i] = k PROVE Run < k
        BY <2>1, <2>4, <4>1
      <4>2. ASSUME Run < k PROVE k - Run \in 1..l /\ q[k - Run] = k
        <5>1. k - Run \in 1..l
          BY <2>1, <2>4, <4>2
        <5>2. q[k - Run] = n - l + (k - Run)
          BY <2>4, <5>1
        <5>3. QED
          BY <2>1, <2>4, <5>1, <5>2
      <4>3. QED
        BY <4>1, <4>2
    <3>3. (\E j \in Asked("quit") : j < k) <=> Run < k
      <4>1. Run \in Asked("quit")
        BY <2>1, <3>1 DEF Asked
      <4>2. ASSUME NEW j \in Asked("quit"), j < k PROVE Run < k
        <5>1. j \in 1..n /\ ~(j < Run)
          BY <2>1, <3>1 DEF Asked
        <5>2. QED
          BY <3>1, <4>2, <5>1
      <4>3. QED
        BY <4>1, <4>2
    <3>4. QED
      BY <3>2, <3>3
  <2>6. QED
    BY <2>1, <2>3, <2>5
<1>3. TypeInv /\ [Next]_vars => TypeInv'
  BY TypeStep
<1>4. TypeInv /\ LoadInv /\ QuitInv /\ [Next]_vars => LoadInv' /\ QuitInv'
  BY LoadStep
<1>5. QED
  BY <1>1, <1>2, <1>3, <1>4, TypeInit, PTL DEF Spec

-------------------------------------------------------------------------------
(* The measurement channel *)

(* What the steps of OtherSteps leave alone.                                 *)
LEMMA OtherQueues ==
  ASSUME TypeInv, OtherSteps
  PROVE  /\ UNCHANGED cmds /\ inq'["measure"] = inq["measure"]
         /\ Len(inq'["load"]) + Len(buf') = Len(inq["load"]) + Len(buf)
         /\ timeouts' = IF ReadTimeout THEN timeouts + 1 ELSE timeouts
         /\ UNCHANGED storeVars \/ \E c \in Conn : SetBegin(c)
<1> USE DEF netVars, histVars, cliVars
<1>1. CASE DrainStartup \/ ConsumePrompt
  BY <1>1 DEF DrainStartup, ReadTimeout, ConsumePrompt
<1>2. CASE ReadTimeout
  BY <1>2 DEF ReadTimeout
<1>3. CASE ReadLine
  <2>1. out' # << >> \/ timeouts' = timeouts
    BY <1>3, ReadStep
  <2>2. PICK i \in 1..Len(out) : out[i].class # "prompt"
    BY <1>3, ReadStep
  <2>3. ~ReadTimeout
    <3>1. DOMAIN out = 1..Len(out)
      BY DEF TypeInv, TypeBase, TypeOK
    <3>2. QED
      BY <2>2, <3>1 DEF ReadTimeout
  <2>4. QED
    BY <1>3, <2>3, ReadStep
<1>4. CASE EndOfInput \/ Exit \/ BulkBegin \/ StartupFails
  BY <1>4 DEF EndOfInput, Exit, BulkBegin, StartupFails, ReadTimeout
<1>5. CASE ServePrompt
  <2>1. ~ReadTimeout
    BY <1>5 DEF ServePrompt, ReadTimeout, TypeInv, TypeBase, TypeOK
  <2>2. QED
    BY <1>5, <2>1 DEF ServePrompt
<1>6. CASE BulkEnd
  <2>1. inq'["load"] = inq["load"] \o buf /\ Len(buf') = 0 /\ inq'["measure"] = inq["measure"]
    BY <1>6 DEF BulkEnd, TypeInv, TypeBase, TypeOK, Conn
  <2>2. Len(inq["load"] \o buf) = Len(inq["load"]) + Len(buf)
    BY QueueNumbers, ConcatProperties
  <2>3. Len(inq["load"]) \in Nat /\ Len(buf) \in Nat
    BY QueueNumbers
  <2>4. Len(inq'["load"]) + Len(buf') = Len(inq["load"]) + Len(buf)
    BY <2>1, <2>2, <2>3
  <2>5. UNCHANGED <<cmds, storeVars, timeouts>> /\ ~ReadTimeout
    BY <1>6 DEF BulkEnd, ReadTimeout
  <2>6. QED
    BY <2>1, <2>4, <2>5
<1>7. CASE \E c \in Conn : SetBegin(c) \/ Lose(c)
  <2>1. PICK c \in Conn : SetBegin(c) \/ Lose(c)
    BY <1>7
  <2>2. UNCHANGED <<cmds, buf, inq, timeouts, cpc>>
    BY <2>1 DEF SetBegin, Lose
  <2>3. ~ReadTimeout
    <3>1. cpc' = cpc
      BY <2>2
    <3>2. QED
      BY <3>1 DEF ReadTimeout
  <2>4. UNCHANGED storeVars \/ SetBegin(c)
    BY <2>1 DEF Lose
  <2>5. QED
    BY <2>2, <2>3, <2>4
<1>8. QED
  BY <1>1, <1>2, <1>3, <1>4, <1>5, <1>6, <1>7 DEF OtherSteps

(* The measured commands from the first one that is not handled yet on are   *)
(* all on their way down the measurement channel, in their order.            *)
MeasureInv ==
  LET m == inq["measure"]
  IN /\ \A i, j \in 1..Len(m) : i < j => m[i] < m[j]
     /\ \A i \in 1..Len(m) : cmds[m[i]].measured
     /\ Len(m) > 0 => \A k \in 1..Len(cmds) :
          cmds[k].measured /\ k >= m[1] => \E j \in 1..Len(m) : m[j] = k

LEMMA MeasureStep ==
  ASSUME TypeInv, MeasureInv, [Next]_vars
  PROVE  MeasureInv'
<1> DEFINE n == Len(cmds)  m == inq["measure"]  l == Len(m)  r == inq'["measure"]  lr == Len(r)
<1>1. n \in Nat /\ l \in Nat /\ \A i \in 1..l : m[i] \in 1..n
  BY QueueNumbers, QueueElements
<1>2. /\ \A i, j \in 1..l : i < j => m[i] < m[j]
      /\ \A i \in 1..l : cmds[m[i]].measured
      /\ l > 0 => \A k \in 1..n : cmds[k].measured /\ k >= m[1] => \E j \in 1..l : m[j] = k
  BY DEF MeasureInv
<1> HIDE DEF n, m, l, r, lr
<1>3. CASE UNCHANGED vars \/ OtherSteps
  <2>1. cmds' = cmds /\ r = m
    BY <1>3, OtherQueues DEF vars, cliVars, netVars, r, m
  <2>2. QED
    BY <2>1 DEF MeasureInv, r, m
<1>4. ASSUME NEW c \in Conn, NEW T, Served(c, T) PROVE MeasureInv'
  <2>1. cmds' = cmds
    BY <1>4 DEF Served
  <2>2. CASE c = "load"
    BY <1>4, <2>1, <2>2, ServedQueues DEF MeasureInv, Conn
  <2>3. CASE c = "measure"
    <3>1. l > 0 /\ lr = l - 1 /\ \A i \in 1..lr : r[i] = m[i + 1]
      BY <1>4, <2>3, ServedQueues DEF m, l, r, lr
    <3>2. ASSUME NEW i \in 1..lr, NEW j \in 1..lr, i < j PROVE r[i] < r[j]
      <4>1. i + 1 \in 1..l /\ j + 1 \in 1..l /\ i + 1 < j + 1
        BY <1>1, <3>1, <3>2
      <4>2. m[i + 1] < m[j + 1]
        BY <1>2, <4>1
      <4>3. QED
        BY <3>1, <4>2
    <3>3. ASSUME NEW i \in 1..lr PROVE cmds[r[i]].measured
      <4>1. i + 1 \in 1..l
        BY <1>1, <3>1
      <4>2. QED
        BY <1>2, <3>1, <4>1
    <3>4. ASSUME lr > 0, NEW k \in 1..n, cmds[k].measured, k >= r[1]
          PROVE  \E j \in 1..lr : r[j] = k
      <4>1. 1 \in 1..l /\ 2 \in 1..l /\ 1 \in 1..lr /\ r[1] = m[1 + 1]
        BY <1>1, <3>1, <3>4
      <4>2. m[1] < m[2] /\ r[1] = m[2] /\ m[1] \in 1..n /\ m[2] \in 1..n
        BY <1>1, <1>2, <4>1
      <4>3. k > m[1]
        BY <1>1, <3>4, <4>2
      <4>4. PICK j \in 1..l : m[j] = k
        BY <1>1, <1>2, <3>1, <3>4, <4>2, <4>3
      <4>5. j # 1
        BY <1>1, <4>2, <4>3, <4>4
      <4>6. j - 1 \in 1..lr /\ r[j - 1] = m[(j - 1) + 1] /\ (j - 1) + 1 = j
        BY <1>1, <3>1, <4>5
      <4>7. QED
        BY <4>4, <4>6
    <3>5. QED
      BY <2>1, <3>2, <3>3, <3>4 DEF MeasureInv, r, lr, n
  <2>4. QED
    BY <2>2, <2>3 DEF Conn
<1>5. ASSUME NEW x \in CmdType, NEW flush \in BOOLEAN, Sent(x, flush) PROVE MeasureInv'
  <2>1. Len(cmds') = n + 1 /\ cmds'[n + 1] = x /\ \A k \in 1..n : cmds'[k] = cmds[k]
    BY <1>5, SentQueues DEF n
  <2>2. CASE ~x.measured
    <3>1. r = m
      BY <1>5, <2>2, SentQueues DEF r, m
    <3>2. \A i \in 1..l : cmds'[m[i]].measured
      BY <1>1, <1>2, <2>1
    <3>3. ASSUME l > 0, NEW k \in 1..(n + 1), cmds'[k].measured, k >= m[1]
          PROVE  \E j \in 1..l : m[j] = k
      <4>1. k \in 1..n
        BY <1>1, <2>1, <2>2, <3>3
      <4>2. QED
        BY <1>2, <2>1, <3>3, <4>1
    <3>4. QED
      BY <1>2, <2>1, <3>1, <3>2, <3>3 DEF MeasureInv, r, l, m
  <2>3. CASE x.measured
    <3>1. lr = l + 1 /\ r[l + 1] = n + 1 /\ \A i \in 1..l : r[i] = m[i]
      BY <1>5, <2>3, SentQueues DEF r, lr, m, l, n
    <3>2. ASSUME NEW i \in 1..lr, NEW j \in 1..lr, i < j PROVE r[i] < r[j]
      <4>1. i \in 1..l /\ (j \in 1..l \/ j = l + 1)
        BY <1>1, <3>1, <3>2
      <4>2. r[i] = m[i] /\ m[i] \in 1..n
        BY <1>1, <3>1, <4>1
      <4>3. QED
        BY <1>1, <1>2, <3>1, <3>2, <4>1, <4>2
    <3>3. ASSUME NEW i \in 1..lr PROVE cmds'[r[i]].measured
      <4>1. i \in 1..l \/ i = l + 1
        BY <1>1, <3>1
      <4>2. QED
        BY <1>1, <1>2, <2>1, <2>3, <3>1, <4>1
    <3>4. ASSUME NEW k \in 1..(n + 1), cmds'[k].measured, k >= r[1]
          PROVE  \E j \in 1..lr : r[j] = k
      <4>1. CASE k = n + 1
        <5>1. l + 1 \in 1..lr
          BY <1>1, <3>1
        <5>2. QED
          BY <3>1, <4>1, <5>1
      <4>2. CASE k \in 1..n
        <5>1. l > 0
          BY <1>1, <3>1, <3>4, <4>2
        <5>2. r[1] = m[1]
          BY <1>1, <3>1, <5>1
        <5>3. PICK j \in 1..l : m[j] = k
          BY <1>2, <2>1, <3>4, <4>2, <5>1, <5>2
        <5>4. j \in 1..lr /\ r[j] = k
          BY <1>1, <3>1, <5>3
        <5>5. QED
          BY <5>4
      <4>3. QED
        BY <1>1, <4>1, <4>2
    <3>5. QED
      BY <2>1, <3>2, <3>3, <3>4 DEF MeasureInv, r, lr
  <2>4. QED
    BY <2>2, <2>3
<1>6. QED
  BY <1>3, <1>4, <1>5, Steps

-------------------------------------------------------------------------------
(* While nothing goes wrong *)

(* No read has timed out and no HELP was sent.                               *)
Quiet == timeouts = 0 /\ \A k \in DOMAIN cmds : cmds[k].op # "help"

Text(p) == out[p].class # "prompt"

(* Then a session has at most the current command or its answer under way,   *)
(* and prompts: nothing when the client is ready.                            *)
QuietInv ==
  LET n == Len(cmds)  m == inq["measure"]
  IN Quiet =>
       /\ Len(m) <= 1 /\ \A i \in 1..Len(m) : m[i] = n
       /\ cpc \in {"ready", "consume"} => Len(m) = 0 /\ \A p \in 1..Len(out) : ~Text(p)
       /\ cpc = "reading" =>
            /\ Len(m) = 1 => \A p \in 1..Len(out) : ~Text(p)
            /\ \A p, q \in 1..Len(out) : Text(p) /\ Text(q) => q = p

(* One token more.                                                           *)
LEMMA OneMore ==
  ASSUME NEW s \in Seq(TokenType), NEW class \in {"line", "skip", "prompt"}, NEW k \in Nat
  PROVE  \A t : t = Append(s, Token(class, k)) \/ t = s \o <<Token(class, k)>>
            => /\ Len(t) = Len(s) + 1 /\ t[Len(s) + 1] = Token(class, k)
               /\ \A p \in 1..Len(s) : t[p] = s[p]
<1> DEFINE x == Token(class, k)
<1>1. x \in TokenType
  BY DEF Token, TokenType
<1> HIDE DEF x
<1>2. s \o <<x>> = Append(s, x)
  BY <1>1, AppendIsConcat
<1>3. Len(Append(s, x)) = Len(s) + 1 /\ Append(s, x)[Len(s) + 1] = x
      /\ \A p \in 1..Len(s) : Append(s, x)[p] = s[p]
  BY <1>1, AppendProperties
<1>4. QED
  BY <1>2, <1>3 DEF x

LEMMA QuietStep ==
  ASSUME TypeInv, QuietInv, [Next]_vars
  PROVE  QuietInv'
<1> DEFINE n == Len(cmds)  m == inq["measure"]  l == Len(m)  r == inq'["measure"]  lr == Len(r)
<1>1. n \in Nat /\ l \in Nat /\ out \in Seq(TokenType) /\ Len(out) \in Nat
  BY QueueNumbers, LenProperties DEF TypeInv, TypeBase, TypeOK
<1>2. CASE UNCHANGED vars
  BY <1>2 DEF QuietInv, Quiet, Text, vars, cliVars, netVars, histVars
<1>3. ASSUME Quiet
      PROVE  /\ l <= 1 /\ \A i \in 1..l : m[i] = n
             /\ cpc \in {"ready", "consume"} => l = 0 /\ \A p \in 1..Len(out) : ~Text(p)
             /\ cpc = "reading" =>
                  /\ l = 1 => \A p \in 1..Len(out) : ~Text(p)
                  /\ \A p, q \in 1..Len(out) : Text(p) /\ Text(q) => q = p
  BY <1>3 DEF QuietInv
<1> HIDE DEF n, m, l, r, lr
<1>4. ASSUME NEW c \in Conn, NEW T, Served(c, T), Quiet' PROVE QuietInv'
  <2>1. UNCHANGED <<cmds, cpc, timeouts>> /\ Quiet
    BY <1>4 DEF Served, Quiet
  <2>2. CASE c = "load"
    <3>1. r = m /\ out' = out
      BY <1>4, <2>2, ServedQueues DEF Conn, Served, n, m, l, r, lr
    <3>2. QED
      BY <1>3, <2>1, <3>1 DEF QuietInv, Text, n, m, l, r, lr
  <2>3. CASE c = "measure"
    <3>1. l > 0 /\ lr = l - 1 /\ Head(m) = m[1] /\ Head(m) \in DOMAIN cmds
      BY <1>4, <2>3, ServedQueues DEF n, m, l, r, lr
    <3>2. l = 1 /\ lr = 0 /\ Head(m) = n /\ cmds[n].op # "help"
      <4>1. l = 1 /\ lr = 0
        BY <1>1, <1>3, <2>1, <3>1
      <4>2. Head(m) = n
        BY <1>3, <2>1, <3>1, <4>1
      <4>3. QED
        BY <2>1, <3>1, <4>1, <4>2 DEF Quiet
    <3>3. PICK class \in {"line", "skip"} : T = <<Token(class, n)>>
      BY <1>4, <2>3, <3>2 DEF Served, m
    <3>4. out' = out \o <<Token(class, n)>>
      BY <1>4, <2>3, <3>3 DEF Served
    <3>5. /\ Len(out') = Len(out) + 1 /\ out'[Len(out) + 1] = Token(class, n)
          /\ \A p \in 1..Len(out) : out'[p] = out[p]
      BY <1>1, <3>4, OneMore
    <3>6. cpc \notin {"ready", "consume"}
      BY <1>3, <2>1, <3>2
    <3>7. ASSUME cpc = "reading", NEW p \in 1..Len(out'), Text(p)'
          PROVE  p = Len(out) + 1
      <4>1. p \in 1..Len(out) => ~Text(p)
        BY <1>3, <2>1, <3>2, <3>7
      <4>2. QED
        BY <1>1, <3>5, <3>7, <4>1 DEF Text
    <3>8. QED
      BY <1>3, <2>1, <3>2, <3>6, <3>7 DEF QuietInv, n, m, l, r, lr
  <2>4. QED
    BY <2>2, <2>3 DEF Conn
<1>5. ASSUME NEW x \in CmdType, NEW flush \in BOOLEAN, Sent(x, flush), Quiet' PROVE QuietInv'
  <2>1. Len(cmds') = n + 1 /\ DOMAIN cmds' = 1..(n + 1) /\ \A k \in 1..n : cmds'[k] = cmds[k]
    BY <1>5, SentQueues DEF n, m, l, r, lr
  <2>2. Quiet
    <3>1. timeouts' = timeouts
      BY <1>5 DEF Sent
    <3>2. QED
      <4>1. \A k \in 1..n : k \in 1..(n + 1)
        BY <1>1
      <4>2. DOMAIN cmds = 1..n
        BY QueueNumbers DEF n
      <4>3. QED
        BY <1>5, <2>1, <3>1, <4>1, <4>2 DEF Quiet
  <2>3. cpc = "ready" /\ UNCHANGED out
        /\ (x.measured => cpc' # "ready") /\ (~x.measured => cpc' \in {"ready", "quit"})
    BY <1>5 DEF Sent, CmdType
  <2>4. l = 0 /\ \A p \in 1..Len(out) : ~Text(p)
    BY <1>3, <2>2, <2>3
  <2>5. CASE x.measured
    <3>1. lr = 1 /\ r[1] = n + 1
      BY <1>5, <2>4, <2>5, SentQueues DEF n, m, l, r, lr
    <3>2. cpc' \in {"reading", "quit"}
      BY <1>5, <2>5 DEF Sent
    <3>3. QED
      BY <1>3, <2>1, <2>2, <2>3, <2>4, <3>1, <3>2 DEF QuietInv, Text, n, m, l, r, lr
  <2>6. CASE ~x.measured
    <3>1. r = m
      BY <1>5, <2>6, SentQueues DEF n, m, l, r, lr
    <3>2. cpc' \in {"ready", "quit"}
      BY <1>5, <2>6 DEF Sent
    <3>3. QED
      BY <1>3, <2>1, <2>2, <2>3, <2>4, <3>1, <3>2 DEF QuietInv, Text, n, m, l, r, lr
  <2>7. QED
    BY <2>5, <2>6
<1>6. ASSUME OtherSteps, Quiet' PROVE QuietInv'
  <2>1. cmds' = cmds /\ r = m /\ timeouts' = IF ReadTimeout THEN timeouts + 1 ELSE timeouts
    BY <1>6, OtherQueues DEF n, m, l, r, lr
  <2>2. ~ReadTimeout /\ timeouts' = timeouts /\ Quiet
    BY <1>6, <2>1 DEF Quiet, TypeInv, TypeBase, TypeOK
  <2>3. CASE DrainStartup
    <3>1. Len(out') = 0 /\ l = 0 /\ cpc' = "ready"
      BY <2>3, GreetingDrained DEF DrainStartup, TypeInv, StartupOK, TypeBase, TypeOK, Conn, m, l
    <3>2. QED
      BY <1>3, <2>1, <2>2, <3>1 DEF QuietInv, Text, n, m, l, r, lr
  <2>4. CASE \/ BulkBegin \/ BulkEnd \/ EndOfInput \/ Exit \/ StartupFails
             \/ \E c \in Conn : SetBegin(c)
    <3>1. UNCHANGED out /\ (cpc' = cpc \/ cpc' \in {"eof", "end"})
      BY <2>4 DEF BulkBegin, BulkEnd, EndOfInput, Exit, StartupFails, SetBegin, netVars, cliVars
    <3>2. QED
      BY <1>3, <2>1, <2>2, <3>1 DEF QuietInv, Text, n, m, l, r, lr
  <2>5. CASE ReadLine
    <3>1. PICK i \in 1..Len(out) :
           /\ out[i].class # "prompt"
           /\ cpc = "reading" /\ out' = SubSeq(out, i + 1, Len(out))
           /\ cpc' \in {"reading", "consume"}
      BY <2>5, ReadStep
    <3>2. l # 1 /\ \A p \in 1..Len(out) : Text(p) => p = i
      BY <1>1, <1>3, <2>2, <3>1 DEF Text
    <3>3. l = 0
      BY <1>1, <1>3, <2>2, <3>2
    <3>4. Len(out') = Len(out) - i /\ \A p \in 1..Len(out') : out'[p] = out[p + i]
      BY <1>1, <3>1, Suffix
    <3>5. ASSUME NEW p \in 1..Len(out') PROVE ~Text(p)'
      <4>1. p + i \in 1..Len(out) /\ p + i # i
        BY <1>1, <3>4
      <4>2. QED
        BY <3>2, <3>4, <4>1 DEF Text
    <3>6. QED
      BY <1>3, <2>1, <2>2, <3>1, <3>3, <3>5 DEF QuietInv, n, m, l, r, lr
  <2>6. CASE ConsumePrompt
    <3>1. cpc = "consume" /\ cpc' = "ready"
          /\ (out' = out \/ (out # << >> /\ out' = Tail(out)))
      BY <2>6 DEF ConsumePrompt
    <3>2. ASSUME NEW p \in 1..Len(out') PROVE ~Text(p)'
      <4>1. CASE out' = out
        BY <1>3, <2>2, <3>1, <4>1 DEF Text
      <4>2. CASE out # << >> /\ out' = Tail(out)
        <5>1. p + 1 \in 1..Len(out) /\ out'[p] = out[p + 1]
          BY <1>1, <4>2, HeadTailProperties
        <5>2. QED
          BY <1>3, <2>2, <3>1, <5>1 DEF Text
      <4>3. QED
        BY <3>1, <4>1, <4>2
    <3>3. QED
      BY <1>3, <2>1, <2>2, <3>1, <3>2 DEF QuietInv, n, m, l, r, lr
  <2>7. CASE ServePrompt
    <3>1. out' = Append(out, Token("prompt", 0)) /\ UNCHANGED cpc
      BY <2>7 DEF ServePrompt, cliVars
    <3>2. /\ Len(out') = Len(out) + 1 /\ out'[Len(out) + 1] = Token("prompt", 0)
          /\ \A p \in 1..Len(out) : out'[p] = out[p]
      BY <1>1, <3>1, OneMore
    <3>3. ASSUME NEW p \in 1..Len(out'), Text(p)'
          PROVE  p \in 1..Len(out) /\ Text(p) /\ out'[p] = out[p]
      <4>1. p # Len(out) + 1
        BY <3>2, <3>3 DEF Text, Token
      <4>2. p \in 1..Len(out)
        BY <1>1, <3>2, <4>1
      <4>3. QED
        BY <3>2, <3>3, <4>2 DEF Text
    <3>4. QED
      BY <1>3, <2>1, <2>2, <3>1, <3>3 DEF QuietInv, n, m, l, r
  <2>8. ASSUME NEW c \in Conn, Lose(c) PROVE QuietInv'
    <3>1. PICK i \in 0..Len(out) : out' = IF c = "measure" THEN SubSeq(out, 1, i) ELSE out
      BY <2>8 DEF Lose
    <3>2. cpc' = cpc
      BY <2>8 DEF Lose, cliVars
    <3>3. ASSUME NEW p \in 1..Len(out') PROVE p \in 1..Len(out) /\ out'[p] = out[p]
      <4>1. CASE c = "measure"
        <5>1. Len(out') = i /\ \A q \in 1..i : out'[q] = out[q]
          BY <1>1, <3>1, <4>1, Prefix
        <5>2. QED
          BY <1>1, <3>3, <5>1
      <4>2. CASE c # "measure"
        BY <3>1, <3>3, <4>2
      <4>3. QED
        BY <4>1, <4>2
    <3>4. \A p \in 1..Len(out') : p \in 1..Len(out) /\ (Text(p)' => Text(p))
      BY <3>3 DEF Text
    <3>5. QED
      BY <1>3, <2>1, <2>2, <3>2, <3>4 DEF QuietInv, n, m, l, r, lr
  <2>9. QED
    BY <1>6, <2>2, <2>3, <2>4, <2>5, <2>6, <2>7, <2>8 DEF OtherSteps
<1>7. CASE ~Quiet'
  BY <1>7 DEF QuietInv, n, m, l, r, lr
<1>8. QED
  BY <1>2, <1>4, <1>5, <1>6, <1>7, Steps

LEMMA QuietInit == Init => QuietInv
<1> SUFFICES ASSUME Init PROVE QuietInv
  OBVIOUS
<1>1. Len(inq["measure"]) = 0 /\ cpc = "startup"
  BY DEF Init, Conn
<1>2. QED
  BY <1>1 DEF QuietInv

-------------------------------------------------------------------------------
(* Two copies of a SET and one store *)

(* k is the last SET of its id.                                              *)
Newest(k) ==
  cmds[k].op = "set" /\ \A j \in DOMAIN cmds : j > k => ~(cmds[j].op = "set" /\ cmds[j].id = cmds[k].id)

(* The leader has handled k on the load channel, and on the other one if it  *)
(* went down there.                                                          *)
Done(k) ==
  /\ k + Len(buf) + Len(inq["load"]) <= Len(cmds)
  /\ \A i \in 1..Len(inq["measure"]) : inq["measure"][i] # k

(* The text of a Store in progress may be found.                             *)
InProgress ==
  \A c \in Conn : busy[c] => Head(inq[c]) \in store[cmds[Head(inq[c])].id]

(* Two Stores of one id in progress know of each other.                      *)
Concurrent ==
  \A c \in Conn :
    LET k == Head(inq[c])
        j == Head(inq[Other(c)])
    IN busy[c] /\ busy[Other(c)] /\ j # k /\ cmds[j].id = cmds[k].id => Meeting(c, k, j) \in met

(* What Converges says of k.                                                 *)
Kept(k) ==
  LET texts == store[cmds[k].id]
  IN k \in texts /\ \A j \in texts \ {k} : k \in failed \/ j \in failed \/ Overlapped(j, k)

(* The last SET of an id, once done, unless it may be overtaken.             *)
Latest ==
  \A k \in DOMAIN cmds : Newest(k) /\ Done(k) /\ (cmds[k].measured \/ Quiet) => Kept(k)

StoreInv == InProgress /\ Concurrent /\ Latest

LEMMA TextsFacts ==
  ASSUME NEW c, NEW k
  PROVE  /\ k \in Texts(c, k)
         /\ \A j : Meeting(c, k, j) \in met => j \in Texts(c, k)
         /\ \A j \in Texts(c, k) : j = k \/ j \in failed \/ Overlapped(j, k)
<1>1. k \in Texts(c, k)
  BY DEF Texts
<1>2. ASSUME NEW j, Meeting(c, k, j) \in met PROVE j \in Texts(c, k)
  <2>1. PICK w \in met : w = Meeting(c, k, j)
    BY <1>2
  <2>2. w.conn = c /\ w.set = k /\ w.other = j
    BY <2>1 DEF Meeting
  <2>3. QED
    BY <2>2 DEF Texts
<1>3. ASSUME NEW j \in Texts(c, k) PROVE j = k \/ j \in failed \/ Overlapped(j, k)
  BY <1>3 DEF Texts, Overlapped
<1>4. QED
  BY <1>1, <1>2, <1>3

LEMMA BothConn ==
  ASSUME NEW c \in Conn, NEW e \in Conn
  PROVE  /\ Other(c) \in Conn /\ Other(c) # c /\ Other(Other(c)) = c /\ (e = c \/ e = Other(c))
BY DEF Conn, Other

(* What comes next on a channel is later than what is done.                  *)
LEMMA HeadsBehind ==
  ASSUME TypeInv, LoadInv, MeasureInv, QuietInv, NEW c \in Conn, inq[c] # << >>,
         NEW k \in DOMAIN cmds, Done(k), cmds[k].measured \/ Quiet
  PROVE  Head(inq[c]) \in DOMAIN cmds /\ Head(inq[c]) > k
<1> DEFINE n == Len(cmds)  b == Len(buf)  q == inq["load"]  m == inq["measure"]
           lq == Len(q)  lm == Len(m)  h == Head(inq[c])
<1>1. /\ n \in Nat /\ b \in Nat /\ lq \in Nat /\ lm \in Nat /\ DOMAIN cmds = 1..n
      /\ \A d \in Conn : inq[d] \in Seq(DOMAIN cmds)
  BY QueueNumbers
<1>2. h \in DOMAIN cmds /\ Len(inq[c]) > 0 /\ h = inq[c][1]
  <2>1. inq[c] \in Seq(DOMAIN cmds)
    BY <1>1
  <2>2. Len(inq[c]) \in Nat /\ Len(inq[c]) # 0
    BY <2>1, EmptySeq, LenProperties
  <2>3. h \in DOMAIN cmds /\ h = inq[c][1]
    BY <2>1, HeadTailProperties
  <2>4. QED
    BY <2>2, <2>3
<1>3. k + b + lq <= n /\ \A i \in 1..lm : m[i] # k
  BY DEF Done
<1>4. CASE c = "load"
  <2>1. lq > 0 /\ h = q[1]
    BY <1>2, <1>4
  <2>2. \A i \in 1..lq : q[i] = n - b - lq + i
    BY DEF LoadInv
  <2>3. h \in DOMAIN cmds
    BY <1>2
  <2> HIDE DEF n, b, q, m, lq, lm, h
  <2>4. h = n - b - lq + 1
    BY <1>1, <2>1, <2>2
  <2>5. QED
    BY <1>1, <1>3, <2>3, <2>4 DEF h
<1>5. CASE c = "measure"
  <2>1. lm > 0 /\ h = m[1] /\ h \in DOMAIN cmds
    BY <1>2, <1>5
  <2>2. CASE cmds[k].measured
    <3>1. k >= m[1] => \E i \in 1..lm : m[i] = k
      BY <1>1, <2>1, <2>2 DEF MeasureInv
    <3> HIDE DEF n, b, q, m, lq, lm, h
    <3>2. h > k
      BY <1>1, <1>3, <2>1, <3>1
    <3>3. QED
      BY <2>1, <3>2 DEF h
  <2>3. CASE Quiet
    <3>1. \A i \in 1..lm : m[i] = n
      BY <2>3 DEF QuietInv
    <3> HIDE DEF n, b, q, m, lq, lm, h
    <3>2. 1 \in 1..lm
      BY <1>1, <2>1
    <3>3. h = n /\ h # k
      BY <1>3, <2>1, <3>1, <3>2
    <3>4. QED
      BY <1>1, <2>1, <3>3 DEF h
  <2>4. QED
    BY <2>2, <2>3
<1>6. QED
  BY <1>4, <1>5 DEF Conn

LEMMA StoreServed ==
  ASSUME TypeInv, LoadInv, MeasureInv, QuietInv, StoreInv, NEW c \in Conn, NEW T, Served(c, T)
  PROVE  StoreInv'
<1> DEFINE n == Len(cmds)  b == Len(buf)  q == inq["load"]  m == inq["measure"]
           lq == Len(q)  lm == Len(m)  j == Head(inq[c])  S == DOMAIN cmds
           r == inq'["load"]  rm == inq'["measure"]  lr == Len(r)  lrm == Len(rm)
<1>1. /\ n \in Nat /\ b \in Nat /\ lq \in Nat /\ lm \in Nat /\ S = 1..n
      /\ j \in S
  BY QueueNumbers, ServedQueues
<1>2. UNCHANGED <<cmds, buf, cpc, timeouts>> /\ DOMAIN store = Id /\ cmds[j].id \in Id
      /\ \A k \in S : cmds[k].id \in Id
  BY <1>1, Numbers DEF Served, TypeInv, TypeBase, TypeOK, CmdType
<1>3. \/ cmds[j].op # "set" /\ UNCHANGED storeVars
      \/ /\ cmds[j].op = "set" /\ busy[c] /\ busy' = [busy EXCEPT ![c] = FALSE] /\ UNCHANGED met
         /\ \/ store' = [store EXCEPT ![cmds[j].id] = Texts(c, j)] /\ UNCHANGED failed
            \/ UNCHANGED store /\ failed' = failed \cup {j}
  BY DEF Served
<1>4. Quiet' <=> Quiet
  BY <1>2 DEF Quiet
<1>5. \A k \in S : (Newest(k))' <=> Newest(k)
  BY <1>2 DEF Newest
<1> DEFINE OnlyJ == \A k \in S : (Done(k))' /\ (cmds[k].measured \/ Quiet)
                           => k = j \/ (Done(k) /\ k < j)
<1>6. ASSUME c = "load" PROVE OnlyJ
  <2>1. lq > 0 /\ lr = lq - 1 /\ j = q[1] /\ rm = m
    BY <1>6, ServedQueues DEF Conn
  <2>2. q[1] = n - b - lq + 1
    <3>1. \A i \in 1..lq : q[i] = n - b - lq + i
      BY DEF LoadInv
    <3> HIDE DEF n, b, lq, q
    <3>2. QED
      BY <1>1, <2>1, <3>1
  <2>3. ASSUME NEW k \in S, (Done(k))', k # j PROVE Done(k) /\ k < j
    <3>1. k + b + lr <= n /\ \A i \in 1..lm : m[i] # k
      BY <1>2, <2>1, <2>3 DEF Done
    <3>2. k + b + lq <= n /\ k < j
      <4> HIDE DEF n, b, lq, q, lr, j
      <4>1. QED
        BY <1>1, <2>1, <2>2, <2>3, <3>1
    <3>3. QED
      BY <3>1, <3>2 DEF Done
  <2>4. QED
    BY <2>3
<1>7. ASSUME c = "measure" PROVE OnlyJ
  <2>1. /\ lm > 0 /\ lrm = lm - 1 /\ j = m[1] /\ r = q
        /\ \A i \in 1..lrm : rm[i] = m[i + 1]
    BY <1>7, ServedQueues DEF Conn
  <2>2. ASSUME NEW k \in S, (Done(k))', k # j, cmds[k].measured \/ Quiet
        PROVE  Done(k) /\ k < j
    <3>1. k + b + lq <= n /\ \A i \in 1..lrm : rm[i] # k
      BY <1>2, <2>1, <2>2 DEF Done
    <3>2. ASSUME NEW i \in 1..lm PROVE m[i] # k
      <4>1. CASE i = 1
        BY <2>1, <2>2, <4>1
      <4>2. CASE i # 1
        <5> HIDE DEF n, b, q, m, lq, lm, j, r, rm, lr, lrm
        <5>1. i - 1 \in 1..lrm /\ (i - 1) + 1 = i
          BY <1>1, <2>1, <4>2
        <5>2. QED
          BY <2>1, <3>1, <5>1
      <4>3. QED
        BY <4>1, <4>2
    <3>3. k < j
      <4>1. CASE cmds[k].measured
        <5>1. k >= m[1] => \E i \in 1..lm : m[i] = k
          BY <1>1, <2>1, <2>2, <4>1 DEF MeasureInv
        <5> HIDE DEF n, b, q, m, lq, lm, j, r, rm, lr, lrm
        <5>2. QED
          BY <1>1, <2>1, <3>2, <5>1
      <4>2. CASE Quiet
        <5>1. \A i \in 1..lm : m[i] = n
          BY <4>2 DEF QuietInv
        <5> HIDE DEF n, b, q, m, lq, lm, j, r, rm, lr, lrm
        <5>2. j = n
          BY <1>1, <2>1, <5>1
        <5>3. QED
          BY <1>1, <2>2, <5>2
      <4>3. QED
        BY <2>2, <4>1, <4>2
    <3>4. QED
      BY <3>1, <3>2, <3>3 DEF Done
  <2>3. QED
    BY <2>2
<1>8. OnlyJ
  BY <1>6, <1>7 DEF Conn
<1> HIDE DEF n, b, q, m, lq, lm, j, r, rm, lr, lrm
<1> USE DEF StoreInv
<1>9. ~busy'[c] /\ \A d \in Conn \ {c} : busy'[d] = busy[d] /\ inq'[d] = inq[d]
  <2>1. cmds[j].op # "set" => ~busy[c]
    BY DEF TypeInv, TypeBase, BusyOK, j
  <2>2. busy \in [Conn -> BOOLEAN]
    BY DEF TypeInv, TypeBase, TypeOK
  <2>3. \A d \in Conn \ {c} : inq'[d] = inq[d]
    BY ServedQueues
  <2>4. QED
    BY <1>3, <2>1, <2>2, <2>3 DEF storeVars
<1>10. InProgress'
  <2> SUFFICES ASSUME NEW d \in Conn \ {c}, busy[d], NEW h, h = Head(inq[d])
               PROVE  h \in store'[cmds[h].id]
    BY <1>2, <1>9 DEF InProgress
  <2>1. h \in store[cmds[h].id]
    BY DEF InProgress
  <2>2. CASE UNCHANGED store
    BY <2>1, <2>2
  <2>3. CASE busy[c] /\ store' = [store EXCEPT ![cmds[j].id] = Texts(c, j)]
    <3>1. CASE cmds[h].id # cmds[j].id
      BY <2>1, <2>3, <3>1
    <3>2. CASE cmds[h].id = cmds[j].id
      <4>1. d = Other(c)
        BY BothConn
      <4>2. h = j \/ Meeting(c, j, h) \in met
        BY <2>3, <3>2, <4>1 DEF Concurrent, j
      <4>3. h \in Texts(c, j)
        BY <4>2, TextsFacts
      <4>4. QED
        BY <1>2, <2>3, <3>2, <4>3
    <3>3. QED
      BY <3>1, <3>2
  <2>4. QED
    BY <1>3, <2>2, <2>3 DEF storeVars
<1>11. Concurrent'
  <2> SUFFICES ASSUME NEW d \in Conn PROVE ~busy'[d] \/ ~busy'[Other(d)]
    BY DEF Concurrent
  <2>1. QED
    BY <1>9, BothConn
<1>12. ASSUME NEW k \in S, Newest(k), (Done(k))', cmds[k].measured \/ Quiet
       PROVE  Kept(k)'
  <2>1. CASE k = j
    <3>1. cmds[j].op = "set" /\ busy[c] /\ UNCHANGED <<met, cmds>>
      BY <1>2, <1>3, <1>12, <2>1 DEF Newest
    <3>2. CASE store' = [store EXCEPT ![cmds[j].id] = Texts(c, j)] /\ UNCHANGED failed
      <4>1. store'[cmds[k].id] = Texts(c, k)
        BY <1>2, <2>1, <3>2
      <4>2. \A i : Overlapped(i, k) => Overlapped(i, k)'
        BY <3>1 DEF Overlapped
      <4>3. /\ k \in Texts(c, k)
            /\ \A i \in Texts(c, k) : i = k \/ i \in failed \/ Overlapped(i, k)
        BY TextsFacts
      <4>4. QED
        BY <1>2, <3>2, <4>1, <4>2, <4>3 DEF Kept
    <3>3. CASE UNCHANGED store /\ failed' = failed \cup {j}
      <4>1. j \in store[cmds[j].id]
        BY <3>1 DEF InProgress, j
      <4>2. QED
        BY <1>2, <2>1, <3>3, <4>1 DEF Kept
    <3>4. QED
      BY <1>3, <3>1, <3>2, <3>3
  <2>2. CASE Done(k) /\ k < j
    <3>1. Kept(k)
      BY <1>12, <2>2 DEF Latest
    <3>2. cmds[j].op = "set" => cmds[j].id # cmds[k].id
      BY <1>1, <1>12, <2>2 DEF Newest
    <3>3. store'[cmds[k].id] = store[cmds[k].id]
      BY <1>2, <1>3, <3>2 DEF storeVars
    <3>4. failed \subseteq failed' /\ UNCHANGED <<met, cmds>>
      BY <1>2, <1>3 DEF storeVars
    <3>5. \A i : Overlapped(i, k) => Overlapped(i, k)'
      BY <3>4 DEF Overlapped
    <3>6. QED
      BY <3>1, <3>3, <3>4, <3>5 DEF Kept
  <2>3. QED
    BY <1>8, <1>12, <2>1, <2>2
<1>13. Latest'
  <2> SUFFICES ASSUME NEW k \in S, Newest(k), (Done(k))', cmds[k].measured \/ Quiet PROVE Kept(k)'
    BY <1>2, <1>4, <1>5 DEF Latest
  <2>1. QED
    BY <1>12
<1>14. QED
  BY <1>10, <1>11, <1>13 DEF StoreInv

LEMMA StoreSent ==
  ASSUME TypeInv, StoreInv, NEW x \in CmdType, NEW flush \in BOOLEAN, Sent(x, flush)
  PROVE  StoreInv'
<1> DEFINE n == Len(cmds)  b == Len(buf)  m == inq["measure"]  l == Len(inq["load"])
           lm == Len(m)  rm == inq'["measure"]  lrm == Len(rm)  S == DOMAIN cmds
           pending == Len(buf') + Len(inq'["load"])
<1>1. n \in Nat /\ b \in Nat /\ l \in Nat /\ lm \in Nat /\ S = 1..n
  BY QueueNumbers
<1>2. /\ Len(cmds') = n + 1 /\ DOMAIN cmds' = 1..(n + 1)
      /\ cmds'[n + 1] = x /\ \A k \in 1..n : cmds'[k] = cmds[k]
  BY SentQueues
<1>3. UNCHANGED <<busy, store, met, failed, timeouts>>
  BY DEF Sent, storeVars
<1>4. pending = b + l + 1
  <2>1. CASE flush
    <3>1. Len(buf') = 0 /\ Len(inq'["load"]) = l + b + 1
      BY <2>1, SentQueues
    <3> HIDE DEF n, b, l
    <3>2. QED
      BY <1>1, <3>1
  <2>2. CASE ~flush
    <3>1. Len(buf') = b + 1 /\ Len(inq'["load"]) = l
      BY <2>2, SentQueues
    <3> HIDE DEF n, b, l
    <3>2. QED
      BY <1>1, <3>1
  <2>3. QED
    BY <2>1, <2>2
<1>5. \A i \in 1..lm : i \in 1..lrm /\ rm[i] = m[i]
  <2>1. CASE x.measured
    <3>1. lrm = lm + 1 /\ \A i \in 1..lm : rm[i] = m[i]
      BY <2>1, SentQueues
    <3> HIDE DEF lrm, lm, m, rm
    <3>2. QED
      BY <1>1, <3>1
  <2>2. CASE ~x.measured
    BY <2>2, SentQueues
  <2>3. QED
    BY <2>1, <2>2
<1>6. ASSUME NEW k \in DOMAIN cmds', (Done(k))' PROVE k \in S /\ Done(k)
  <2>1. k + pending <= n + 1 /\ \A i \in 1..lrm : rm[i] # k
    <3>1. k + Len(buf') + Len(inq'["load"]) <= n + 1 /\ \A i \in 1..lrm : rm[i] # k
      BY <1>2, <1>6 DEF Done
    <3>2. Len(buf') \in Nat /\ Len(inq'["load"]) \in Nat
      <4>1. TypeOK'
        BY SentType DEF TypeBase
      <4>2. QED
        BY <4>1, LenProperties DEF TypeOK, Conn
    <3>3. k \in Nat
      BY <1>1, <1>2
    <3> HIDE DEF n, b, l, m, rm, lm, lrm
    <3>4. QED
      BY <1>1, <3>1, <3>2, <3>3
  <2> HIDE DEF n, b, l, m, rm, lm, lrm, pending
  <2>2. k \in 1..n /\ k + b + l <= n
    BY <1>1, <1>2, <1>4, <1>6, <2>1
  <2>3. \A i \in 1..lm : m[i] # k
    BY <1>5, <2>1
  <2>4. QED
    BY <1>1, <2>2, <2>3 DEF Done, n, b, l, m, lm
<1> HIDE DEF n, b, l, m, rm, lm, lrm, pending
<1>7. \A k \in S : k \in 1..(n + 1) /\ k \in 1..n
  BY <1>1
<1>8. Quiet' => Quiet
  BY <1>1, <1>2, <1>3, <1>7 DEF Quiet
<1>9. ASSUME NEW k \in S, (Newest(k))' PROVE Newest(k)
  BY <1>1, <1>2, <1>7, <1>9 DEF Newest
<1>10. ASSUME NEW c \in Conn, busy[c]
       PROVE  Head(inq[c]) \in DOMAIN cmds /\ Head(inq'[c]) = Head(inq[c])
              /\ cmds'[Head(inq[c])] = cmds[Head(inq[c])]
  BY <1>10, SentHeads
<1>11. InProgress'
  BY <1>3, <1>10 DEF StoreInv, InProgress
<1>12. Concurrent'
  <2> SUFFICES ASSUME NEW c \in Conn, busy[c], busy[Other(c)], NEW k, k = Head(inq[c]),
                      NEW j, j = Head(inq[Other(c)]), j # k, cmds[j].id = cmds[k].id
               PROVE  Meeting(c, k, j) \in met
    BY <1>3, <1>10, BothConn DEF Concurrent
  <2>1. QED
    BY DEF StoreInv, Concurrent
<1>13. ASSUME NEW k \in DOMAIN cmds', (Newest(k))', (Done(k))', cmds'[k].measured \/ Quiet'
       PROVE  Kept(k)'
  <2>1. k \in S /\ Done(k) /\ Newest(k) /\ (cmds[k].measured \/ Quiet) /\ cmds'[k] = cmds[k]
    BY <1>1, <1>2, <1>6, <1>8, <1>9, <1>13
  <2>2. Kept(k)
    BY <2>1 DEF StoreInv, Latest
  <2>3. QED
    BY <1>3, <2>1, <2>2 DEF Kept, Overlapped
<1>14. QED
  BY <1>11, <1>12, <1>13 DEF StoreInv, Latest

(* Nothing but a step of HandleClient takes the first command off a queue.   *)
LEMMA OtherHeads ==
  ASSUME TypeInv, OtherSteps, NEW c \in Conn, inq[c] # << >>
  PROVE  Head(inq'[c]) = Head(inq[c])
<1> USE DEF netVars, histVars, cliVars
<1>1. CASE BulkEnd
  <2>1. inq[c] \in Seq(DOMAIN cmds) /\ buf \in Seq(DOMAIN cmds) /\ inq'[c] \in {inq[c], inq[c] \o buf}
    BY <1>1 DEF BulkEnd, TypeInv, TypeBase, TypeOK
  <2>2. Head(inq[c]) \in DOMAIN cmds
    BY <2>1, HeadTailProperties
  <2>3. QED
    BY <2>1, <2>2, HeadKept
<1>2. CASE ReadLine
  BY <1>2, ReadStep
<1>3. CASE \E d \in Conn : SetBegin(d) \/ Lose(d)
  BY <1>3 DEF SetBegin, Lose
<1>4. CASE \/ DrainStartup \/ StartupFails \/ BulkBegin \/ ReadTimeout \/ ConsumePrompt
           \/ EndOfInput \/ Exit \/ ServePrompt
  BY <1>4 DEF DrainStartup, StartupFails, BulkBegin, ReadTimeout, ConsumePrompt, EndOfInput, Exit,
              ServePrompt
<1>5. QED
  BY <1>1, <1>2, <1>3, <1>4 DEF OtherSteps

LEMMA SumMoved ==
  ASSUME NEW k \in Nat, NEW a \in Nat, NEW b \in Nat, NEW c \in Nat, NEW d \in Nat, a + b = c + d
  PROVE  k + b + a = k + d + c
OBVIOUS

LEMMA StoreOther ==
  ASSUME TypeInv, LoadInv, MeasureInv, QuietInv, StoreInv, OtherSteps
  PROVE  StoreInv'
<1>1. /\ UNCHANGED cmds /\ inq'["measure"] = inq["measure"]
      /\ Len(inq'["load"]) + Len(buf') = Len(inq["load"]) + Len(buf)
      /\ timeouts' = timeouts \/ timeouts' = timeouts + 1
      /\ UNCHANGED storeVars \/ \E c \in Conn : SetBegin(c)
  BY OtherQueues
<1>2. Quiet' => Quiet
  BY <1>1 DEF Quiet, TypeInv, TypeBase, TypeOK
<1>3. TypeBase'
  BY OtherType
<1>4. /\ Len(buf) \in Nat /\ Len(inq["load"]) \in Nat
      /\ Len(buf') \in Nat /\ Len(inq'["load"]) \in Nat
      /\ DOMAIN cmds = 1..Len(cmds) /\ Len(cmds) \in Nat
  BY <1>3, QueueNumbers, LenProperties DEF TypeBase, TypeOK, Conn
<1>5. ASSUME NEW k \in DOMAIN cmds PROVE (Done(k))' <=> Done(k)
  <2>1. k \in Nat
    BY <1>4
  <2>2. Len(inq'["load"]) + Len(buf') = Len(inq["load"]) + Len(buf)
    BY <1>1
  <2>3. k + Len(buf') + Len(inq'["load"]) = k + Len(buf) + Len(inq["load"])
    <3>1. /\ Len(buf) \in Nat /\ Len(inq["load"]) \in Nat
          /\ Len(buf') \in Nat /\ Len(inq'["load"]) \in Nat
      BY <1>4
    <3>2. QED
      BY <2>1, <2>2, <3>1, SumMoved
  <2>4. UNCHANGED cmds /\ inq'["measure"] = inq["measure"]
    BY <1>1
  <2>5. QED
    BY <2>3, <2>4 DEF Done
<1>6. \A k \in DOMAIN cmds : (Newest(k))' <=> Newest(k)
  BY <1>1 DEF Newest
<1>7. \A c \in Conn : inq[c] # << >> => Head(inq'[c]) = Head(inq[c])
  BY OtherHeads
<1>8. \A c \in Conn : busy[c] => inq[c] # << >>
  BY DEF TypeInv, TypeBase, BusyOK
<1>9. ASSUME NEW k \in DOMAIN cmds, (Newest(k))', (Done(k))', cmds[k].measured \/ Quiet'
      PROVE  Newest(k) /\ Done(k) /\ (cmds[k].measured \/ Quiet) /\ Kept(k)
  BY <1>2, <1>5, <1>6, <1>9 DEF StoreInv, Latest
<1>10. CASE UNCHANGED storeVars
  <2>1. InProgress'
    BY <1>1, <1>7, <1>8, <1>10 DEF StoreInv, InProgress, storeVars
  <2>2. Concurrent'
    <3> SUFFICES ASSUME NEW c \in Conn, busy[c], busy[Other(c)], NEW k, k = Head(inq[c]),
                        NEW j, j = Head(inq[Other(c)]), j # k, cmds[j].id = cmds[k].id
                 PROVE  Meeting(c, k, j) \in met
      BY <1>1, <1>7, <1>8, <1>10, BothConn DEF Concurrent, storeVars
    <3>1. QED
      BY DEF StoreInv, Concurrent
  <2>3. Latest'
    <3> SUFFICES ASSUME NEW k \in DOMAIN cmds, (Newest(k))', (Done(k))', cmds[k].measured \/ Quiet'
                 PROVE  Kept(k)'
      BY <1>1 DEF Latest
    <3>1. Kept(k)
      BY <1>9
    <3>2. QED
      BY <1>1, <1>10, <3>1 DEF Kept, Overlapped, storeVars
  <2>4. QED
    BY <2>1, <2>2, <2>3 DEF StoreInv
<1>11. ASSUME NEW c \in Conn, SetBegin(c) PROVE StoreInv'
  <2> DEFINE d == Other(c)  k == Head(inq[c])  j == Head(inq[d])
  <2>1. /\ link[c] = "up" /\ inq[c] # << >> /\ cmds[k].op = "set" /\ UNCHANGED <<cmds, inq, failed>>
        /\ busy' = [busy EXCEPT ![c] = TRUE]
        /\ store' = [store EXCEPT ![cmds[k].id] = @ \cup {k}]
        /\ met' = IF busy[d] /\ j # k /\ cmds[j].id = cmds[k].id
                     THEN met \cup {Meeting(c, k, j), Meeting(d, j, k)} ELSE met
    BY <1>11 DEF SetBegin, Reads, cliVars, netVars
  <2>2. d \in Conn /\ d # c /\ Other(d) = c /\ \A e \in Conn : e = c \/ e = d
    BY BothConn
  <2>3. k \in DOMAIN cmds /\ cmds[k].id \in Id
    <3>1. inq[c] \in Seq(DOMAIN cmds)
      BY QueueNumbers
    <3>2. k \in DOMAIN cmds
      BY <2>1, <3>1, HeadTailProperties
    <3>3. cmds[k] \in CmdType
      BY <3>2, Numbers DEF TypeInv, TypeBase
    <3>4. QED
      BY <3>2, <3>3 DEF CmdType
  <2>4. busy'[c] /\ busy'[d] = busy[d] /\ k \in store'[cmds[k].id] /\ \A i : store[i] \subseteq store'[i]
    BY <2>1, <2>2, <2>3 DEF TypeInv, TypeBase, TypeOK
  <2> HIDE DEF d, k, j
  <2>5. InProgress'
    <3> SUFFICES ASSUME NEW e \in Conn, busy'[e]
                 PROVE  Head(inq[e]) \in store'[cmds[Head(inq[e])].id]
      BY <2>1 DEF InProgress
    <3>1. CASE e = c
      BY <2>4, <3>1 DEF k
    <3>2. CASE e = d
      BY <2>4, <3>2 DEF StoreInv, InProgress
    <3>3. QED
      BY <2>2, <3>1, <3>2
  <2>6. Concurrent'
    <3> SUFFICES ASSUME NEW e \in Conn, busy'[e], busy'[Other(e)], NEW h, h = Head(inq[e]),
                        NEW i, i = Head(inq[Other(e)]), i # h, cmds[i].id = cmds[h].id
                 PROVE  Meeting(e, h, i) \in met'
      <4>1. cmds' = cmds /\ inq' = inq
        BY <2>1
      <4>2. QED
        BY <4>1 DEF Concurrent
    <3>1. (e = c /\ Other(e) = d) \/ (e = d /\ Other(e) = c)
      BY <2>2 DEF d
    <3>2. busy[d] /\ j # k /\ cmds[j].id = cmds[k].id
      BY <2>4, <3>1 DEF j, k
    <3>3. Meeting(c, k, j) \in met' /\ Meeting(d, j, k) \in met'
      BY <2>1, <3>2
    <3>4. QED
      BY <3>1, <3>3 DEF j, k
  <2>7. Latest'
    <3> SUFFICES ASSUME NEW i \in DOMAIN cmds, (Newest(i))', (Done(i))', cmds[i].measured \/ Quiet'
                 PROVE  Kept(i)'
      BY <2>1 DEF Latest
    <3>1. Newest(i) /\ Done(i) /\ (cmds[i].measured \/ Quiet) /\ Kept(i)
      BY <1>9
    <3>2. k > i
      BY <2>1, <3>1, HeadsBehind DEF k
    <3>3. cmds[k].id # cmds[i].id
      BY <2>1, <2>3, <3>1, <3>2 DEF Newest
    <3>4. store'[cmds[i].id] = store[cmds[i].id] /\ met \subseteq met'
      BY <2>1, <3>3
    <3>5. \A p : Overlapped(p, i) => Overlapped(p, i)'
      BY <3>4 DEF Overlapped
    <3>6. QED
      BY <2>1, <3>1, <3>4, <3>5 DEF Kept
  <2>8. QED
    BY <2>5, <2>6, <2>7 DEF StoreInv
<1>12. QED
  BY <1>1, <1>10, <1>11

LEMMA StoreStep ==
  ASSUME TypeInv, LoadInv, MeasureInv, QuietInv, StoreInv, [Next]_vars
  PROVE  StoreInv'
<1>1. CASE UNCHANGED vars
  BY <1>1 DEF StoreInv, InProgress, Concurrent, Latest, Kept, Overlapped, Newest, Done, Quiet,
              vars, cliVars, netVars, histVars, storeVars
<1>2. QED
  BY <1>1, Steps, StoreServed, StoreSent, StoreOther

LEMMA StoreInit == Init => MeasureInv /\ StoreInv
<1> SUFFICES ASSUME Init PROVE MeasureInv /\ StoreInv
  OBVIOUS
<1>1. Len(inq["measure"]) = 0 /\ DOMAIN cmds = {} /\ \A c \in Conn : ~busy[c]
  BY DEF Init, Conn
<1>2. QED
  BY <1>1 DEF MeasureInv, StoreInv, InProgress, Concurrent, Latest

(* What LastSet picks.                                                       *)
LEMMA LastSetNewest ==
  ASSUME TypeInv, NEW id \in Id, NEW k, k = LastSet(id)
  PROVE  \/ k = 0 /\ \A j \in DOMAIN cmds : ~(cmds[j].op = "set" /\ cmds[j].id = id)
         \/ k \in DOMAIN cmds /\ k # 0 /\ cmds[k].id = id /\ Newest(k)
<1> DEFINE sets == {j \in Asked("set") : cmds[j].id = id}
<1>1. k = IF sets = {} THEN 0 ELSE CHOOSE j \in sets : \A i \in sets : i <= j
  BY DEF LastSet
<1>2. /\ Len(cmds) \in Nat /\ DOMAIN cmds = 1..Len(cmds)
      /\ \A j : j \in sets <=> j \in DOMAIN cmds /\ cmds[j].op = "set" /\ cmds[j].id = id
  BY QueueNumbers DEF Asked
<1> HIDE DEF sets
<1>3. CASE sets = {}
  BY <1>1, <1>2, <1>3
<1>4. CASE sets # {}
  <2>1. sets \in SUBSET Nat /\ \A j \in sets : j <= Len(cmds)
    BY <1>2
  <2>2. \E j \in sets : \A i \in sets : i <= j
    BY <1>2, <1>4, <2>1, Greatest
  <2>3. k \in sets /\ \A i \in sets : i <= k
    BY <1>1, <1>4, <2>2
  <2>4. \A j \in DOMAIN cmds : j > k => j \notin sets
    BY <1>2, <2>3
  <2>5. QED
    BY <1>2, <2>3, <2>4 DEF Newest
<1>5. QED
  BY <1>3, <1>4

(* Whenever the client is ready and both channels are drained, a GET may     *)
(* find the last SET of an id, and an older text only if its Store           *)
(* overlapped that SET or one of them failed, unless that SET could be       *)
(* overtaken; for any ids, inputs, bounds and any -flush.                    *)
THEOREM StoreConverges == Spec => []Converges
<1>1. ASSUME TypeInv, LoadInv, StoreInv PROVE Converges
  <2> SUFFICES ASSUME cpc = "ready", bulk = NoBulk, \A c \in Conn : inq[c] = << >>,
                      NEW id \in Id, NEW k, k = LastSet(id), k # 0, ~Overtakable(k)
               PROVE  /\ k \in store[id]
                      /\ \A j \in store[id] \ {k} : k \in failed \/ j \in failed \/ Overlapped(j, k)
    BY DEF Converges
  <2>1. Len(buf) = 0 /\ Len(inq["load"]) = 0 /\ Len(inq["measure"]) = 0
    BY <1>1 DEF LoadInv, NoBulk, Conn
  <2>2. Len(cmds) \in Nat /\ DOMAIN cmds = 1..Len(cmds)
    BY <1>1, QueueNumbers
  <2>3. k \in DOMAIN cmds /\ cmds[k].id = id /\ Newest(k)
    BY <1>1, LastSetNewest
  <2>4. Done(k)
    BY <2>1, <2>2, <2>3 DEF Done
  <2>5. cmds[k].measured \/ Quiet
    <3>1. timeouts \in Nat
      BY <1>1 DEF TypeInv, TypeBase, TypeOK
    <3>2. QED
      BY <2>3, <3>1 DEF Overtakable, Quiet, Asked
  <2>6. Kept(k)
    BY <1>1, <2>3, <2>4, <2>5 DEF StoreInv, Latest
  <2>7. QED
    BY <2>3, <2>6 DEF Kept
<1>2. Init => LoadInv /\ QuitInv
  BY LoadInit
<1>3. TypeInv /\ [Next]_vars => TypeInv'
  BY TypeStep
<1>4. TypeInv /\ LoadInv /\ QuitInv /\ [Next]_vars => LoadInv' /\ QuitInv'
  BY LoadStep
<1>5. TypeInv /\ MeasureInv /\ [Next]_vars => MeasureInv'
  BY MeasureStep
<1>6. TypeInv /\ QuietInv /\ [Next]_vars => QuietInv'
  BY QuietStep
<1>7. TypeInv /\ LoadInv /\ MeasureInv /\ QuietInv /\ StoreInv /\ [Next]_vars => StoreInv'
  BY StoreStep
<1>8. QED
  BY <1>1, <1>2, <1>3, <1>4, <1>5, <1>6, <1>7, QuietInit, TypeInit, StoreInit, PTL DEF Spec

-------------------------------------------------------------------------------
(* How late an answer can be *)

(* How many elements of S there are up to j.                                 *)
UpTo(S, j) == Cardinality(S \cap (1..j))

LEMMA UpToFacts ==
  ASSUME NEW S, NEW j \in Nat
  PROVE  IsFiniteSet(S \cap (1..j)) /\ UpTo(S, j) \in Nat
<1>1. IsFiniteSet(1..j)
  BY FS_Interval
<1>2. IsFiniteSet(S \cap (1..j))
  BY <1>1, FS_Subset
<1>3. QED
  BY <1>2, FS_CardinalityType DEF UpTo

LEMMA UpToGrows ==
  ASSUME NEW S, NEW j \in Nat, NEW k \in Nat, j <= k
  PROVE  UpTo(S, j) <= UpTo(S, k)
<1>1. S \cap (1..j) \subseteq S \cap (1..k)
  OBVIOUS
<1>2. QED
  BY <1>1, UpToFacts, FS_Subset DEF UpTo

LEMMA UpToNext ==
  ASSUME NEW S, NEW k \in Nat \ {0}, k \in S
  PROVE  UpTo(S, k) = UpTo(S, k - 1) + 1
<1> DEFINE A == S \cap (1..(k - 1))
<1>1. S \cap (1..k) = A \cup {k} /\ k \notin A
  OBVIOUS
<1>2. IsFiniteSet(A)
  <2>1. k - 1 \in Nat
    OBVIOUS
  <2>2. QED
    BY <2>1, UpToFacts
<1>3. Cardinality(A \cup {k}) = Cardinality(A) + 1
  BY <1>1, <1>2, FS_AddElement
<1>4. QED
  BY <1>1, <1>3 DEF UpTo

(* ... and how many there are between j and k.                               *)
LEMMA UpToBetween ==
  ASSUME NEW S, NEW j \in Nat, NEW k \in Nat, j <= k
  PROVE  Cardinality({x \in S : x \in 1..k /\ j < x}) = UpTo(S, k) - UpTo(S, j)
<1> DEFINE A == S \cap (1..j)  B == {x \in S : x \in 1..k /\ j < x}
<1>1. S \cap (1..k) = A \cup B /\ A \cap B = {}
  OBVIOUS
<1>2. IsFiniteSet(A \cup B) /\ IsFiniteSet(A)
  BY <1>1, UpToFacts
<1>3. IsFiniteSet(B)
  BY <1>2, FS_Subset
<1> HIDE DEF A, B
<1>4. Cardinality(A \cup B) = Cardinality(A) + Cardinality(B)
  <2>1. Cardinality(A \cup B) = Cardinality(A) + Cardinality(B) - Cardinality(A \cap B)
    BY <1>2, <1>3, FS_Union
  <2>2. Cardinality(A \cap B) = 0
    BY <1>1, FS_EmptySet
  <2>3. Cardinality(A) \in Nat /\ Cardinality(B) \in Nat
    BY <1>2, <1>3, FS_CardinalityType
  <2>4. QED
    BY <2>1, <2>2, <2>3
<1>5. Cardinality(A) \in Nat /\ Cardinality(B) \in Nat
  BY <1>2, <1>3, FS_CardinalityType
<1>6. UpTo(S, k) = Cardinality(A) + Cardinality(B) /\ UpTo(S, j) = Cardinality(A)
  BY <1>1, <1>4 DEF UpTo, A
<1>7. Cardinality(B) = UpTo(S, k) - UpTo(S, j)
  BY <1>5, <1>6
<1>8. QED
  BY <1>7 DEF B

Measured == {k \in DOMAIN cmds : cmds[k].measured}

(* The lines that the answers up to command j can be taken for.              *)
Lines(j) == UpTo(Measured, j) + 3 * UpTo(Asked("help"), j)

(* The reads that got a line so far.                                         *)
Taken == UpTo(Measured, Len(cmds)) - (IF cpc = "reading" THEN 1 ELSE 0) - timeouts

(* Commands up to here need no more answer on the measurement channel.       *)
Answered == IF Len(inq["measure"]) = 0 THEN Len(cmds) ELSE inq["measure"][1] - 1

(* Token p of out may end a read: a line, or a skip behind a prompt.         *)
Lineable(p) == out[p].class = "line" \/ (out[p].class = "skip" /\ p > 1 /\ ~Text(p - 1))

(* rank[p] is a number of lines taken once token p is read: it grows with    *)
(* every token that may end a read, and no token of the answer to k is       *)
(* beyond the lines that the answers up to k can be taken for.               *)
Ranked(rank) ==
  /\ \A p \in 1..Len(out) :
       /\ Taken <= rank[p] /\ rank[p] <= Lines(Answered)
       /\ Text(p) => rank[p] <= Lines(out[p].of)
       /\ p = 1 /\ out[p].class = "line" => Taken + 1 <= rank[p]
  /\ \A p, q \in 1..Len(out) : p < q =>
       rank[p] <= rank[q] /\ (Lineable(q) => rank[p] + 1 <= rank[q])

LagInv ==
  cpc \in {"ready", "reading", "consume"} =>
    /\ \A p \in 1..Len(out) : out[p].of <= Len(cmds)
    /\ Taken <= Lines(Answered)
    /\ \E rank \in [1..Len(out) -> Int] : Ranked(rank)

SampleInv ==
  \A s \in samples : s.of <= s.cmd /\ Lag(s) <= timeouts + 3 * Cardinality(Asked("help"))

LEMMA LinesFacts ==
  ASSUME TypeInv
  PROVE  /\ \A j \in 0..Len(cmds) : Lines(j) \in Nat
         /\ \A j, k \in 0..Len(cmds) : j <= k => Lines(j) <= Lines(k)
         /\ \A k \in DOMAIN cmds : cmds[k].measured =>
              /\ Lines(k - 1) + 1 <= Lines(k)
              /\ cmds[k].op = "help" => Lines(k - 1) + 4 <= Lines(k)
         /\ Taken \in Int /\ timeouts \in Nat
<1> DEFINE M(j) == UpTo(Measured, j)  H(j) == UpTo(Asked("help"), j)  n == Len(cmds)
<1>1. n \in Nat /\ DOMAIN cmds = 1..n
  BY QueueNumbers
<1>2. ASSUME NEW j \in 0..n
      PROVE  M(j) \in Nat /\ H(j) \in Nat /\ Lines(j) = M(j) + 3 * H(j)
  <2>1. j \in Nat
    BY <1>1
  <2>2. QED
    BY <2>1, UpToFacts DEF Lines
<1>3. \A j, k \in 0..n : j <= k => M(j) <= M(k) /\ H(j) <= H(k)
  BY <1>1, UpToGrows
<1>4. ASSUME NEW k \in DOMAIN cmds, cmds[k].measured
      PROVE  M(k) = M(k - 1) + 1 /\ (cmds[k].op = "help" => H(k) = H(k - 1) + 1)
  <2>1. k \in Nat \ {0} /\ k \in Measured
    BY <1>1, <1>4 DEF Measured
  <2>2. cmds[k].op = "help" => k \in Asked("help")
    BY DEF Asked
  <2>3. QED
    BY <2>1, <2>2, UpToNext
<1>5. Taken = M(n) - (IF cpc = "reading" THEN 1 ELSE 0) - timeouts /\ timeouts \in Nat
  BY DEF Taken, TypeInv, TypeBase, TypeOK
<1> HIDE DEF M, H, n
<1>6. \A j \in 0..n : Lines(j) \in Nat
  BY <1>2
<1>7. ASSUME NEW j \in 0..n, NEW k \in 0..n, j <= k PROVE Lines(j) <= Lines(k)
  BY <1>2, <1>3, <1>7
<1>8. ASSUME NEW k \in DOMAIN cmds, cmds[k].measured
      PROVE  Lines(k - 1) + 1 <= Lines(k) /\ (cmds[k].op = "help" => Lines(k - 1) + 4 <= Lines(k))
  <2>1. k \in 0..n /\ k - 1 \in 0..n /\ k - 1 <= k
    BY <1>1
  <2>2. /\ M(k) \in Nat /\ H(k) \in Nat /\ M(k - 1) \in Nat /\ H(k - 1) \in Nat
        /\ H(k - 1) <= H(k) /\ M(k) = M(k - 1) + 1
        /\ Lines(k) = M(k) + 3 * H(k) /\ Lines(k - 1) = M(k - 1) + 3 * H(k - 1)
    BY <1>2, <1>3, <1>4, <1>8, <2>1
  <2>3. CASE cmds[k].op = "help"
    <3>1. H(k) = H(k - 1) + 1
      BY <1>4, <1>8, <2>3
    <3>2. QED
      BY <2>2, <3>1
  <2>4. CASE cmds[k].op # "help"
    BY <2>2, <2>4
  <2>5. QED
    BY <2>3, <2>4
<1>9. Taken \in Int
  BY <1>1, <1>2, <1>5
<1>10. QED
  BY <1>5, <1>6, <1>7, <1>8, <1>9 DEF n

(* A command that is sent is beyond what was counted before.                 *)
LEMMA LinesKept ==
  ASSUME TypeInv,
         \/ cmds' = cmds
         \/ \E x \in CmdType : cmds' = Append(cmds, x)
  PROVE  /\ \A j \in 0..Len(cmds) : (Lines(j))' = Lines(j)
         /\ \A j \in 0..Len(cmds) : UpTo(Measured', j) = UpTo(Measured, j)
<1>1. Len(cmds) \in Nat /\ DOMAIN cmds = 1..Len(cmds)
  BY QueueNumbers
<1>2. \/ cmds' = cmds
      \/ /\ DOMAIN cmds' = 1..(Len(cmds) + 1)
         /\ \A k \in DOMAIN cmds : cmds'[k] = cmds[k]
  BY Grown DEF TypeInv, TypeBase
<1>3. ASSUME NEW j \in 0..Len(cmds)
      PROVE  /\ Measured' \cap (1..j) = Measured \cap (1..j)
             /\ Asked("help")' \cap (1..j) = Asked("help") \cap (1..j)
  BY <1>1, <1>2 DEF Measured, Asked
<1>4. QED
  BY <1>3 DEF Lines, UpTo

(* Answered and what is under way stay within the commands.                  *)
LEMMA AnsweredType ==
  ASSUME TypeInv PROVE Answered \in 0..Len(cmds)
<1>1. Len(cmds) \in Nat /\ Len(inq["measure"]) \in Nat
      /\ \A i \in 1..Len(inq["measure"]) : inq["measure"][i] \in 1..Len(cmds)
  BY QueueNumbers, QueueElements
<1>2. CASE Len(inq["measure"]) = 0
  BY <1>1, <1>2 DEF Answered
<1>3. CASE Len(inq["measure"]) > 0
  <2>1. inq["measure"][1] \in 1..Len(cmds)
    BY <1>1, <1>3
  <2> DEFINE a == inq["measure"][1]  n == Len(cmds)
  <2>2. Answered = a - 1
    BY <1>1, <1>3 DEF Answered
  <2> HIDE DEF a, n
  <2>3. a - 1 \in 0..n
    BY <1>1, <2>1 DEF a, n
  <2>4. QED
    BY <2>2, <2>3 DEF n
<1>4. QED
  BY <1>1, <1>2, <1>3

LEMMA OutNumbers ==
  ASSUME TypeInv
  PROVE  /\ out \in Seq(TokenType) /\ Len(out) \in Nat
         /\ \A p \in 1..Len(out) : out[p].of \in Nat /\ out[p].class \in {"line", "skip", "prompt"}
<1>1. out \in Seq(TokenType)
  BY DEF TypeInv, TypeBase, TypeOK
<1>2. \A p \in 1..Len(out) : out[p] \in TokenType
  BY <1>1, ElementOfSeq
<1>3. QED
  BY <1>1, <1>2, LenProperties DEF TokenType

(* A step that leaves the unread tokens alone keeps their ranks.             *)
LEMMA RankKept ==
  ASSUME TypeInv, out' = out, Taken' = Taken,
         \A p \in 1..Len(out) : out[p].of <= Len(cmds),
         \A j \in 0..Len(cmds) : (Lines(j))' = Lines(j),
         (Lines(Answered))' \in Nat, Lines(Answered) <= (Lines(Answered))',
         \E rank \in [1..Len(out) -> Int] : Ranked(rank)
  PROVE  \E rank \in [1..Len(out') -> Int] : (Ranked(rank))'
<1>1. PICK rank \in [1..Len(out) -> Int] : Ranked(rank)
  OBVIOUS
<1> DEFINE L == Lines(Answered)  L2 == (Lines(Answered))'
<1>2. L \in Nat /\ L2 \in Nat /\ L <= L2 /\ Taken \in Int /\ Len(out) \in Nat
  BY AnsweredType, LinesFacts, OutNumbers
<1> HIDE DEF L, L2
<1>3. ASSUME NEW p \in 1..Len(out)
      PROVE  /\ Taken' <= rank[p] /\ rank[p] <= L2
             /\ Text(p)' => rank[p] <= (Lines(out[p].of))'
             /\ p = 1 /\ out'[p].class = "line" => Taken' + 1 <= rank[p]
  <2>1. rank[p] \in Int /\ out[p].of \in 0..Len(cmds)
    BY OutNumbers, QueueNumbers
  <2>2. (Lines(out[p].of))' = Lines(out[p].of)
    <3> DEFINE k == out[p].of
    <3>1. k' = k /\ (Lines(k))' = Lines(k)
      BY <2>1 DEF Lines
    <3>2. QED
      BY <2>1 DEF Lines
  <2>3. QED
    BY <1>1, <1>2, <2>1, <2>2 DEF Ranked, Text, L
<1>4. \A p, q \in 1..Len(out) : p < q =>
        rank[p] <= rank[q] /\ ((Lineable(q))' => rank[p] + 1 <= rank[q])
  BY <1>1 DEF Ranked, Lineable, Text
<1>5. (Ranked(rank))'
  BY <1>3, <1>4 DEF Ranked, L2
<1>6. QED
  BY <1>5

LEMMA LagSent ==
  ASSUME TypeInv, LagInv, NEW x \in CmdType, NEW flush \in BOOLEAN, Sent(x, flush)
  PROVE  LagInv'
<1> SUFFICES ASSUME cpc' # "quit" PROVE LagInv'
  BY DEF LagInv, Sent
<1> DEFINE n == Len(cmds)  m == inq["measure"]  lm == Len(m)  rm == inq'["measure"]  lrm == Len(rm)
<1>1. n \in Nat /\ lm \in Nat /\ \A i \in 1..lm : m[i] \in 1..n
  BY QueueNumbers, QueueElements
<1>2. /\ Len(cmds') = n + 1 /\ DOMAIN cmds' = 1..(n + 1) /\ DOMAIN cmds = 1..n
      /\ cmds'[n + 1] = x /\ \A k \in 1..n : cmds'[k] = cmds[k]
  BY SentQueues, QueueNumbers
<1>3. /\ cpc = "ready" /\ cmds' = Append(cmds, x) /\ UNCHANGED <<out, timeouts>>
      /\ cpc' = IF x.measured THEN "reading" ELSE "ready"
  BY DEF Sent
<1>4. /\ \A j \in 0..n : (Lines(j))' = Lines(j) /\ UpTo(Measured', j) = UpTo(Measured, j)
  BY <1>3, LinesKept
<1>5. /\ \A p \in 1..Len(out) : out[p].of <= n
      /\ Taken <= Lines(Answered)
      /\ \E rank \in [1..Len(out) -> Int] : Ranked(rank)
  BY <1>3 DEF LagInv
<1>6. Taken' = Taken
  <2>1. UpTo(Measured, n) \in Nat /\ timeouts \in Nat /\ UpTo(Measured', n) = UpTo(Measured, n)
    <3>1. n \in 0..n
      BY <1>1
    <3>2. UpTo(Measured, n) \in Nat
      BY <1>1, UpToFacts
    <3>3. timeouts \in Nat
      BY DEF TypeInv, TypeBase, TypeOK
    <3>4. QED
      BY <1>4, <3>1, <3>2, <3>3
  <2>2. Taken = UpTo(Measured, n) - timeouts
    BY <1>3, <2>1 DEF Taken
  <2>3. CASE x.measured
    <3>1. n + 1 \in Measured' /\ n + 1 \in Nat \ {0} /\ (n + 1) - 1 = n
      BY <1>1, <1>2, <2>3 DEF Measured
    <3>2. UpTo(Measured', n + 1) = UpTo(Measured', n) + 1
      BY <3>1, UpToNext
    <3>3. Taken' = UpTo(Measured', n + 1) - 1 - timeouts
      BY <1>2, <1>3, <2>3 DEF Taken
    <3> HIDE DEF n
    <3>4. QED
      BY <2>1, <2>2, <3>2, <3>3
  <2>4. CASE ~x.measured
    <3>1. Measured' \cap (1..(n + 1)) = Measured' \cap (1..n)
      <4>1. n + 1 \notin Measured'
        BY <1>1, <1>2, <2>4 DEF Measured
      <4> HIDE DEF n
      <4>2. QED
        BY <1>1, <4>1
    <3>2. UpTo(Measured', n + 1) = UpTo(Measured', n)
      BY <3>1 DEF UpTo
    <3>3. Taken' = UpTo(Measured', n + 1) - timeouts
      <4>1. Taken' = UpTo(Measured', n + 1) - 0 - timeouts
        BY <1>2, <1>3, <2>4 DEF Taken
      <4>2. UpTo(Measured', n + 1) \in Nat
        BY <2>1, <3>2
      <4>3. QED
        BY <2>1, <4>1, <4>2
    <3>4. QED
      BY <2>1, <2>2, <3>2, <3>3
  <2>5. QED
    BY <2>3, <2>4
<1>7. (Lines(Answered))' \in Nat /\ Lines(Answered) <= (Lines(Answered))'
  <2>1. Answered \in 0..n /\ Lines(Answered) \in Nat
    BY AnsweredType, LinesFacts
  <2>2. CASE Answered' = Answered
    <3>1. (Lines(Answered))' = Lines(Answered)
      BY <1>4, <2>1, <2>2 DEF Lines
    <3>2. QED
      BY <2>1, <3>1
  <2>3. CASE Answered = n /\ Answered' = n + 1
    <3>1. n + 1 \in Nat
      BY <1>1
    <3>2. /\ UpTo(Measured', n) <= UpTo(Measured', n + 1)
          /\ UpTo(Asked("help")', n) <= UpTo(Asked("help")', n + 1)
          /\ UpTo(Measured', n) \in Nat /\ UpTo(Measured', n + 1) \in Nat
          /\ UpTo(Asked("help")', n) \in Nat /\ UpTo(Asked("help")', n + 1) \in Nat
      <4> HIDE DEF n
      <4>1. n <= n + 1
        BY <1>1
      <4>2. QED
        BY <1>1, <3>1, <4>1, UpToGrows, UpToFacts
    <3>3. Lines(n) = UpTo(Measured', n) + 3 * UpTo(Asked("help")', n)
      <4>1. \A j \in 0..n : UpTo(Measured', j) + 3 * UpTo(Asked("help")', j) = Lines(j)
        BY <1>4 DEF Lines
      <4>2. n \in 0..n
        BY <1>1
      <4>3. QED
        BY <4>1, <4>2
    <3>4. (Lines(Answered))' = UpTo(Measured', n + 1) + 3 * UpTo(Asked("help")', n + 1)
      BY <2>3 DEF Lines
    <3> HIDE DEF n
    <3>5. QED
      BY <2>3, <3>2, <3>3, <3>4
  <2>4. Answered' = Answered \/ (Answered = n /\ Answered' = n + 1)
    <3>1. CASE x.measured
      <4>1. lrm = lm + 1 /\ rm[lm + 1] = n + 1 /\ \A i \in 1..lm : rm[i] = m[i]
        BY <3>1, SentQueues
      <4>2. Answered = (IF lm = 0 THEN n ELSE m[1] - 1) /\ Answered' = (IF lrm = 0 THEN n + 1 ELSE rm[1] - 1)
        BY <1>2 DEF Answered
      <4> HIDE DEF n, m, lm, rm, lrm
      <4>3. QED
        BY <1>1, <4>1, <4>2
    <3>2. CASE ~x.measured
      <4>1. rm = m
        BY <3>2, SentQueues
      <4>2. QED
        BY <1>2, <4>1 DEF Answered
    <3>3. QED
      BY <3>1, <3>2
  <2>5. QED
    BY <2>2, <2>3, <2>4
<1>8. \E rank \in [1..Len(out') -> Int] : (Ranked(rank))'
  <2>1. out' = out
    BY <1>3
  <2>2. QED
    BY <1>4, <1>5, <1>6, <1>7, <2>1, RankKept
<1>9. Taken' <= (Lines(Answered))'
  <2>1. Taken \in Int /\ Lines(Answered) \in Nat
    BY AnsweredType, LinesFacts
  <2>2. QED
    BY <1>5, <1>6, <1>7, <2>1
<1>10. \A p \in 1..Len(out') : out'[p].of <= Len(cmds')
  BY <1>1, <1>2, <1>3, <1>5, OutNumbers
<1>11. QED
  BY <1>8, <1>9, <1>10 DEF LagInv

(* The ranks of the tokens of an answer: a line each, and a banner three     *)
(* more, for which the lines below Top leave room.                           *)
Climbs(f, T, B, Top) ==
  /\ \A i \in 1..Len(T) : B + 1 <= f[i] /\ f[i] <= Top
  /\ \A i, j \in 1..Len(T) : i < j => f[i] <= f[j] /\ (T[j].class = "line" => f[i] + 1 <= f[j])

(* T answers command k, and there is room for it below Top.                  *)
Answers(T, k, B, Top) ==
  /\ B + 1 <= Top
  /\ \/ T \in {<<Token("line", k)>>, <<Token("skip", k)>>}
     \/ T = Banner(k) /\ B + 4 <= Top

LEMMA AnswerRanks ==
  ASSUME NEW k \in Nat, NEW B \in Nat, NEW Top \in Nat, NEW T, Answers(T, k, B, Top)
  PROVE  /\ T \in Seq(TokenType)
         /\ \A i \in 1..Len(T) : T[i].of = k /\ T[i].class # "prompt"
         /\ \E f \in [1..Len(T) -> Int] : Climbs(f, T, B, Top)
<1>1. B + 1 <= Top
  BY DEF Answers
<1>2. CASE T \in {<<Token("line", k)>>, <<Token("skip", k)>>}
  <2>1. PICK class \in {"line", "skip"} : T = <<Token(class, k)>>
    BY <1>2
  <2> DEFINE f == [i \in 1..1 |-> Top]
  <2>2. Token(class, k) \in TokenType /\ Token(class, k).of = k /\ Token(class, k).class = class
    BY DEF Token, TokenType
  <2>3. Len(T) = 1 /\ T[1] = Token(class, k) /\ T \in Seq(TokenType)
    BY <2>1, <2>2
  <2>4. f \in [1..Len(T) -> Int]
    BY <2>3
  <2>5. \A i \in 1..Len(T) : B + 1 <= f[i] /\ f[i] <= Top
    BY <1>1, <2>3
  <2>6. \A i, j \in 1..Len(T) : ~(i < j)
    BY <2>3
  <2> HIDE DEF f
  <2>7. \A i \in 1..Len(T) : T[i].of = k /\ T[i].class # "prompt"
    BY <2>2, <2>3
  <2>8. QED
    BY <2>3, <2>4, <2>5, <2>6, <2>7 DEF Climbs
<1>3. CASE T = Banner(k) /\ B + 4 <= Top
  <2> DEFINE f == [i \in 1..5 |-> IF i = 5 THEN B + 4 ELSE B + i]
  <2>1. T \in Seq(TokenType)
    BY <1>3, TokensTyped
  <2>2. /\ Len(T) = 5 /\ T[5] = Token("skip", k)
        /\ \A i \in 1..5 : T[i] \in {Token("line", k), Token("skip", k)}
    BY <1>3 DEF Banner
  <2>3. /\ Token("line", k).of = k /\ Token("line", k).class = "line"
        /\ Token("skip", k).of = k /\ Token("skip", k).class = "skip"
    BY DEF Token
  <2>4. \A i \in 1..Len(T) : T[i].of = k /\ T[i].class # "prompt"
    BY <2>2, <2>3
  <2>5. f \in [1..Len(T) -> Int]
    BY <2>2
  <2>6. \A i \in 1..Len(T) : B + 1 <= f[i] /\ f[i] <= Top
    BY <1>3, <2>2
  <2>7. ASSUME NEW i \in 1..Len(T), NEW j \in 1..Len(T), i < j
        PROVE  f[i] <= f[j] /\ (T[j].class = "line" => f[i] + 1 <= f[j])
    <3>1. i \in 1..4 /\ f[i] = B + i /\ f[j] = IF j = 5 THEN B + 4 ELSE B + j
      BY <2>2, <2>7
    <3>2. T[j].class = "line" => j # 5
      BY <2>2, <2>3
    <3> HIDE DEF f
    <3>3. QED
      BY <2>2, <2>7, <3>1, <3>2
  <2> HIDE DEF f
  <2>8. QED
    BY <2>1, <2>4, <2>5, <2>6, <2>7 DEF Climbs
<1>4. QED
  BY <1>2, <1>3 DEF Answers

LEMMA LagServed ==
  ASSUME TypeInv, MeasureInv, LagInv, NEW c \in Conn, NEW T, Served(c, T)
  PROVE  LagInv'
<1> SUFFICES ASSUME cpc' \in {"ready", "reading", "consume"} PROVE LagInv'
  BY DEF LagInv
<1> DEFINE n == Len(cmds)  m == inq["measure"]  lm == Len(m)  rm == inq'["measure"]  lrm == Len(rm)
           L == Len(out)
<1>1. n \in Nat /\ lm \in Nat /\ L \in Nat /\ (\A i \in 1..lm : m[i] \in 1..n) /\ DOMAIN cmds = 1..n
  BY QueueNumbers, QueueElements, OutNumbers
<1>2. UNCHANGED <<cmds, cpc, timeouts>> /\ cpc \in {"ready", "reading", "consume"}
  BY DEF Served
<1>3. /\ \A p \in 1..L : out[p].of <= n
      /\ Taken <= Lines(Answered)
      /\ \E rank \in [1..L -> Int] : Ranked(rank)
  BY <1>2 DEF LagInv
<1>4. /\ Taken' = Taken /\ \A j \in 0..n : (Lines(j))' = Lines(j)
  BY <1>2 DEF Taken, Lines, Measured, Asked
<1>5. Taken \in Int /\ Answered \in 0..n /\ \A j \in 0..n : Lines(j) \in Nat
  BY LinesFacts, AnsweredType
<1>6. CASE c = "load"
  <2>1. out' = out /\ rm = m
    BY <1>6, ServedQueues DEF Served, Conn
  <2>2. Answered' = Answered
    BY <1>2, <2>1 DEF Answered
  <2>3. (Lines(Answered))' = Lines(Answered)
    BY <1>4, <1>5, <2>2 DEF Lines
  <2>4. Lines(Answered) \in Nat
    BY <1>5
  <2>5. \E rank \in [1..Len(out') -> Int] : (Ranked(rank))'
    BY <1>3, <1>4, <2>1, <2>3, <2>4, RankKept
  <2>6. QED
    BY <1>2, <1>3, <1>4, <2>1, <2>3, <2>5 DEF LagInv
<1>7. CASE c = "measure"
  <2>1. PICK k \in 1..n : /\ k = Head(m) /\ lm > 0 /\ lrm = lm - 1 /\ k = m[1]
                          /\ \A i \in 1..lrm : rm[i] = m[i + 1]
    BY <1>1, <1>7, ServedQueues
  <2>2. cmds[k].measured /\ \A i \in 1..lm : 1 < i => m[1] < m[i]
    <3> HIDE DEF n, rm, lrm, L
    <3>1. 1 \in 1..lm
      BY <1>1, <2>1
    <3>2. QED
      BY <2>1, <3>1 DEF MeasureInv
  <2>3. Answered = k - 1 /\ k - 1 \in 0..n /\ k \in 0..n /\ k \in Nat
    <3>1. Answered = m[1] - 1
      BY <2>1 DEF Answered
    <3> HIDE DEF n, m, lm
    <3>2. QED
      BY <1>1, <2>1, <3>1
  <2>4. Answered' \in 0..n /\ k <= Answered'
    <3>1. Answered' = IF lrm = 0 THEN n ELSE rm[1] - 1
      BY <1>2 DEF Answered
    <3> HIDE DEF n, m, lm, rm, lrm
    <3>2. CASE lrm = 0
      BY <1>1, <2>1, <3>1, <3>2
    <3>3. CASE lrm # 0
      <4>1. 1 \in 1..lrm /\ 2 \in 1..lm
        BY <1>1, <2>1, <3>3
      <4>2. rm[1] = m[2] /\ m[2] \in 1..n /\ m[1] < m[2]
        BY <1>1, <2>1, <2>2, <4>1
      <4>3. QED
        BY <1>1, <2>1, <3>1, <3>3, <4>2
    <3>4. QED
      BY <3>2, <3>3
  <2> DEFINE Most == Lines(Answered')
  <2>5. PICK B, Top : B = Lines(k - 1) /\ Top = Lines(k)
    OBVIOUS
  <2>6. /\ B \in Nat /\ Top \in Nat /\ B + 1 <= Top /\ (cmds[k].op = "help" => B + 4 <= Top)
        /\ Most \in Nat /\ Top <= Most /\ Lines(Answered) = B
    BY <1>1, <1>5, <2>1, <2>2, <2>3, <2>4, <2>5, LinesFacts
  <2>7. Measured' = Measured /\ Asked("help")' = Asked("help")
    BY <1>2 DEF Measured, Asked
  <2>8. (Lines(Answered))' = Most
    BY <2>7 DEF Lines
  <2>9. /\ out' = out \o T
        /\ \/ T \in {<<Token("line", k)>>, <<Token("skip", k)>>}
           \/ T = Banner(k) /\ cmds[k].op = "help"
    BY <1>7, <2>1 DEF Served
  <2>10. PICK rank \in [1..L -> Int] : Ranked(rank)
    BY <1>3
  <2> HIDE DEF Most, n, m, lm, rm, lrm
  <2>11. /\ T \in Seq(TokenType)
         /\ \A i \in 1..Len(T) : T[i].of = k /\ T[i].class # "prompt"
         /\ \E f \in [1..Len(T) -> Int] : Climbs(f, T, B, Top)
    <3>1. Answers(T, k, B, Top)
      BY <2>6, <2>9 DEF Answers
    <3>2. k \in Nat /\ B \in Nat /\ Top \in Nat
      BY <2>3, <2>6
    <3>3. QED
      BY ONLY <3>1, <3>2, AnswerRanks
  <2>12. PICK f \in [1..Len(T) -> Int] :
              /\ \A i \in 1..Len(T) : B + 1 <= f[i] /\ f[i] <= Top
              /\ \A i, j \in 1..Len(T) : i < j =>
                   f[i] <= f[j] /\ (T[j].class = "line" => f[i] + 1 <= f[j])
    BY <2>11 DEF Climbs
  <2> DEFINE t == Len(T)  L2 == Len(out')
  <2>13. PICK r : r = [p \in 1..L2 |-> IF p <= L THEN rank[p] ELSE f[p - L]]
    OBVIOUS
  <2>14. /\ t \in Nat /\ L2 = L + t
         /\ \A p \in 1..L2 : out'[p] = IF p <= L THEN out[p] ELSE T[p - L]
    BY <2>9, <2>11, OutNumbers, ConcatProperties, LenProperties
  <2>15. ASSUME NEW p \in 1..L
         PROVE  /\ p \in 1..L2 /\ p \in Int /\ out'[p] = out[p] /\ r[p] = rank[p] /\ rank[p] \in Int
                /\ Taken <= rank[p] /\ rank[p] <= B
                /\ Text(p) => rank[p] <= Lines(out[p].of)
                /\ p = 1 /\ out[p].class = "line" => Taken + 1 <= rank[p]
    <3>1. p \in 1..L2 /\ p <= L /\ p \in Int
      BY <1>1, <2>14
    <3>2. QED
      BY <2>6, <2>10, <2>14, <2>13, <3>1 DEF Ranked
  <2>16. ASSUME NEW p \in 1..L2, p > L
         PROVE  /\ p - L \in 1..t /\ p \in Int /\ out'[p] = T[p - L] /\ r[p] = f[p - L] /\ f[p - L] \in Int
                /\ B + 1 <= r[p] /\ r[p] <= Top /\ out'[p].of = k /\ out'[p].class # "prompt"
    <3>1. p - L \in 1..t /\ ~(p <= L) /\ p \in Int
      BY <1>1, <2>14, <2>16
    <3>2. QED
      BY <2>11, <2>12, <2>14, <2>13, <3>1
  <2>17. r \in [1..L2 -> Int]
    <3>1. ASSUME NEW p \in 1..L2 PROVE r[p] \in Int
      <4>1. p \in 1..L \/ p > L
        BY <1>1, <2>14
      <4>2. QED
        BY <2>15, <2>16, <4>1
    <3>2. QED
      BY <2>13, <3>1
  <2> HIDE DEF t, L2, L
  <2>18. ASSUME NEW p \in 1..L2
         PROVE  /\ Taken <= r[p] /\ r[p] <= Most
                /\ Text(p)' => r[p] <= Lines(out'[p].of)
                /\ p = 1 /\ out'[p].class = "line" => Taken + 1 <= r[p]
    <3>1. CASE p \in 1..L
      <4>1. r[p] <= Most
        BY <2>6, <2>15, <3>1
      <4>2. QED
        BY <2>15, <3>1, <4>1 DEF Text
    <3>2. CASE p > L
      <4>1. r[p] \in Int /\ B + 1 <= r[p] /\ r[p] <= Top /\ out'[p].of = k
        BY <2>16, <3>2
      <4>2. Taken + 1 <= r[p] /\ Taken <= r[p] /\ r[p] <= Most
        BY <1>3, <1>5, <2>6, <4>1
      <4>3. QED
        BY <2>5, <4>1, <4>2
    <3>3. QED
      BY <1>1, <2>14, <3>1, <3>2
  <2>19. ASSUME NEW p \in 1..L2, NEW q \in 1..L2, p < q
         PROVE  r[p] <= r[q] /\ ((Lineable(q))' => r[p] + 1 <= r[q])
    <3>1. CASE q \in 1..L
      <4>1. p \in 1..L
        BY <1>1, <2>19, <3>1
      <4>2. (Lineable(q))' => Lineable(q)
        <5>1. q > 1 => q - 1 \in 1..L
          BY <1>1, <3>1
        <5>2. QED
          BY <2>15, <3>1, <5>1 DEF Lineable, Text
      <4>3. rank[p] <= rank[q] /\ (Lineable(q) => rank[p] + 1 <= rank[q])
        BY <2>10, <2>19, <3>1, <4>1 DEF Ranked, L
      <4>4. r[p] = rank[p] /\ r[q] = rank[q]
        BY <2>15, <3>1, <4>1
      <4>5. QED
        BY <4>2, <4>3, <4>4
    <3>2. CASE p \in 1..L /\ q > L
      <4>1. r[p] <= B /\ r[p] \in Int /\ B + 1 <= r[q] /\ r[q] \in Int
        BY <2>15, <2>16, <3>2
      <4>2. QED
        BY <2>6, <4>1
    <3>3. CASE p > L /\ q > L
      <4>1. /\ p - L \in 1..t /\ q - L \in 1..t /\ p - L < q - L /\ r[p] = f[p - L] /\ r[q] = f[q - L]
            /\ out'[q] = T[q - L]
        BY <1>1, <2>16, <2>19, <3>3
      <4>2. (Lineable(q))' => T[q - L].class = "line"
        <5>1. q - 1 \in 1..L2 /\ q - 1 > L
          BY <1>1, <2>14, <2>19, <3>3
        <5>2. out'[q - 1].class # "prompt"
          BY <2>16, <5>1
        <5>3. QED
          BY <4>1, <5>2 DEF Lineable, Text
      <4>3. QED
        BY <2>12, <4>1, <4>2 DEF t
    <3>4. QED
      BY <1>1, <2>14, <2>19, <3>1, <3>2, <3>3
  <2>20. (Ranked(r))'
    <3>1. \A p \in 1..L2 : (Lines(out[p].of))' = Lines(out'[p].of)
      BY <2>7 DEF Lines
    <3>2. ASSUME NEW p \in 1..L2
          PROVE  /\ Taken' <= r[p] /\ r[p] <= (Lines(Answered))'
                 /\ Text(p)' => r[p] <= (Lines(out[p].of))'
                 /\ p = 1 /\ out'[p].class = "line" => Taken' + 1 <= r[p]
      BY <1>4, <2>8, <2>18, <3>1
    <3> HIDE DEF L2
    <3>3. L2 = Len(out')
      BY DEF L2
    <3>4. QED
      BY <2>19, <3>2, <3>3 DEF Ranked
  <2>21. Taken' <= (Lines(Answered))'
    BY <1>3, <1>4, <1>5, <2>6, <2>8
  <2>22. ASSUME NEW p \in 1..L2 PROVE out'[p].of <= n
    <3>1. p \in 1..L \/ p > L
      BY <1>1, <2>14
    <3>2. CASE p \in 1..L
      <4>1. out'[p] = out[p] /\ out[p].of <= n
        BY <1>3, <2>15, <3>2
      <4>2. QED
        BY <4>1
    <3>3. CASE p > L
      <4>1. out'[p].of = k /\ k \in 1..n
        BY <2>3, <2>16, <3>3
      <4>2. QED
        BY <1>1, <4>1
    <3>4. QED
      BY <3>1, <3>2, <3>3
  <2>23. QED
    <3>1. L2 = Len(out') /\ n = Len(cmds')
      BY <1>2 DEF L2, n
    <3>2. \E g \in [1..Len(out') -> Int] : (Ranked(g))'
      BY <2>17, <2>20, <3>1
    <3>3. QED
      BY <2>21, <2>22, <3>1, <3>2 DEF LagInv
<1>8. QED
  BY <1>6, <1>7 DEF Conn

(* What is left behind token i keeps its ranks.                              *)
LEMMA RankSuffix ==
  ASSUME TypeInv, NEW i \in 1..Len(out), Len(out') = Len(out) - i,
         \A p \in 1..Len(out') : out'[p] = out[p + i],
         UNCHANGED <<cmds, inq["measure"]>>,
         NEW rank \in [1..Len(out) -> Int], Ranked(rank), Taken' \in Int,
         \A p \in (i + 1)..Len(out) : Taken' <= rank[p],
         i + 1 \in 1..Len(out) /\ out[i + 1].class = "line" => Taken' + 1 <= rank[i + 1]
  PROVE  \E g \in [1..Len(out') -> Int] : (Ranked(g))'
<1> DEFINE L == Len(out)  L2 == Len(out')
<1>1. L \in Nat /\ out \in Seq(TokenType)
  BY OutNumbers
<1>2. L2 = L - i /\ i \in Nat /\ \A p \in 1..L2 : out'[p] = out[p + i]
  BY <1>1
<1>3. PICK g : g = [p \in 1..L2 |-> rank[p + i]]
  OBVIOUS
<1>4. /\ Measured' = Measured /\ Asked("help")' = Asked("help") /\ Answered' = Answered
  BY DEF Measured, Asked, Answered
<1>5. (Lines(Answered))' = Lines(Answered) /\ \A p \in 1..L2 : (Lines(out[p].of))' = Lines(out'[p].of)
  BY <1>4 DEF Lines
<1> HIDE DEF L2, L
<1>6. ASSUME NEW p \in 1..L2
      PROVE  /\ p + i \in 1..L /\ p + i \in (i + 1)..L /\ p \in Nat /\ g[p] = rank[p + i] /\ g[p] \in Int
             /\ out'[p] = out[p + i]
  <2>1. p + i \in 1..L /\ p + i \in (i + 1)..L /\ p \in Nat
    BY <1>1, <1>2
  <2>2. QED
    BY <1>2, <1>3, <2>1 DEF L
<1>7. g \in [1..L2 -> Int]
  BY <1>3, <1>6
<1>8. ASSUME NEW p \in 1..L2
      PROVE  /\ Taken' <= g[p] /\ g[p] <= (Lines(Answered))'
             /\ Text(p)' => g[p] <= (Lines(out[p].of))'
             /\ p = 1 /\ out'[p].class = "line" => Taken' + 1 <= g[p]
  <2>1. Taken' <= g[p]
    BY <1>6 DEF L
  <2>2. g[p] <= Lines(Answered) /\ (Text(p + i) => g[p] <= Lines(out[p + i].of))
    BY <1>6 DEF Ranked, L
  <2>3. p = 1 => p + i = i + 1
    BY <1>6
  <2>4. p = 1 /\ out'[p].class = "line" => Taken' + 1 <= g[p]
    BY <1>6, <2>3 DEF L
  <2>5. QED
    BY <1>5, <1>6, <2>1, <2>2, <2>4 DEF Text
<1>9. ASSUME NEW p \in 1..L2, NEW q \in 1..L2, p < q
      PROVE  g[p] <= g[q] /\ ((Lineable(q))' => g[p] + 1 <= g[q])
  <2>1. p + i < q + i
    BY <1>6, <1>9
  <2>2. rank[p + i] <= rank[q + i] /\ (Lineable(q + i) => rank[p + i] + 1 <= rank[q + i])
    BY <1>6, <2>1 DEF Ranked, L
  <2>3. (Lineable(q))' => Lineable(q + i)
    <3>1. q - 1 \in 1..L2 /\ (q - 1) + i = (q + i) - 1 /\ q + i > 1
      <4>1. p \in Nat /\ q \in Nat /\ p >= 1 /\ q > 1
        BY <1>6, <1>9
      <4>2. L2 \in Int /\ q <= L2
        BY <1>1, <1>2
      <4>3. i \in Nat
        BY <1>2
      <4>4. QED
        BY ONLY <4>1, <4>2, <4>3
    <3>2. out'[q - 1] = out[(q + i) - 1] /\ out'[q] = out[q + i]
      BY <1>6, <3>1
    <3>3. QED
      BY <3>1, <3>2 DEF Lineable, Text
  <2>4. QED
    BY <1>6, <2>2, <2>3
<1>10. L2 = Len(out')
  BY DEF L2
<1>11. (Ranked(g))'
  BY <1>8, <1>9, <1>10 DEF Ranked
<1>12. QED
  BY <1>7, <1>10, <1>11

LEMMA LagOther ==
  ASSUME TypeInv, LagInv, OtherSteps
  PROVE  LagInv'
<1> SUFFICES ASSUME cpc' \in {"ready", "reading", "consume"} PROVE LagInv'
  BY DEF LagInv
<1> USE DEF netVars, histVars, cliVars
<1>1. UNCHANGED cmds /\ inq'["measure"] = inq["measure"] /\ Len(cmds) \in Nat
  BY OtherQueues, QueueNumbers
<1>2. Measured' = Measured /\ Asked("help")' = Asked("help") /\ Answered' = Answered
  BY <1>1 DEF Measured, Asked, Answered
<1>3. (Lines(Answered))' = Lines(Answered) /\ Lines(Answered) \in Nat /\ \A j \in 0..Len(cmds) : (Lines(j))' = Lines(j)
  BY <1>2, AnsweredType, LinesFacts DEF Lines
<1>4. out \in Seq(TokenType) /\ Len(out) \in Nat
  BY OutNumbers
<1> DEFINE U == UpTo(Measured, Len(cmds))
<1>5. U \in Nat /\ timeouts \in Nat /\ U' = U
  BY <1>1, <1>2, UpToFacts DEF TypeInv, TypeBase, TypeOK, UpTo
<1>6. /\ Taken = U - (IF cpc = "reading" THEN 1 ELSE 0) - timeouts
      /\ Taken' = U - (IF cpc' = "reading" THEN 1 ELSE 0) - timeouts'
  BY <1>1, <1>2 DEF Taken, UpTo
<1> HIDE DEF U
<1>7. ASSUME Len(out') = 0, Taken' <= Lines(Answered) PROVE LagInv'
  <2>1. PICK g : g = [p \in 1..0 |-> 0]
    OBVIOUS
  <2>2. 1..Len(out') = {} /\ 1..0 = {}
    BY <1>7
  <2>3. g \in [1..Len(out') -> Int] /\ (Ranked(g))'
    BY <2>1, <2>2 DEF Ranked
  <2>4. Taken' <= (Lines(Answered))'
    BY <1>3, <1>7
  <2>5. \E rank \in [1..Len(out') -> Int] : (Ranked(rank))'
    BY <2>3
  <2>6. \A p \in 1..Len(out') : out'[p].of <= Len(cmds')
    BY <2>2
  <2>7. QED
    BY <2>4, <2>5, <2>6 DEF LagInv
<1>8. CASE DrainStartup
  <2>1. Len(out') = 0 /\ cmds = << >> /\ timeouts' = timeouts /\ cpc' = "ready"
    <3>1. out \in Seq(TokenType) /\ Len(out) <= 6 /\ \A p \in 1..Len(out) : out[p] = Greeting[p]
      BY <1>4, <1>8 DEF DrainStartup, TypeInv, StartupOK
    <3>2. Undrained = << >>
      BY <1>8, <3>1, GreetingDrained DEF DrainStartup
    <3>3. QED
      BY <1>8, <3>2 DEF DrainStartup, TypeInv, StartupOK
  <2>2. U = 0
    <3>1. Measured \cap (1..Len(cmds)) = {}
      BY <2>1
    <3>2. QED
      BY <3>1, FS_EmptySet DEF U, UpTo
  <2>3. Taken' <= Lines(Answered)
    BY <1>3, <1>5, <1>6, <2>1, <2>2
  <2>4. QED
    BY <1>7, <2>1, <2>3
<1>9. CASE cpc = "startup"
  <2>1. DrainStartup
    BY <1>9 DEF OtherSteps, DrainStartup, StartupFails, BulkBegin, BulkEnd, ReadLine, ReadTimeout,
                ConsumePrompt, EndOfInput, Exit, ServePrompt, SetBegin, Lose, TypeInv, StartupOK
  <2>2. QED
    BY <1>8, <2>1
<1>10. CASE cpc \in {"ready", "reading", "consume"}
  <2>1. /\ \A p \in 1..Len(out) : out[p].of <= Len(cmds)
        /\ Taken <= Lines(Answered)
        /\ \E rank \in [1..Len(out) -> Int] : Ranked(rank)
    BY <1>10 DEF LagInv
  <2>2. CASE BulkBegin \/ BulkEnd \/ \E c \in Conn : SetBegin(c)
    <3>1. out' = out /\ timeouts' = timeouts /\ cpc' = cpc
      BY <2>2 DEF BulkBegin, BulkEnd, SetBegin
    <3>2. Taken' = Taken
      BY <1>6, <3>1
    <3>3. \E rank \in [1..Len(out') -> Int] : (Ranked(rank))'
      BY <1>3, <2>1, <3>1, <3>2, RankKept
    <3>4. QED
      BY <1>1, <1>3, <2>1, <3>1, <3>2, <3>3 DEF LagInv
  <2>3. CASE ReadTimeout
    <3>1. Len(out') = 0 /\ cpc = "reading" /\ cpc' = "consume" /\ timeouts' = timeouts + 1
      BY <2>3 DEF ReadTimeout
    <3>2. Taken' = Taken
      BY <1>5, <1>6, <3>1
    <3>3. QED
      BY <1>7, <2>1, <3>1, <3>2
  <2>4. PICK rank \in [1..Len(out) -> Int] : Ranked(rank)
    BY <2>1
  <2>5. \A p \in 1..Len(out) : rank[p] \in Int /\ Taken <= rank[p] /\ rank[p] <= Lines(Answered)
    BY <2>4 DEF Ranked
  <2>6. CASE ReadLine
    <3>1. PICK i \in 1..Len(out) :
             /\ out[i].class # "prompt" /\ \A j \in 1..(i - 1) : out[j].class = "prompt"
             /\ cpc = "reading" /\ out' = SubSeq(out, i + 1, Len(out)) /\ timeouts' = timeouts
             /\ IF i > 1 \/ out[i].class = "line" THEN cpc' = "consume" ELSE cpc' = cpc
      BY <2>6, ReadStep
    <3>2. out[i].class \in {"line", "skip"} /\ i \in Nat
      BY <3>1, OutNumbers
    <3>3. Taken' = IF i > 1 \/ out[i].class = "line" THEN Taken + 1 ELSE Taken
      BY <1>5, <1>6, <3>1
    <3>4. Taken \in Int /\ Taken' \in Int
      BY <3>3, LinesFacts
    <3>5. Taken' <= rank[i]
      <4>1. CASE i = 1
        BY <2>4, <2>5, <3>1, <3>2, <3>3, <3>4, <4>1 DEF Ranked
      <4>2. CASE i > 1
        <5>1. i - 1 \in 1..Len(out) /\ i - 1 < i /\ i - 1 \in 1..(i - 1)
          BY <3>2, <4>2
        <5>2. Lineable(i)
          BY <3>1, <3>2, <4>2, <5>1 DEF Lineable, Text
        <5>3. rank[i - 1] + 1 <= rank[i] /\ Taken <= rank[i - 1] /\ rank[i - 1] \in Int /\ rank[i] \in Int
          BY <2>4, <2>5, <5>1, <5>2 DEF Ranked
        <5>4. Taken' = Taken + 1
          BY <3>3, <4>2
        <5>5. QED
          BY <3>4, <5>3, <5>4
      <4>3. QED
        BY <3>2, <4>1, <4>2
    <3>6. ASSUME NEW p \in (i + 1)..Len(out)
          PROVE  /\ p \in 1..Len(out) /\ Taken' <= rank[p]
                 /\ out[p].class = "line" => Taken' + 1 <= rank[p]
      <4>1. p \in 1..Len(out) /\ i < p
        BY <1>4, <3>2
      <4>2. rank[i] <= rank[p] /\ (out[p].class = "line" => rank[i] + 1 <= rank[p])
        BY <2>4, <4>1 DEF Ranked, Lineable
      <4>3. rank[i] \in Int /\ rank[p] \in Int
        BY <2>5, <4>1
      <4>4. QED
        BY <3>4, <3>5, <4>1, <4>2, <4>3
    <3>7. i + 1 \in 1..Len(out) => i + 1 \in (i + 1)..Len(out)
      BY <3>2
    <3>8. Len(out') = Len(out) - i /\ \A p \in 1..Len(out') : out'[p] = out[p + i]
      BY <1>4, <3>1, Suffix
    <3>9. \E g \in [1..Len(out') -> Int] : (Ranked(g))'
      BY <1>1, <2>4, <3>4, <3>6, <3>7, <3>8, RankSuffix
    <3>10. Taken' <= Lines(Answered)
      BY <1>3, <2>5, <3>4, <3>5
    <3>11. \A p \in 1..Len(out') : out'[p].of <= Len(cmds)
      <4>1. \A p \in 1..Len(out') : p + i \in 1..Len(out)
        BY <1>4, <3>2, <3>8
      <4>2. QED
        BY <2>1, <3>8, <4>1
    <3>12. QED
      BY <1>1, <1>3, <3>9, <3>10, <3>11 DEF LagInv
  <2>7. CASE ConsumePrompt
    <3>1. cpc = "consume" /\ cpc' = "ready" /\ timeouts' = timeouts
          /\ (out' = out \/ (out # << >> /\ Head(out).class = "prompt" /\ out' = Tail(out)))
      BY <2>7 DEF ConsumePrompt
    <3>2. Taken' = Taken /\ Taken \in Int
      BY <1>6, <3>1, LinesFacts
    <3>3. CASE out' = out
      <4>1. \E g \in [1..Len(out') -> Int] : (Ranked(g))'
        BY <1>3, <2>1, <3>2, <3>3, RankKept
      <4>2. QED
        BY <1>1, <1>3, <2>1, <3>2, <3>3, <4>1 DEF LagInv
    <3>4. CASE out # << >> /\ out' = Tail(out)
      <4>1. /\ 1 \in 1..Len(out) /\ Len(out') = Len(out) - 1
            /\ \A p \in 1..Len(out') : out'[p] = out[p + 1] /\ p + 1 \in 1..Len(out)
        BY <1>4, <3>4, HeadTailProperties, EmptySeq
      <4>2. \A p \in (1 + 1)..Len(out) : p \in 1..Len(out) /\ 1 < p
        BY <1>4
      <4>3. \A p \in (1 + 1)..Len(out) : Taken' <= rank[p]
        BY <2>5, <3>2, <4>2
      <4>4. 1 + 1 \in 1..Len(out) /\ out[1 + 1].class = "line" => Taken' + 1 <= rank[1 + 1]
        <5>1. SUFFICES ASSUME 2 \in 1..Len(out), out[2].class = "line" PROVE Taken' + 1 <= rank[2]
          OBVIOUS
        <5>2. rank[1] + 1 <= rank[2] /\ rank[1] \in Int /\ rank[2] \in Int /\ Taken <= rank[1]
          BY <2>4, <2>5, <4>1, <5>1 DEF Ranked, Lineable
        <5>3. QED
          BY <3>2, <5>2
      <4>5. \E g \in [1..Len(out') -> Int] : (Ranked(g))'
        BY <1>1, <2>4, <3>2, <4>1, <4>3, <4>4, RankSuffix
      <4>6. \A p \in 1..Len(out') : out'[p].of <= Len(cmds)
        BY <2>1, <4>1
      <4>7. QED
        BY <1>1, <1>3, <2>1, <3>2, <4>5, <4>6 DEF LagInv
    <3>5. QED
      BY <3>1, <3>3, <3>4
  <2>8. CASE ServePrompt
    <3> DEFINE L == Len(out)  L2 == Len(out')
    <3>1. out' = Append(out, Token("prompt", 0)) /\ timeouts' = timeouts /\ cpc' = cpc
      BY <2>8 DEF ServePrompt
    <3>2. Taken' = Taken /\ Taken \in Int
      BY <1>6, <3>1, LinesFacts
    <3>3. L2 = L + 1 /\ out'[L + 1] = Token("prompt", 0) /\ \A p \in 1..L : out'[p] = out[p]
      BY <1>4, <3>1, OneMore
    <3>4. out'[L + 1].class = "prompt" /\ out'[L + 1].of = 0
      BY <3>3 DEF Token
    <3>5. PICK g : g = [p \in 1..L2 |-> IF p <= L THEN rank[p] ELSE IF L = 0 THEN Taken ELSE rank[L]]
      OBVIOUS
    <3>6. (Lines(Answered))' = Lines(Answered) /\ \A p \in 1..L2 : (Lines(out[p].of))' = Lines(out'[p].of)
      BY <1>2 DEF Lines
    <3>7. L \in Nat /\ L2 = Len(out') /\ L = Len(out)
      BY <1>4
    <3> HIDE DEF L, L2
    <3>8. ASSUME NEW p \in 1..L
          PROVE  p \in 1..L2 /\ g[p] = rank[p] /\ g[p] \in Int /\ out'[p] = out[p] /\ p <= L /\ p \in Nat
                 /\ p # L + 1
      <4>1. p \in 1..L2 /\ p <= L /\ p \in Nat /\ p # L + 1
        BY <3>3, <3>7
      <4>2. QED
        BY <2>5, <3>3, <3>5, <3>7, <4>1
    <3>9. /\ L + 1 \in 1..L2 /\ g[L + 1] = IF L = 0 THEN Taken ELSE rank[L]
          /\ \A p \in 1..L2 : p \in 1..L \/ p = L + 1
          /\ L # 0 => L \in 1..L
      <4>1. L + 1 \in 1..L2 /\ ~(L + 1 <= L) /\ (L # 0 => L \in 1..L)
        BY <3>3, <3>7
      <4>2. \A p \in 1..L2 : p \in 1..L \/ p = L + 1
        BY <3>3, <3>7
      <4>3. QED
        BY <3>5, <4>1, <4>2
    <3>10. g[L + 1] \in Int /\ Taken <= g[L + 1] /\ g[L + 1] <= Lines(Answered)
      BY <2>1, <2>5, <3>2, <3>7, <3>9
    <3>11. ASSUME NEW p \in 1..L2
           PROVE  /\ Taken' <= g[p] /\ g[p] <= (Lines(Answered))' /\ g[p] \in Int
                  /\ Text(p)' => g[p] <= (Lines(out[p].of))'
                  /\ p = 1 /\ out'[p].class = "line" => Taken' + 1 <= g[p]
      <4>1. CASE p = L + 1
        BY <3>2, <3>4, <3>6, <3>10, <4>1 DEF Text
      <4>2. CASE p \in 1..L
        <5>1. /\ Taken <= rank[p] /\ rank[p] <= Lines(Answered)
              /\ Text(p) => rank[p] <= Lines(out[p].of)
              /\ p = 1 /\ out[p].class = "line" => Taken + 1 <= rank[p]
          BY <2>4, <3>7, <4>2 DEF Ranked
        <5>2. QED
          BY <3>2, <3>6, <3>8, <4>2, <5>1 DEF Text
      <4>3. QED
        BY <3>9, <4>1, <4>2
    <3>12. ASSUME NEW p \in 1..L2, NEW q \in 1..L2, p < q
           PROVE  g[p] <= g[q] /\ ((Lineable(q))' => g[p] + 1 <= g[q])
      <4>1. p \in 1..L
        BY <3>7, <3>9, <3>12
      <4>2. CASE q \in 1..L
        <5>1. (Lineable(q))' => Lineable(q)
          <6>1. q > 1 => q - 1 \in 1..L
            BY <3>7, <4>2
          <6>2. QED
            BY <3>8, <4>2, <6>1 DEF Lineable, Text
        <5>2. rank[p] <= rank[q] /\ (Lineable(q) => rank[p] + 1 <= rank[q])
          BY <2>4, <3>7, <3>12, <4>1, <4>2 DEF Ranked
        <5>3. QED
          BY <3>8, <4>1, <4>2, <5>1, <5>2
      <4>3. CASE q = L + 1
        <5>1. ~(Lineable(q))'
          BY <3>4, <4>3 DEF Lineable
        <5>2. L # 0 /\ g[q] = rank[L] /\ L \in 1..L
          BY <3>7, <3>9, <4>1, <4>3
        <5>3. p = L \/ p < L
          BY <3>7, <3>8, <4>1
        <5>4. p < L => rank[p] <= rank[L]
          BY <2>4, <3>7, <4>1, <5>2 DEF Ranked
        <5>5. rank[L] \in Int
          BY <2>5, <3>7, <5>2
        <5>6. QED
          BY <3>8, <4>1, <5>1, <5>2, <5>3, <5>4, <5>5
      <4>4. QED
        BY <3>9, <4>2, <4>3
    <3>13. (Ranked(g))'
      BY <3>7, <3>11, <3>12 DEF Ranked
    <3>14. g \in [1..Len(out') -> Int]
      BY <3>5, <3>7, <3>11
    <3>15. \A p \in 1..Len(out') : out'[p].of <= Len(cmds)
      BY <1>1, <2>1, <3>4, <3>7, <3>8, <3>9
    <3>16. QED
      BY <1>1, <1>3, <2>1, <3>2, <3>13, <3>14, <3>15 DEF LagInv
  <2>9. CASE EndOfInput \/ Exit \/ StartupFails
    BY <2>9 DEF EndOfInput, Exit, StartupFails
  <2>10. ASSUME NEW c \in Conn, Lose(c) PROVE LagInv'
    <3> DEFINE L == Len(out)  L2 == Len(out')
    <3>1. PICK i \in 0..L : out' = IF c = "measure" THEN SubSeq(out, 1, i) ELSE out
      BY <2>10 DEF Lose
    <3>2. cpc' = cpc /\ timeouts' = timeouts
      BY <2>10 DEF Lose
    <3>3. Taken' = Taken /\ Taken \in Int
      BY <1>6, <3>2, LinesFacts
    <3>4. ASSUME NEW p \in 1..L2 PROVE p \in 1..L /\ out'[p] = out[p]
      <4>1. CASE c = "measure"
        <5>1. L2 = i /\ \A q \in 1..i : out'[q] = out[q]
          BY <1>4, <3>1, <4>1, Prefix
        <5>2. QED
          BY <1>4, <3>1, <3>4, <5>1
      <4>2. CASE c # "measure"
        BY <3>1, <3>4, <4>2
      <4>3. QED
        BY <4>1, <4>2
    <3>5. PICK g : g = [p \in 1..L2 |-> rank[p]]
      OBVIOUS
    <3>6. (Lines(Answered))' = Lines(Answered) /\ \A p \in 1..L2 : (Lines(out[p].of))' = Lines(out'[p].of)
      BY <1>2 DEF Lines
    <3>7. L \in Nat /\ L2 = Len(out') /\ L = Len(out)
      BY <1>4
    <3> HIDE DEF L, L2
    <3>8. ASSUME NEW p \in 1..L2
          PROVE  /\ Taken' <= g[p] /\ g[p] <= (Lines(Answered))' /\ g[p] \in Int
                 /\ Text(p)' => g[p] <= (Lines(out[p].of))'
                 /\ p = 1 /\ out'[p].class = "line" => Taken' + 1 <= g[p]
      <4>1. p \in 1..L /\ g[p] = rank[p] /\ out'[p] = out[p]
        BY <3>4, <3>5
      <4>2. /\ Taken <= rank[p] /\ rank[p] <= Lines(Answered) /\ rank[p] \in Int
            /\ Text(p) => rank[p] <= Lines(out[p].of)
            /\ p = 1 /\ out[p].class = "line" => Taken + 1 <= rank[p]
        BY <2>4, <2>5, <3>7, <4>1 DEF Ranked
      <4>3. QED
        BY <3>3, <3>6, <4>1, <4>2 DEF Text
    <3>9. ASSUME NEW p \in 1..L2, NEW q \in 1..L2, p < q
          PROVE  g[p] <= g[q] /\ ((Lineable(q))' => g[p] + 1 <= g[q])
      <4>1. /\ p \in 1..L /\ q \in 1..L /\ g[p] = rank[p] /\ g[q] = rank[q] /\ out'[q] = out[q]
        BY <3>4, <3>5
      <4>2. q > 1 => q - 1 \in 1..L2
        <5>1. L2 \in Nat
          <6>1. TypeBase'
            BY OtherType
          <6>2. QED
            BY <3>7, <6>1, LenProperties DEF TypeBase, TypeOK
        <5>2. QED
          BY <5>1
      <4>3. (Lineable(q))' => Lineable(q)
        BY <3>4, <4>1, <4>2 DEF Lineable, Text
      <4>4. rank[p] <= rank[q] /\ (Lineable(q) => rank[p] + 1 <= rank[q])
        BY <2>4, <3>7, <3>9, <4>1 DEF Ranked
      <4>5. QED
        BY <4>1, <4>3, <4>4
    <3>10. (Ranked(g))'
      BY <3>7, <3>8, <3>9 DEF Ranked
    <3>11. g \in [1..Len(out') -> Int]
      BY <3>5, <3>7, <3>8
    <3>12. \A p \in 1..Len(out') : out'[p].of <= Len(cmds)
      BY <2>1, <3>4, <3>7
    <3>13. QED
      BY <1>1, <1>3, <2>1, <3>3, <3>10, <3>11, <3>12 DEF LagInv
  <2>11. QED
    BY <1>8, <2>2, <2>3, <2>6, <2>7, <2>8, <2>9, <2>10 DEF OtherSteps
<1>11. cpc \in {"startup", "ready", "reading", "consume"}
  <2>1. CASE ReadLine
    BY <2>1, ReadStep
  <2>2. CASE ~ReadLine
    BY <2>2 DEF OtherSteps, DrainStartup, StartupFails, BulkBegin, BulkEnd, ReadTimeout, ConsumePrompt,
                EndOfInput, Exit, ServePrompt, SetBegin, Lose
  <2>3. QED
    BY <2>1, <2>2
<1>12. QED
  BY <1>9, <1>10, <1>11

(* All commands of a kind.                                                   *)
LEMMA AllAsked ==
  ASSUME TypeInv
  PROVE  /\ IsFiniteSet(Asked("help")) /\ Cardinality(Asked("help")) \in Nat
         /\ \A j \in 0..Len(cmds) : UpTo(Asked("help"), j) <= Cardinality(Asked("help"))
<1>1. Len(cmds) \in Nat /\ Asked("help") \subseteq 1..Len(cmds)
  BY QueueNumbers DEF Asked
<1>2. IsFiniteSet(Asked("help"))
  <2>1. IsFiniteSet(1..Len(cmds))
    BY <1>1, FS_Interval
  <2>2. QED
    BY <1>1, <2>1, FS_Subset
<1>3. \A j \in 0..Len(cmds) : UpTo(Asked("help"), j) <= Cardinality(Asked("help"))
  BY <1>2, FS_Subset DEF UpTo
<1>4. QED
  BY <1>2, <1>3, FS_CardinalityType

(* The lag of a sample that is taken is no more than time-outs and banners    *)
(* explain.                                                                  *)
LEMMA SampleTaken ==
  ASSUME TypeInv, LagInv, cpc = "reading", NEW i \in 1..Len(out), out[i].class # "prompt",
         \A j \in 1..(i - 1) : out[j].class = "prompt", i > 1 \/ out[i].class = "line",
         NEW s, s = [cmd |-> Len(cmds), of |-> out[i].of]
  PROVE  s.of <= s.cmd /\ Lag(s) <= timeouts + 3 * Cardinality(Asked("help"))
<1> DEFINE n == Len(cmds)  k == out[i].of
<1>1. PICK rank \in [1..Len(out) -> Int] : Ranked(rank)
  BY DEF LagInv
<1>2. n \in Nat /\ DOMAIN cmds = 1..n /\ k \in 0..n /\ k \in Nat /\ k <= n /\ s.of = k /\ s.cmd = n
      /\ i \in Nat /\ out[i].class \in {"line", "skip"} /\ Taken \in Int
  BY QueueNumbers, OutNumbers, LinesFacts DEF LagInv
<1>3. Taken + 1 <= rank[i] /\ rank[i] \in Int /\ rank[i] <= Lines(k)
  <2>1. rank[i] \in Int /\ rank[i] <= Lines(k)
    BY <1>1 DEF Ranked, Text
  <2>2. CASE i = 1
    BY <1>1, <1>2, <2>1, <2>2 DEF Ranked
  <2>3. CASE i > 1
    <3>1. i - 1 \in 1..Len(out) /\ i - 1 < i /\ i - 1 \in 1..(i - 1)
      BY <1>2, <2>3, OutNumbers
    <3>2. Lineable(i)
      BY <1>2, <2>3, <3>1 DEF Lineable, Text
    <3>3. rank[i - 1] + 1 <= rank[i] /\ Taken <= rank[i - 1] /\ rank[i - 1] \in Int
      BY <1>1, <3>1, <3>2 DEF Ranked
    <3>4. QED
      BY <1>2, <2>1, <3>3
  <2>4. QED
    BY <1>2, <2>2, <2>3
<1>4. Lag(s) = UpTo(Measured, n) - UpTo(Measured, k)
  <2> HIDE DEF k
  <2>1. {j \in DOMAIN cmds : cmds[j].measured /\ k < j /\ j <= n}
          = {j \in Measured : j \in 1..n /\ k < j}
    BY <1>2 DEF Measured
  <2>2. Cardinality({j \in Measured : j \in 1..n /\ k < j}) = UpTo(Measured, n) - UpTo(Measured, k)
    BY <1>2, UpToBetween
  <2>3. QED
    BY <1>2, <2>1, <2>2 DEF Lag
<1> DEFINE Mn == UpTo(Measured, n)  Mk == UpTo(Measured, k)  Hk == UpTo(Asked("help"), k)
           A == Cardinality(Asked("help"))
<1>5. Mn \in Nat /\ Mk \in Nat /\ Hk \in Nat /\ A \in Nat /\ Hk <= A /\ timeouts \in Nat
  BY <1>2, UpToFacts, AllAsked DEF TypeInv, TypeBase, TypeOK
<1>6. Lines(k) = Mk + 3 * Hk /\ Taken = Mn - 1 - timeouts /\ Lag(s) = Mn - Mk
  BY <1>4 DEF Lines, Taken
<1> HIDE DEF Mn, Mk, Hk, A
<1>7. Lag(s) <= timeouts + 3 * A
  BY <1>2, <1>3, <1>5, <1>6
<1>8. QED
  BY <1>2, <1>7 DEF A

LEMMA SampleStep ==
  ASSUME TypeInv, LagInv, SampleInv, [Next]_vars
  PROVE  SampleInv'
<1> DEFINE A == Cardinality(Asked("help"))  A2 == Cardinality(Asked("help")')
<1>1. /\ cmds' = cmds \/ \E x \in CmdType : cmds' = Append(cmds, x)
      /\ timeouts' \in {timeouts, timeouts + 1}
  <2>1. CASE UNCHANGED vars
    BY <2>1 DEF vars, cliVars, histVars
  <2>2. CASE Next
    BY <2>2, Steps, OtherQueues DEF Served, Sent
  <2>3. QED
    BY <2>1, <2>2
<1>2. /\ Len(cmds) \in Nat /\ DOMAIN cmds = 1..Len(cmds)
      /\ DOMAIN cmds' \in {1..Len(cmds), 1..(Len(cmds) + 1)}
      /\ \A k \in DOMAIN cmds : k \in DOMAIN cmds' /\ cmds'[k] = cmds[k]
  BY <1>1, QueueNumbers, Grown DEF TypeInv, TypeBase
<1>3. A \in Nat /\ A2 \in Nat /\ A <= A2 /\ timeouts \in Nat
  <2>1. Asked("help") \subseteq Asked("help")' /\ Asked("help")' \subseteq 1..(Len(cmds) + 1)
    BY <1>2 DEF Asked
  <2>2. IsFiniteSet(1..(Len(cmds) + 1))
    BY <1>2, FS_Interval
  <2>3. IsFiniteSet(Asked("help")')
    BY <2>1, <2>2, FS_Subset
  <2>4. A <= A2
    BY <2>1, <2>3, FS_Subset
  <2>5. QED
    BY <2>3, <2>4, AllAsked, FS_CardinalityType DEF TypeInv, TypeBase, TypeOK
<1>4. ASSUME NEW s \in samples
      PROVE  /\ s.of <= s.cmd /\ Lag(s) <= timeouts + 3 * A
             /\ Lag(s)' = Lag(s) /\ Lag(s) \in Nat
  <2>1. s.cmd \in 1..Len(cmds)
    BY <1>2 DEF TypeInv, TypeBase, TypeOK
  <2>2. {k \in DOMAIN cmds' : cmds'[k].measured /\ s.of < k /\ k <= s.cmd}
          = {k \in DOMAIN cmds : cmds[k].measured /\ s.of < k /\ k <= s.cmd}
    BY <1>2, <2>1
  <2>3. Lag(s) \in Nat
    <3> DEFINE B == {k \in DOMAIN cmds : cmds[k].measured /\ s.of < k /\ k <= s.cmd}
    <3>1. IsFiniteSet(1..Len(cmds)) /\ B \subseteq 1..Len(cmds)
      BY <1>2, FS_Interval
    <3>2. IsFiniteSet(B)
      BY <3>1, FS_Subset
    <3> HIDE DEF B
    <3>3. Cardinality(B) \in Nat
      BY <3>2, FS_CardinalityType
    <3>4. QED
      BY <3>3 DEF B, Lag
  <2>4. Lag(s)' = Lag(s)
    BY <2>2 DEF Lag
  <2>5. QED
    BY <2>3, <2>4 DEF SampleInv
<1>5. ASSUME NEW s, s \in samples \/ (s.of <= s.cmd /\ Lag(s) <= timeouts + 3 * A /\ cmds' = cmds /\ Lag(s) \in Int)
      PROVE  s.of <= s.cmd /\ Lag(s)' <= timeouts' + 3 * A2
  <2>1. Lag(s)' = Lag(s) /\ s.of <= s.cmd /\ Lag(s) <= timeouts + 3 * A /\ Lag(s) \in Int
    <3>1. CASE s \in samples
      BY <1>4, <3>1
    <3>2. CASE s \notin samples
      <4>1. /\ cmds' = cmds /\ s.of <= s.cmd /\ Lag(s) <= timeouts + 3 * A /\ Lag(s) \in Int
        BY <1>5, <3>2
      <4>2. Lag(s)' = Lag(s)
        BY <4>1 DEF Lag
      <4>3. QED
        BY <4>1, <4>2
    <3>3. QED
      BY <3>1, <3>2
  <2> HIDE DEF A, A2
  <2>2. QED
    BY <1>1, <1>3, <2>1
<1>6. ASSUME NEW s \in samples' 
      PROVE  \/ s \in samples
             \/ s.of <= s.cmd /\ Lag(s) <= timeouts + 3 * A /\ cmds' = cmds /\ Lag(s) \in Int
  <2>1. CASE UNCHANGED samples
    BY <1>6, <2>1
  <2>2. CASE samples' # samples
    <3>1. ReadLine
      BY <2>2, Steps DEF vars, histVars, Served, Sent, OtherSteps, DrainStartup, StartupFails, BulkBegin,
                          BulkEnd, ReadTimeout, ConsumePrompt, EndOfInput, Exit, ServePrompt, SetBegin, Lose
    <3>2. PICK i \in 1..Len(out) :
             /\ out[i].class # "prompt" /\ \A j \in 1..(i - 1) : out[j].class = "prompt"
             /\ cpc = "reading" /\ (i > 1 \/ out[i].class = "line")
             /\ samples' = samples \cup {[cmd |-> Len(cmds), of |-> out[i].of]}
             /\ cmds' = cmds
      BY <2>2, <3>1, ReadStep
    <3>3. CASE s = [cmd |-> Len(cmds), of |-> out[i].of]
      <4>1. s.of <= s.cmd /\ Lag(s) <= timeouts + 3 * A
        BY <3>2, <3>3, SampleTaken
      <4>2. Lag(s) \in Int
        <5> DEFINE B == {k \in DOMAIN cmds : cmds[k].measured /\ s.of < k /\ k <= s.cmd}
        <5>1. IsFiniteSet(1..Len(cmds)) /\ B \subseteq 1..Len(cmds)
          BY <1>2, FS_Interval
        <5>2. IsFiniteSet(B)
          BY <5>1, FS_Subset
        <5> HIDE DEF B
        <5>3. Cardinality(B) \in Nat
          BY <5>2, FS_CardinalityType
        <5>4. QED
          BY <5>3 DEF B, Lag
      <4>3. QED
        BY <3>2, <4>1, <4>2
    <3>4. QED
      BY <1>6, <3>2, <3>3
  <2>3. QED
    BY <2>1, <2>2
<1>7. QED
  BY <1>5, <1>6 DEF SampleInv

(* The answer measured is never that of a later command, and the channel     *)
(* lags only by what its time-outs and HELPs explain, for any ids, inputs     *)
(* and bounds: however late prompts arrive, it never drifts on its own.      *)
THEOREM LagStaysBounded == Spec => []LagBounded
<1>1. TypeInv /\ [Next]_vars => TypeInv'
  BY TypeStep
<1>2. TypeInv /\ MeasureInv /\ [Next]_vars => MeasureInv'
  BY MeasureStep
<1>3. TypeInv /\ MeasureInv /\ LagInv /\ [Next]_vars => LagInv'
  <2>1. ASSUME TypeInv, LagInv, UNCHANGED vars PROVE LagInv'
    <3> SUFFICES ASSUME cpc' \in {"ready", "reading", "consume"} PROVE LagInv'
      BY DEF LagInv
    <3>1. cmds' = cmds /\ inq' = inq /\ out' = out /\ cpc' = cpc /\ timeouts' = timeouts
      BY <2>1 DEF vars, cliVars, netVars, histVars
    <3>2. /\ \A p \in 1..Len(out) : out[p].of <= Len(cmds)
          /\ Taken <= Lines(Answered)
          /\ \E rank \in [1..Len(out) -> Int] : Ranked(rank)
      BY <2>1, <3>1 DEF LagInv
    <3>3. Measured' = Measured /\ Asked("help")' = Asked("help") /\ Answered' = Answered
      BY <3>1 DEF Measured, Asked, Answered
    <3>4. /\ Taken' = Taken /\ (Lines(Answered))' = Lines(Answered)
          /\ \A j \in 0..Len(cmds) : (Lines(j))' = Lines(j)
      BY <3>1, <3>3 DEF Taken, Lines, UpTo
    <3>5. Lines(Answered) \in Nat
      BY <2>1, AnsweredType, LinesFacts
    <3>6. \E rank \in [1..Len(out') -> Int] : (Ranked(rank))'
      BY <2>1, <3>1, <3>2, <3>4, <3>5, RankKept
    <3>7. QED
      BY <3>1, <3>2, <3>4, <3>6 DEF LagInv
  <2>2. QED
    BY <2>1, Steps, LagServed, LagSent, LagOther
<1>4. TypeInv /\ LagInv /\ SampleInv /\ [Next]_vars => SampleInv'
  BY SampleStep
<1>5. Init => LagInv /\ SampleInv
  BY DEF Init, LagInv, SampleInv
<1>6. SampleInv => LagBounded
  BY DEF SampleInv, LagBounded
<1>7. QED
  BY <1>1, <1>2, <1>3, <1>4, <1>5, <1>6, TypeInit, StoreInit, PTL DEF Spec
================================================================================
