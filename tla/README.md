# Tolerex in TLA+

Models of the Tolerex replicated message store, checked with TLC, and theorems
about them, proved with TLAPS. Paths below are relative to `src/`.

## The system

A client sends text commands over TCP to the leader. For `SET` the leader picks
`TOLERANCE` members and writes the message to each of them by gRPC; for `GET` it
asks the members its index names. Members are processes with one file per
message. They register with the leader and send heartbeats; the leader marks a
silent member DOWN. The leader keeps its registry, its index and its counts in
memory and writes them to `leader_state.json`. A launcher starts it all for a
stress test, whose clients print CSV lines that a report tool turns into a page.

| Part | State | Operations | What is hard | What makes it correct |
|---|---|---|---|---|
| Leader (`internal/server/leader/leader.go`) | `Members`, `MemberLog`, `MsgMap` under `stateMu`; `leader_state.json`; `conns` under `connsMu` | `Store`, `Retrieve`, `RegisterMember`, `Heartbeat`, watcher tick, `saveState`, `loadState`, `dialMember` | state read under the mutex and used after it; RPCs given up while the member works on them; crash inside a save; dials under a mutex; time limits of two programs that have to fit | the index never points to where nothing is; what was answered OK survives; registry without duplicates; live members are not marked DOWN and dead ones are; every request ends |
| Balancer (`internal/server/balancer`) | none | `Pick`, in two strategies | stale counts; draws from a pool that shrinks | picks are distinct and bounded; loads stay together |
| Member server and storage (`internal/server/member`, `internal/storage`) | one file per id | `Store`, `Retrieve` | truncation and write are two steps; several writers at once | a reader of an acknowledged message sees its text |
| Member process (`cmd/member`) | its life | start, register, heartbeat, exit | its RPC server answers before it is registered; it registers once per start; crashes between steps | registered once, known as long as it runs |
| gRPC middleware and metrics (`internal/middleware`, `internal/metrics`) | log, counters, the context of each request | the four interceptors around each handler | concurrent requests, panics, callers that gave up | a panic ends its request only; entries tell requests apart; counters are not behind the answers of handlers |
| TCP control plane (`HandleClient`) | one session per connection | `SET`, `GET`, `HELP`, `QUIT` | prompts without a newline | one answer per command, in order |
| Client (`cmd/client`) | buffers, two connections, its CSV lines | commands, files, bulks, stress | two unsynchronised channels; answers matched by position | samples belong to their commands; nothing stays in a buffer |
| Launcher, report tool (`cmd/launcher`, `cmd/report_tool`) | CSV files, the page | start clients, read files, aggregate, render | files that are read while they are written | numbers on the page are those of whole lines, each once |
| Configuration (`internal/config`) | none | `ReadTolerance` | | the tolerance is positive |
| Security, logger | | | | not modelled, see below |

Interaction: the client talks to `HandleClient` over TCP; `HandleClient` calls
`Store` and `Retrieve` as functions; these call the members by gRPC through the
pool of connections; members call `RegisterMember` and `Heartbeat`. Everything
in the leader meets at `stateMu`, every RPC of the leader at `connsMu`. RPCs go
through the interceptors of the node that serves them; `SET` and `GET` from TCP
do not.

## Modules

| Module | What it is |
|---|---|
| `Balancer` | `Pick` of both strategies as operators on a set of addresses and their counts. `P2CDraws` follows the loop of the code, `P2C` is its closed form. |
| `Placement` | `Balancer` used by Stores that run at once: pick from the counts (`Begin`), add to them later (`Finish`). |
| `Dispatch` | Extends `Placement` with what happens between `Begin` and `Finish`: the goroutines of a Store, and `dialMember` with its pool and its mutex. |
| `Leader` | The leader, its members, their disks and the RPCs in between, without time. |
| `DurableIndex` | Abstract specification: what the leader promises about its message index. |
| `LeaderIndex` | The refinement mapping from `Leader` to `DurableIndex`. |
| `Heartbeat` | One member and the leader's view of it in seconds. |
| `Interceptors` | The interceptor chain of a gRPC server with log and counters. |
| `Session` | A measuring client and its two sessions with the leader. |
| `Report` | Stress clients, their CSV files and the report tool. |
| `MCDispatch`, `MCLeader`, `MCReport`, `MCSession` | Instances for TLC. |
| `Balancer_proofs`, `Dispatch_proofs`, `Leader_proofs`, `LeaderIndex_proofs`, `Heartbeat_proofs`, `Interceptors_proofs`, `Session_proofs`, `Report_proofs` | Theorems. |

Components meet where one's abstraction is another's subject: an RPC of `Leader`
simply succeeds or fails, `Dispatch` is how it gets its connection; `Leader` lets
a member grow stale at any moment, `Heartbeat` says when; a failing RPC may be a
panic that `Interceptors` turned into an error; `Session` replaces the whole
cluster by the texts that a GET of an id may find; a timed-out read of `Report` is one of `Session`.

### Leader and the code

| Variable | In the code |
|---|---|
| `members`, `memberLog`, `msgMap` | the fields of `LeaderServer` with these names; a set of replicas stands for the slice |
| `file` | `leader_state.json`: missing, torn, or complete with what `loadState` would get from it |
| `saver`, `want` | who is inside `saveState` (and holds `stateMu`), who will call it next |
| `pc`, `rpc` | progress of each `Store` call and of its RPCs as the caller sees them |
| `handler`, `disk` | the same RPCs inside the member, and the member's files |
| `gpc`, `todo`, `cur`, `got` | progress of each `Retrieve` call |
| `mstate` | life of each member process |
| `lost`, `leaderCrashes`, `memberCrashes`, `silences` | history |

One action is one critical section of `stateMu`, or one step of a member. A
`Store` is `StoreCall` (snapshot, pick, start the RPCs), one `RpcFail` or
`MemberReply` for each RPC, `StoreCollect` (counts and index) and, when enough
members answered, `SaveBegin` and `SaveEnd`. A member's write is `MemberOpen`
(the file is truncated), then `MemberFlush` (the text is there), with a crash,
a reader or another writer possible in between. `RpcFail` stands for a failed
dial, an error, a lost answer and a time-out: they differ in what the member
does, which goes on independently in `handler`. A long text may
reach a file in pieces (`MemberWritePart`), which tells only where other writers
of the same file come in between. A `Retrieve` is `GetCall`, then per target
`GetCheck`, `MemberRead` (the member reads its file) and `GetAnswer` (the leader
accepts the reply, any time later) or `GetMiss`.

The text of a SET is the SET itself, so a file that holds `o` holds the text of
`o`; `Partial` is an empty or incomplete file, `Mixed` holds bytes of several
texts. `LastSeen` is reduced to whether it is older than `heartbeatTimeout`
(`stale`), which `TimePasses` may make true at any moment: time-outs that are
shorter or longer than the code's are covered.

### DurableIndex

A SET is accepted, committed (its id then has exactly one of the sets of
`Replicas`, all of whose members have a file), and answered OK only in the step
that made the whole index durable; a start brings back what is durable. What the
specification permits and a user may not expect is that the durable index
vanishes while it is being replaced (`BeginSave`): that is `os.WriteFile` on the
only state file. The mapping (`LeaderIndex`) forgets RPCs, locks, registrations,
counts and GETs; `pc` maps to `answer`, `file` to `durable`, `disk` to `written`.

### Dispatch and the code

`target` and `load` come from `Placement`. The goroutines of a Store are tasks:
waiting for `connsMu`, in `dialling` while they hold it inside
`grpc.DialContext`, and their member is in `reached` when `dialMember` has
returned. A GET dials under the same mutex (`GetDial`). A free mutex is for
whoever asks, waiting or just arrived: `sync.Mutex` lets newcomers barge in. A
dial to a silent member ends by `rpcTimeout`.

### Heartbeat and the code

A tick is a second; `timer` is how long the member process has been in its
`phase`, and no tick happens past the limit of a phase, so a limit that is
reached forces the step that ends it. `entry` and `saved` are the `MemberLog`
entry in memory and in the state file, with the age of `LastSeen`. `watch`
counts down to the watcher's tick. A request whose caller has given up stays in
`late` and may be handled at any later time. `SaveState` stands for every save
that somebody else may ask for. `os.WriteFile` truncates the file first, and
`stateMu` is held until it returns, so what others can see of the moment in
between is a crash or an error in it: `FileAfterCut`, `Torn` included.

### Interceptors and the code

`depth` is how many links of `Chain` a request is inside: `Descend` is the first
half of a link, up to its call of `handler`, `Ascend` the second half, `Unwind`
the way of a panic, which skips second halves until the deferred `recover`.
`Handle` is the handler, whatever it does. The log survives a crash, the
counters do not.

### Session and the code

`cmds` numbers the commands; `inq` is what a session of `HandleClient` has yet
to handle, `out` what the client has yet to read from the measurement channel,
token by token: a line that `readSemanticLine` returns, a line that it skips, or
a prompt. `ReadLine` is one `ReadString('\n')`, which glues a left-over prompt
to the line behind it; `ConsumePrompt` is the 5 ms wait for the prompt, which
may come too late (`ServePrompt` is a step of its own). `Issue` stands for an
interactive command, `FILE` and the single commands of the stress loop, the
`Bulk` actions for both kinds of bulk. `Input` and `Bulks` are what may be typed,
`MayFail` the ids whose SET or GET the cluster may fail, `MayLose` the
connections that may be lost (`Lose`), which is also what a crash of the leader
is to the client. A "quit" of `Input` is a line like `exit now`: the client
compares the whole line and takes it for an ordinary command, the leader looks at
its first word and closes (`ServeQuit`), on both channels.

`Store` takes time (`SetBegin`, `SetEnd`), so the two sessions may run it for one
id at once. `store[id]` is the set of SETs whose text a replica named by the index
may hold: what `Leader` shows of two SETs that overlap is that members and index
can take them in different orders, so a Store leaves its own text and that of
each Store it has met (`met`), and that of every failed one (`failed`), whose
handlers may still write. 0 stands for an id that a GET may not find.

### Report and the code

`rows` are the lines `emitStat` printed. How much of them is visible in the file
is chosen when the tool reads: `RecordEnds` lets a record end with its line or
inside one of its fields, and the next record starts where it ended. `Fields`
counts the fields of such a piece, `Usable` is the check of `csv.Reader` and of
`processCSV`. `wide` files are UTF-16, which is what `>` of Windows PowerShell
writes and what the measurements under `docs/TestlerV1` are: their numbers do
not parse, `Atoi`'s error is ignored, and they count as zero. `Lose` is the loss of
a client's load connection: `Flush` then empties the buffer and `sent` stays, as
the client looks at no error of `Write` and `Flush`; lines are printed all the
same. `sent` counts what was flushed while the connection stood.

## Runs

| Run | Instance | Shows |
|---|---|---|
| `dispatch` | 4 members, one silent, tolerance 2, 2 Stores and a GET at once, either strategy | `SpreadBounded`: least-loaded placement keeps the members that answer within the number of Stores at once; `P2CClosedForm`, `LonelyMaximumSpared`; `OneConnection`; `ReplicationEnds` |
| `leader_store` | 3 members, 2 SETs, tolerance 2, a leader crash | `IndexReplicated`, `SettledSurvives`, `CountCoversIndex`, `AckedIndexed`, and that `Leader` implements `DurableIndex` |
| `leader_membership` | 2 members, one of them new, a SET, a GET, silence, a leader crash, failing saves | `MembersMatchLog`, `UnsavedIsPending`, `ReadsSettled` |
| `leader_live` | 2 members, a SET, a GET, a crash of each kind | `StoreEnds`, `GetEnds` |
| `session` | all kinds of commands, a bulk of three around the id they use and a bulk of one, failing and overlapping Stores, loss of either connection | `LagBounded`, `Converges`, `ExitDrained`, `ReadEnds`, `QuitEnds` |
| `heartbeat` | the code's limits, scaled, a leader crash, two exits | `NoFalseDown`, `DeadDetected`, `JoinedKnown`, `Revives` |
| `interceptors` | 2 requests, a crash | `CountedBeforeAnswer`, `OneClosingEntry`, `IdTellsRequest`, `AllAnswered` |
| `report` | 2 clients, 2 operations (one may be a bulk of 2) | `StatsMatchRows`, `OnlyTornMissed`, `ReportedWereSent`, `ToolEnds` |
| `doc_tolerates` | | violates `ToleratesNFailures`: N copies do not survive N failures |
| `doc_recoverable` | | violates `AckedRecoverable`: a crash inside a save loses the index |
| `doc_rtt` | | violates `RttPerCommand`: after a time-out each sample is an earlier command's answer |
| `doc_report` | | violates `ReportGenerated`: any counted operation makes the template fail |

The `doc_` runs state what a comment or a text of the program promises and end in
a counterexample; each is quoted in `PROJECT.json`.

### Bounds

Two SETs are what a race between SETs takes (same id or different ids, chosen in
`Init`), and what it takes to overwrite an id after a restart. Two replicas on
three members leave one member that a second SET uses and the first does not.
One leader crash loses its memory at any point, one member crash one copy.
`MaxSilence` bounds how often a member grows stale, and one is what it takes for
a DOWN member to come back. `MaxLoad` in `Placement` ends the run after the loads
could have drifted apart by more than the bound. `Heartbeat` scales 15, 5, 8, 5, 2 and 5 seconds down to 9,
3, 4, 3, 1 and 3: like the code's, they leave one tick for `Jitter` (`RoundFits`
is an equation up to one tick), so a limit that is one longer breaks
`NoFalseDown`; the theorems hold for all values. Two requests are enough for one
to disturb the other's log entries or counts. In `report` one client works, and may lose
its connection before or between its commands (`MayLose`), and
the other has at most a header, which is a file that is left out or is empty;
`Cuts` has the first, a middle and the last field, and all fields in between
are alike. `MaxCmd` in `Session` is the
number of commands up to which another one or a bulk may be typed: one command
that goes wrong and one whose sample it spoils, or a SET and a bulk whose middle
SET, which goes down one channel only, has the same id, so both exceptions in
`Converges` happen (without either the run fails). With two commands a HELP makes
a sample two commands late at most; that the bound of three is enough for any
number is the theorem. Runs whose requests are used up stop, so
deadlock is not checked; that nothing hangs is what the liveness properties say.
Symmetry is used among SETs and among GETs in runs without liveness.

### Fairness

`Leader!Fairness` assumes that a goroutine which can run does, that `rpcTimeout`
expires (`RpcFail`, `GetMiss`), and strong fairness for taking `stateMu`, since
`sync.Mutex` hands the lock to a waiter that has waited for 1 ms. Nothing is
assumed of members or of the network: every RPC may fail. `Dispatch`
assumes the same of `connsMu`: anybody may get it before a waiting goroutine, but
not for ever. `Session`
assumes that the client runs and its read deadlines expire, the one of the
startup included, and that a session of the leader whose connection stands goes
on to its next command; no connection needs to be lost. `Heartbeat` assumes that time passes,
that processes run, and, for `Revives` only, that the network lets a dial and a
heartbeat through again and again (strong fairness): a partition for ever
revives nobody. `Interceptors` assumes that handlers return, since every wait in
them has a limit; callers need not give up. `Report` assumes that the tool runs.

## Proofs

For every set of members, tolerance, strategy, number of requests and bound on
crashes, from `LeaderAssumption` and `SentinelAssumption`:

- `TypeCorrect`: `Spec => []TypeOK`, one step per action. The conjunct about
  `cur` is what makes `MemberRead`, which reads the disk of `cur`, well typed.
- `MembersAlwaysMatch`: `Spec => []MembersMatchLog`. `RegistryStep` sorts the
  actions by what they do to the registry, `FileStep` by what they do to the
  state file; the invariant is inductive given `TypeOK`.
- `IndexAlwaysReplicated`: `Spec => []IndexReplicated`. Not inductive by itself:
  `IndexInv` adds `TargetsBounded` (no SET contacts more than Tolerance members,
  from `PickBounded`, so the collected successes are not more either) and
  `WrittenFirst` (an RPC that succeeded, and a handler past the truncation, have
  left a file). Files are never removed (`DiskGrows`).
- `UnsavedAlwaysPending` and `AckedAlwaysIndexed` (`LeaderIndex_proofs`): an
  acknowledged id can only be missing from the file while somebody in `want` or
  the `saver` is about to write it, so the invariant relates memory, `saver`,
  `want` and the file.
- `LeaderImplementsIndex`: `Spec => ImplementsIndex`. Every action maps to one
  action of `DurableIndex` or to a stutter; `IndexAlwaysReplicated` makes
  `StoreCollect` a `Commit`, and the lock `saver` makes what `SaveEnd` writes
  the index of that moment.
- `SettledAlwaysSurvives` and `ReadsAlwaysSettled` (`LeaderIndex_proofs`).
  `CopyInv` follows each RPC of a SET that shares its id with no other from the
  truncation of the file to the answer: what the member holds at each stage, that
  nobody else writes that file, and that a SET is saved when enough members have
  succeeded. As `TargetsBounded` leaves no target that has not, every target has
  the text and everybody else has no file, and no handler has the file open
  (`NoneOpen`), so a member can read nothing else. `ReadsInv` keeps this for what a
  member has read and the leader has not accepted yet, by a GET that was called
  after the acknowledgement.
- `CountAlwaysCovers`: a member is counted in the step that enters it into
  `MsgMap`, provided it is in `MemberLog`: `TargetsKnown` says it is.
- `PickBounded` (`Balancer_proofs`): a pick of either strategy is a subset of
  the candidates with at most `tol` members. For the least-loaded one, the rank
  of a member in the sort order is an injection into `0..tol-1`.
- `DrawsSpareOne`: the loop of `PowerOfTwoChoicesBalancer.Pick`, draw by draw on a
  pool that shrinks, yields exactly the picks of its closed form. `DrawStep` is
  one draw; the number of draws is handled as described under "Induction".

For all time limits with `TimeAssumption` and `RoundFits` (`Heartbeat_proofs`):
`TypeCorrect`; `NeverFalselyDown`, whose invariant bounds the age of `LastSeen`
in each phase by the limits of the phases before it; `DeadIsDetected`, where the
age of an alive entry is bounded by what is left of the watcher's period; and
`JoinedStaysKnown`, where a process that was answered is in the file, or in the
memory of a leader whose file is torn (`AnsweredSaved`).

For any number of members, Stores at once and silent members
(`Dispatch_proofs`, from `PlacementAssumption`): `TypeCorrect`;
`SpreadAlwaysBounded`, by counting the Stores that will add to one member and not
to the other as if they had done so (`SpreadInv`); `MaximumAlwaysSpared`;
`DrawsAlwaysClosedForm`, from `DrawsSpareOne`;
`AlwaysOneConnection`, because look-up, dial and insertion are one critical
section (`MutexInv`).

For any number of requests and crashes (`Interceptors_proofs`, from
`InterceptorsAssumption`): `TypeCorrect`; `ClosedOnce`, where a request has no
closing entry before it has come back to the logger or to `recover`, and one
after; `IdsTellRequests`, where an ID is drawn once, above the logger;
`AlwaysCounted`, where results on their way to a waiting caller count as answered
(`CountInv`), and a request uses up at most one count or the Internal error of its
panic (`SpentInv`).

For any ids, input, bulks, flush interval, failures of Stores and losses of
connections (`Session_proofs`, from `SessionAssumption`), and any number of
commands:

- `TypeCorrect`, with `TypeInv`: what the client is doing, which bulk, and that
  nothing is sent before the greeting is drained, and that a Store is in progress
  only for a SET at the head of its channel.
- `Drained`: the numbers of commands in the buffer and on the load channel are
  consecutive and end with the last one (`LoadInv`); a session closes the
  channel only for a line that it takes for QUIT, the first one, and the client
  waits with one typed or for the end of the connection (`QuitInv`).
- `LagStaysBounded`. A sample that is late by more than the bound would need more
  lines behind the client than there are. `LagInv` says so by ranks: there is an
  assignment of a number to each token of the channel that grows with every
  token that can end a read, starts at what has been read and ends at the lines
  that all answers so far can be taken for. A time-out throws away prompts only,
  and adds one; HELP adds three.
- `StoreConverges`. `StoreInv`: the text of a Store in progress may be found
  (`InProgress`), two in progress for one id have met (`Concurrent`), and what
  `Converges` says of the last SET of an id holds as soon as both its copies are
  handled (`Latest`). The copy on the load channel is ordered by
  `LoadInv`, the one on the other channel by `MeasureInv` (from the first
  measured command not handled yet on, all are on their way, in order). An inner
  SET of a bulk has no second copy to come after an older one; there is no older
  one while the client reads its own answers: then the measurement channel carries
  at most the current command or its answer, and any number of prompts
  (`QuietInv`). After a
  time-out or HELP there may be: this is the exception in `Converges`, which the
  proof attempt brought to light.

For any number of clients, lines and cuts (`Report_proofs`, from
`ReportAssumption`): `TypeCorrect`; `OnlyTornAlwaysMissed`, where `ReadInv` adds
what the reader has done with the line it stands in and `FilesInv` that files are
read one after the other; `ReportedWereAlwaysSent`, where `SentInv` follows each
command from the buffer to the line that reports it, by a running total over the
lines that, while the connection stands, is never above what was flushed when the
line was written;
`StatsAlwaysMatch`, where `StatsInv` keeps sum, minimum, maximum and errors of the
lines taken. Both need sums over sets of lines, for which the module
has a few lemmas about the fold behind `SumFunctionOnSet` (`SumRemove`).

### Induction

The library's induction theorems take an operator as parameter, which the
provers do not instantiate. Where a fact about a recursive function or a fold
over all naturals or all finite sets is needed (`DrawsSpareOne`, the sums in
`Report_proofs`), it is proved by a least counterexample: the set of numbers for
which it fails has a least element if it is not empty (`WFMin` and
`NatLessThanWellFounded`, which are about sets), and that one is refuted.

### What stays with TLC

Every invariant that a passing run checks has a theorem, and so have the action
property `LonelyMaximumSpared` and the refinement `ImplementsIndex`. Only model-checked is liveness, which is out of the prover's
reach: `ReplicationEnds`, `StoreEnds`, `GetEnds`, `Revives`, `AllAnswered`,
`ReadEnds`, `QuitEnds`, `ToolEnds`. What the `doc_` runs refute cannot be proved.

## What the models show about the code

Besides the four `doc_` runs:

- The limits of registration leave no margin: a member that needs 8 s to register,
  then 5 s to dial and 2 s for its first heartbeat is heard of after 15 s, the
  value of `heartbeatTimeout`. From one heartbeat to the next the margin is 1 s
  (2 + 5 + 5 + 2).
- The exceptions in `JoinedKnown`: a registration repeated while the first one's
  handler waits for `saveState` is answered before anything is saved, and so is
  one whose save failed; a crash inside any later save, of a SET or of another
  member, makes the restarted leader forget all members, which go on sending
  heartbeats that are answered and ignored.
- A SET whose members are all healthy may wait 2 s for each dial to a silent
  member that gets `connsMu` first, GETs' included; `sync.Mutex` sets no limit to
  their number, only to how long a waiter is passed over.
- A request that panics is in the log once, without its request ID, and in no
  counter (the third part of `CountedBeforeAnswer`), although
  `internal/middleware/metrics.go:53-55` says "all requests are consistently
  observed"; a reply with `Ok: false` counts as a success.
- A GET that fails at a member leaves it marked alive, although `README.md` has
  it that during GET "the Leader detects failed Members, marks them as
  unavailable": only the watcher marks.
- `Errors` in a report are reads of the measurement channel that failed (timed
  out, or found it closed): an error that the leader answers in time is an OK,
  and a bulk without samples has no line. A command is reported as one operation,
  OK or ERROR, also when the load connection it should have gone down is lost:
  this is why `ReportedWereSent` excepts clients in `lost`. The average
  of a bulk is divided by its commands and can be below its own minimum.
- A report of UTF-16 files shows no operations, and one of UTF-8 files with
  operations panics (`doc_report`).
- A GET that was called before a SET was acknowledged may be answered after it
  with an empty text: its member read the truncated file
  (`internal/server/member/member.go:196`) and the leader takes the first reply
  that comes (`leader.go:530-535`). `ReadsSettled` is about GETs called after it.
- A SET that failed goes on writing at its members, and may overwrite the copy of
  a later SET on the same id that was acknowledged, or mix with it:
  `SettledSurvives` is about ids that one SET alone has touched.
- The two copies of a measured SET may overlap the copies of the next SET on the
  same id (the load channel does not wait for answers), and then an older text may
  stay: the first exception in `Converges`.
- A line such as `exit now` closes both sessions while the client goes on: what is
  typed after it is written to closed connections, and nobody is told
  (`ExitDrained`). So are commands behind the loss of a connection.
- A SET typed by hand can overwrite a later bulk's SET of the same id for good,
  if the client has stopped reading its own answers (a time-out, or HELP): its
  measured copy is still under way, and the inner commands of a bulk are not sent
  on that channel.
- The id offsets of the launcher (100000 apart) do not keep clients apart, since
  a bulk adds a random number below 1000000.

## Not modelled

The order of replicas in an index entry (a GET may try them in any order); ids
wider than the run's set (`int32(id)`); parsing of `tolerance.conf`; the client's
connection loop and choice of test files; that a full buffer of the client is
written out before its `Flush`; what the leader drops of the load
channel when a stress run exits, which the operating system decides; the start of
leader and members by the launcher, which waits for nothing; layout and wording
of logs and of the page; certificates, whose failure ends a process at start;
generated protocol code.
