# Shipshape, specified

TLA+ modules that model the Go service of this repository, TLC runs that check
them on small instances, and theorems that TLAPS proves for every instance.
Paths below are relative to `shipshape/` in the repository.

## 1. The system and its parts

A command line (`cli/`) starts Docker containers: one with the *shipshape
service* and the built-in analyzer services, and one for each third-party
analyzer.  It sends the service a `ShipshapeRequest` over a JSON RPC protocol of
the project's own ("K-RPC").  The service's *driver* changes into the
repository, loads its `.shipshape` file, asks every analyzer service for its
categories and stage, selects what to run, calls the analyzers in parallel,
filters their notes and streams back one `ShipshapeResponse`.

| component | state it keeps | operations | talks to |
|---|---|---|---|
| Driver, `service/driver.go` | working directory (of the process), default-category map, clients map; per request: configuration, service map, responses | `Run`, `GetCategory` | analyzers by RPC, file system |
| Configuration, `service/config.go` | none | `loadConfig`, `validateConfig`, `GlobalConfig` | driver, command line |
| Service start-up, `service/shipshape.go`, `docker/endpoint.sh` | health map, clients map | `WaitForAnalyzers`, `main` | analyzers by RPC |
| RPC server, `util/rpc/server` | per request: response writer, result channel | `handleRequest`, `Invoke`, `ServePipes` | handlers, HTTP |
| RPC client, `util/rpc/client` | per call: reader and its error; request ids | `Call`, `Stream`, `NextResult`, `WaitUntilReady` | server |
| Analyzer dispatcher, `api/dispatcher.go` | working directory of the analyzer process | `Analyze`, `GetCategory`, `GetStage` | driver, analyzers |
| Command line, `cli/shipshape_lib.go` | none of its own; the containers of the machine | `Run`, `StartService`, `ShowCategories`, clean-up | Docker, service |
| Docker helper, `util/docker/docker.go` | Docker's containers and images | `RunService`, `RunAnalyzer`, `Stop`, `ImageMatches`, `MappedVolume`, ... | Docker |
| Delimited records, `util/delimited` | reader and writer positions, the array used again | `Next`, `Put` | any reader or writer |
| Spill buffer, `util/rpc/buffer` | position, size, memory or file | `Read`, `Write`, `flip`, `Cleanup` | file system |
| Java RPC and dispatchers, `java/` | output queue; working state of one call | `Server.handle`, `OutputChannel`, `JavaDispatcher.analyze` | driver by RPC |

The analyzers keep no state; each runs a tool on a file and reads its output.
Parts without behaviour worth a state machine (generated code, HTTP encoding,
Jenkins plug-in, kindex and cloud readers) are listed in `PROJECT.json` with the
reason.

What is hard, and what makes each part correct:

- **Driver.**  Each RPC is a goroutine; the working directory and the default
  set are shared without a lock; each run forks a goroutine per analyzer, and
  any call may fail.  Correct means: a category someone asked for is run by
  every analyzer that has it or reported as missing; every analyzer call is
  answered once in the response; a run sees its own repository's configuration
  and files; the process ends up where it started; every accepted run is
  answered.
- **Configuration.**  Correct means: the meaning of a file does not depend on
  the order of its stanzas, and an event gets exactly one stanza's categories.
- **RPC server and client.**  Handler and result writer are two goroutines;
  handlers fail or panic between results; connections break anywhere.  Correct
  means: a reader that sees a clean end has seen everything, in order, and
  everyone terminates.
- **Start-up.**  Correct means: a service that comes up in time is found, and
  the parties' time limits fit together.
- **Dispatcher.**  Correct means: one failing analyzer costs only its own
  answer, and a call analyses its own repository.
- **Command line and Docker.**  Correct means: the service that answers is one
  for this image, directory and set of analyzers, and what was started is
  stopped.
- **Delimited, buffer.**  Correct means: bytes come out as they went in, and a
  record cut short is told apart from the end.

## 2. The modules

| modules | what they model |
|---|---|
| `Config`, `ConfigLoad`, `MCConfig`, `ConfigProofs` | configuration files, as pure operators; one call that loads one; what it means, for files of any length |
| `Driver`, `AnalysisService`, `DriverService`, `MCDriver`, `DriverProofs`, `DriverServiceProofs` | the driver, what its clients are promised, its invariants and the refinement for every instance |
| `ResultStream`, `Krpc`, `KrpcStream`, `KrpcProofs` | RPC server and client as a stream of results that may fail, with the invariants and the refinement |
| `Analyzers`, `Dispatcher`, `MCDispatcher`, `DispatcherProofs` | the analyzers, and an analyzer service that runs them under overlapping calls, failures and panics, with its invariants for every instance |
| `Startup`, `MCStartup`, `StartupProofs` | the processes coming up: the two waits and the unsynchronised maps; the bounds on the waits for every timeout |
| `Docker`, `Cli`, `MCCli`, `CliProofs` | invocations of the command line that share one machine's containers; what an undisturbed one finds, gets and leaves |
| `Records`, `MCRecords`, `RecordsProofs` | length-delimited records through a writer that fails or stops, and a reader; what it reads, for every record |

`Dispatcher` extends `Analyzers`, and `Cli` extends `Docker`: the first of each
pair is pure (what one run of a tool or of `docker` can do), the second has the
state.  The abstract specifications are `AnalysisService` (what the driver
promises without process-wide state) and `ResultStream` (what the RPC layer
promises).  What one component relies on in another is checked on both sides:
`AnswersRequested` is what `Driver` assumes of an analyzer's notes and failures,
and the two timeouts meet in `CliFindsService`.  `Driver` has no variable for the
map of clients: it assumes a service that has all of them when it starts, which
`CachedUnlessRaced` shows to be so unless insertions overlapped.  What requests that insert at once
do to that map then is not carried over into `Driver`.

Every safety property of a passing run is also a theorem (section 5); what is
left to TLC alone is liveness.

## 3. The modules and the code

**`Config`** reads `service/config.go`.  A file is its parse result (absent,
unreadable, unparsable, or parsed) with a sequence of stanzas; `loadConfig`
returns the three outcomes the driver tells apart: no file, an error, a
configuration.  The fallback to the stanza `default`, and the duplicate checks
of `validateConfig`, are operators.  `ConfigLoad` wraps them in one call that
loads one file for one event; `MCConfig` gives it every file of up to three stanzas.

**`Driver`** reads `service/driver.go`, `Run` and `GetCategory`, with
`ChangeDir` (`util/file`) and the set helpers they call (`util/strings`).
`pc[r]` is where request r's goroutine is, one location per point where another
goroutine can interfere:

| action | code (`service/driver.go`) |
|---|---|
| `Receive` | 101-118; the first log line dereferences optional fields |
| `Getwd`, `Chdir`, `ChdirFails` | 120-126 and `ChangeDir` |
| `LoadConfig` | 133-139 |
| `CategoryReply`, `StageReply`, `StageMissing` | one analyzer's goroutine of `getAllServiceInfo`, 374-420 |
| `ListCategories` | the end of `GetCategory`, 93-99 |
| `EventNotConfigured`, `SelectCategories`, `RemoveMissing` | 141-173; `aliased` says that `desiredCats` *is* the driver's default map |
| `CollectFiles` | 175-226, `retrieveAndFilterFiles` |
| `Launch`, `AnalyzeReply`, `AnalyzeError`, `CollectResponses` | `callAllAnalyzers` and `callAnalyze`, 310-343, 422-439 |
| `Restore`, `SendResponse` | the deferred calls, 107-113 and 127-131 |
| `MapRace` | two goroutines on the default map, one deleting: undefined in Go, so besides every interleaving the process may crash |

Categories, files and notes are model values: a note is a category (or none)
with a file, no path, or no location.  POST_BUILD runs end after the file
selection, as the code does (the call is commented out).

**`AnalysisService`** is what a client could rely on if the process had no
shared state: `Accept`, `Respond` with an answer that keeps `Promise`, `GoDown`.
**`DriverService`** maps the driver's state to it (`phaseOf`, `requestOf`,
`answerOf`) and states `ImplementsService`.

**`ResultStream`** is what the caller of any remote method is promised: results
appear in order without gaps (`Observe`), `Complete` only after the method ended
well and everything was seen, `Fail` at any time.

**`Krpc`** is one call over HTTP, seen by its four parties, from `util/rpc`:

| party | actions | code |
|---|---|---|
| the request's goroutine, before the method | `EmptyBody`, `Reject`, `List`, `InvalidParams`, `Invoke` | `server/endpoint.go`, `handleRequest` 168-217; `server/service.go`, `Invoke` 157-163 |
| the method, in the same goroutine | `StartSend`, `ReturnStream`, `ReturnSingle`, `Panic` | `service.go` 184-227; the recover, `endpoint.go` 154-166 |
| the goroutine that writes a stream's results | `Receive`, `Collect`, `Drop`, `StartWrite`, `WriteResult`, `WriteFails`, `WriterStops` | `service.go` 169-182 with the two forms of `out`, `endpoint.go` 225-236 |
| the request's goroutine, after the method | `Await`, `StartReply`, `Reply`, `Finish`, `ReplyFails` | `service.go` 185-187, `endpoint.go` 241-274 and `responseWriter` 104-148 |
| the client | `ReadResult`, `ReadSuccess`, `ReadError`, `ReadEnd`, `Close`, `Discarded` | `client/client.go`, `unmarshalResult`, `Call`, `NextResult`, `Close` |
| the connection (net/http) | `Cut` | |

A response is written in two steps where the code has two: the check of
`responseWriter.write` and the encoding, and for the last one also the setting
of `finished`; between them the other goroutine may run.  The k-th result of a
method is the number k, so that loss, repetition and order show.  A request is
reduced to what the server tells apart: how its body decodes, its id, version,
method and parameters, 216 shapes in all.  Two goroutines that use the encoder at
once (which only a panic makes possible) may garble the response; for the client
that is a connection cut at that point.  Encoding errors of a result, which the
code calls unexpected, are not modelled, nor is a result the client cannot
decode.

**`KrpcStream`** maps a call to `ResultStream` (`outcomeOf`, `statusOf`) and states
`ImplementsStream`.

**`Analyzers`** reads `analyzers/` and `androidlint_analyzer/`: which of a
request's files each analyzer works on, and what it makes of one run of its tool.
A tool's run is its exit status (a signal and a failure to start among them) and
its output: too few lines, lines that can be read, or one that cannot after some
that can.  The result says whether something was found, whether the analyzer
returns an error, and whether the file was looked at to its end; the three are
independent, and the tables differ from analyzer to analyzer as the code does
(`pylint` takes any exit status but 32 for findings, the others exactly one).
AndroidLint works on the projects its files are in, which it looks for from the
working directory (`getProject`); since a path that cannot be examined and a
directory that cannot be read are only logged, `Lookups` is the set of all that
may come of it: for each file the closest project, one further up, or none.

**`Dispatcher`** reads `api/dispatcher.go`:

| action | code (`api/dispatcher.go`) |
|---|---|
| `Receive` | 50-62 |
| `Getwd`, `Chdir`, `ChdirFails` | 63-68 and `ChangeDir` (`util/file/file_util.go`) |
| `StartAnalyzer`, `AnalyzeUnit`, `FinishAnalyzer` | 75-79, `runAnalyzer` 104-113, and the loop over files of each analyzer |
| `Panic` | a panic in an analyzer: nothing here recovers, the deferred calls run, the RPC layer answers with an error |
| `AllRun`, `Restore` | 81-82 and the deferred call of 69-73 |

The working directory is shared by all calls and is read by every file access,
so a note carries the directory it was made in, and AndroidLint finds the projects
of the directory the process is in.  `disturbed` remembers which calls overlapped
another, `mislaid` the files whose project AndroidLint has missed.

**`Startup`** puts together `WaitForAnalyzers` and `getHTTPClient`
(`service/driver.go`), `WaitUntilReady` (`util/rpc/client/client.go`), the main
programs (`service/shipshape.go`, `service/go_dispatcher.go`,
`androidlint/service.go`), `Service.Register` (`util/rpc/server/service.go`) and
the wait of the command line:

| action | code |
|---|---|
| `Register`, `Listen`, `ListenFails` | `Register` with `checkInterface`, then `ListenAndServe` in each main program |
| `Lookup`, `BeginInsert`, `EndInsert`, `Reread` | `getHTTPClient`, `driver.go` 480-488 |
| `Try`, `Ready`, `Pause`, `Wake`, `GiveUp` | `WaitUntilReady`, `client.go` 307-326 |
| `BeginRecord`, `EndRecord` | `health[addr] = err`, `driver.go` 240 |
| `ConcurrentMapAccess` | the runtime's own check, which may end the process |
| `MayProceed`, `Proceed`, `AnswerStdin` | `shipshape.go` 54-130; all analyzers have been waited for, ready or not |
| `StopContainer` | the command line's clean-up when the service is not ready |

A write to a map takes two steps.  What two that overlap do is undefined in Go:
they may both make the first table, both take one place, or move entries under each
other.  `Written` is what the later end of one of them may leave: entries lost, its
own and those of goroutines that have read theirs back and gone on, or one entry of
two with the later value; `Readable` lets a reader miss an entry while another
writes; and the runtime may end the process (`ConcurrentMapAccess`).  `raced`
remembers that insertions overlapped.  Time is a
clock that moves only when nobody can do something now; a call that is not
answered may take up to `MaxCall`.

**`Docker`** reads `util/docker/docker.go`: the questions (`ContainerExists`,
`ImageMatches`, `MappedVolume`, `ContainsLinks`) as predicates on the daemon's
containers, the commands as sets of outcomes.  `docker run` may fail before or
after it has created the container.  Paths are compared as text, as the code does:
`Prefixed` holds for `/a` and `/ab`, `Inside` only for `/a` and `/a/b`.  Links are
looked up by substring, hence `SuffixOf`.

**`Cli`** reads `cli/shipshape_lib.go` and the main program `cli/shipshape.go`:

| action | code (`cli/shipshape_lib.go`) |
|---|---|
| `Begin`, `BadStart`, `PullImages` | `startServices` 118-153, `pull`, `pullAnalyzers` |
| `CheckAnalyzer`, `StopAnalyzer`, `RemoveAnalyzer`, `StartAnalyzer`, `ReadSlice`, `WriteSlice`, `AnalyzersUp` | one goroutine per analyzer, `startAnalyzers` 374-408 |
| `FindService`, `DockerFails`, `InspectService`, `StopService`, `RemoveService`, `StartService`, `WaitUntilReady`, `NotReady` | `startShipshapeService` 269-309 |
| `Call`, `CallEnds`, `CallFails`, `OutputPanics` | `analyze`, `ShowCategories`; `outputAsText` in `shipshape.go` |
| `StartKythe`, `Build`, `BuildEnds` | `Run` 209-243 |
| `CleanupStop`, `CleanupRemove`, `Exit` | the deferred calls: `cleanup` 157-170 and the stop of kythe, 226 |
| `Kill`, `Die` | a signal (no handler, no clean-up); a container that stops by itself |
| `StopRefused` | `docker stop` or `docker rm` fails on a container that is there: logged, 351-357 and 385-388, and on it goes |

Each docker command is one step, since other invocations run between them.
`disturbed` are the invocations during which another ran, a container stopped or
one they wanted removed stayed: for those the code promises nothing, for the next
one, which meets what they left, it does.

**`Records`** reads `util/delimited/delimited.go`.  `Put` is two writes
(`WriteLength`, `WriteData`), each of which may fall short (`LengthFails`,
`DataFails`); the writer may stop at any point (`Close`) or go on after an error.
`NextRecord` reads a length and as much of a record as there is into the array
that the reader uses again; `NoLength` meets the end of the pipe.  Varints have a
small base so that lengths of several bytes occur.

Definitions marked "Mutant" are variants of a definition with a plausible slip
in them (a dropped wait, a wrong order, a missing check).  No specification uses
them; replacing the original by one must violate the property it is listed with
in `PROJECT.json`.

## 4. What the runs show

| run | question | result |
|---|---|---|
| `config_load` | does the order of stanzas matter in an accepted file; does an event get one stanza's categories? | no; yes |
| `driver_overlap` | two overlapping runs, any call failing: is a named category ever lost, a call not answered once, a default lost without a report? Is every accepted run answered, unless the process crashes? | never; yes |
| `driver_serial` | two calls one after the other, eleven kinds of request, an analyzer without a stage: does the driver implement `AnalysisService`? | yes |
| `driver_defaults` | is a default category run or reported, as named ones are? | no: a default missing once is gone for all later runs, unreported |
| `driver_config_overlap` | does a run use its own repository's configuration when calls overlap? | no |
| `krpc_calls` | for every request, method behaviour and break of the connection: does the caller see a result stream, know whether it is complete, get one end and always return; and is no method ever stuck, also when the caller is gone? | yes |
| `dispatcher` | two Analyze calls, overlapping or not, every outcome of every tool, an analyzer that may panic: is what a response leaves out reported as failed, is what was found kept, are undisturbed calls at home in their repository, is every call answered? | yes, with the exceptions named below |
| `cli` | two invocations, overlapping or one after the other, one killed, a container lost or one that cannot be removed, a new image released: is an undisturbed invocation served from its directory by the current image, linked to what it started, with its names free and nothing left behind; does every invocation end? | yes, with two exceptions named below |
| `cli_attached` | is the service linked to every analyzer that was started for it? | no: the unlocked append loses one |
| `startup` | two analyzers that come up at any time or never: how late does `WaitUntilReady` return, what does it find, has the service all its clients when it starts, and does it start? | within twice its timeout; what comes up in its first half; yes, unless insertions overlapped; always, unless it died |
| `startup_health` | three addresses, two of them the same: does `WaitForAnalyzers` report on every analyzer? | no: the unlocked map loses an entry |
| `records` | what does a reader make of a writer that fails or stops at any byte? | records up to the first failure are intact; a clean end loses no byte of a record |

The runs that expect a violation each check one statement of a comment of the
repository, quoted in `PROJECT.json` under `findings`.

**Exceptions the properties name**, each because the code does it: a `pylint`
that is killed or gives up with its fatal status is read as if it had finished, and
AndroidLint leaves out files it cannot find or examine, and any file once
another call has moved the process (`NothingSkipped`); WordCount and
CodeAlert drop the notes they have when they fail (`FindingsKept`); clients may be missing from the map when
insertions overlapped, since one that ends later can drop an entry its owner has
read back, though `driver.go` 480 says they are cached (`CachedUnlessRaced`); a directory
whose path only starts like the mapped one is taken for mapped, and the service is
then asked for a path it does not have (`ServedAsAsked`); an analyzer whose name
ends like another's counts as linked when only the other is (`LinkedAsStarted`);
a service that comes up in the second half of a wait may be given up
(`FoundInFirstHalf`); a length without any of its bytes reads as the clean end of
the stream, against the comment of `Next` (`ShortReported`).

**Other divergences met while modelling**, without a run of their own: a stanza
`All` applies to no event but one named so, against
`proto/shipshape_config.proto`; after overlapping runs the process stays in a
repository; an analyzer that answers `GetStage` without a stage ends the process;
a request with unset fields is not answered; a method that panics in the middle
of a stream leaves a writer that sends one more result after the end; the
failure made for an RPC error has no category, though `shipshape_rpc.proto`
requires one, and `outputAsText` panics on it; `filterResults` keeps notes of
categories nobody asked for; a request's invalid id is copied into the refusal;
a method with the arguments of an RPC and other results is registered, though
`service.go` 83-84 says it is ignored;
the comment of the dispatcher's `Analyze` says it recovers from panics, which it
does not; its `InternalFailure` is put into a response that nobody gets;
CodeAlert's notes have no location, so the driver drops them all; the container
checked before a build is named after the image, so an earlier `kythe` is never
stopped first; an analyzer that is reused is not among the containers the service
is linked to; a service container that has stopped is taken for usable and waited
for in vain; `StayUp` keeps the service but stops its analyzers.  The spill
buffer, which is not modelled, would use a store it does not have when its first
write is exactly its capacity or more (`buffer.go` 77-85, 113), and after a flip
skips as many bytes as were read before (`buffer.go` 65).

**Bounds.**  Two requests are what it takes to overlap, and one to run after
another; their effects on the shared state are a directory change, a restore and
a deletion, and a third request adds no new kind of interference.  Two analyzers
suffice for a category both have, one only one has, and one nobody has
(`gone`).  Two repositories, one configured and one not, plus one whose
configuration cannot be read and one that cannot be entered, reach every branch
of `Run`.  `driver_overlap` uses two kinds of
request, one configured and one on defaults, and one reply; the serial run uses
all eleven and both replies, with three analyzers at different stages, one of
which sets none.  A call of `Krpc` sends up to three results: one read, one in
the connection and one in the writer's hands is as spread out as a stream gets,
and `krpc_calls` starts from all 216 requests.

`dispatcher`: two calls (to overlap, or to follow each other), two repositories
and one that cannot be entered, a file of each language and an Android project
within another in one of the repositories;
the four requests name all seven analyzers between them and a category the service
lacks.  `cli`: two invocations, since all interference is through the containers
of one daemon and two show it; three directories (one below another, one that
only looks so); one fault, because a killed invocation followed by another is
already the crash and the recovery.  `cli_attached` has two analyzers and one
invocation.  `startup`: the timeouts are 30 and 10 first pauses.  That is the
proportion of the code's 30 s and 10 s; against its first pause, of 800
microseconds, they are short, but they leave four doublings and three, with a server
early or late at each of them.  The bound up to which pauses double (`maxInterval`,
25 s) is 10, which the last pause of the longer wait exceeds, as there.
`LatestStart` lets an analyzer come up at any time of the first half of the
service's timeout, at the first moment after it, and past all of the command line's, `Horizon` lets every wait end (`StartupTyped` checks it).  The bounds on the
waits are theorems for every timeout (section 5).  `records`: three calls of `Put`, so that a record
follows a failed one and a short one follows a long one; base 2 with records of
0, 1 and 3 bytes, so that a length takes one byte or two.

**Fairness.**  Weak fairness for each run's own goroutine and for each
analyzer's: the Go scheduler runs what can run.  That a call to an analyzer
returns, with a result or an error, is an assumption: the client has no timeout,
so an analyzer that never answers blocks its run for ever.  Clients need not
call.  In `Krpc`, the same for the request's goroutine, the writer's and the
client that reads; a method sends finitely often and returns.  The connection
need not break, and `Close` need not be called.  The writer of a method that
panics waits for ever, since nobody closes its channel; no property says otherwise.
In `Dispatcher`, weak fairness for each call: tools end.  In `Cli`, for each
invocation: docker commands and calls to the service return.  In `Startup`, less
is enough: as long as some goroutine, call, main program or the time can go on, one
of them does; no analyzer need ever come up.  In `Records`, the reader keeps calling and the writer's process
ends some day; it need not write anything.

## 5. What is proved

`DriverProofs`, for all requests, analyzers, categories, files and
configurations, from the named assumptions `NamesDistinct` (the null value and
the driver's own names are no data) and `ConstantsTyped`:

| theorem | says |
|---|---|
| `TypeCorrect` | every variable keeps its type |
| `CallsAnswered` | a finished run holds exactly one answer for each call it made and none besides |
| `ExplicitNeverLost` | a category named by the request or the configuration is reported, or given to every analyzer that has it |
| `DefaultsNeverSilent` | a default category a run neither runs nor reports was reported to some client |
| `SerialOwnConfig`, `SerialCwdRestored` | if calls do not overlap, each run uses its own configuration and the process comes back |

and in `DriverServiceProofs`, with `AbsentIsEmpty` (a repository without a
configuration file configures nothing):

| theorem | says |
|---|---|
| `SerialNotesOnOwnFiles` | if calls do not overlap, a note that reaches a client is on a file of the run's own repository that it was to look at, or has no file |
| `SerialServiceImplemented` | if calls do not overlap, the driver implements `AnalysisService`: it accepts, answers once and keeps `Promise`, as though nothing were shared |

None of the properties is inductive alone.

- `Inside` adds to the type invariant that a run past `Chdir` has a root that
  can be entered: without it the file list of the root has no type.
- `CallsInv` says where calls and answers can exist: no call to an analyzer the
  loop has yet to look at, no answer without a call, no run past the collection
  with a call open.
- `ChoiceInv` follows the chosen categories from place to place: before the
  removal each is missing (and reported) or offered by someone; after it, what
  is left is offered; in the loop, every analyzer already looked at has been
  given its share.  It holds although other runs shrink the default set in
  between, because the set only shrinks by what has been reported
  (`LostDefaultsReported` is part of the invariant).
- `SerialInv` says that at most one request is under way, that the directory is
  `Home` when none is, and which directory it is at each point of a run.

Steps of the proofs are grouped by what they may disturb: lemmas `RunLocal` and
`CallLocal` say that a step of one request leaves the others' state alone, so
that each action is looked at for its own request only.  For the refinement,
`ServiceInv` adds what the answer is made of: the configuration, the files and the
notes of a run are those of its own request's terms (`Own`, `NamedBy`, `FilesOf`).
Every action but `Receive`, `SendResponse` and those that end the process is a
stutter of the service; `SendResponse` answers as promised because `ChoiceInv`
and `CallsInv` say that each category was given to all analyzers that have it and
each call was answered.

`KrpcProofs`, for every set of requests and any number of results, from
`WorkloadTyped` and `SomeResult`:

| theorem | says |
|---|---|
| `TypeCorrect` | every variable keeps its type |
| `CleanEndCorrect` | a caller that reads a clean end has every result, in order, and the method succeeded |
| `NoFalseAlarmCorrect` | a method that succeeds is not reported as failed unless the connection broke |
| `OneEndCorrect` | a request that was handled has been told so exactly once, unless the connection broke |
| `StreamImplemented` | every call is a `ResultStream`: the caller sees the results in order and without gaps, and a clean end only after a success |

These properties speak of the client or of the response only; their invariant
(`CallInv`) ties the four parties
together.  `Sending` (the writer holds the last result sent, and in version 2
the collected results are all others), `StreamSoFar` (as long as only results
were written and no write failed, the response lags the method by the one the
writer holds), `Answering` (a last response that is no error is only prepared
when the method has succeeded and the writer is gone), `Truthful(i)` (what the
i-th response says of the method, which `TruthKept` shows to stay true), and
`Received` (a reader that is still open has read exactly the first results).
The panic does not break it: results written after the error are not `Streamed`,
and no reader gets past the error.

`DispatcherProofs`, for any number of calls, any list of registered analyzers and
every request, from `ServiceTyped` and the assumption of `Analyzers` about files
(`FilesTyped`):

| theorem | says |
|---|---|
| `TypeCorrect` | every variable keeps its type; an analyzer runs only for a call that asked for it |
| `FindingsAreKept` | what was found before something failed is in the response, but for `AllOrNothing` |
| `AnswersAreRequested` | notes and failures of a response are of categories asked for and offered |
| `NothingIsSkipped` | every file of every requested analyzer but pylint was looked at, or the category failed; for AndroidLint, in a call nobody overlapped, the project of every file that was found |
| `OwnRepositoryOnly` | a call nobody overlapped looked only at its own repository |
| `HomeIsRestored` | until calls overlap, the process is back home after each of them |

The first three of these invariants speak of one call's variables only
(`Fresh`, `Kept`, `Asked`): `StepLocal` says that other calls leave them alone,
and `UnitStep` reduces every outcome of every analyzer to "one more note or none,
and an error or not".  `Covered` counts by position: each analyzer the loop has
left behind is accounted for, the running one up to the units it still has to
do, and a call that answers has left all behind.  What it owes (`Owed`) leaves
out what the property excepts (`Excused`), and shrinks when a call is disturbed or a
file mislaid; when AndroidLint starts for an undisturbed call, the process is in that
call's repository, and what it has to do is all it owes (`StartAccounts`).  It rests on `LookedAtOrFailed`,
a fact about the analyzers: only pylint ends without an error and without having
seen everything.  For the directory, `Lone` says that calls under way together
are all marked as overlapped, so that a call that is not marked owns the
directory (`OwnDir`), and while none is marked the only active call remembers
`Home` (`WayHome`).

`ConfigProofs`, for files with any number of stanzas:

| theorem | says |
|---|---|
| `OneStanzaOnly` | an accepted file gives an event the categories of one stanza, its own or the default one |
| `AnyOrder` | a file is accepted, and means the same, in every order of its stanzas |

`LookupFinds` is what both rest on: in a list without duplicates the first match
is the only one, so a lookup depends on the set of stanzas alone; `ReorderedSame`
says that an order does not change that set nor bring in a duplicate.

`StartupProofs`, for any list of analyzers that is not empty (`strings.Split`
never returns an empty one), every timeout, longest pause, longest call and any
time at which the servers come up (`StartupTyped`):

| theorem | says |
|---|---|
| `TypeCorrect` | clocks, processes, goroutines and maps keep their types |
| `NoLateInsert` | once the service serves, its map of clients has every analyzer, so that no request writes it, unless insertions overlapped before |
| `WaitBounded` | `WaitUntilReady` returns within twice its timeout, one first pause and one call |
| `EarlyServerFound` | a server that listens before half of the timeout is found |
| `ServiceFound` | a command line that gives up has met a dead service or a late analyzer |

`ClientsInv` follows the entries of the map: nobody inserts in an overlap that
`raced` has not noted, and as long as it has noted none, an entry stays once it is
`Inserted` (`MapInv`), at an address that is listed twice too.  The bounds rest
on `PauseOf`, which keeps the doubling in a form that adds up: the pauses so far are
at least the next one, less one.  `SinceOf` says how far a wait may be behind a
server that has come up, and `NotLate` carries that over from the service's waits
to the one of the command line.

`CliProofs`, for any number of invocations, third-party analyzers, directories,
images and faults, from `DockerTyped` and `OptionsTyped` (ids are positions in the
list of analyzers, from 0 and without a gap), where an invocation is undisturbed if
it is alone, its containers keep running and the daemon stops and removes those it
is told to:

| theorem | says |
|---|---|
| `TypeCorrect` | the variables and the daemon's containers keep their types |
| `NamesAreFree` | `docker run` of an undisturbed invocation finds no container of the name, whatever was left before |
| `Served` | an undisturbed call is answered by a container of the current image that analyzes the caller's directory |
| `Linked` | that container has a link for each analyzer the invocation knows it started |
| `CleansUp` | an undisturbed invocation that ends has removed what it is to stop |

`AloneInv` says that an undisturbed invocation is the only one active, so the
containers change by its own steps alone; `AnalyzersOf`, `ServiceOf` and `CleanupOf` say
for each of its places what those containers are by then (stopped, gone, of the
current image, on the list to be stopped).

`RecordsProofs`, for every base, every set of records and any number of calls:

| theorem | says |
|---|---|
| `ReadsAsPut` | the n-th record read is the n-th put, up to the first `Put` that failed |
| `ReadsAll` | a reader that ends has read every record when no `Put` failed, and at most one empty one more |
| `ShortRecordsReported` | a clean end of the stream of a writer that stopped at its first failure hides no byte of a record, a length at the most |

First the codec: `Encoding` says that every length is read as it was written.
`Uvarint` and `Value` are recursive functions; that they have values at all
(`UvarintDef`, `WeightExists`) and that the one undoes the other is shown by the
least counterexample (`Least`), since the library's induction rules are out of
reach.  `LengthFound` and `ReadBytes` say what `Next` finds before a varint and
what it returns from an array with older bytes in it.  The invariant `RecordsInv`
says that there are places (`Placed`) where the records before the first failure end,
one after the other; that the pipe ends at the last of them, or after the length
of the next record (`Written`); and that the reader is at the place that belongs
to the number of records it has, or one ahead with an empty record whose
`Put` has yet to return (`Read`, `Ahead`).

`ShortRecordsReported` needs more, since a writer that failed may begin another
`Put`, whose length the reader takes for something else.  `ShortInv` says what is
in the pipe from where the failed `Put` began (`Begun`): the beginning of a length
(`LengthCut`), a length and less than its bytes (`DataCut`), or one of them with the
next length behind it (`OneLength`, `DataThenLength`).  A reader that goes on past
the failure (`Past`) either took the remains of a length and the next one for the
length 0, in more bytes than that takes, and is at the end of the pipe, or took
the first bytes of the next length for data and stands within it.  What is left
of that length has a last digit that is not 0 (`TopDigit`), so it promises bytes
(`ValuePositive`) that are not there: the reader ends.  `Size`, a recursive function, adds up
what the records read take of the pipe (`SumExists`, `SizeIs`, `SizeStep`).

The invariants the proofs use were also checked by TLC on the instances of the
runs.

**Only model-checked**: every property of liveness (`Responds`, `CallerReturns`,
`SendsComplete`, `Ends`, `Starts`, `ReaderEnds`): liveness under fairness and
`ENABLED` are beyond the prover.  The refinement of `AnalysisService` and the serial
invariants are proved, and hold, only without overlapping calls; what overlap does to
them the runs show.  No module uses a `RECURSIVE` operator.

## 6. What is not modelled

Within the driver: the wording of failures and logs, and the kythe-based
POST_BUILD stage, which the code has commented out.  Within the RPC packages:
pipes (`ServePipes`, `PipeReader`, `PipeWriter`), `WriteStream` and the adapters
of `util/rpc/stream`, which no service uses.  `Startup` assumes that a goroutine
that can run does so before time passes, and that everybody starts to wait when
the container is started; a call that hangs for longer than `MaxCall` (the HTTP
client has no timeout) is beyond its bounds.  `Docker` takes the daemon from how
the helper uses it: published ports and links decide whether a container starts,
and the quotes of `--format` arguments are taken off as they were by the versions
of that time.  `Driver` and `Dispatcher` assume that the process can change back to
the directory it came from, which it has been in: when it cannot, the code logs it
(`driver.go` 127-130) and stays where it is, and the calls after it are at the mercy of that
as after an overlap.  `Records` leaves out lengths too large for an int, which only a
reader that has lost its place can meet.

Not modelled at all, with the reason in `PROJECT.json`: the spill buffer (unused),
the Java RPC library and dispatchers (no state shared between calls and no
streaming method), the Java analyzers, HTTP encoding, the kindex and cloud readers,
the Jenkins plug-in, and the generated protocol buffers, whose messages are the
records of the models.
