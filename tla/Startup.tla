------------------------------- MODULE Startup -------------------------------
(***************************************************************************)
(* How the processes come up.  Analyzer dispatchers register a handler and *)
(* listen.  The main program of the service (shipshape/service/            *)
(* shipshape.go) waits for all of them with one goroutine each, and then   *)
(* listens itself or answers one request from its standard input.  The     *)
(* command line that started it waits for it with the same WaitUntilReady  *)
(* and a shorter timeout.                                                  *)
(*                                                                         *)
(* Time is counted in units of the first pause; a step that need not wait  *)
(* takes none.  The maps shared by the goroutines are written without a    *)
(* lock: a write is two steps.  Writes that overlap may find the same free *)
(* place or each make the first table, so that entries are lost, their own *)
(* and those of a goroutine that has gone on, or get each other's values.  *)
(***************************************************************************)
EXTENDS Integers, Sequences, FiniteSets

CONSTANTS
  Analyzers,    \* addresses at which an analyzer process is started
  List,         \* the addresses given with -analyzer_services
  Handler,      \* the methods of the handler each server registers
  AsService,    \* the values of the flag -start_service
  Timeout,      \* analyzerHealthTimeout
  CliTimeout,   \* the timeout of the command line
  MaxInterval,  \* maxInterval
  MaxCall,      \* bound on the time of a call nobody answers
  LatestStart,  \* bound on the time an analyzer starts listening
  Horizon,      \* bound of the clock
  Nil

Service == "service"
Servers == Analyzers \cup {Service}
Cli     == 0                 \* the waiter that is the command line
Healths == DOMAIN List       \* the goroutines of WaitForAnalyzers
Waiters == Healths \cup {Cli}
FirstInterval == 1

Addresses == {List[g] : g \in Healths}
TimeoutOf(w) == IF w = Cli THEN CliTimeout ELSE Timeout

\* A method of shape "odd" has the arguments of an RPC but not its results.
Shapes == {"stream", "single", "odd", "other"}
Method == [name : STRING, exported : BOOLEAN, shape : Shapes]

ASSUME StartupTyped ==
  /\ AsService \subseteq BOOLEAN /\ AsService # {}
  /\ List \in Seq(Addresses) /\ List # << >>
  /\ Timeout \in Nat \ {0} /\ CliTimeout \in Nat \ {0} /\ MaxInterval \in Nat \ {0}
  /\ MaxCall \in Nat /\ LatestStart \in Nat
  /\ Horizon > 2 * Timeout + FirstInterval + MaxCall
  /\ Service \notin Analyzers \cup Addresses
  /\ DOMAIN Handler = Servers
  /\ Nil \notin Nat \cup {"ok", "err"} \cup Servers \cup Addresses

VARIABLES
  clock,
  server,   \* where each server's main program is
  methods,  \* the methods registered with it
  since,    \* when it started to listen, or Nil
  wpc,      \* where each waiter is
  client,   \* the address its client is for, Nil before it has one
  ival,     \* its next pause
  wake,     \* when its call or its pause ends
  reached,  \* whether the call under way is answered
  result,   \* what WaitUntilReady returned
  clients,  \* the map of clients: the address the client is for, or Nil
  health,   \* the map of results
  torn,     \* the goroutines whose write to a map another one overlaps
  raced     \* whether writes to the map of clients have overlapped

processes == <<server, methods, since>>
timing    == <<ival, wake, reached, result>>
waiting   == <<client, timing>>
maps      == <<clients, health, torn, raced>>
vars      == <<clock, processes, wpc, waiting, maps>>

Alive == server[Service] # "dead"

Init ==
  /\ clock = 0
  /\ server = [s \in Servers |-> IF s = Service THEN "waiting" ELSE "starting"]
  /\ methods = [s \in Servers |-> {}]
  /\ since = [s \in Servers |-> Nil]
  /\ wpc = [w \in Waiters |-> IF w = Cli THEN "try" ELSE "lookup"]
  /\ client = [w \in Waiters |-> IF w = Cli THEN Service ELSE Nil]
  /\ ival = [w \in Waiters |-> FirstInterval]
  /\ wake = [w \in Waiters |-> 0]
  /\ reached = [w \in Waiters |-> FALSE]
  /\ result = [w \in Waiters |-> Nil]
  /\ clients = [a \in Addresses |-> Nil] /\ health = [a \in Addresses |-> Nil]
  /\ torn = {} /\ raced = FALSE

Goto(w, l) == wpc' = [wpc EXCEPT ![w] = l]
Becomes(s, l) == server' = [server EXCEPT ![s] = l]

\* The process of the service ends, its goroutines and variables with it.
Crash ==
  LET OfCli(f, v) == [w \in Waiters |-> IF w = Cli THEN f[w] ELSE v]
  IN /\ Becomes(Service, "dead")
     /\ wpc' = OfCli(wpc, "done")
     /\ client' = OfCli(client, Nil)
     /\ ival' = OfCli(ival, FirstInterval) /\ wake' = OfCli(wake, 0)
     /\ reached' = OfCli(reached, FALSE) /\ result' = OfCli(result, Nil)
     /\ clients' = [a \in Addresses |-> Nil] /\ health' = [a \in Addresses |-> Nil]
     /\ torn' = {} /\ raced' = FALSE
     /\ UNCHANGED <<clock, methods, since>>

-----------------------------------------------------------------------------
(* A server: Register, and ListenAndServe, whose failures are fatal.       *)

\* What the results are is only looked at to tell the two kinds apart.
checkMethod(m) == m.exported /\ m.shape # "other"

checkInterface(handler) == {m \in handler : checkMethod(m)}

MayRegister(s) ==
  LET ms == checkInterface(Handler[s])
  IN ms # {} /\ \A old \in methods[s] : \A m \in ms : m.name # old.name

Register(s) ==
  /\ server[s] = IF s = Service THEN "register" ELSE "starting"
  /\ s = Service \/ clock <= LatestStart
  /\ IF MayRegister(s)
     THEN /\ methods' = [methods EXCEPT ![s] = @ \cup checkInterface(Handler[s])]
          /\ Becomes(s, "bind")
     ELSE Becomes(s, "dead") /\ UNCHANGED methods
  /\ UNCHANGED <<clock, since, wpc, waiting, maps>>

Listen(s) ==
  /\ server[s] = "bind"
  /\ Becomes(s, "listening")
  /\ since' = [since EXCEPT ![s] = clock]
  /\ UNCHANGED <<clock, methods, wpc, waiting, maps>>

\* The port is taken.
ListenFails(s) ==
  /\ server[s] = "bind"
  /\ Becomes(s, "dead")
  /\ UNCHANGED <<clock, methods, since, wpc, waiting, maps>>

-----------------------------------------------------------------------------
(* getHTTPClient, for the goroutines of WaitForAnalyzers.                  *)

Runs(w) == w = Cli \/ Alive

Inserting(w) == {v \in Healths \ {w} : wpc[v] = "inserting"}
Recording(w) == {v \in Healths \ {w} : wpc[v] = "recording"}

\* What goroutine g may read at its address: an entry may be missed while
\* others insert and move it.
Readable(g) == {clients[List[g]]} \cup IF Inserting(g) = {} THEN {} ELSE {Nil}

\* The maps that a write of v at address a may leave of m.  One that overlaps
\* another's may lose entries, its own or those of a table it replaces; if
\* both took one place, one key of the two is left, with the later value.
Written(m, a, v, alone) ==
  LET Left == {n \in [Addresses -> {m[b] : b \in Addresses} \cup {Nil}] :
                 \A b \in Addresses : n[b] \in {m[b], Nil}}
      others == {b \in Addresses \ {a} : m[b] # Nil}
  IN IF alone THEN {[m EXCEPT ![a] = v]}
     ELSE Left \cup {[n EXCEPT ![a] = v] : n \in Left}
               \cup {[n EXCEPT ![a] = Nil, ![b] = v] : n \in Left, b \in others}

Lookup(g) ==
  /\ wpc[g] = "lookup"
  /\ \E c \in Readable(g) :
       /\ client' = [client EXCEPT ![g] = c]
       /\ Goto(g, IF c = Nil THEN "insert" ELSE "try")
  /\ UNCHANGED <<clock, processes, timing, maps>>

BeginInsert(g) ==
  /\ wpc[g] = "insert"
  /\ Goto(g, "inserting")
  /\ torn' = IF Inserting(g) = {} THEN torn ELSE torn \cup Inserting(g) \cup {g}
  /\ raced' = (raced \/ Inserting(g) # {})
  /\ UNCHANGED <<clock, processes, waiting, clients, health>>

EndInsert(g) ==
  /\ wpc[g] = "inserting"
  /\ clients' \in Written(clients, List[g], List[g], g \notin torn)
  /\ torn' = torn \ {g}
  /\ Goto(g, "reread")
  /\ UNCHANGED <<clock, processes, waiting, health, raced>>

\* The client is read back; if the map has lost it this is nil, and calling
\* it panics.
Reread(g) ==
  /\ wpc[g] = "reread"
  /\ \E c \in Readable(g) :
       \/ /\ c # Nil /\ client' = [client EXCEPT ![g] = c]
          /\ Goto(g, "try")
          /\ UNCHANGED <<clock, processes, timing, maps>>
       \/ c = Nil /\ Crash

\* The runtime may notice that a map is used while it is written, and then
\* ends the process.
ConcurrentMapAccess(g) ==
  /\ \/ wpc[g] \in {"lookup", "insert", "reread"} /\ Inserting(g) # {}
     \/ wpc[g] = "record" /\ Recording(g) # {}
  /\ Crash

-----------------------------------------------------------------------------
(* WaitUntilReady, for the goroutines and for the command line.            *)

\* Everybody starts to wait at time 0, when the container is started.
Elapsed(w) == clock

\* Mutant: there is no time when the pause to come does not fit in it.
ExpiredEarly(w) == Elapsed(w) + ival[w] >= TimeoutOf(w)

Expired(w) == Elapsed(w) >= TimeoutOf(w)

\* A call to /ServerInfo/List.  It finds the server listening or it fails.
Try(w) ==
  /\ wpc[w] = "try" /\ ~Expired(w)
  /\ reached' = [reached EXCEPT ![w] = client[w] \in Servers /\ server[client[w]] = "listening"]
  /\ \E d \in 0 .. MaxCall : wake' = [wake EXCEPT ![w] = clock + d]
  /\ Goto(w, "calling")
  /\ UNCHANGED <<clock, processes, client, ival, result, maps>>

\* The local variables end with the call.
Return(w, r) ==
  /\ ival' = [ival EXCEPT ![w] = FirstInterval]
  /\ wake' = [wake EXCEPT ![w] = 0]
  /\ reached' = [reached EXCEPT ![w] = FALSE]
  /\ result' = [result EXCEPT ![w] = r]
  /\ Goto(w, IF w = Cli THEN "done" ELSE "record")

Ready(w) ==
  /\ wpc[w] = "calling" /\ wake[w] <= clock /\ reached[w]
  /\ Return(w, "ok")
  /\ UNCHANGED <<clock, processes, client, maps>>

\* Mutant: the pauses quadruple.
PauseLonger(w) ==
  /\ wpc[w] = "calling" /\ wake[w] <= clock /\ ~reached[w]
  /\ wake' = [wake EXCEPT ![w] = clock + ival[w]]
  /\ ival' = [ival EXCEPT ![w] = IF @ <= MaxInterval THEN 4 * @ ELSE @]
  /\ Goto(w, "sleeping")
  /\ UNCHANGED <<clock, processes, client, reached, result, maps>>

Pause(w) ==
  /\ wpc[w] = "calling" /\ wake[w] <= clock /\ ~reached[w]
  /\ wake' = [wake EXCEPT ![w] = clock + ival[w]]
  /\ ival' = [ival EXCEPT ![w] = IF @ <= MaxInterval THEN 2 * @ ELSE @]
  /\ Goto(w, "sleeping")
  /\ UNCHANGED <<clock, processes, client, reached, result, maps>>

Wake(w) ==
  /\ wpc[w] = "sleeping" /\ wake[w] <= clock
  /\ wake' = [wake EXCEPT ![w] = 0]
  /\ Goto(w, "try")
  /\ UNCHANGED <<clock, processes, client, ival, reached, result, maps>>

GiveUp(w) ==
  /\ wpc[w] = "try" /\ Expired(w)
  /\ Return(w, "err")
  /\ UNCHANGED <<clock, processes, client, maps>>

BeginRecord(g) ==
  /\ wpc[g] = "record"
  /\ Goto(g, "recording")
  /\ torn' = IF Recording(g) = {} THEN torn ELSE torn \cup Recording(g) \cup {g}
  /\ UNCHANGED <<clock, processes, waiting, clients, health, raced>>

\* The goroutine ends and its variables with it.
EndRecord(g) ==
  /\ wpc[g] = "recording"
  /\ health' \in Written(health, List[g], result[g], g \notin torn)
  /\ torn' = torn \ {g}
  /\ client' = [client EXCEPT ![g] = Nil]
  /\ result' = [result EXCEPT ![g] = Nil]
  /\ Goto(g, "done")
  /\ UNCHANGED <<clock, processes, ival, wake, reached, clients, raced>>

WaitUntilReady(w) ==
  /\ Runs(w)
  /\ Try(w) \/ Ready(w) \/ Pause(w) \/ Wake(w) \/ GiveUp(w)

HealthStep(g) ==
  /\ Alive
  /\ \/ Lookup(g) \/ BeginInsert(g) \/ EndInsert(g) \/ Reread(g)
     \/ ConcurrentMapAccess(g) \/ BeginRecord(g) \/ EndRecord(g)

-----------------------------------------------------------------------------
(* The service's main program, and the command line that waits for it.     *)

\* Mutant: a goroutine adds itself to the group, so one that has not begun
\* yet is not waited for.
AllBegunRecorded == \A g \in Healths : wpc[g] \in {"lookup", "done"}

AllRecorded == \A g \in Healths : wpc[g] = "done"

\* Mutant: an analyzer that is not healthy keeps the service from starting.
MayProceedHealthy ==
  server[Service] = "waiting" /\ AllRecorded /\ \A a \in Addresses : health[a] = "ok"

MayProceed == server[Service] = "waiting" /\ AllRecorded

\* An analyzer that is not healthy is logged; the service starts anyway, and
\* the results are not looked at again.
Proceed ==
  /\ MayProceed
  /\ \E flag \in AsService : Becomes(Service, IF flag THEN "register" ELSE "stdin")
  /\ health' = [a \in Addresses |-> Nil]
  /\ UNCHANGED <<clock, methods, since, wpc, waiting, clients, torn, raced>>

\* One request is read, run and answered, unless it cannot be read.
AnswerStdin ==
  /\ server[Service] = "stdin"
  /\ Becomes(Service, "exited") \/ Becomes(Service, "dead")
  /\ UNCHANGED <<clock, methods, since, wpc, waiting, maps>>

\* The command line cleans up when the service does not become ready, which
\* stops the container unless it should stay up.
StopContainer ==
  /\ wpc[Cli] = "done" /\ result[Cli] = "err" /\ Alive
  /\ Crash

Busy(w) ==
  /\ Runs(w)
  /\ \/ wpc[w] \in {"calling", "sleeping"} /\ wake[w] <= clock
     \/ wpc[w] \notin {"calling", "sleeping", "done"}

MainBusy ==
  \/ \E s \in Servers : server[s] \in {"bind", "register", "stdin"}
  \/ MayProceed

SomeoneWaits == \E w \in Waiters : Runs(w) /\ wpc[w] # "done"

Tick ==
  /\ clock < Horizon /\ SomeoneWaits /\ ~MainBusy /\ \A w \in Waiters : ~Busy(w)
  /\ clock' = clock + 1
  /\ UNCHANGED <<processes, wpc, waiting, maps>>

AllOver == (~SomeoneWaits \/ clock = Horizon) /\ UNCHANGED vars

ServerStep(s) == Register(s) \/ Listen(s) \/ ListenFails(s)

Next ==
  \/ \E s \in Servers : ServerStep(s)
  \/ \E w \in Waiters : WaitUntilReady(w)
  \/ \E g \in Healths : HealthStep(g)
  \/ Proceed \/ AnswerStdin \/ StopContainer \/ Tick \/ AllOver

Spec == Init /\ [][Next]_vars

\* What can go on goes on, in whatever order: goroutines, calls to a server,
\* main programs and time.  No analyzer need ever come up.
FairSpec ==
  /\ Spec
  /\ WF_vars(\/ \E w \in Waiters : WaitUntilReady(w)
             \/ \E g \in Healths : HealthStep(g)
             \/ \E s \in Servers : Listen(s) \/ ListenFails(s)
             \/ Register(Service) \/ Proceed \/ AnswerStdin \/ Tick)

-----------------------------------------------------------------------------
(* Properties.                                                             *)

\* WaitUntilReady looks at the clock only before a call, so it returns after
\* its timeout; the doubling of the pause bounds by how much.
ReturnsInTime ==
  \A w \in Waiters : Runs(w) /\ wpc[w] \in {"try", "calling", "sleeping"} =>
    Elapsed(w) <= 2 * TimeoutOf(w) + FirstInterval + MaxCall

\* When a server has been listening for long enough that a waiter must find
\* it: with the pauses doubling, since before half of its timeout.
EarlyFor(w, time) == 2 * time + FirstInterval + MaxCall < TimeoutOf(w)

\* A server that comes up in the first half of a timeout is not given up by
\* one whose client is for it.  In the second half it may be: the pause that
\* begins then may be the last.
FoundInFirstHalf ==
  \A w \in Waiters : result[w] = "err" =>
    LET t == client[w]
    IN t \in Servers /\ since[t] # Nil => ~EarlyFor(w, since[t])

\* The command line's timeout is shorter than the service's, so it gives up
\* although everything is well when an analyzer is slow, but not otherwise:
\* if every analyzer is early, the service is early for the command line.
CliFindsService ==
  result[Cli] = "err" =>
    \/ since[Service] = Nil /\ server[Service] \in {"dead", "exited"}
    \/ \E a \in Addresses :
         \/ a \notin Servers \/ since[a] = Nil
         \/ ~EarlyFor(Cli, 2 * since[a] + FirstInterval + 2 * MaxCall)

Serving == server[Service] \in {"register", "bind", "listening", "stdin"}

\* Requests, which are served concurrently, find a client for every analyzer
\* and do not write the map.
ClientsCached == Serving => \A a \in Addresses : clients[a] = a

\* That is so, whenever the analyzers come up and however often they are
\* listed, unless insertions overlapped before the service started.  Then an
\* entry that was read back may be gone, although driver.go:480 says that
\* getHTTPClient "provides a (cached) HTTPClient for the address specified".
CachedUnlessRaced == ~raced => ClientsCached

\* Every analyzer's health is known when WaitForAnalyzers returns
\* (driver.go:230, "Returns a mapping of which analyzers had which errors").
EveryHealthReported == MayProceed => \A a \in Addresses : health[a] # Nil

\* Whatever the analyzers do, the service starts, or it has stopped.
Starts == <>(server[Service] \in {"listening", "exited", "dead"})
=============================================================================
