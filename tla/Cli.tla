--------------------------------- MODULE Cli ---------------------------------
(***************************************************************************)
(* Invocations of the command line (shipshape/cli).  Each pulls images,    *)
(* starts the containers of third-party analyzers in parallel, finds or    *)
(* starts the container of the service, calls it, perhaps builds with      *)
(* kythe and calls it again, and cleans up.  Invocations share the         *)
(* daemon's containers by name and know nothing of each other; one may be  *)
(* killed anywhere, a container may stop by itself, and the daemon may     *)
(* refuse to stop or to remove one.                                        *)
(***************************************************************************)
EXTENDS Docker, Sequences, FiniteSets

CONSTANTS
  Invocations, \* identities of the invocations
  Workload,    \* the options they may be given
  MaxFaults,   \* bound on kills, on containers that stop by themselves and on
               \* containers that cannot be stopped or removed
  Nil

\* analyzers maps each position to an image or Nil; the positions in use are
\* 0, 1, ... without a gap.
Options == [mode : {"run", "categories", "start"}, dir : Dirs,
            analyzers : [Ids -> ThirdParty \cup {Nil}], stayUp : BOOLEAN, build : BOOLEAN]

ASSUME OptionsTyped ==
  /\ Workload \subseteq Options /\ MaxFaults \in Nat
  /\ Nil \notin Dirs \cup Images \cup Options
  /\ \A o \in Workload :
       LET used == {k \in Ids : o.analyzers[k] # Nil}
       IN IsFiniteSet(used) /\ used = 0 .. (Cardinality(used) - 1)

VARIABLES
  containers, \* the daemon's containers, by name
  local,      \* the version of each image on this machine
  pc,         \* where each invocation is
  opts,       \* its options
  apc,        \* where the goroutine of each of its analyzers is
  snap,       \* the slice a goroutine read before appends to it
  linked,     \* containers, the analyzers startAnalyzers returns
  sub,        \* the directory relative to the mapped volume, as <<volume, directory>>
  seen,       \* the service container that answers its call
  kythe,      \* whether it got as far as running kythe
  stops,      \* the containers cleanup has yet to stop
  disturbed,  \* those during which another ran, a container stopped by itself
              \* or one they wanted to get rid of stayed
  faults      \* how many of the faults there were

daemon  == <<containers, local>>
startup == <<apc, snap, linked, sub>>
calling == <<seen, kythe>>
env     == <<disturbed, faults>>
vars    == <<daemon, pc, opts, startup, calling, stops, env>>

Wanted(i) == {k \in Ids : opts[i].analyzers[k] # Nil}
getContainerAndAddress(i, k) == <<opts[i].analyzers[k], k>>

\* Mutant: positions that are not in use are named too.
AnalyzerNamesOfAll(i) ==
  [n \in 1 .. Cardinality(Ids) |-> getContainerAndAddress(i, n - 1)]

\* The containers of the invocation's analyzers.
AnalyzerNames(i) ==
  [n \in 1 .. Cardinality(Wanted(i)) |-> getContainerAndAddress(i, n - 1)]

Active == {i \in Invocations : pc[i] \notin {"idle", "exited"}}

Init ==
  /\ containers = [n \in Names |-> Absent]
  /\ local = [m \in Images |-> 1]
  /\ pc = [i \in Invocations |-> "idle"]
  /\ opts = [i \in Invocations |-> Nil]
  /\ apc = [i \in Invocations |-> [k \in Ids |-> "check"]]
  /\ snap = [i \in Invocations |-> [k \in Ids |-> {}]]
  /\ linked = [i \in Invocations |-> {}]
  /\ sub = [i \in Invocations |-> Nil]
  /\ seen = [i \in Invocations |-> Absent]
  /\ kythe = [i \in Invocations |-> FALSE]
  /\ stops = [i \in Invocations |-> <<>>]
  /\ disturbed = {} /\ faults = 0

Goto(i, l) == pc' = [pc EXCEPT ![i] = l]

\* The process ends and its variables with it.
End(i) ==
  /\ Goto(i, "exited")
  /\ opts' = [opts EXCEPT ![i] = Nil]
  /\ apc' = [apc EXCEPT ![i] = [k \in Ids |-> "check"]]
  /\ snap' = [snap EXCEPT ![i] = [k \in Ids |-> {}]]
  /\ linked' = [linked EXCEPT ![i] = {}]
  /\ sub' = [sub EXCEPT ![i] = Nil]
  /\ seen' = [seen EXCEPT ![i] = Absent]
  /\ kythe' = [kythe EXCEPT ![i] = FALSE]
  /\ stops' = [stops EXCEPT ![i] = <<>>]

\* Mutant: only the analyzers that are known to have started are stopped.
StopStarted(i) ==
  (IF kythe[i] THEN <<Kythe>> ELSE <<>>)
    \o (IF opts[i].stayUp THEN <<>> ELSE <<Service>>)
    \o SelectSeq(AnalyzerNames(i), LAMBDA n : n \in linked[i])

\* What the deferred calls stop: kythe, the service unless it should stay
\* up, and every analyzer, "even the ones that had trouble starting".
StopList(i) ==
  (IF kythe[i] THEN <<Kythe>> ELSE <<>>)
    \o (IF opts[i].stayUp THEN <<>> ELSE <<Service>>)
    \o AnalyzerNames(i)

Cleanup(i) ==
  /\ Goto(i, "cleanup")
  /\ stops' = [stops EXCEPT ![i] = StopList(i)]

-----------------------------------------------------------------------------
(* startServices, up to the analyzers.                                     *)

Begin(i) ==
  /\ pc[i] = "idle"
  /\ disturbed' = IF Active = {} THEN disturbed ELSE disturbed \cup Active \cup {i}
  /\ opts' \in {[opts EXCEPT ![i] = o] : o \in Workload}
  /\ Goto(i, "pull")
  /\ UNCHANGED <<daemon, startup, calling, stops, faults>>

\* The path is not one, or docker is not there: there is nothing to clean up.
BadStart(i) ==
  /\ pc[i] = "pull"
  /\ End(i)
  /\ disturbed' = disturbed \ {i}
  /\ UNCHANGED <<daemon, faults>>

PullImages(i) ==
  /\ pc[i] = "pull"
  /\ local' \in Pull(local, {"service"} \cup {opts[i].analyzers[k] : k \in Wanted(i)})
  /\ Goto(i, "analyzers")
  /\ UNCHANGED <<containers, opts, startup, calling, stops, env>>

AnalyzerGoto(i, k, l) == apc' = [apc EXCEPT ![i][k] = l]
AnalyzerAt(i, k, l) == pc[i] = "analyzers" /\ k \in Wanted(i) /\ apc[i][k] = l

\* An analyzer that is reused is not among the containers returned.
CheckAnalyzer(i, k) ==
  /\ AnalyzerAt(i, k, "check")
  /\ AnalyzerGoto(i, k, IF ImageMatches(containers, local, opts[i].analyzers[k],
                                        getContainerAndAddress(i, k))
                        THEN "done" ELSE "stop")
  /\ UNCHANGED <<daemon, pc, opts, snap, linked, sub, calling, stops, env>>

StopAnalyzer(i, k) ==
  /\ AnalyzerAt(i, k, "stop")
  /\ LET r == DockerStop(containers, getContainerAndAddress(i, k))
     IN containers' = r.containers /\ AnalyzerGoto(i, k, IF r.ok THEN "rm" ELSE "run")
  /\ UNCHANGED <<local, pc, opts, snap, linked, sub, calling, stops, env>>

RemoveAnalyzer(i, k) ==
  /\ AnalyzerAt(i, k, "rm")
  /\ containers' = DockerRm(containers, getContainerAndAddress(i, k)).containers
  /\ AnalyzerGoto(i, k, "run")
  /\ UNCHANGED <<local, pc, opts, snap, linked, sub, calling, stops, env>>

StartAnalyzer(i, k) ==
  /\ AnalyzerAt(i, k, "run")
  /\ \E r \in RunAnalyzer(containers, local, opts[i].analyzers[k],
                          getContainerAndAddress(i, k), opts[i].dir) :
       containers' = r.containers /\ AnalyzerGoto(i, k, IF r.ok THEN "append" ELSE "done")
  /\ UNCHANGED <<local, pc, opts, snap, linked, sub, calling, stops, env>>

\* containers = append(containers, analyzerContainer), without a lock: what
\* another goroutine appends between the read and the write is lost.
ReadSlice(i, k) ==
  /\ AnalyzerAt(i, k, "append")
  /\ snap' = [snap EXCEPT ![i][k] = linked[i]]
  /\ AnalyzerGoto(i, k, "store")
  /\ UNCHANGED <<daemon, pc, opts, linked, sub, calling, stops, env>>

WriteSlice(i, k) ==
  /\ AnalyzerAt(i, k, "store")
  /\ linked' = [linked EXCEPT ![i] = snap[i][k] \cup {getContainerAndAddress(i, k)}]
  /\ AnalyzerGoto(i, k, "done")
  /\ UNCHANGED <<daemon, pc, opts, snap, sub, calling, stops, env>>

AnalyzersUp(i) ==
  /\ pc[i] = "analyzers" /\ \A k \in Wanted(i) : apc[i][k] = "done"
  /\ Goto(i, "service")
  /\ apc' = [apc EXCEPT ![i] = [k \in Ids |-> "check"]]
  /\ snap' = [snap EXCEPT ![i] = [k \in Ids |-> {}]]
  /\ UNCHANGED <<daemon, opts, linked, sub, calling, stops, env>>

AnalyzerStep(i, k) ==
  \/ CheckAnalyzer(i, k) \/ StopAnalyzer(i, k) \/ RemoveAnalyzer(i, k)
  \/ StartAnalyzer(i, k) \/ ReadSlice(i, k) \/ WriteSlice(i, k)

-----------------------------------------------------------------------------
(* startShipshapeService.                                                  *)

FindService(i) ==
  /\ pc[i] = "service"
  /\ Goto(i, IF ContainerExists(containers, Service) THEN "inspect" ELSE "runservice")
  /\ UNCHANGED <<daemon, opts, startup, calling, stops, env>>

DockerFails(i) ==
  /\ pc[i] = "service"
  /\ Cleanup(i)
  /\ UNCHANGED <<daemon, opts, startup, calling, env>>

\* Mutant: what the service is linked to is not looked at.
UsableUnlinked(i) ==
  /\ MappedVolume(containers, opts[i].dir, Service)
  /\ ImageMatches(containers, local, "service", Service)

\* Whether the container can be used as it is.  Nothing asks whether it runs.
Usable(i) ==
  /\ MappedVolume(containers, opts[i].dir, Service)
  /\ ImageMatches(containers, local, "service", Service)
  /\ ContainsLinks(containers, Service, linked[i])

InspectService(i) ==
  /\ pc[i] = "inspect"
  /\ IF Usable(i)
     THEN /\ sub' = [sub EXCEPT ![i] = <<containers[Service].dir, opts[i].dir>>]
          /\ Goto(i, "wait")
     ELSE UNCHANGED sub /\ Goto(i, "stopservice")
  /\ UNCHANGED <<daemon, opts, apc, snap, linked, calling, stops, env>>

StopService(i) ==
  /\ pc[i] = "stopservice"
  /\ LET r == DockerStop(containers, Service)
     IN containers' = r.containers /\ Goto(i, IF r.ok THEN "rmservice" ELSE "runservice")
  /\ UNCHANGED <<local, opts, startup, calling, stops, env>>

RemoveService(i) ==
  /\ pc[i] = "rmservice"
  /\ containers' = DockerRm(containers, Service).containers
  /\ Goto(i, "runservice")
  /\ UNCHANGED <<local, opts, startup, calling, stops, env>>

StartService(i) ==
  /\ pc[i] = "runservice"
  /\ \E r \in RunService(containers, local, "service", opts[i].dir, linked[i]) :
       /\ containers' = r.containers
       /\ \/ r.ok /\ Goto(i, "wait") /\ UNCHANGED stops
          \/ ~r.ok /\ Cleanup(i)
  /\ sub' = [sub EXCEPT ![i] = <<opts[i].dir, opts[i].dir>>]
  /\ UNCHANGED <<local, opts, apc, snap, linked, calling, env>>

ServiceUp == containers[Service] # Absent /\ containers[Service].up

WaitUntilReady(i) ==
  /\ pc[i] = "wait" /\ ServiceUp
  /\ IF opts[i].mode = "start" THEN Cleanup(i)
     ELSE Goto(i, "call") /\ UNCHANGED stops
  /\ UNCHANGED <<daemon, opts, startup, calling, env>>

NotReady(i) ==
  /\ pc[i] = "wait"
  /\ Cleanup(i)
  /\ UNCHANGED <<daemon, opts, startup, calling, env>>

-----------------------------------------------------------------------------
(* Run and ShowCategories.                                                 *)

\* The port, not the container, is what the client knows.
Call(i) ==
  /\ pc[i] = "call" /\ ServiceUp
  /\ seen' = [seen EXCEPT ![i] = containers[Service]]
  /\ Goto(i, "stream")
  /\ UNCHANGED <<daemon, opts, startup, kythe, stops, env>>

\* The host directory that the requested path stands for in the container
\* that answers: Nil when there is no such path there.
Analyzed(i) ==
  IF sub[i][1] = sub[i][2] THEN seen[i].dir
  ELSE IF sub[i][1] = seen[i].dir /\ sub[i] \in Inside THEN sub[i][2] ELSE Nil

CallEnds(i) ==
  /\ pc[i] = "stream" /\ containers[Service] = seen[i]
  /\ IF opts[i].mode = "run" /\ opts[i].build /\ ~kythe[i]
     THEN Goto(i, "kythe") /\ UNCHANGED stops
     ELSE Cleanup(i)
  /\ UNCHANGED <<daemon, opts, startup, calling, env>>

CallFails(i) ==
  /\ pc[i] \in {"call", "stream"} \/ (pc[i] = "kythe" /\ ~kythe[i])
  /\ Cleanup(i)
  /\ UNCHANGED <<daemon, opts, startup, calling, env>>

\* outputAsText dereferences the category of every failure, which the driver
\* leaves out when an analyzer did not answer; the deferred calls still run.
OutputPanics(i) ==
  /\ pc[i] = "stream" /\ opts[i].mode = "run"
  /\ Cleanup(i)
  /\ UNCHANGED <<daemon, opts, startup, calling, env>>

\* No container has the name of an image, so what is there of an earlier
\* build is never stopped first.
StartKythe(i) ==
  /\ pc[i] = "kythe" /\ ~kythe[i]
  /\ local' \in Pull(local, {"kythe"})
  /\ kythe' = [kythe EXCEPT ![i] = TRUE]
  /\ UNCHANGED <<containers, pc, opts, startup, seen, stops, env>>

Build(i) ==
  /\ pc[i] = "kythe" /\ kythe[i]
  /\ \E r \in RunKythe(containers, local, "kythe", opts[i].dir) :
       /\ containers' = r.containers
       /\ \/ r.ok /\ Goto(i, "building") /\ UNCHANGED stops
          \/ ~r.ok /\ Cleanup(i)
  /\ UNCHANGED <<local, opts, startup, calling, env>>

\* The build is over, well or not, and its container has stopped.
BuildEnds(i) ==
  /\ pc[i] = "building"
  /\ containers' = DockerStop(containers, Kythe).containers
  /\ \/ Goto(i, "call") /\ UNCHANGED stops
     \/ Cleanup(i)
  /\ UNCHANGED <<local, opts, startup, calling, env>>

-----------------------------------------------------------------------------
(* The deferred calls and the end.                                         *)

\* Mutant: a container that cannot be stopped is tried again after the rest.
CleanupRetries(i) ==
  /\ pc[i] = "cleanup" /\ stops[i] # <<>>
  /\ LET r == DockerStop(containers, Head(stops[i]))
     IN /\ containers' = r.containers
        /\ IF r.ok THEN Goto(i, "remove") /\ UNCHANGED stops
                   ELSE (stops' = [stops EXCEPT ![i] = Append(Tail(@), Head(@))]) /\ UNCHANGED pc
  /\ UNCHANGED <<local, opts, startup, calling, env>>

CleanupStop(i) ==
  /\ pc[i] = "cleanup" /\ stops[i] # <<>>
  /\ LET r == DockerStop(containers, Head(stops[i]))
     IN /\ containers' = r.containers
        /\ IF r.ok THEN Goto(i, "remove") /\ UNCHANGED stops
                   ELSE (stops' = [stops EXCEPT ![i] = Tail(@)]) /\ UNCHANGED pc
  /\ UNCHANGED <<local, opts, startup, calling, env>>

CleanupRemove(i) ==
  /\ pc[i] = "remove"
  /\ containers' = DockerRm(containers, Head(stops[i])).containers
  /\ stops' = [stops EXCEPT ![i] = Tail(@)]
  /\ Goto(i, "cleanup")
  /\ UNCHANGED <<local, opts, startup, calling, env>>

Exit(i) ==
  /\ pc[i] = "cleanup" /\ stops[i] = <<>>
  /\ End(i)
  /\ disturbed' = disturbed \ {i}
  /\ UNCHANGED <<daemon, faults>>

Step(i) ==
  \/ BadStart(i) \/ PullImages(i) \/ AnalyzersUp(i)
  \/ \E k \in Ids : AnalyzerStep(i, k)
  \/ FindService(i) \/ DockerFails(i) \/ InspectService(i) \/ StopService(i)
  \/ RemoveService(i) \/ StartService(i) \/ WaitUntilReady(i) \/ NotReady(i)
  \/ Call(i) \/ CallEnds(i) \/ CallFails(i) \/ OutputPanics(i)
  \/ StartKythe(i) \/ Build(i) \/ BuildEnds(i)
  \/ CleanupStop(i) \/ CleanupRemove(i) \/ Exit(i)

-----------------------------------------------------------------------------
(* What happens to an invocation.                                          *)

\* Nothing handles an interrupt: no deferred call runs.
Kill(i) ==
  /\ i \in Active /\ faults < MaxFaults
  /\ faults' = faults + 1
  /\ End(i)
  /\ disturbed' = disturbed \ {i}
  /\ UNCHANGED daemon

Die(n) ==
  /\ containers[n] # Absent /\ containers[n].up /\ faults < MaxFaults
  /\ containers' = DockerStop(containers, n).containers
  /\ faults' = faults + 1
  /\ disturbed' = disturbed \cup Active
  /\ UNCHANGED <<local, pc, opts, startup, calling, stops>>

\* "docker stop" or "docker rm" fails on a container that is there: it is
\* logged, and the next thing done.
StopRefused(i) ==
  /\ faults < MaxFaults
  /\ faults' = faults + 1
  /\ disturbed' = disturbed \cup {i}
  /\ \/ /\ \E k \in Ids : /\ AnalyzerAt(i, k, "stop") \/ AnalyzerAt(i, k, "rm")
                          /\ AnalyzerGoto(i, k, "run")
        /\ UNCHANGED <<pc, stops>>
     \/ /\ pc[i] \in {"stopservice", "rmservice"}
        /\ Goto(i, "runservice")
        /\ UNCHANGED <<apc, stops>>
     \/ /\ pc[i] \in {"cleanup", "remove"} /\ stops[i] # <<>>
        /\ stops' = [stops EXCEPT ![i] = Tail(@)]
        /\ Goto(i, "cleanup")
        /\ UNCHANGED apc
  /\ UNCHANGED <<daemon, opts, snap, linked, sub, calling>>

AllExited == (\A i \in Invocations : pc[i] = "exited") /\ UNCHANGED vars

Next ==
  \/ \E i \in Invocations : Begin(i) \/ Step(i) \/ Kill(i) \/ StopRefused(i)
  \/ \E n \in Names : Die(n)
  \/ AllExited

Spec == Init /\ [][Next]_vars

\* Every docker command returns, every call to the service ends and every
\* goroutine is scheduled.
FairSpec == Spec /\ \A i \in Invocations : WF_vars(Step(i))

-----------------------------------------------------------------------------
(* Properties.                                                             *)

TypeOK ==
  /\ containers \in [Names -> Container \cup {Absent}]
  /\ local \in [Images -> 1 .. 2]
  /\ pc \in [Invocations -> {"idle", "pull", "analyzers", "service", "inspect",
               "stopservice", "rmservice", "runservice", "wait", "call", "stream",
               "kythe", "building", "cleanup", "remove", "exited"}]
  /\ opts \in [Invocations -> Workload \cup {Nil}]
  /\ apc \in [Invocations -> [Ids -> {"check", "stop", "rm", "run", "append", "store", "done"}]]
  /\ snap \in [Invocations -> [Ids -> SUBSET Names]]
  /\ linked \in [Invocations -> SUBSET Names]
  /\ sub \in [Invocations -> (Dirs \X Dirs) \cup {Nil}]
  /\ seen \in [Invocations -> Container \cup {Absent}]
  /\ kythe \in [Invocations -> BOOLEAN]
  /\ stops \in [Invocations -> Seq(Names)]
  /\ disturbed \subseteq Invocations /\ faults \in 0 .. MaxFaults

Undisturbed == Invocations \ disturbed

\* An invocation nothing interferes with, whatever earlier ones left behind,
\* is served by the current image from its own directory.  The exception is
\* a directory whose path only starts like the mapped one: the requested
\* path is not in the container then (shipshape_lib.go, 267-268: "the
\* relative path from the docker container's mapped volume").
ServedAsAsked ==
  \A i \in Undisturbed : pc[i] = "stream" =>
    /\ seen[i].version = local["service"]
    /\ sub[i] \notin Prefixed \ Inside => Analyzed(i) = opts[i].dir

\* It is served with the analyzers it knows it started, unless the service
\* has one whose name ends like theirs.
LinkedAsStarted ==
  \A i \in Undisturbed : pc[i] = "stream" =>
    \A l \in linked[i] \ seen[i].links : \E m \in seen[i].links : <<l[1], m[1]>> \in SuffixOf

\* A container that is up and was asked for is part of the service (the
\* comment at shipshape_lib.go:263-264, "attached analyzers").
AnalyzersAttached ==
  \A i \in Undisturbed : pc[i] = "stream" =>
    \A k \in Wanted(i) :
      LET n == getContainerAndAddress(i, k)
      IN containers[n] # Absent /\ containers[n].up => n \in seen[i].links

\* Whatever an earlier invocation or a crash left, the names are free by the
\* time containers are started (shipshape_lib.go, 295-298 and 384-390).
NamesFree ==
  \A i \in Undisturbed :
    /\ pc[i] = "runservice" => containers[Service] = Absent
    /\ \A k \in Ids : AnalyzerAt(i, k, "run") =>
         containers[getContainerAndAddress(i, k)] = Absent

\* However it ends, an invocation that is not killed leaves none of the
\* containers it should stop, not even those that failed to start.
CleanedUp ==
  \A i \in Undisturbed : pc[i] = "cleanup" /\ stops[i] = <<>> =>
    /\ ~opts[i].stayUp => containers[Service] = Absent
    /\ kythe[i] => containers[Kythe] = Absent
    /\ \A k \in Wanted(i) : containers[getContainerAndAddress(i, k)] = Absent

\* Every invocation comes to an end, even when others remove its containers
\* or run under the same names.
Ends == \A i \in Invocations : pc[i] = "pull" ~> pc[i] = "exited"
=============================================================================
