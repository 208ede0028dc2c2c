------------------------------ MODULE CliProofs ------------------------------
(***************************************************************************)
(* Theorems about invocations of the command line: an invocation that      *)
(* nothing disturbs finds its names free, is served from its directory and *)
(* leaves nothing behind, whatever earlier ones or crashes left, for any   *)
(* number of invocations, analyzers, directories and images.               *)
(***************************************************************************)
EXTENDS Cli, FiniteSetTheorems, TLAPS

(***************************************************************************)
(* The inductive invariant.  Of an invocation nothing disturbs, each place *)
(* says what is known of the containers it has dealt with so far.          *)
(***************************************************************************)

Down(c) == c = Absent \/ ~c.up

\* Only invocations that have the daemon to themselves are undisturbed.
AloneInv == \A i \in Active, j \in Active : i # j => i \in disturbed

Running ==
  \A i \in Active : opts[i] \in Workload /\ (pc[i] = "remove" => stops[i] # << >>)

\* The goroutines of the analyzers run in one place only.
Fresh == \A i \in Invocations : pc[i] # "analyzers" => apc[i] = [k \in Ids |-> "check"]

\* The containers of the goroutines of i that have stopped one, or none.
AnalyzersOf(i) ==
  \A k \in Ids :
    /\ AnalyzerAt(i, k, "rm") => Down(containers[getContainerAndAddress(i, k)])
    /\ AnalyzerAt(i, k, "run") => containers[getContainerAndAddress(i, k)] = Absent

\* The service container is the current image's, serves the directory that
\* was asked for, and has the links it should.
Fits(i) ==
  /\ containers[Service] # Absent
  /\ containers[Service].version = local["service"]
  /\ sub[i] \in Prefixed
  /\ sub[i][1] = containers[Service].dir /\ sub[i][2] = opts[i].dir
  /\ \A l \in linked[i] : \E m \in containers[Service].links : Occurs(l, m)

ServiceOf(i) ==
  /\ pc[i] = "rmservice" => Down(containers[Service])
  /\ pc[i] = "runservice" => containers[Service] = Absent
  /\ pc[i] \in {"wait", "call", "stream", "kythe", "building"} => Fits(i)
  /\ pc[i] = "stream" => seen[i] = containers[Service]

ToStop(i) ==
  (IF kythe[i] THEN {Kythe} ELSE {}) \cup (IF opts[i].stayUp THEN {} ELSE {Service})
    \cup {getContainerAndAddress(i, k) : k \in Wanted(i)}

ElementsOf(s) == {s[n] : n \in DOMAIN s}

CleanupOf(i) ==
  /\ pc[i] \in {"cleanup", "remove"} =>
       \A n \in ToStop(i) \ ElementsOf(stops[i]) : containers[n] = Absent
  /\ pc[i] = "remove" => Down(containers[Head(stops[i])])

OwnInv == \A i \in Active \ disturbed : AnalyzersOf(i) /\ ServiceOf(i) /\ CleanupOf(i)

CliInv == TypeOK /\ Running /\ Fresh /\ AloneInv /\ OwnInv

(***************************************************************************)
(* The docker commands.                                                    *)
(***************************************************************************)

Containers == [Names -> Container \cup {Absent}]

Started(c) == [c EXCEPT !.up = TRUE]

\* No analyzer has the name of the service or of kythe.
LEMMA NamesApart ==
  /\ Service \in Names /\ Kythe \in Names /\ Service # Kythe
  /\ \A m \in ThirdParty, k \in Ids : <<m, k>> \in Names /\ <<m, k>> # Service /\ <<m, k>> # Kythe
BY DockerTyped DEF Names, Service, Kythe

\* Setting whether a container is up leaves the rest of it alone.
LEMMA SetUp ==
  ASSUME NEW c \in Container, NEW b \in BOOLEAN
  PROVE  /\ [c EXCEPT !.up = b] \in Container /\ [c EXCEPT !.up = b].up = b
         /\ [c EXCEPT !.up = b].image = c.image /\ [c EXCEPT !.up = b].version = c.version
         /\ [c EXCEPT !.up = b].dir = c.dir /\ [c EXCEPT !.up = b].links = c.links
BY Zenon DEF Container

\* A container is put under one name only.
LEMMA PutTyped ==
  ASSUME NEW cs \in Containers, NEW name \in Names, NEW c \in Container \cup {Absent}
  PROVE  /\ Put(cs, name, c) \in Containers /\ Put(cs, name, c)[name] = c
         /\ \A m \in Names \ {name} : Put(cs, name, c)[m] = cs[m]
BY DEF Put, Containers

\* "docker stop" fails only on a container that does not exist.
LEMMA StopOutcome ==
  ASSUME NEW cs \in Containers, NEW name \in Names, NEW r, r = DockerStop(cs, name)
  PROVE  /\ r.containers \in Containers
         /\ \A m \in Names \ {name} : r.containers[m] = cs[m]
         /\ Down(r.containers[name])
         /\ cs[name] = Absent => r.containers[name] = Absent
         /\ ~r.ok => r.containers[name] = Absent
<1>1. CASE cs[name] = Absent
  <2>1. r = [containers |-> cs, ok |-> FALSE]
    BY <1>1, Zenon DEF DockerStop, Outcome
  <2>2. r.containers = cs
    BY <2>1
  <2> QED BY <1>1, <2>2 DEF Down
<1>2. CASE cs[name] # Absent
  <2> DEFINE c == [cs[name] EXCEPT !.up = FALSE]
  <2>1. r = [containers |-> Put(cs, name, c), ok |-> TRUE]
    BY <1>2 DEF DockerStop, Outcome
  <2>2. cs[name] \in Container
    BY <1>2 DEF Containers
  <2>3. c \in Container /\ ~c.up
    BY <2>2, SetUp, Zenon
  <2> HIDE DEF c
  <2>4. r.containers = Put(cs, name, c) /\ r.ok
    <3>1. ASSUME NEW x, NEW y, x = [containers |-> y, ok |-> TRUE]
          PROVE  x.containers = y /\ x.ok
      BY <3>1, Zenon
    <3> QED BY <2>1, <3>1
  <2>5. /\ Put(cs, name, c) \in Containers /\ Put(cs, name, c)[name] = c
        /\ \A m \in Names \ {name} : Put(cs, name, c)[m] = cs[m]
    BY <2>3, PutTyped
  <2>6. r.containers[name] = c
    BY <2>4, <2>5
  <2>7. Down(r.containers[name])
    BY <2>3, <2>6, Zenon DEF Down
  <2> QED BY <1>2, <2>4, <2>5, <2>7
<1> QED BY <1>1, <1>2

\* "docker rm" removes a container that does not run.
LEMMA RmOutcome ==
  ASSUME NEW cs \in Containers, NEW name \in Names, NEW r, r = DockerRm(cs, name)
  PROVE  /\ r.containers \in Containers
         /\ \A m \in Names \ {name} : r.containers[m] = cs[m]
         /\ Down(cs[name]) => r.containers[name] = Absent
<1>1. CASE cs[name] = Absent \/ cs[name].up
  <2>1. r.containers = cs
    BY <1>1, Zenon DEF DockerRm, Outcome
  <2> QED BY <1>1, <2>1, Zenon DEF Down
<1>2. CASE ~(cs[name] = Absent \/ cs[name].up)
  <2>1. r.containers = Put(cs, name, Absent)
    BY <1>2, Zenon DEF DockerRm, Outcome
  <2> QED BY <2>1, PutTyped
<1> QED BY <1>1, <1>2

\* "docker run" succeeds only where there is no container of the name, and
\* may leave one that does not run.
LEMMA RunOutcome ==
  ASSUME NEW cs \in Containers, NEW name \in Names, NEW c \in Container,
         NEW r \in DockerRun(cs, name, c)
  PROVE  /\ r.containers \in Containers
         /\ \A m \in Names \ {name} : r.containers[m] = cs[m]
         /\ r.ok => r.containers[name] = Started(c)
<1> DEFINE off == [c EXCEPT !.up = FALSE]
<1>1. off \in Container /\ Started(c) \in Container
  BY SetUp DEF Started
<1>2. \/ r = [containers |-> cs, ok |-> FALSE]
      \/ r = [containers |-> Put(cs, name, off), ok |-> FALSE]
      \/ r = [containers |-> Put(cs, name, Started(c)), ok |-> TRUE]
  BY Zenon DEF DockerRun, Outcome, Started
<1> HIDE DEF off
<1>3. CASE r = [containers |-> cs, ok |-> FALSE]
  <2>1. r.containers = cs /\ ~r.ok
    BY <1>3, Zenon
  <2> QED BY <2>1
<1>4. CASE r = [containers |-> Put(cs, name, off), ok |-> FALSE]
  <2>1. r.containers = Put(cs, name, off) /\ ~r.ok
    BY <1>4, Zenon
  <2> QED BY <1>1, <2>1, PutTyped
<1>5. CASE r = [containers |-> Put(cs, name, Started(c)), ok |-> TRUE]
  <2>1. r.containers = Put(cs, name, Started(c)) /\ r.ok
    BY <1>5, Zenon
  <2>2. /\ Put(cs, name, Started(c)) \in Containers /\ Put(cs, name, Started(c))[name] = Started(c)
        /\ \A m \in Names \ {name} : Put(cs, name, Started(c))[m] = cs[m]
    BY <1>1, PutTyped
  <2> QED BY <2>1, <2>2, Zenon
<1> QED BY <1>2, <1>3, <1>4, <1>5

\* What "docker run" is given: the current image, the directory, the links.
LEMMA RunTyped ==
  ASSUME NEW cs \in Containers, NEW loc \in [Images -> 1 .. 2], NEW name \in Names,
         NEW image \in Images, NEW dir \in Dirs, NEW links \in SUBSET Names,
         NEW r \in RunContainer(cs, loc, name, image, dir, links)
  PROVE  /\ r.containers \in Containers
         /\ \A m \in Names \ {name} : r.containers[m] = cs[m]
         /\ r.ok => /\ r.containers[name] # Absent /\ r.containers[name].version = loc[image]
                    /\ r.containers[name].dir = dir /\ r.containers[name].links = links
<1> DEFINE c == [image |-> image, version |-> loc[image], dir |-> dir, links |-> links,
                 up |-> TRUE]
<1>1. loc[image] \in 1 .. 2
  OBVIOUS
<1>2. c \in Container
  BY <1>1, Zenon DEF Container
<1>3. c.version = loc[image] /\ c.dir = dir /\ c.links = links
  OBVIOUS
<1>4. r \in DockerRun(cs, name, c)
  BY DEF RunContainer
<1> HIDE DEF c
<1>5. Started(c) \in Container
  BY <1>2, SetUp DEF Started
<1>6. /\ Started(c).version = c.version /\ Started(c).dir = c.dir
      /\ Started(c).links = c.links
  BY <1>2, SetUp DEF Started
<1>7. Started(c) # Absent
  BY <1>5, DockerTyped
<1>8. /\ r.containers \in Containers
      /\ \A m \in Names \ {name} : r.containers[m] = cs[m]
      /\ r.ok => r.containers[name] = Started(c)
  BY <1>2, <1>4, RunOutcome
<1> QED BY <1>3, <1>6, <1>7, <1>8

(***************************************************************************)
(* Types.  Each group of actions changes few of the variables.             *)
(***************************************************************************)

\* The analyzers of an invocation that runs have images and names.
LEMMA ImagesOfAnalyzers ==
  ASSUME TypeOK, Running, NEW i \in Active
  PROVE  /\ opts[i].dir \in Dirs /\ opts[i].analyzers \in [Ids -> ThirdParty \cup {Nil}]
         /\ \A k \in Wanted(i) : /\ opts[i].analyzers[k] \in ThirdParty
                                  /\ getContainerAndAddress(i, k) \in Names
<1>1. opts[i] \in Options
  BY OptionsTyped DEF Running
<1>2. opts[i].dir \in Dirs /\ opts[i].analyzers \in [Ids -> ThirdParty \cup {Nil}]
  BY <1>1 DEF Options
<1>3. ASSUME NEW k \in Wanted(i)
      PROVE  opts[i].analyzers[k] \in ThirdParty /\ getContainerAndAddress(i, k) \in Names
  BY <1>2, <1>3, NamesApart DEF Wanted, getContainerAndAddress
<1> QED BY <1>2, <1>3

\* The positions in use have no gap, so the names are those of the analyzers.
LEMMA AnalyzersNamed ==
  ASSUME TypeOK, Running, NEW i \in Active
  PROVE  /\ AnalyzerNames(i) \in Seq(Names)
         /\ ElementsOf(AnalyzerNames(i)) = {getContainerAndAddress(i, k) : k \in Wanted(i)}
<1> DEFINE c == Cardinality(Wanted(i))
<1>1. IsFiniteSet(Wanted(i)) /\ Wanted(i) = 0 .. (c - 1)
  BY OptionsTyped DEF Running, Wanted
<1>2. c \in Nat
  BY <1>1, FS_CardinalityType
<1>3. \A n \in 1 .. c : n - 1 \in Wanted(i) /\ getContainerAndAddress(i, n - 1) \in Names
  BY <1>1, <1>2, ImagesOfAnalyzers
<1>4. AnalyzerNames(i) = [n \in 1 .. c |-> getContainerAndAddress(i, n - 1)]
  BY DEF AnalyzerNames
<1> HIDE DEF c
<1>5. AnalyzerNames(i) \in Seq(Names)
  BY <1>2, <1>3, <1>4
<1>6. \A k \in Wanted(i) : k + 1 \in 1 .. c /\ (k + 1) - 1 = k
  BY <1>1, <1>2
<1>7. \A k \in Wanted(i) : AnalyzerNames(i)[k + 1] = getContainerAndAddress(i, k)
  BY <1>4, <1>6
<1>8. DOMAIN AnalyzerNames(i) = 1 .. c
  BY <1>4
<1> QED BY <1>3, <1>4, <1>5, <1>6, <1>7, <1>8 DEF ElementsOf

\* The elements of sequences put together.
LEMMA ElementsOfTwo ==
  ASSUME NEW s \in Seq(Names), NEW t \in Seq(Names)
  PROVE  s \o t \in Seq(Names) /\ ElementsOf(s \o t) = ElementsOf(s) \cup ElementsOf(t)
<1>1. /\ s \o t \in Seq(Names) /\ DOMAIN (s \o t) = 1 .. (Len(s) + Len(t))
      /\ DOMAIN s = 1 .. Len(s) /\ DOMAIN t = 1 .. Len(t)
      /\ Len(s) \in Nat /\ Len(t) \in Nat
  OBVIOUS
<1>2. \A n \in 1 .. (Len(s) + Len(t)) :
        (s \o t)[n] = IF n <= Len(s) THEN s[n] ELSE t[n - Len(s)]
  OBVIOUS
<1>3. ElementsOf(s \o t) \subseteq ElementsOf(s) \cup ElementsOf(t)
  BY <1>1, <1>2 DEF ElementsOf
<1>4. ASSUME NEW n \in DOMAIN s  PROVE s[n] \in ElementsOf(s \o t)
  BY <1>1, <1>2 DEF ElementsOf
<1>5. ASSUME NEW n \in DOMAIN t  PROVE t[n] \in ElementsOf(s \o t)
  <2>1. /\ n + Len(s) \in 1 .. (Len(s) + Len(t)) /\ ~(n + Len(s) <= Len(s))
        /\ (n + Len(s)) - Len(s) = n
    BY <1>1
  <2> QED BY <1>1, <1>2, <2>1 DEF ElementsOf
<1> QED BY <1>1, <1>3, <1>4, <1>5 DEF ElementsOf

\* The elements of the shortest sequences.
LEMMA ElementsOfOne ==
  ASSUME NEW n \in Names
  PROVE  /\ <<n>> \in Seq(Names) /\ ElementsOf(<<n>>) = {n}
         /\ << >> \in Seq(Names) /\ ElementsOf(<< >>) = {}
<1>1. DOMAIN <<n>> = {1} /\ <<n>>[1] = n /\ DOMAIN << >> = {}
  OBVIOUS
<1> QED BY <1>1 DEF ElementsOf

\* A sequence is its head and its tail.
LEMMA ElementsOfTail ==
  ASSUME NEW s \in Seq(Names), s # << >>
  PROVE  /\ Head(s) \in Names /\ Tail(s) \in Seq(Names)
         /\ ElementsOf(s) = {Head(s)} \cup ElementsOf(Tail(s))
<1>1. /\ Head(s) = s[1] /\ Tail(s) \in Seq(Names) /\ Len(Tail(s)) = Len(s) - 1
      /\ DOMAIN s = 1 .. Len(s) /\ DOMAIN Tail(s) = 1 .. Len(Tail(s))
      /\ Len(s) \in Nat \ {0} /\ s[1] \in Names
  OBVIOUS
<1>2. \A n \in 1 .. (Len(s) - 1) : Tail(s)[n] = s[n + 1]
  OBVIOUS
<1>3. ASSUME NEW n \in DOMAIN s, n # 1  PROVE s[n] \in ElementsOf(Tail(s))
  <2>1. n - 1 \in DOMAIN Tail(s) /\ (n - 1) + 1 = n
    BY <1>1, <1>3
  <2> QED BY <1>1, <1>2, <2>1 DEF ElementsOf
<1>4. \A n \in DOMAIN Tail(s) : n + 1 \in DOMAIN s /\ Tail(s)[n] = s[n + 1]
  BY <1>1, <1>2
<1>5. 1 \in DOMAIN s
  BY <1>1
<1> QED BY <1>1, <1>3, <1>4, <1>5 DEF ElementsOf

\* Every container the invocation is to stop is in the list it works on.
LEMMA StopListComplete ==
  ASSUME TypeOK, Running, NEW i \in Active
  PROVE  StopList(i) \in Seq(Names) /\ ElementsOf(StopList(i)) = ToStop(i)
<1> DEFINE a == IF kythe[i] THEN <<Kythe>> ELSE << >>
           b == IF opts[i].stayUp THEN << >> ELSE <<Service>>
<1>1. a \in Seq(Names) /\ ElementsOf(a) = IF kythe[i] THEN {Kythe} ELSE {}
  BY NamesApart, ElementsOfOne, Zenon
<1>2. b \in Seq(Names) /\ ElementsOf(b) = IF opts[i].stayUp THEN {} ELSE {Service}
  BY NamesApart, ElementsOfOne, Zenon
<1>3. StopList(i) = (a \o b) \o AnalyzerNames(i)
  BY Zenon DEF StopList
<1>4. ToStop(i) = ((IF kythe[i] THEN {Kythe} ELSE {})
                    \cup (IF opts[i].stayUp THEN {} ELSE {Service}))
                  \cup {getContainerAndAddress(i, k) : k \in Wanted(i)}
  BY Zenon DEF ToStop
<1> HIDE DEF a, b
<1>5. a \o b \in Seq(Names) /\ ElementsOf(a \o b) = ElementsOf(a) \cup ElementsOf(b)
  BY <1>1, <1>2, ElementsOfTwo
<1>6. /\ (a \o b) \o AnalyzerNames(i) \in Seq(Names)
      /\ ElementsOf((a \o b) \o AnalyzerNames(i)) = ElementsOf(a \o b) \cup ElementsOf(AnalyzerNames(i))
  BY <1>5, AnalyzersNamed, ElementsOfTwo
<1> QED BY <1>1, <1>2, <1>3, <1>4, <1>5, <1>6, AnalyzersNamed, Zenon

\* The end of an invocation resets its variables.
LEMMA EndTyped ==
  ASSUME TypeOK, Running, NEW i \in Invocations, End(i),
         disturbed' = disturbed \ {i}, containers' = containers, local' = local,
         faults' \in 0 .. MaxFaults
  PROVE  TypeOK' /\ Running'
<1>1. kythe' \in [Invocations -> BOOLEAN]
  BY Zenon DEF TypeOK, End
<1>2. stops' \in [Invocations -> Seq(Names)]
  BY DEF TypeOK, End
<1>3. TypeOK'
  BY <1>1, <1>2 DEF TypeOK, End, Goto
<1>4. \A j \in Active' : j # i /\ j \in Active /\ opts'[j] = opts[j] /\ pc'[j] = pc[j] /\ stops'[j] = stops[j]
  BY DEF TypeOK, End, Goto, Active
<1>5. Running'
  BY <1>4, Zenon DEF Running
<1> QED BY <1>3, <1>5

\* Most steps leave the options alone and go to a place, perhaps to cleanup.
LEMMA MoveTyped ==
  ASSUME TypeOK, Running, NEW i \in Active,
         NEW l \in {"pull", "analyzers", "service", "inspect", "stopservice", "rmservice",
                    "runservice", "wait", "call", "stream", "kythe", "building"},
         Goto(i, l) \/ Cleanup(i) \/ UNCHANGED pc, Cleanup(i) \/ UNCHANGED stops,
         UNCHANGED opts
  PROVE  /\ pc' \in [Invocations -> {"idle", "pull", "analyzers", "service", "inspect",
               "stopservice", "rmservice", "runservice", "wait", "call", "stream",
               "kythe", "building", "cleanup", "remove", "exited"}]
         /\ opts' \in [Invocations -> Workload \cup {Nil}]
         /\ stops' \in [Invocations -> Seq(Names)]
         /\ Active' = Active /\ Running'
<1>1. i \in Invocations
  BY DEF Active
<1>2. StopList(i) \in Seq(Names)
  BY StopListComplete
<1>3. stops' \in [Invocations -> Seq(Names)]
  BY <1>1, <1>2 DEF TypeOK, Cleanup
<1>4. pc' \in [Invocations -> {"idle", "pull", "analyzers", "service", "inspect",
               "stopservice", "rmservice", "runservice", "wait", "call", "stream",
               "kythe", "building", "cleanup", "remove", "exited"}]
  BY <1>1 DEF TypeOK, Goto, Cleanup
<1>5. Active' = Active
  BY <1>1 DEF TypeOK, Goto, Cleanup, Active
<1>6. \A j \in Active : (pc'[j] = "remove" => pc[j] = "remove" /\ stops'[j] = stops[j])
  BY <1>1 DEF TypeOK, Goto, Cleanup, Active
<1>7. Running'
  BY <1>5, <1>6 DEF Running
<1> QED BY <1>3, <1>4, <1>5, <1>7 DEF TypeOK

\* A goroutine of an analyzer moves between its places.
LEMMA AnalyzerStepTyped ==
  ASSUME TypeOK, Running, NEW i \in Invocations, NEW k \in Ids, AnalyzerStep(i, k)
  PROVE  TypeOK' /\ Running'
<1> DEFINE n == getContainerAndAddress(i, k)
           m == opts[i].analyzers[k]
<1>1. i \in Active /\ k \in Wanted(i)
  BY DEF AnalyzerStep, CheckAnalyzer, StopAnalyzer, RemoveAnalyzer, StartAnalyzer, ReadSlice,
         WriteSlice, AnalyzerAt, Active
<1>2. n \in Names /\ m \in Images /\ opts[i].dir \in Dirs
  BY <1>1, ImagesOfAnalyzers DEF Images
<1>3. UNCHANGED <<local, pc, opts, sub, seen, kythe, stops, disturbed, faults>>
  BY DEF AnalyzerStep, CheckAnalyzer, StopAnalyzer, RemoveAnalyzer, StartAnalyzer, ReadSlice,
         WriteSlice, daemon, calling, env
<1>4. Running'
  BY <1>3, Zenon DEF Running, Active
<1>5. containers \in Containers /\ local \in [Images -> 1 .. 2]
  BY DEF TypeOK, Containers
<1> HIDE DEF n, m
<1>6. containers' \in Containers
  <2>1. CASE UNCHANGED containers
    BY <1>5, <2>1
  <2>2. CASE StopAnalyzer(i, k)
    BY <1>2, <1>5, <2>2, StopOutcome DEF StopAnalyzer, n
  <2>3. CASE RemoveAnalyzer(i, k)
    BY <1>2, <1>5, <2>3, RmOutcome DEF RemoveAnalyzer, n
  <2>4. CASE StartAnalyzer(i, k)
    <3>1. PICK r \in RunContainer(containers, local, n, m, opts[i].dir, {}) :
            containers' = r.containers
      BY <2>4 DEF StartAnalyzer, RunAnalyzer, n, m
    <3> QED BY <1>2, <1>5, <3>1, RunTyped
  <2> QED BY <2>1, <2>2, <2>3, <2>4 DEF AnalyzerStep, CheckAnalyzer, ReadSlice, WriteSlice, daemon
<1>7. PICK l \in {"check", "stop", "rm", "run", "append", "store", "done"} : AnalyzerGoto(i, k, l)
  <2>1. CASE CheckAnalyzer(i, k)
    BY <2>1, Zenon DEF CheckAnalyzer
  <2>2. CASE StopAnalyzer(i, k)
    BY <2>2, Zenon DEF StopAnalyzer
  <2>3. CASE StartAnalyzer(i, k)
    BY <2>3, Zenon DEF StartAnalyzer
  <2>4. CASE RemoveAnalyzer(i, k) \/ ReadSlice(i, k) \/ WriteSlice(i, k)
    BY <2>4, Zenon DEF RemoveAnalyzer, ReadSlice, WriteSlice
  <2> QED BY <2>1, <2>2, <2>3, <2>4 DEF AnalyzerStep
<1>8. apc' \in [Invocations -> [Ids -> {"check", "stop", "rm", "run", "append", "store", "done"}]]
  BY <1>7 DEF TypeOK, AnalyzerGoto
<1>9. snap' \in [Invocations -> [Ids -> SUBSET Names]] /\ linked' \in [Invocations -> SUBSET Names]
  <2>1. CASE UNCHANGED <<snap, linked>>
    BY <2>1 DEF TypeOK
  <2>2. CASE ReadSlice(i, k)
    BY <2>2 DEF TypeOK, ReadSlice
  <2>3. CASE WriteSlice(i, k)
    BY <1>2, <2>3 DEF TypeOK, WriteSlice, n
  <2> QED BY <2>1, <2>2, <2>3 DEF AnalyzerStep, CheckAnalyzer, StopAnalyzer, RemoveAnalyzer, StartAnalyzer
<1> QED BY <1>3, <1>4, <1>6, <1>8, <1>9 DEF TypeOK, Containers

\* The other steps of one invocation, up to its end.
LEMMA StepTyped ==
  ASSUME TypeOK, Running, NEW i \in Invocations, Step(i)
  PROVE  TypeOK' /\ Running' /\ i \in Active
<1>1. i \in Active
  BY DEF Step, AnalyzerStep, CheckAnalyzer, StopAnalyzer, RemoveAnalyzer, StartAnalyzer,
         ReadSlice, WriteSlice, AnalyzerAt, BadStart, PullImages, AnalyzersUp, FindService,
         DockerFails, InspectService, StopService, RemoveService, StartService,
         WaitUntilReady, NotReady, Call, CallEnds, CallFails, OutputPanics, StartKythe,
         Build, BuildEnds, CleanupStop, CleanupRemove, Exit, Active
<1>2. containers \in Containers /\ local \in [Images -> 1 .. 2] /\ opts[i].dir \in Dirs
      /\ linked[i] \in SUBSET Names /\ "service" \in Images /\ "kythe" \in Images
      /\ Service \in Names /\ Kythe \in Names
  BY <1>1, ImagesOfAnalyzers, NamesApart DEF TypeOK, Containers, Images
<1>3. CASE BadStart(i) \/ Exit(i)
  BY <1>1, <1>3, EndTyped DEF BadStart, Exit, daemon, TypeOK
<1>4. CASE \E k \in Ids : AnalyzerStep(i, k)
  BY <1>1, <1>4, AnalyzerStepTyped
<1>5. CASE PullImages(i) \/ StartKythe(i)
  <2>1. local' \in [Images -> 1 .. 2]
    <3>1. \A s : \A l \in Pull(local, s) : l \in [Images -> 1 .. 2]
      BY <1>2 DEF Pull
    <3> QED BY <1>5, <3>1 DEF PullImages, StartKythe
  <2>2. kythe' \in [Invocations -> BOOLEAN]
    BY <1>5, Zenon DEF TypeOK, PullImages, StartKythe, calling
  <2>3. PICK l \in {"analyzers", "kythe"} : Goto(i, l) \/ UNCHANGED pc
    BY <1>5 DEF PullImages, StartKythe
  <2>4. UNCHANGED <<containers, opts, apc, snap, linked, sub, seen, stops, disturbed, faults>>
    BY <1>5 DEF PullImages, StartKythe, startup, calling, env
  <2> QED BY <1>1, <2>1, <2>2, <2>3, <2>4, MoveTyped DEF TypeOK
<1>6. CASE AnalyzersUp(i)
  <2>1. Goto(i, "service") /\ UNCHANGED <<daemon, opts, linked, sub, calling, stops, env>>
    BY <1>6 DEF AnalyzersUp
  <2>2. apc' \in [Invocations -> [Ids -> {"check", "stop", "rm", "run", "append", "store", "done"}]]
        /\ snap' \in [Invocations -> [Ids -> SUBSET Names]]
    BY <1>6 DEF AnalyzersUp, TypeOK
  <2> QED BY <1>1, <2>1, <2>2, MoveTyped DEF TypeOK, daemon, calling, env
<1>7. CASE FindService(i) \/ DockerFails(i) \/ WaitUntilReady(i) \/ NotReady(i)
           \/ CallEnds(i) \/ CallFails(i) \/ OutputPanics(i)
  <2>1. UNCHANGED <<daemon, opts, startup, calling, env>>
    BY <1>7 DEF FindService, DockerFails, WaitUntilReady, NotReady, CallEnds, CallFails,
                OutputPanics
  <2>2. PICK l \in {"inspect", "runservice", "call", "kythe"} :
          (Goto(i, l) /\ UNCHANGED stops) \/ Cleanup(i)
    BY <1>7 DEF FindService, DockerFails, WaitUntilReady, NotReady, CallEnds, CallFails,
                OutputPanics
  <2> QED BY <1>1, <2>1, <2>2, MoveTyped DEF TypeOK, daemon, startup, calling, env
<1>8. CASE InspectService(i)
  <2>1. UNCHANGED <<daemon, opts, apc, snap, linked, calling, stops, env>>
    BY <1>8 DEF InspectService
  <2>2. PICK l \in {"wait", "stopservice"} : Goto(i, l)
    BY <1>8, Zenon DEF InspectService
  <2>3. sub' \in [Invocations -> (Dirs \X Dirs) \cup {Nil}]
    <3>1. CASE Usable(i)
      <4>1. containers[Service].dir \in Dirs
        <5>1. containers[Service] \in Container
          BY <1>2, <3>1 DEF Usable, MappedVolume, Containers
        <5> QED BY <5>1, Zenon DEF Container
      <4>2. sub' = [sub EXCEPT ![i] = <<containers[Service].dir, opts[i].dir>>]
        BY <1>8, <3>1, Zenon DEF InspectService
      <4> QED BY <1>2, <4>1, <4>2 DEF TypeOK
    <3>2. CASE ~Usable(i)
      BY <1>8, <3>2 DEF InspectService, TypeOK
    <3> QED BY <3>1, <3>2
  <2> QED BY <1>1, <2>1, <2>2, <2>3, MoveTyped DEF TypeOK, daemon, calling, env
<1>9. CASE StopService(i) \/ RemoveService(i)
  <2>1. UNCHANGED <<local, opts, startup, calling, stops, env>>
    BY <1>9 DEF StopService, RemoveService
  <2>2. PICK l \in {"rmservice", "runservice"} : Goto(i, l)
    BY <1>9, Zenon DEF StopService, RemoveService
  <2>3. containers' \in Containers
    BY <1>2, <1>9, StopOutcome, RmOutcome DEF StopService, RemoveService
  <2> QED BY <1>1, <2>1, <2>2, <2>3, MoveTyped DEF TypeOK, Containers, startup, calling, env
<1>10. CASE StartService(i)
  <2>1. PICK r \in RunContainer(containers, local, Service, "service", opts[i].dir, linked[i]) :
          /\ containers' = r.containers
          /\ (Goto(i, "wait") /\ UNCHANGED stops) \/ Cleanup(i)
    BY <1>10 DEF StartService, RunService
  <2>2. containers' \in Containers
    BY <1>2, <2>1, RunTyped
  <2>3. sub' \in [Invocations -> (Dirs \X Dirs) \cup {Nil}]
    BY <1>2, <1>10 DEF StartService, TypeOK
  <2>4. UNCHANGED <<local, opts, apc, snap, linked, calling, env>>
    BY <1>10 DEF StartService
  <2> QED BY <1>1, <2>1, <2>2, <2>3, <2>4, MoveTyped DEF TypeOK, Containers, calling, env
<1>11. CASE Call(i)
  <2>1. Goto(i, "stream") /\ UNCHANGED <<daemon, opts, startup, kythe, stops, env>>
    BY <1>11 DEF Call
  <2>2. seen' \in [Invocations -> Container \cup {Absent}]
    BY <1>2, <1>11 DEF Call, TypeOK
  <2> QED BY <1>1, <2>1, <2>2, MoveTyped DEF TypeOK, daemon, startup, env
<1>12. CASE Build(i)
  <2>1. PICK r \in RunContainer(containers, local, Kythe, "kythe", opts[i].dir, {}) :
          /\ containers' = r.containers
          /\ (Goto(i, "building") /\ UNCHANGED stops) \/ Cleanup(i)
    BY <1>12 DEF Build, RunKythe
  <2>2. containers' \in Containers
    BY <1>2, <2>1, RunTyped
  <2>3. UNCHANGED <<local, opts, startup, calling, env>>
    BY <1>12 DEF Build
  <2> QED BY <1>1, <2>1, <2>2, <2>3, MoveTyped DEF TypeOK, Containers, startup, calling, env
<1>13. CASE BuildEnds(i)
  <2>1. (Goto(i, "call") /\ UNCHANGED stops) \/ Cleanup(i)
    BY <1>13 DEF BuildEnds
  <2>2. containers' \in Containers /\ UNCHANGED <<local, opts, startup, calling, env>>
    BY <1>2, <1>13, StopOutcome DEF BuildEnds
  <2> QED BY <1>1, <2>1, <2>2, MoveTyped DEF TypeOK, Containers, startup, calling, env
<1>14. CASE CleanupStop(i) \/ CleanupRemove(i)
  <2>1. stops[i] \in Seq(Names) /\ stops[i] # << >>
    BY <1>1, <1>14 DEF TypeOK, Running, CleanupStop, CleanupRemove
  <2>2. Head(stops[i]) \in Names /\ Tail(stops[i]) \in Seq(Names)
    BY <2>1, ElementsOfTail
  <2>3. containers' \in Containers /\ UNCHANGED <<local, opts, startup, calling, env>>
    BY <1>2, <1>14, <2>2, StopOutcome, RmOutcome DEF CleanupStop, CleanupRemove
  <2>4. \/ Goto(i, "remove") /\ UNCHANGED stops
        \/ pc[i] = "cleanup" /\ UNCHANGED pc /\ stops' = [stops EXCEPT ![i] = Tail(@)]
        \/ Goto(i, "cleanup") /\ stops' = [stops EXCEPT ![i] = Tail(@)]
    BY <1>14, Zenon DEF CleanupStop, CleanupRemove
  <2>5. pc' \in [Invocations -> {"idle", "pull", "analyzers", "service", "inspect",
               "stopservice", "rmservice", "runservice", "wait", "call", "stream",
               "kythe", "building", "cleanup", "remove", "exited"}]
        /\ stops' \in [Invocations -> Seq(Names)]
    BY <2>2, <2>4 DEF Goto, TypeOK
  <2>6. \A j \in Active' : /\ j \in Active
                           /\ pc'[j] = "remove" => stops'[j] # << >>
    BY <1>1, <2>1, <2>4 DEF TypeOK, Running, Active, Goto
  <2>7. Running'
    BY <2>3, <2>6 DEF Running
  <2> QED BY <1>1, <2>3, <2>5, <2>7 DEF TypeOK, Containers, startup, calling, env
<1> QED BY <1>3, <1>4, <1>5, <1>6, <1>7, <1>8, <1>9, <1>10, <1>11, <1>12, <1>13, <1>14, Zenon
        DEF Step

(***************************************************************************)
(* One invocation at a time has the daemon, or all that run are disturbed. *)
(***************************************************************************)

\* A step that does not end the invocation changes only its own place,
\* and neither its options nor who is disturbed.
LEMMA OnlyOneMoves ==
  ASSUME TypeOK, Running, NEW i \in Invocations, Step(i), ~BadStart(i), ~Exit(i)
  PROVE  /\ \A j \in Invocations \ {i} : pc'[j] = pc[j]
         /\ Active' = Active /\ disturbed' = disturbed /\ opts' = opts
<1>1. i \in Active
  BY StepTyped
<1>2. disturbed' = disturbed /\ opts' = opts
  BY DEF Step, AnalyzerStep, CheckAnalyzer, StopAnalyzer, RemoveAnalyzer, StartAnalyzer,
         ReadSlice, WriteSlice, PullImages, AnalyzersUp, FindService, DockerFails,
         InspectService, StopService, RemoveService, StartService, WaitUntilReady, NotReady,
         Call, CallEnds, CallFails, OutputPanics, StartKythe, Build, BuildEnds, CleanupStop,
         CleanupRemove, env
<1>3. \/ UNCHANGED pc
      \/ \E l \in {"analyzers", "service", "inspect", "stopservice", "rmservice", "runservice",
                   "wait", "call", "stream", "kythe", "building", "cleanup", "remove"} :
           Goto(i, l)
  <2>1. CASE \E k \in Ids : AnalyzerStep(i, k)
    BY <2>1 DEF AnalyzerStep, CheckAnalyzer, StopAnalyzer, RemoveAnalyzer, StartAnalyzer,
         ReadSlice, WriteSlice
  <2>2. CASE PullImages(i) \/ AnalyzersUp(i) \/ FindService(i) \/ DockerFails(i)
              \/ InspectService(i) \/ StopService(i) \/ RemoveService(i)
    BY <2>2 DEF PullImages, AnalyzersUp, FindService, DockerFails,
         InspectService, StopService, RemoveService, Cleanup
  <2>3. CASE StartService(i) \/ WaitUntilReady(i) \/ NotReady(i) \/ Call(i) \/ CallEnds(i)
              \/ CallFails(i) \/ OutputPanics(i) \/ StartKythe(i) \/ Build(i) \/ BuildEnds(i)
    BY <2>3 DEF StartService, WaitUntilReady, NotReady, Call, CallEnds, CallFails,
         OutputPanics, StartKythe, Build, BuildEnds, Cleanup
  <2>4. CASE CleanupStop(i) \/ CleanupRemove(i)
    BY <2>4 DEF CleanupStop, CleanupRemove
  <2> QED BY <2>1, <2>2, <2>3, <2>4, Zenon DEF Step
<1>4. (\A j \in Invocations \ {i} : pc'[j] = pc[j]) /\ Active' = Active
  BY <1>1, <1>3 DEF TypeOK, Goto, Active
<1> QED BY <1>2, <1>4

\* Goroutines start afresh wherever they run.
LEMMA FreshKept ==
  ASSUME TypeOK, Fresh, NEW i \in Invocations, Step(i) \/ Begin(i) \/ End(i)
  PROVE  Fresh'
<1>1. CASE End(i)
  BY <1>1 DEF End, Goto, TypeOK, Fresh
<1>2. CASE BadStart(i) \/ Exit(i)
  BY <1>1, <1>2 DEF BadStart, Exit
<1>3. CASE \E k \in Ids : AnalyzerStep(i, k)
  <2>1. pc' = pc /\ pc[i] = "analyzers"
    BY <1>3 DEF AnalyzerStep, CheckAnalyzer, StopAnalyzer, RemoveAnalyzer, StartAnalyzer,
         ReadSlice, WriteSlice, AnalyzerAt
  <2>2. \A j \in Invocations \ {i} : apc'[j] = apc[j]
    BY <1>3 DEF AnalyzerStep, CheckAnalyzer, StopAnalyzer, RemoveAnalyzer, StartAnalyzer,
         ReadSlice, WriteSlice, AnalyzerGoto, TypeOK
  <2> QED BY <2>1, <2>2 DEF Fresh
<1>4. CASE AnalyzersUp(i)
  BY <1>4 DEF AnalyzersUp, Goto, TypeOK, Fresh
<1>5. CASE PullImages(i) \/ Begin(i)
  BY <1>5 DEF PullImages, Begin, Goto, TypeOK, Fresh, startup
<1>6. CASE apc' = apc /\ pc[i] # "analyzers" /\ \A j \in Invocations \ {i} : pc'[j] = pc[j]
  BY <1>6 DEF Fresh
<1>7. ASSUME Step(i), ~BadStart(i), ~Exit(i), ~PullImages(i), ~AnalyzersUp(i),
             ~\E k \in Ids : AnalyzerStep(i, k)
      PROVE  /\ apc' = apc /\ pc[i] # "analyzers"
             /\ \/ UNCHANGED pc
                \/ \E l \in {"inspect", "stopservice", "rmservice", "runservice", "wait", "call",
                             "stream", "kythe", "building", "cleanup", "remove"} : Goto(i, l)
  BY <1>7 DEF Step, FindService,
         DockerFails, InspectService, StopService, RemoveService, StartService,
         WaitUntilReady, NotReady, Call, CallEnds, CallFails, OutputPanics, StartKythe,
         Build, BuildEnds, CleanupStop, CleanupRemove, startup, Cleanup
<1>8. ASSUME \/ UNCHANGED pc
             \/ \E l \in {"inspect", "stopservice", "rmservice", "runservice", "wait", "call",
                             "stream", "kythe", "building", "cleanup", "remove"} : Goto(i, l)
      PROVE  \A j \in Invocations \ {i} : pc'[j] = pc[j]
  BY <1>8 DEF Goto, TypeOK
<1> QED BY <1>1, <1>2, <1>3, <1>4, <1>5, <1>6, <1>7, <1>8

\* Only the invocation that ends is forgotten.
LEMMA EndAlone ==
  ASSUME TypeOK, NEW i \in Invocations, End(i), disturbed' = disturbed \ {i}
  PROVE  Active' = Active \ {i} /\ \A j \in Active' : j \in disturbed => j \in disturbed'
BY DEF TypeOK, End, Goto, Active

(***************************************************************************)
(* The steps of an undisturbed invocation.                                 *)
(***************************************************************************)

\* Once everything to stop is listed, nothing else has to be gone.
LEMMA OwnCleanup ==
  ASSUME TypeOK, Running, NEW i \in Active, Cleanup(i), opts' = opts, kythe' = kythe
  PROVE  AnalyzersOf(i)' /\ ServiceOf(i)' /\ CleanupOf(i)'
<1>1. pc'[i] = "cleanup" /\ stops'[i] = StopList(i)
  BY DEF TypeOK, Cleanup, Goto, Active
<1>2. ToStop(i)' = ToStop(i)
  BY DEF ToStop, Wanted, getContainerAndAddress
<1>3. ElementsOf(StopList(i)) = ToStop(i)
  BY StopListComplete
<1> QED BY <1>1, <1>2, <1>3 DEF AnalyzersOf, AnalyzerAt, ServiceOf, CleanupOf

\* A place at which nothing is known of any container.
LEMMA OwnNothing ==
  ASSUME TypeOK, NEW i \in Active, pc'[i] \in {"pull", "service", "inspect", "stopservice"}
  PROVE  AnalyzersOf(i)' /\ ServiceOf(i)' /\ CleanupOf(i)'
BY DEF AnalyzersOf, AnalyzerAt, ServiceOf, CleanupOf

\* A goroutine stops, removes and starts its own container only.
LEMMA OwnAnalyzers ==
  ASSUME TypeOK, Running, NEW i \in Active, AnalyzersOf(i), NEW k \in Ids, AnalyzerStep(i, k)
  PROVE  AnalyzersOf(i)' /\ ServiceOf(i)' /\ CleanupOf(i)'
<1> DEFINE n == getContainerAndAddress(i, k)
           m == opts[i].analyzers[k]
<1>1. pc[i] = "analyzers" /\ k \in Wanted(i) /\ i \in Invocations
  BY DEF AnalyzerStep, CheckAnalyzer, StopAnalyzer, RemoveAnalyzer, StartAnalyzer, ReadSlice,
         WriteSlice, AnalyzerAt, Active
<1>2. n \in Names /\ m \in Images /\ opts[i].dir \in Dirs
  BY <1>1, ImagesOfAnalyzers DEF Images
<1>3. pc' = pc /\ opts' = opts
  BY DEF AnalyzerStep, CheckAnalyzer, StopAnalyzer, RemoveAnalyzer, StartAnalyzer, ReadSlice,
         WriteSlice
<1>4. ServiceOf(i)' /\ CleanupOf(i)'
  BY <1>1, <1>3 DEF ServiceOf, CleanupOf
<1>5. \A j \in Ids : getContainerAndAddress(i, j)' = getContainerAndAddress(i, j)
  BY <1>3 DEF getContainerAndAddress
<1>6. \A j \in Ids \ {k} : getContainerAndAddress(i, j) # n
  BY DEF getContainerAndAddress
<1>7. \A j \in Ids : AnalyzerAt(i, j, "rm") \/ AnalyzerAt(i, j, "run") =>
                      getContainerAndAddress(i, j) \in Names
  BY ImagesOfAnalyzers DEF AnalyzerAt
<1>8. containers \in Containers /\ local \in [Images -> 1 .. 2]
  BY DEF TypeOK, Containers
<1>9. Wanted(i)' = Wanted(i)
  BY <1>3 DEF Wanted
\* What holds of the others, and of the one that moves.
<1>10. SUFFICES /\ \A j \in Ids \ {k} : apc'[i][j] = apc[i][j]
                /\ \A x \in Names \ {n} : containers'[x] = containers[x]
                /\ apc'[i][k] = "rm" => Down(containers'[n])
                /\ apc'[i][k] = "run" => containers'[n] = Absent
  <2>1. ASSUME NEW j \in Ids
        PROVE  /\ AnalyzerAt(i, j, "rm")' => Down(containers'[getContainerAndAddress(i, j)])
               /\ AnalyzerAt(i, j, "run")' => containers'[getContainerAndAddress(i, j)] = Absent
    <3>1. CASE j = k
      BY <1>10, <3>1 DEF AnalyzerAt
    <3>2. CASE j # k
      <4>1. AnalyzerAt(i, j, "rm")' => AnalyzerAt(i, j, "rm")
        BY <1>3, <1>9, <1>10, <3>2 DEF AnalyzerAt
      <4>2. AnalyzerAt(i, j, "run")' => AnalyzerAt(i, j, "run")
        BY <1>3, <1>9, <1>10, <3>2 DEF AnalyzerAt
      <4>3. AnalyzerAt(i, j, "rm") \/ AnalyzerAt(i, j, "run") =>
              containers'[getContainerAndAddress(i, j)] = containers[getContainerAndAddress(i, j)]
        BY <1>6, <1>7, <1>10, <3>2
      <4>4. /\ AnalyzerAt(i, j, "rm") => Down(containers[getContainerAndAddress(i, j)])
            /\ AnalyzerAt(i, j, "run") => containers[getContainerAndAddress(i, j)] = Absent
        BY DEF AnalyzersOf
      <4> QED BY <4>1, <4>2, <4>3, <4>4, Zenon DEF Down
    <3> QED BY <3>1, <3>2
  <2>2. AnalyzersOf(i)'
    BY <1>5, <2>1, Zenon DEF AnalyzersOf, Down
  <2> QED BY <1>4, <2>2
<1> HIDE DEF n, m
<1>11. CASE CheckAnalyzer(i, k)
  <2>1. PICK l \in {"done", "stop"} : AnalyzerGoto(i, k, l)
    BY <1>11, Zenon DEF CheckAnalyzer
  <2> QED BY <1>1, <1>11, <2>1 DEF CheckAnalyzer, AnalyzerGoto, TypeOK, daemon
<1>12. CASE StopAnalyzer(i, k)
  <2>1. PICK r : /\ r = DockerStop(containers, n)
                 /\ containers' = r.containers
                 /\ AnalyzerGoto(i, k, IF r.ok THEN "rm" ELSE "run")
    BY <1>12 DEF StopAnalyzer, n
  <2>2. /\ \A x \in Names \ {n} : containers'[x] = containers[x]
        /\ Down(containers'[n]) /\ (~r.ok => containers'[n] = Absent)
    BY <1>2, <1>8, <2>1, StopOutcome
  <2>3. CASE r.ok
    <3>1. AnalyzerGoto(i, k, "rm")
      BY <2>1, <2>3, Zenon
    <3> QED BY <1>1, <2>2, <3>1 DEF AnalyzerGoto, TypeOK
  <2>4. CASE ~r.ok
    <3>1. AnalyzerGoto(i, k, "run")
      BY <2>1, <2>4, Zenon
    <3>2. containers'[n] = Absent
      BY <2>2, <2>4, Zenon
    <3> QED BY <1>1, <2>2, <3>1, <3>2 DEF AnalyzerGoto, TypeOK
  <2> QED BY <2>3, <2>4
<1>13. CASE RemoveAnalyzer(i, k)
  <2>1. Down(containers[n])
    BY <1>13 DEF RemoveAnalyzer, AnalyzersOf, n
  <2>2. /\ \A x \in Names \ {n} : containers'[x] = containers[x]
        /\ containers'[n] = Absent
    BY <1>2, <1>8, <1>13, <2>1, RmOutcome DEF RemoveAnalyzer, n
  <2>3. AnalyzerGoto(i, k, "run")
    BY <1>13 DEF RemoveAnalyzer
  <2> QED BY <1>1, <2>2, <2>3 DEF AnalyzerGoto, TypeOK
<1>14. CASE StartAnalyzer(i, k)
  <2>1. PICK r \in RunContainer(containers, local, n, m, opts[i].dir, {}) :
          containers' = r.containers /\ AnalyzerGoto(i, k, IF r.ok THEN "append" ELSE "done")
    BY <1>14 DEF StartAnalyzer, RunAnalyzer, n, m
  <2>2. \A x \in Names \ {n} : containers'[x] = containers[x]
    BY <1>2, <1>8, <2>1, RunTyped
  <2>3. PICK l \in {"append", "done"} : AnalyzerGoto(i, k, l)
    BY <2>1, Zenon
  <2> QED BY <1>1, <2>2, <2>3 DEF AnalyzerGoto, TypeOK
<1>15. CASE ReadSlice(i, k) \/ WriteSlice(i, k)
  BY <1>1, <1>15 DEF ReadSlice, WriteSlice, AnalyzerGoto, TypeOK, daemon
<1> QED BY <1>11, <1>12, <1>13, <1>14, <1>15 DEF AnalyzerStep

\* An undisturbed invocation whose service container is dealt with.
LEMMA OwnService ==
  ASSUME TypeOK, Running, NEW i \in Active, ServiceOf(i),
         FindService(i) \/ InspectService(i) \/ StopService(i) \/ RemoveService(i)
           \/ StartService(i)
  PROVE  AnalyzersOf(i)' /\ ServiceOf(i)' /\ CleanupOf(i)'
<1>1. /\ i \in Invocations /\ containers \in Containers /\ local \in [Images -> 1 .. 2]
      /\ opts[i].dir \in Dirs /\ linked[i] \in SUBSET Names /\ Service \in Names
      /\ "service" \in Images
  BY ImagesOfAnalyzers, NamesApart DEF TypeOK, Containers, Images, Active
<1>2. UNCHANGED <<local, opts, linked, calling>>
  BY DEF FindService, InspectService, StopService, RemoveService, StartService, daemon, startup
<1>3. CASE FindService(i)
  <2>1. \/ pc'[i] = "inspect"
        \/ pc'[i] = "runservice" /\ containers'[Service] = Absent
    BY <1>1, <1>3 DEF FindService, Goto, TypeOK, ContainerExists, daemon
  <2> QED BY <2>1, OwnNothing DEF AnalyzersOf, AnalyzerAt, ServiceOf, CleanupOf
<1>4. CASE InspectService(i)
  <2>1. CASE Usable(i)
    <3>1. /\ sub' = [sub EXCEPT ![i] = <<containers[Service].dir, opts[i].dir>>]
          /\ Goto(i, "wait") /\ containers' = containers
      BY <1>4, <2>1, Zenon DEF InspectService, daemon
    <3>2. /\ containers[Service] # Absent
          /\ <<containers[Service].dir, opts[i].dir>> \in Prefixed
          /\ containers[Service].version = local["service"]
          /\ \A l \in linked[i] : \E m \in containers[Service].links : Occurs(l, m)
      BY <2>1 DEF Usable, MappedVolume, ImageMatches, ContainsLinks
    <3>3. pc'[i] = "wait" /\ sub'[i] = <<containers[Service].dir, opts[i].dir>>
      BY <1>1, <3>1 DEF Goto, TypeOK
    <3>4. Fits(i)'
      BY <1>2, <3>1, <3>2, <3>3 DEF Fits
    <3> QED BY <3>3, <3>4 DEF AnalyzersOf, AnalyzerAt, ServiceOf, CleanupOf
  <2>2. CASE ~Usable(i)
    BY <1>1, <1>4, <2>2, OwnNothing DEF InspectService, Goto, TypeOK
  <2> QED BY <2>1, <2>2
<1>5. CASE StopService(i)
  <2>1. PICK r : /\ r = DockerStop(containers, Service)
                 /\ containers' = r.containers
                 /\ Goto(i, IF r.ok THEN "rmservice" ELSE "runservice")
    BY <1>5 DEF StopService
  <2>2. Down(containers'[Service]) /\ (~r.ok => containers'[Service] = Absent)
    BY <1>1, <2>1, StopOutcome
  <2>3. \/ Goto(i, "rmservice")
        \/ Goto(i, "runservice") /\ containers'[Service] = Absent
    BY <2>1, <2>2, Zenon
  <2>4. \/ pc'[i] = "rmservice"
        \/ pc'[i] = "runservice" /\ containers'[Service] = Absent
    BY <1>1, <2>3 DEF Goto, TypeOK
  <2> QED BY <2>2, <2>4 DEF AnalyzersOf, AnalyzerAt, ServiceOf, CleanupOf, Down
<1>6. CASE RemoveService(i)
  <2>1. Down(containers[Service])
    BY <1>6 DEF RemoveService, ServiceOf
  <2>2. containers'[Service] = Absent
    BY <1>1, <1>6, <2>1, RmOutcome DEF RemoveService
  <2>3. pc'[i] = "runservice"
    BY <1>1, <1>6 DEF RemoveService, Goto, TypeOK
  <2> QED BY <2>2, <2>3 DEF AnalyzersOf, AnalyzerAt, ServiceOf, CleanupOf
<1>7. CASE StartService(i)
  <2>1. PICK r \in RunContainer(containers, local, Service, "service", opts[i].dir, linked[i]) :
          /\ containers' = r.containers
          /\ (r.ok /\ Goto(i, "wait")) \/ (~r.ok /\ Cleanup(i))
    BY <1>7 DEF StartService, RunService
  <2>2. CASE Cleanup(i)
    BY <1>2, <2>2, OwnCleanup DEF calling
  <2>3. CASE r.ok /\ Goto(i, "wait")
    <3>1. /\ r.containers[Service] # Absent /\ r.containers[Service].version = local["service"]
          /\ r.containers[Service].dir = opts[i].dir /\ r.containers[Service].links = linked[i]
      BY <1>1, <2>3, RunTyped
    <3>2. /\ containers'[Service] # Absent /\ containers'[Service].version = local["service"]
          /\ containers'[Service].dir = opts[i].dir /\ containers'[Service].links = linked[i]
      BY <2>1, <3>1, Zenon
    <3>3. pc'[i] = "wait" /\ sub'[i] = <<opts[i].dir, opts[i].dir>>
      BY <1>1, <1>7, <2>3 DEF Goto, TypeOK, StartService
    <3>4. <<opts[i].dir, opts[i].dir>> \in Prefixed
      BY <1>1, DockerTyped
    <3>5. \A l \in linked[i] : Occurs(l, l)
      BY DEF Occurs
    <3>6. Fits(i)'
      BY <1>2, <3>2, <3>3, <3>4, <3>5 DEF Fits
    <3> QED BY <3>3, <3>6 DEF AnalyzersOf, AnalyzerAt, ServiceOf, CleanupOf
  <2> QED BY <2>1, <2>2, <2>3
<1> QED BY <1>3, <1>4, <1>5, <1>6, <1>7

\* From the moment the service is used to the end of the build.
LEMMA OwnCalls ==
  ASSUME TypeOK, Running, NEW i \in Active, ServiceOf(i),
         WaitUntilReady(i) \/ NotReady(i) \/ Call(i) \/ CallEnds(i) \/ CallFails(i)
           \/ OutputPanics(i) \/ StartKythe(i) \/ Build(i) \/ BuildEnds(i)
  PROVE  AnalyzersOf(i)' /\ ServiceOf(i)' /\ CleanupOf(i)'
<1>1. /\ i \in Invocations /\ containers \in Containers /\ local \in [Images -> 1 .. 2]
      /\ opts[i].dir \in Dirs /\ Service \in Names /\ Kythe \in Names /\ Kythe # Service
      /\ "kythe" \in Images
  BY ImagesOfAnalyzers, NamesApart DEF TypeOK, Containers, Images, Active
<1>2. Fits(i)
  BY DEF WaitUntilReady, NotReady, Call, CallEnds, CallFails, OutputPanics, StartKythe, Build,
         BuildEnds, ServiceOf
<1>3. UNCHANGED <<opts, linked, sub>>
  BY DEF WaitUntilReady, NotReady, Call, CallEnds, CallFails, OutputPanics, StartKythe, Build,
         BuildEnds, startup
<1>4. CASE Cleanup(i) /\ kythe' = kythe
  BY <1>3, <1>4, OwnCleanup
<1>5. ASSUME local'["service"] = local["service"], containers'[Service] = containers[Service],
             pc'[i] \in {"wait", "call", "stream", "kythe", "building"},
             pc'[i] = "stream" => seen'[i] = containers'[Service]
      PROVE  AnalyzersOf(i)' /\ ServiceOf(i)' /\ CleanupOf(i)'
  <2>1. Fits(i)'
    BY <1>2, <1>3, <1>5 DEF Fits
  <2> QED BY <1>5, <2>1 DEF AnalyzersOf, AnalyzerAt, ServiceOf, CleanupOf
<1>6. CASE WaitUntilReady(i) \/ NotReady(i) \/ CallEnds(i) \/ CallFails(i) \/ OutputPanics(i)
  <2>1. UNCHANGED <<daemon, calling>> /\ (Cleanup(i) \/ Goto(i, "call") \/ Goto(i, "kythe"))
    BY <1>6 DEF WaitUntilReady, NotReady, CallEnds, CallFails, OutputPanics
  <2>2. Cleanup(i) \/ pc'[i] \in {"call", "kythe"}
    BY <1>1, <2>1 DEF Goto, TypeOK
  <2> QED BY <1>4, <1>5, <2>1, <2>2 DEF daemon, calling
<1>7. CASE Call(i)
  BY <1>1, <1>5, <1>7 DEF Call, Goto, TypeOK, daemon
<1>8. CASE StartKythe(i)
  <2>1. local'["service"] = local["service"]
    BY <1>1, <1>8 DEF StartKythe, Pull, Images
  <2>2. containers' = containers /\ pc'[i] = "kythe"
    BY <1>8 DEF StartKythe
  <2> QED BY <1>5, <2>1, <2>2
<1>9. CASE Build(i)
  <2>1. PICK r \in RunContainer(containers, local, Kythe, "kythe", opts[i].dir, {}) :
          containers' = r.containers /\ (Goto(i, "building") \/ Cleanup(i))
    BY <1>9 DEF Build, RunKythe
  <2>2. containers'[Service] = containers[Service]
    BY <1>1, <2>1, RunTyped
  <2>3. local' = local /\ kythe' = kythe
    BY <1>9 DEF Build, calling
  <2>4. Cleanup(i) \/ pc'[i] = "building"
    BY <1>1, <2>1 DEF Goto, TypeOK
  <2> QED BY <1>4, <1>5, <2>2, <2>3, <2>4
<1>10. CASE BuildEnds(i)
  <2>1. containers'[Service] = containers[Service]
    BY <1>1, <1>10, StopOutcome DEF BuildEnds
  <2>2. local' = local /\ kythe' = kythe /\ (Goto(i, "call") \/ Cleanup(i))
    BY <1>10 DEF BuildEnds, calling
  <2>3. Cleanup(i) \/ pc'[i] = "call"
    BY <1>1, <2>2 DEF Goto, TypeOK
  <2> QED BY <1>4, <1>5, <2>1, <2>2, <2>3
<1> QED BY <1>6, <1>7, <1>8, <1>9, <1>10

\* The first of the list is stopped and then removed, or was not there; the
\* rest is gone or still listed.
LEMMA OwnCleaning ==
  ASSUME TypeOK, Running, NEW i \in Active, CleanupOf(i), CleanupStop(i) \/ CleanupRemove(i)
  PROVE  AnalyzersOf(i)' /\ ServiceOf(i)' /\ CleanupOf(i)'
<1> DEFINE s == stops[i]
           h == Head(stops[i])
<1>1. i \in Invocations /\ containers \in Containers /\ s \in Seq(Names) /\ s # << >>
  BY DEF Active, TypeOK, Containers, Running, CleanupStop, CleanupRemove
<1>2. h \in Names /\ ElementsOf(s) = {h} \cup ElementsOf(Tail(s))
  BY <1>1, ElementsOfTail
<1>3. /\ \A n \in ToStop(i) \ ElementsOf(s) : containers[n] = Absent
      /\ pc[i] = "remove" => Down(containers[h])
  BY DEF CleanupOf, CleanupStop, CleanupRemove
<1>4. ToStop(i)' = ToStop(i)
  BY DEF ToStop, Wanted, getContainerAndAddress, CleanupStop, CleanupRemove, calling
<1>5. ToStop(i) \subseteq Names
  <2>1. \A k \in Wanted(i) : getContainerAndAddress(i, k) \in Names
    BY ImagesOfAnalyzers
  <2> QED BY <2>1, NamesApart, Zenon DEF ToStop
<1> HIDE DEF s, h
<1>6. ASSUME containers'[h] = Absent, \A n \in Names \ {h} : containers'[n] = containers[n]
      PROVE  \A n \in ToStop(i) \ ElementsOf(Tail(s)) : containers'[n] = Absent
  BY <1>2, <1>3, <1>5, <1>6
<1>7. CASE CleanupStop(i)
  <2>1. PICK r : /\ r = DockerStop(containers, h)
                 /\ containers' = r.containers
                 /\ \/ r.ok /\ Goto(i, "remove") /\ UNCHANGED stops
                    \/ ~r.ok /\ (stops' = [stops EXCEPT ![i] = Tail(@)]) /\ UNCHANGED pc
    BY <1>7 DEF CleanupStop, h
  <2>2. /\ \A n \in Names \ {h} : containers'[n] = containers[n]
        /\ Down(containers'[h]) /\ (~r.ok => containers'[h] = Absent)
    BY <1>1, <1>2, <2>1, StopOutcome
  <2>3. CASE r.ok /\ Goto(i, "remove") /\ UNCHANGED stops
    <3>1. pc'[i] = "remove" /\ stops'[i] = s
      BY <1>1, <2>3 DEF Goto, TypeOK, s
    <3>2. \A n \in ToStop(i) \ ElementsOf(s) : containers'[n] = Absent
      BY <1>2, <1>3, <1>5, <2>2
    <3>3. Down(containers'[Head(stops'[i])])
      BY <2>2, <3>1 DEF h, s
    <3> QED BY <1>4, <3>1, <3>2, <3>3 DEF AnalyzersOf, AnalyzerAt, ServiceOf, CleanupOf, Down
  <2>4. CASE ~r.ok /\ (stops' = [stops EXCEPT ![i] = Tail(@)]) /\ UNCHANGED pc
    <3>1. pc'[i] = "cleanup" /\ stops'[i] = Tail(s)
      BY <1>1, <1>7, <2>4 DEF CleanupStop, TypeOK, s
    <3>2. containers'[h] = Absent
      BY <2>2, <2>4, Zenon
    <3> QED BY <1>4, <1>6, <2>2, <3>1, <3>2 DEF AnalyzersOf, AnalyzerAt, ServiceOf, CleanupOf
  <2> QED BY <2>1, <2>3, <2>4
<1>8. CASE CleanupRemove(i)
  <2>1. Down(containers[h])
    BY <1>3, <1>8 DEF CleanupRemove
  <2>2. containers'[h] = Absent /\ \A n \in Names \ {h} : containers'[n] = containers[n]
    BY <1>1, <1>2, <1>8, <2>1, RmOutcome DEF CleanupRemove, h
  <2>3. pc'[i] = "cleanup" /\ stops'[i] = Tail(s)
    BY <1>1, <1>8 DEF CleanupRemove, Goto, TypeOK, s
  <2> QED BY <1>4, <1>6, <2>2, <2>3 DEF AnalyzersOf, AnalyzerAt, ServiceOf, CleanupOf
<1> QED BY <1>7, <1>8

(***************************************************************************)
(* The invariant and the theorems.                                         *)
(***************************************************************************)

\* The invariant holds at first.
LEMMA CliInit == ASSUME Init PROVE CliInv
<1>1. kythe \in [Invocations -> BOOLEAN] /\ seen \in [Invocations -> Container \cup {Absent}]
      /\ containers \in [Names -> Container \cup {Absent}]
  BY Zenon DEF Init
<1>2. apc \in [Invocations -> [Ids -> {"check", "stop", "rm", "run", "append", "store", "done"}]]
      /\ snap \in [Invocations -> [Ids -> SUBSET Names]] /\ linked \in [Invocations -> SUBSET Names]
      /\ stops \in [Invocations -> Seq(Names)] /\ local \in [Images -> 1 .. 2]
  BY DEF Init
<1>3. TypeOK
  BY <1>1, <1>2, OptionsTyped DEF Init, TypeOK
<1>4. Active = {}
  BY DEF Init, Active
<1>5. Fresh
  BY DEF Init, Fresh
<1> QED BY <1>3, <1>4, <1>5 DEF CliInv, Running, AloneInv, OwnInv

\* An invocation that finds others running disturbs them all.
LEMMA BeginInv == ASSUME CliInv, NEW i \in Invocations, Begin(i) PROVE CliInv'
<1>1. PICK o \in Workload : opts' = [opts EXCEPT ![i] = o]
  BY DEF Begin
<1>2. UNCHANGED <<containers, local, apc, snap, linked, sub, seen, kythe, stops, faults>>
  BY DEF Begin, daemon, startup, calling
<1>3. i \notin Active /\ Active' = Active \cup {i} /\ pc'[i] = "pull"
      /\ \A j \in Active : pc'[j] = pc[j] /\ opts'[j] = opts[j]
  BY <1>1 DEF CliInv, TypeOK, Begin, Goto, Active
<1>4. disturbed' = IF Active = {} THEN disturbed ELSE disturbed \cup Active \cup {i}
  BY DEF Begin
<1>5. TypeOK'
  BY <1>1, <1>2, <1>4 DEF CliInv, TypeOK, Begin, Goto, Active
<1>6. Running'
  <2>1. opts'[i] = o
    BY <1>1 DEF CliInv, TypeOK
  <2> QED BY <1>2, <1>3, <2>1 DEF CliInv, Running
<1>7. AloneInv'
  BY <1>3, <1>4, Zenon DEF CliInv, AloneInv
<1>8. OwnInv'
  <2>1. ASSUME NEW j \in Active' \ disturbed'  PROVE j = i
    BY <1>3, <1>4, <2>1
  <2>2. AnalyzersOf(i)' /\ ServiceOf(i)' /\ CleanupOf(i)'
    BY <1>3 DEF AnalyzersOf, AnalyzerAt, ServiceOf, CleanupOf
  <2> QED BY <2>1, <2>2, Zenon DEF OwnInv
<1> QED BY <1>5, <1>6, <1>7, <1>8, FreshKept DEF CliInv

\* When an invocation ends, or is killed, any other that runs is disturbed.
LEMMA EndInv ==
  ASSUME CliInv, NEW i \in Active, End(i), disturbed' = disturbed \ {i}, UNCHANGED daemon,
         faults' \in 0 .. MaxFaults
  PROVE  CliInv'
<1>1. TypeOK' /\ Running'
  BY EndTyped DEF CliInv, Active, daemon
<1>2. Active' = Active \ {i} /\ \A j \in Active' : j \in disturbed => j \in disturbed'
  BY EndAlone DEF CliInv, Active
<1>3. \A j \in Active' : j \in disturbed'
  BY <1>2 DEF CliInv, AloneInv
<1>4. AloneInv' /\ OwnInv'
  BY <1>3 DEF AloneInv, OwnInv
<1> QED BY <1>1, <1>4, FreshKept DEF CliInv, Active

\* A step of an invocation: all the others that run are disturbed.
LEMMA StepInv == ASSUME CliInv, NEW i \in Invocations, Step(i) PROVE CliInv'
<1>1. TypeOK' /\ Running' /\ i \in Active
  BY StepTyped DEF CliInv
<1>2. CASE BadStart(i) \/ Exit(i)
  BY <1>1, <1>2, EndInv DEF BadStart, Exit, CliInv, TypeOK, daemon
<1>3. CASE ~BadStart(i) /\ ~Exit(i)
  <2>1. Active' = Active /\ disturbed' = disturbed
    BY <1>3, OnlyOneMoves DEF CliInv
  <2>2. AloneInv'
    BY <2>1 DEF CliInv, AloneInv
  <2>3. ASSUME NEW j \in Active' \ disturbed'  PROVE j = i
    BY <1>1, <2>1, <2>3 DEF CliInv, AloneInv
  <2>4. ASSUME i \notin disturbed  PROVE AnalyzersOf(i)' /\ ServiceOf(i)' /\ CleanupOf(i)'
    <3>1. TypeOK /\ Running /\ AnalyzersOf(i) /\ ServiceOf(i) /\ CleanupOf(i)
      BY <1>1, <2>4 DEF CliInv, OwnInv
    <3>2. CASE PullImages(i) \/ AnalyzersUp(i) \/ DockerFails(i)
      <4>1. CASE DockerFails(i)
        BY <1>1, <3>1, <4>1, OwnCleanup DEF DockerFails, calling
      <4>2. CASE PullImages(i)
        <5>1. pc'[i] = "analyzers" /\ apc'[i] = apc[i]
          BY <3>1, <4>2 DEF PullImages, Goto, TypeOK, startup
        <5>2. \A k \in Ids : ~AnalyzerAt(i, k, "rm")' /\ ~AnalyzerAt(i, k, "run")'
          BY <3>1, <4>2, <5>1 DEF CliInv, Fresh, PullImages, AnalyzerAt
        <5> QED BY <5>1, <5>2 DEF AnalyzersOf, ServiceOf, CleanupOf
      <4>3. CASE AnalyzersUp(i)
        BY <1>1, <3>1, <4>3, OwnNothing DEF AnalyzersUp, Goto, TypeOK
      <4> QED BY <3>2, <4>1, <4>2, <4>3
    <3>3. CASE \E k \in Ids : AnalyzerStep(i, k)
      BY <1>1, <3>1, <3>3, OwnAnalyzers
    <3>4. CASE FindService(i) \/ InspectService(i) \/ StopService(i) \/ RemoveService(i)
                \/ StartService(i)
      BY <1>1, <3>1, <3>4, OwnService
    <3>5. CASE WaitUntilReady(i) \/ NotReady(i) \/ Call(i) \/ CallEnds(i) \/ CallFails(i)
                \/ OutputPanics(i) \/ StartKythe(i) \/ Build(i) \/ BuildEnds(i)
      BY <1>1, <3>1, <3>5, OwnCalls
    <3>6. CASE CleanupStop(i) \/ CleanupRemove(i)
      BY <1>1, <3>1, <3>6, OwnCleaning
    <3> QED BY <1>3, <3>2, <3>3, <3>4, <3>5, <3>6, Zenon DEF Step
  <2>5. OwnInv'
    BY <2>1, <2>3, <2>4, Zenon DEF OwnInv
  <2> QED BY <1>1, <2>2, <2>5, FreshKept DEF CliInv
<1> QED BY <1>2, <1>3

\* A container that stops by itself disturbs all that run.
LEMMA DieInv == ASSUME CliInv, NEW n \in Names, Die(n) PROVE CliInv'
<1>1. UNCHANGED <<local, pc, opts, apc, snap, linked, sub, seen, kythe, stops>>
  BY DEF Die, startup, calling
<1>2. containers' \in Containers
  BY StopOutcome DEF Die, CliInv, TypeOK, Containers
<1>3. TypeOK'
  BY <1>1, <1>2, OptionsTyped DEF CliInv, TypeOK, Die, Active, Containers
<1>4. Active' = Active /\ Running' /\ Fresh'
  BY <1>1, Zenon DEF CliInv, Running, Fresh, Active
<1>5. Active \subseteq disturbed'
  BY DEF Die
<1> QED BY <1>3, <1>4, <1>5 DEF CliInv, AloneInv, OwnInv

\* An invocation that cannot get rid of a container is disturbed by that, and
\* all others that run are anyway.
LEMMA RefusedInv == ASSUME CliInv, NEW i \in Invocations, StopRefused(i) PROVE CliInv'
<1>1. /\ i \in Active /\ faults' \in 0 .. MaxFaults /\ disturbed' = disturbed \cup {i}
      /\ UNCHANGED <<containers, local, opts, snap, linked, sub, seen, kythe>>
  BY OptionsTyped DEF StopRefused, AnalyzerAt, Active, daemon, calling, CliInv, TypeOK
<1>2. /\ apc' \in [Invocations -> [Ids -> {"check", "stop", "rm", "run", "append", "store", "done"}]]
      /\ apc'[i] # apc[i] => pc[i] = "analyzers" /\ UNCHANGED pc
      /\ \A j \in Invocations \ {i} : apc'[j] = apc[j]
  <2>1. CASE UNCHANGED apc
    BY <2>1 DEF CliInv, TypeOK
  <2>2. CASE \E k \in Ids : AnalyzerAt(i, k, "stop") \/ AnalyzerAt(i, k, "rm")
    <3>1. pc[i] = "analyzers" /\ UNCHANGED pc
      BY <2>2 DEF StopRefused, AnalyzerAt
    <3>2. PICK k \in Ids : apc' = [apc EXCEPT ![i][k] = "run"]
      BY <2>2, <3>1 DEF StopRefused, AnalyzerGoto
    <3> QED BY <3>1, <3>2 DEF CliInv, TypeOK
  <2> QED BY <2>1, <2>2 DEF StopRefused
<1>3. stops' \in [Invocations -> Seq(Names)]
  <2>1. CASE UNCHANGED stops
    BY <2>1 DEF CliInv, TypeOK
  <2>2. CASE stops[i] # << >> /\ stops' = [stops EXCEPT ![i] = Tail(@)]
    <3>1. stops[i] \in Seq(Names)
      BY DEF CliInv, TypeOK
    <3>2. Tail(stops[i]) \in Seq(Names)
      BY <2>2, <3>1
    <3> QED BY <2>2, <3>2 DEF CliInv, TypeOK
  <2> QED BY <2>1, <2>2 DEF StopRefused
<1>4. /\ pc' \in [Invocations -> {"idle", "pull", "analyzers", "service", "inspect",
               "stopservice", "rmservice", "runservice", "wait", "call", "stream",
               "kythe", "building", "cleanup", "remove", "exited"}]
      /\ UNCHANGED pc \/ (pc[i] # "analyzers" /\ pc'[i] \in {"runservice", "cleanup"})
      /\ pc'[i] = "remove" => UNCHANGED stops
      /\ \A j \in Invocations \ {i} : pc'[j] = pc[j] /\ stops'[j] = stops[j]
  BY DEF StopRefused, AnalyzerAt, Goto, CliInv, TypeOK
<1>5. TypeOK'
  BY <1>1, <1>2, <1>3, <1>4 DEF CliInv, TypeOK
<1>6. Active' = Active
  BY <1>1, <1>4 DEF Active
<1>7. Running'
  BY <1>1, <1>4, <1>6 DEF CliInv, Running, Active
<1>8. Fresh'
  BY <1>1, <1>2, <1>4 DEF CliInv, Fresh
<1>9. Active \subseteq disturbed'
  BY <1>1 DEF CliInv, AloneInv
<1> QED BY <1>5, <1>6, <1>7, <1>8, <1>9 DEF CliInv, AloneInv, OwnInv

\* A stuttering step.
LEMMA StutterInv == ASSUME CliInv, UNCHANGED vars PROVE CliInv'
<1>1. UNCHANGED <<containers, local, pc, opts, apc, snap, linked, sub, seen, kythe, stops,
                  disturbed, faults>>
  BY DEF vars, daemon, startup, calling, env
<1>2. TypeOK'
  BY <1>1 DEF CliInv, TypeOK
<1>3. Active' = Active
  BY <1>1 DEF Active
<1>4. Running' /\ Fresh' /\ AloneInv'
  BY <1>1, <1>3 DEF CliInv, Running, Fresh, AloneInv
<1>5. ASSUME NEW i \in Active \ disturbed
      PROVE  AnalyzersOf(i)' /\ ServiceOf(i)' /\ CleanupOf(i)'
  <2>1. AnalyzersOf(i) /\ ServiceOf(i) /\ CleanupOf(i)
    BY DEF CliInv, OwnInv
  <2>2. AnalyzersOf(i)'
    BY <1>1, <2>1 DEF AnalyzersOf, AnalyzerAt, Wanted, getContainerAndAddress
  <2>3. ServiceOf(i)'
    BY <1>1, <2>1 DEF ServiceOf, Fits
  <2>4. ToStop(i)' = ToStop(i)
    BY <1>1 DEF ToStop, Wanted, getContainerAndAddress
  <2>5. CleanupOf(i)'
    BY <1>1, <2>1, <2>4 DEF CleanupOf
  <2> QED BY <2>2, <2>3, <2>5
<1>6. OwnInv'
  BY <1>1, <1>3, <1>5 DEF OwnInv
<1> QED BY <1>2, <1>4, <1>6 DEF CliInv

\* Every reachable state satisfies the invariant.
THEOREM Invariance == Spec => []CliInv
<1>1. Init => CliInv
  BY CliInit
<1>2. CliInv /\ [Next]_vars => CliInv'
  <2> SUFFICES ASSUME CliInv, [Next]_vars PROVE CliInv'
    OBVIOUS
  <2>1. CASE \E i \in Invocations : Begin(i) \/ Step(i)
    BY <2>1, BeginInv, StepInv
  <2>2. ASSUME NEW i \in Invocations, Kill(i) PROVE CliInv'
    <3>1. faults' \in 0 .. MaxFaults
      BY <2>2, OptionsTyped DEF Kill, CliInv, TypeOK
    <3> QED BY <2>2, <3>1, EndInv DEF Kill
  <2>3. CASE \E n \in Names : Die(n)
    BY <2>3, DieInv
  <2>4. CASE \E i \in Invocations : StopRefused(i)
    BY <2>4, RefusedInv
  <2>5. CASE UNCHANGED vars
    BY <2>5, StutterInv
  <2> QED BY <2>1, <2>2, <2>3, <2>4, <2>5 DEF Next, AllExited
<1> QED BY <1>1, <1>2, PTL DEF Spec

\* No invocation's variables leave their types.
THEOREM TypeCorrect == Spec => []TypeOK
<1>1. CliInv => TypeOK
  BY DEF CliInv
<1> QED BY <1>1, Invariance, PTL

\* Whatever was left behind, "docker run" finds no container of its name.
THEOREM NamesAreFree == Spec => []NamesFree
<1>1. CliInv => NamesFree
  <2> SUFFICES ASSUME CliInv, NEW i \in Undisturbed
               PROVE  /\ pc[i] = "runservice" => containers[Service] = Absent
                      /\ \A k \in Ids : AnalyzerAt(i, k, "run") =>
                           containers[getContainerAndAddress(i, k)] = Absent
    BY DEF NamesFree
  <2>1. pc[i] \in {"runservice", "analyzers"} => i \in Active \ disturbed
    BY DEF Undisturbed, Active
  <2> QED BY <2>1 DEF CliInv, OwnInv, AnalyzersOf, AnalyzerAt, ServiceOf
<1> QED BY <1>1, Invariance, PTL

\* What is known of an undisturbed call.
LEMMA Streaming ==
  ASSUME CliInv, NEW i \in Undisturbed, pc[i] = "stream"
  PROVE  /\ Fits(i) /\ seen[i] = containers[Service] /\ seen[i] \in Container
         /\ linked[i] \subseteq Names
<1>1. i \in Active \ disturbed /\ i \in Invocations
  BY DEF Undisturbed, Active
<1>2. Fits(i) /\ seen[i] = containers[Service]
  BY <1>1 DEF CliInv, OwnInv, ServiceOf
<1>3. seen[i] \in Container /\ linked[i] \subseteq Names
  BY <1>1, <1>2 DEF CliInv, TypeOK, Fits
<1> QED BY <1>2, <1>3

\* An undisturbed invocation is served by the current image, from its own
\* directory.
THEOREM Served == Spec => []ServedAsAsked
<1>1. CliInv => ServedAsAsked
  <2> SUFFICES ASSUME CliInv, NEW i \in Undisturbed, pc[i] = "stream"
               PROVE  /\ seen[i].version = local["service"]
                      /\ sub[i] \notin Prefixed \ Inside => Analyzed(i) = opts[i].dir
    BY DEF ServedAsAsked
  <2>1. Fits(i) /\ seen[i] = containers[Service]
    BY Streaming
  <2> QED BY <2>1 DEF Fits, Analyzed
<1> QED BY <1>1, Invariance, PTL

\* The service has a link for each analyzer the invocation knows it started.
THEOREM Linked == Spec => []LinkedAsStarted
<1>1. CliInv => LinkedAsStarted
  <2> SUFFICES ASSUME CliInv, NEW i \in Undisturbed, pc[i] = "stream",
                      NEW l \in linked[i] \ seen[i].links
               PROVE  \E m \in seen[i].links : <<l[1], m[1]>> \in SuffixOf
    BY DEF LinkedAsStarted
  <2>1. /\ Fits(i) /\ seen[i] = containers[Service] /\ seen[i] \in Container
        /\ linked[i] \subseteq Names
    BY Streaming
  <2>2. PICK m \in seen[i].links : Occurs(l, m)
    BY <2>1 DEF Fits
  <2>3. seen[i].links \subseteq Names
    BY <2>1, Zenon DEF Container
  <2>4. \A x \in Names : x = <<x[1], x[2]>>
    BY DEF Names, Service, Kythe
  <2>5. l # m /\ l = <<l[1], l[2]>> /\ m = <<m[1], m[2]>>
    BY <2>1, <2>2, <2>3, <2>4
  <2> QED BY <2>2, <2>5 DEF Occurs
<1> QED BY <1>1, Invariance, PTL

\* An undisturbed invocation that ends has removed all it is to stop.
THEOREM CleansUp == Spec => []CleanedUp
<1>1. CliInv => CleanedUp
  <2> SUFFICES ASSUME CliInv, NEW i \in Undisturbed, pc[i] = "cleanup", stops[i] = << >>
               PROVE  /\ ~opts[i].stayUp => containers[Service] = Absent
                      /\ kythe[i] => containers[Kythe] = Absent
                      /\ \A k \in Wanted(i) : containers[getContainerAndAddress(i, k)] = Absent
    BY DEF CleanedUp
  <2>1. i \in Active \ disturbed
    BY DEF Undisturbed, Active
  <2>2. \A n \in ToStop(i) \ ElementsOf(stops[i]) : containers[n] = Absent
    BY <2>1 DEF CliInv, OwnInv, CleanupOf
  <2>3. ElementsOf(stops[i]) = {}
    BY NamesApart, ElementsOfOne
  <2>4. /\ ~opts[i].stayUp => Service \in ToStop(i)
        /\ kythe[i] => Kythe \in ToStop(i)
        /\ \A k \in Wanted(i) : getContainerAndAddress(i, k) \in ToStop(i)
    BY Zenon DEF ToStop
  <2> QED BY <2>2, <2>3, <2>4, Zenon
<1> QED BY <1>1, Invariance, PTL
=============================================================================
