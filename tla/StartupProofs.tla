---------------------------- MODULE StartupProofs ----------------------------
(***************************************************************************)
(* Theorems about how the processes come up: how long WaitUntilReady takes *)
(* and what it must find, for every timeout, longest pause, longest call,  *)
(* list of analyzers and time at which they start.                         *)
(***************************************************************************)
EXTENDS Startup, TLAPS

ServerPlaces == {"starting", "waiting", "register", "bind", "listening", "stdin", "exited", "dead"}
MapPlaces    == {"lookup", "insert", "inserting", "reread"}
WaitPlaces   == {"try", "calling", "sleeping"}
EndPlaces    == {"record", "recording", "done"}

\* The types of the variables.
StartupType ==
  /\ clock \in Nat
  /\ server \in [Servers -> ServerPlaces]
  /\ since \in [Servers -> Nat \cup {Nil}]
  /\ wpc \in [Waiters -> MapPlaces \cup WaitPlaces \cup EndPlaces]
  /\ ival \in [Waiters -> Nat \ {0}]
  /\ wake \in [Waiters -> Nat]
  /\ reached \in [Waiters -> BOOLEAN]
  /\ result \in [Waiters -> {"ok", "err", Nil}]
  /\ client \in [Waiters -> Addresses \cup {Service, Nil}]
  /\ clients \in [Addresses -> Addresses \cup {Nil}]
  /\ torn \subseteq Healths
  /\ raced \in BOOLEAN
  /\ wpc[Cli] \in WaitPlaces \cup {"done"}
  /\ client[Cli] = Service
  /\ \A g \in Healths : client[g] \in Addresses \cup {Nil}

(***************************************************************************)
(* The clients of the analyzers.                                           *)
(***************************************************************************)

Started == {"register", "bind", "listening", "stdin", "exited"}

\* The goroutines that have put their client into the map.
Inserted == {"reread"} \cup WaitPlaces \cup EndPlaces

\* While no insertions have overlapped, the map has nothing but each address's
\* own client, and those of the goroutines that are past the insertion.
MapInv ==
  ~raced =>
    /\ \A g \in torn : wpc[g] # "inserting"
    /\ \A a \in Addresses : clients[a] \in {a, Nil}
    /\ Alive => \A g \in Healths : wpc[g] \in Inserted => clients[List[g]] = List[g]

\* A goroutine waits with some client, whatever the map has; and nothing is
\* served before all goroutines are done.
ClientsInv ==
  /\ MapInv
  /\ \A g \in torn : wpc[g] \in {"inserting", "recording"}
  /\ \A g \in Healths : wpc[g] \in WaitPlaces => client[g] \in Addresses
  /\ server[Service] \in Started => AllRecorded
  /\ server[Service] # "starting"

(***************************************************************************)
(* Time.                                                                   *)
(***************************************************************************)

\* A server's listening time is known once it listens, and it listens for
\* ever, except that the command line may stop the service after giving up.
ListeningInv ==
  \A s \in Servers :
    /\ server[s] = "listening" => since[s] # Nil
    /\ since[s] # Nil => since[s] <= clock
    /\ since[s] # Nil => server[s] = "listening" \/ (s = Service /\ result[Cli] = "err")

\* The pauses before now add up to at least the next one, less one.
PauseOf(w) ==
  /\ wpc[w] \in MapPlaces => clock = 0 /\ ival[w] = FirstInterval
  /\ wpc[w] = "try" => ival[w] <= clock + 1 /\ clock <= 2 * TimeoutOf(w) + MaxCall
  /\ wpc[w] = "calling" =>
       /\ ival[w] <= clock + 1 /\ ival[w] <= TimeoutOf(w)
       /\ clock <= wake[w] /\ wake[w] <= clock + MaxCall
       /\ wake[w] <= TimeoutOf(w) + MaxCall
  /\ wpc[w] = "sleeping" =>
       /\ ival[w] <= wake[w] + 1
       /\ clock <= wake[w] /\ wake[w] <= 2 * clock + 1
       /\ wake[w] <= 2 * TimeoutOf(w) + MaxCall

\* The server it waits for listens since t: what time that leaves.
SinceOf(w, t) ==
  /\ wpc[w] = "try" => clock <= 2 * t + FirstInterval + MaxCall
  /\ wpc[w] = "sleeping" => wake[w] <= 2 * t + FirstInterval + MaxCall
  /\ wpc[w] = "calling" /\ ~reached[w] => wake[w] + ival[w] <= 2 * t + FirstInterval + MaxCall
  /\ wpc[w] = "calling" => wake[w] <= 2 * t + FirstInterval + 2 * MaxCall

Listens(s) == s \in Servers /\ since[s] # Nil

WaitOf(w) ==
  /\ Runs(w) => PauseOf(w)
  /\ Runs(w) /\ Listens(client[w]) => SinceOf(w, since[client[w]])
  /\ result[w] = "err" =>
       /\ clock >= TimeoutOf(w) /\ wpc[w] \in EndPlaces
       /\ Listens(client[w]) => ~EarlyFor(w, since[client[w]])

WaitInv == \A w \in Waiters : WaitOf(w)

\* The time c is not late: some analyzer does not listen long before it.
NotLate(c) ==
  \E a \in Addresses : Listens(a) => c <= 2 * since[a] + FirstInterval + 2 * MaxCall

\* The service starts to listen as soon as it has heard from everybody.
ServiceInv ==
  /\ server[Service] \in {"waiting", "register", "bind", "stdin"} => NotLate(clock)
  /\ Listens(Service) => NotLate(since[Service])

TimeInv == ListeningInv /\ WaitInv /\ ServiceInv

(***************************************************************************)
(* The constants, and what a step leaves alone.                            *)
(***************************************************************************)

LEMMA ConstantFacts ==
  /\ MaxCall \in Nat /\ Timeout \in Nat \ {0} /\ CliTimeout \in Nat \ {0} /\ MaxInterval \in Nat
  /\ Cli \notin Healths /\ Cli \in Waiters /\ Service \in Servers
  /\ \A g \in Healths : g \in Waiters /\ List[g] \in Addresses
  /\ \A w \in Waiters : TimeoutOf(w) \in Nat \ {0}
  /\ Healths # {} /\ Service \notin Addresses
  /\ Nil \notin Nat /\ Nil # "err" /\ Nil \notin Addresses /\ Nil \notin Servers
<1>1. List \in Seq(Addresses) /\ List # << >> /\ Service \notin Addresses
  BY StartupTyped
<1>2. Healths = 1 .. Len(List) /\ Len(List) \in Nat /\ Len(List) # 0
  BY <1>1 DEF Healths
<1>3. Cli \notin Healths
  BY <1>2 DEF Cli
<1>4. \A g \in Healths : g \in Waiters /\ List[g] \in Addresses
  BY DEF Addresses, Waiters
<1>5. Healths # {}
  BY <1>2
<1> QED
  BY <1>1, <1>3, <1>4, <1>5, StartupTyped DEF Waiters, Servers, TimeoutOf

\* What the end of the service's process leaves of a waiter: the command line
\* goes on, a goroutine is gone.
LEMMA CrashLeaves ==
  ASSUME Crash
  PROVE  /\ server' = [server EXCEPT ![Service] = "dead"]
         /\ UNCHANGED <<clock, methods, since>>
         /\ /\ wpc'[Cli] = wpc[Cli] /\ client'[Cli] = client[Cli] /\ ival'[Cli] = ival[Cli]
            /\ wake'[Cli] = wake[Cli] /\ reached'[Cli] = reached[Cli]
            /\ result'[Cli] = result[Cli]
         /\ \A g \in Healths :
              /\ wpc'[g] = "done" /\ client'[g] = Nil /\ result'[g] = Nil
         /\ clients' = [a \in Addresses |-> Nil] /\ torn' = {} /\ raced' = FALSE
<1>1. Cli \in Waiters /\ Cli \notin Healths /\ Healths \subseteq Waiters
  BY ConstantFacts
<1> QED BY <1>1 DEF Crash, Becomes

\* The service does not come back.
LEMMA DeadStays == StartupType /\ [Next]_vars => (Alive' => Alive)
<1> SUFFICES ASSUME StartupType, [Next]_vars, ~Alive
             PROVE  server'[Service] = "dead"
  BY DEF Alive
<1>1. server[Service] = "dead" /\ server \in [Servers -> ServerPlaces] /\ Service \in Servers
  BY ConstantFacts DEF Alive, StartupType
<1>2. CASE UNCHANGED vars \/ Tick \/ AllOver
  BY <1>1, <1>2 DEF vars, processes, Tick, AllOver
<1>3. ASSUME NEW s \in Servers, ServerStep(s)
      PROVE  server'[Service] = "dead"
  BY <1>1, <1>3 DEF ServerStep, Register, Listen, ListenFails, Becomes
<1>4. ASSUME NEW w \in Waiters, WaitUntilReady(w)
      PROVE  server'[Service] = "dead"
  BY <1>1, <1>4 DEF WaitUntilReady, Try, Ready, Pause, Wake, GiveUp, processes
<1>5. ASSUME NEW g \in Healths, HealthStep(g)
      PROVE  server'[Service] = "dead"
  BY <1>5 DEF HealthStep, Alive
<1>6. CASE Proceed \/ AnswerStdin \/ StopContainer
  BY <1>1, <1>6 DEF Proceed, MayProceed, AnswerStdin, StopContainer, Alive
<1> QED BY <1>2, <1>3, <1>4, <1>5, <1>6 DEF Next

(***************************************************************************)
(* Types.                                                                  *)
(***************************************************************************)

LEMMA InitType == Init => StartupType
<1> SUFFICES ASSUME Init
             PROVE  StartupType
  OBVIOUS
<1>1. Cli \in Waiters /\ Healths \subseteq Waiters /\ Cli \notin Healths
  BY ConstantFacts
<1>2. wpc \in [Waiters -> {"try", "lookup"}] /\ wpc[Cli] = "try"
  BY <1>1 DEF Init
<1>3. /\ client \in [Waiters -> {Service, Nil}] /\ client[Cli] = Service
      /\ \A g \in Healths : client[g] = Nil
  BY <1>1 DEF Init
<1>4. server \in [Servers -> ServerPlaces] /\ since \in [Servers -> Nat \cup {Nil}]
  BY DEF Init, ServerPlaces
<1>5. /\ ival \in [Waiters -> Nat \ {0}] /\ wake \in [Waiters -> Nat]
      /\ result \in [Waiters -> {"ok", "err", Nil}]
  BY DEF Init, FirstInterval
<1>6. reached \in [Waiters -> BOOLEAN]
  BY Zenon DEF Init
<1>7. clock = 0 /\ torn = {} /\ raced = FALSE /\ clients \in [Addresses -> Addresses \cup {Nil}]
  BY DEF Init
<1> QED
  BY <1>2, <1>3, <1>4, <1>5, <1>6, <1>7 DEF StartupType, MapPlaces, WaitPlaces, EndPlaces

LEMMA TryType == ASSUME StartupType, NEW w \in Waiters, Try(w) PROVE StartupType'
<1>1. PICK d \in 0 .. MaxCall : wake' = [wake EXCEPT ![w] = clock + d]
  BY DEF Try
<1>2. /\ wpc' = [wpc EXCEPT ![w] = "calling"]
      /\ reached' = [reached EXCEPT ![w] = client[w] \in Servers /\ server[client[w]] = "listening"]
      /\ UNCHANGED <<clock, server, methods, since, client, ival, result, clients, torn, raced>>
  BY DEF Try, Goto, processes, maps
<1>3. reached' \in [Waiters -> BOOLEAN]
  BY <1>2, Zenon DEF StartupType
<1>4. clock + d \in Nat
  BY <1>1, ConstantFacts DEF StartupType
<1>5. wake' \in [Waiters -> Nat] /\ wpc' \in [Waiters -> MapPlaces \cup WaitPlaces \cup EndPlaces]
  BY <1>1, <1>2, <1>4 DEF StartupType, WaitPlaces
<1>6. wpc'[Cli] \in WaitPlaces \cup {"done"}
  BY <1>2 DEF StartupType, WaitPlaces
<1> QED BY <1>2, <1>3, <1>5, <1>6 DEF StartupType

LEMMA WaitType ==
  ASSUME StartupType, NEW w \in Waiters, WaitUntilReady(w)
  PROVE  StartupType'
<1>1. CASE Try(w)
  BY <1>1, TryType
<1>2. CASE Ready(w) \/ GiveUp(w)
  <2>1. PICK r \in {"ok", "err"} : Return(w, r) /\ UNCHANGED <<clock, processes, client, maps>>
    BY <1>2 DEF Ready, GiveUp
  <2>2. reached' \in [Waiters -> BOOLEAN]
    BY <2>1, Zenon DEF Return, StartupType
  <2>3. /\ ival' \in [Waiters -> Nat \ {0}] /\ wake' \in [Waiters -> Nat]
        /\ result' \in [Waiters -> {"ok", "err", Nil}]
        /\ wpc' \in [Waiters -> MapPlaces \cup WaitPlaces \cup EndPlaces]
    BY <2>1 DEF Return, StartupType, Goto, FirstInterval, EndPlaces
  <2>4. wpc'[Cli] \in WaitPlaces \cup {"done"}
    BY <2>1 DEF Return, StartupType, Goto
  <2> QED BY <2>1, <2>2, <2>3, <2>4 DEF StartupType, processes, maps
<1>3. CASE Pause(w)
  <2>1. /\ wake' = [wake EXCEPT ![w] = clock + ival[w]]
        /\ ival' = [ival EXCEPT ![w] = IF @ <= MaxInterval THEN 2 * @ ELSE @]
        /\ wpc' = [wpc EXCEPT ![w] = "sleeping"]
        /\ UNCHANGED <<clock, server, since, client, reached, result, clients, torn, raced>>
    BY <1>3 DEF Pause, Goto, processes, maps
  <2>2. wake' \in [Waiters -> Nat] /\ ival' \in [Waiters -> Nat \ {0}]
    BY <2>1 DEF StartupType
  <2> QED BY <2>1, <2>2 DEF StartupType, WaitPlaces
<1>4. CASE Wake(w)
  BY <1>4 DEF Wake, StartupType, Goto, processes, maps, WaitPlaces
<1> QED BY <1>1, <1>2, <1>3, <1>4 DEF WaitUntilReady

LEMMA CrashType == ASSUME StartupType, Crash PROVE StartupType'
<1>1. Cli \in Waiters /\ Service \in Servers /\ clock' = clock /\ since' = since
  BY ConstantFacts DEF Crash
<1>2. server' \in [Servers -> ServerPlaces]
  BY <1>1 DEF Crash, Becomes, StartupType, ServerPlaces
<1>3. /\ wpc' = [w \in Waiters |-> IF w = Cli THEN wpc[w] ELSE "done"]
      /\ client' = [w \in Waiters |-> IF w = Cli THEN client[w] ELSE Nil]
      /\ ival' = [w \in Waiters |-> IF w = Cli THEN ival[w] ELSE FirstInterval]
      /\ wake' = [w \in Waiters |-> IF w = Cli THEN wake[w] ELSE 0]
      /\ reached' = [w \in Waiters |-> IF w = Cli THEN reached[w] ELSE FALSE]
      /\ result' = [w \in Waiters |-> IF w = Cli THEN result[w] ELSE Nil]
  BY DEF Crash
<1>4. reached' \in [Waiters -> BOOLEAN]
  BY <1>3, Zenon DEF StartupType
<1>5. /\ wpc' \in [Waiters -> MapPlaces \cup WaitPlaces \cup EndPlaces]
      /\ wake' \in [Waiters -> Nat] /\ result' \in [Waiters -> {"ok", "err", Nil}]
  BY <1>3 DEF StartupType, EndPlaces
<1>6. client' \in [Waiters -> Addresses \cup {Service, Nil}] /\ ival' \in [Waiters -> Nat \ {0}]
  BY <1>3 DEF StartupType, FirstInterval
<1>7. clients' \in [Addresses -> Addresses \cup {Nil}] /\ torn' = {} /\ raced' = FALSE
  BY DEF Crash
<1> QED
  BY <1>1, <1>2, <1>4, <1>5, <1>6, <1>7, CrashLeaves DEF StartupType

\* A goroutine that is not waiting changes the maps and what it has itself.
HealthKeeps(g) ==
  /\ UNCHANGED <<clock, server, methods, since, ival, wake, reached>>
  /\ \A v \in Waiters \ {g} :
       wpc'[v] = wpc[v] /\ client'[v] = client[v] /\ result'[v] = result[v]
  /\ wpc[g] # "done"
  /\ \/ /\ wpc[g] \in MapPlaces /\ wpc'[g] \in MapPlaces \cup {"try"}
        /\ result'[g] = result[g]
     \/ /\ wpc[g] = "record" /\ wpc'[g] = "recording"
        /\ client'[g] = client[g] /\ result'[g] = result[g]
     \/ wpc[g] = "recording" /\ wpc'[g] = "done" /\ client'[g] = Nil /\ result'[g] = Nil

LEMMA HealthShape ==
  ASSUME StartupType, NEW g \in Healths, HealthStep(g)
  PROVE  Crash \/ HealthKeeps(g)
<1>1. g \in Waiters
  BY ConstantFacts
<1>2. CASE Lookup(g)
  BY <1>1, <1>2 DEF Lookup, HealthKeeps, Goto, StartupType, MapPlaces, processes, timing
<1>3. CASE BeginInsert(g) \/ EndInsert(g)
  BY <1>1, <1>3 DEF BeginInsert, EndInsert, HealthKeeps, Goto, StartupType, MapPlaces, processes,
     waiting, timing
<1>4. CASE Reread(g)
  BY <1>1, <1>4 DEF Reread, HealthKeeps, Goto, StartupType, MapPlaces, processes, timing
<1>5. CASE BeginRecord(g) \/ EndRecord(g)
  BY <1>1, <1>5 DEF BeginRecord, EndRecord, HealthKeeps, Goto, StartupType, processes, waiting,
     timing
<1> QED BY <1>2, <1>3, <1>4, <1>5 DEF HealthStep, ConcurrentMapAccess

\* Whatever overlapping writes do, the map of clients has clients.
LEMMA WrittenType ==
  ASSUME StartupType, NEW a \in Addresses, NEW alone \in BOOLEAN,
         NEW n \in Written(clients, a, a, alone)
  PROVE  n \in [Addresses -> Addresses \cup {Nil}]
<1>1. clients \in [Addresses -> Addresses \cup {Nil}]
  BY DEF StartupType
<1> DEFINE Left == {m \in [Addresses -> {clients[b] : b \in Addresses} \cup {Nil}] :
                      \A b \in Addresses : m[b] \in {clients[b], Nil}}
<1>2. \A m \in Left : m \in [Addresses -> Addresses \cup {Nil}]
  BY <1>1
<1>3. CASE alone
  BY <1>1, <1>3 DEF Written
<1>4. CASE ~alone
  <2>1. \/ n \in Left
        \/ \E m \in Left : n = [m EXCEPT ![a] = a]
        \/ \E m \in Left, b \in Addresses : n = [m EXCEPT ![a] = Nil, ![b] = a]
    BY <1>4 DEF Written
  <2> QED BY <1>2, <2>1
<1> QED BY <1>3, <1>4

LEMMA HealthType ==
  ASSUME StartupType, NEW g \in Healths, HealthStep(g)
  PROVE  StartupType'
<1>1. g \in Waiters /\ g # Cli /\ Cli \in Waiters /\ List[g] \in Addresses
  BY ConstantFacts
<1>2. Readable(g) \subseteq Addresses \cup {Nil}
  BY <1>1 DEF Readable, StartupType
<1>3. ASSUME NEW l \in MapPlaces \cup WaitPlaces \cup EndPlaces, Goto(g, l)
      PROVE  /\ wpc' \in [Waiters -> MapPlaces \cup WaitPlaces \cup EndPlaces]
             /\ wpc'[Cli] = wpc[Cli]
  BY <1>1, <1>3 DEF Goto, StartupType
<1>4. {"try", "insert", "inserting", "reread", "recording", "done"}
        \subseteq MapPlaces \cup WaitPlaces \cup EndPlaces
  BY DEF MapPlaces, WaitPlaces, EndPlaces
<1>5. ASSUME NEW c \in Addresses \cup {Nil}, client' = [client EXCEPT ![g] = c]
      PROVE  /\ client' \in [Waiters -> Addresses \cup {Service, Nil}]
             /\ client'[Cli] = Service /\ \A h \in Healths : client'[h] \in Addresses \cup {Nil}
  BY <1>1, <1>5, ConstantFacts DEF StartupType
<1>6. CASE Lookup(g)
  <2>1. PICK c \in Addresses \cup {Nil} : client' = [client EXCEPT ![g] = c]
    BY <1>2, <1>6 DEF Lookup
  <2>2. \E l \in {"insert", "try"} : Goto(g, l)
    BY <1>6 DEF Lookup
  <2> QED BY <1>3, <1>4, <1>5, <1>6, <2>1, <2>2 DEF Lookup, StartupType, processes, timing, maps
<1>7. CASE BeginInsert(g) \/ BeginRecord(g)
  <2>1. torn' \subseteq Healths /\ raced' \in BOOLEAN
    BY <1>7 DEF BeginInsert, BeginRecord, Inserting, Recording, StartupType
  <2>2. \E l \in {"inserting", "recording"} : Goto(g, l)
    BY <1>7 DEF BeginInsert, BeginRecord
  <2>3. UNCHANGED <<clock, server, since, client, ival, wake, reached, result, clients>>
    BY <1>7 DEF BeginInsert, BeginRecord, processes, waiting, timing
  <2> QED BY <1>3, <1>4, <2>1, <2>2, <2>3 DEF StartupType
<1>8. CASE EndInsert(g)
  <2>1. clients' \in [Addresses -> Addresses \cup {Nil}]
    BY <1>1, <1>8, WrittenType DEF EndInsert
  <2>2. torn' \subseteq Healths /\ Goto(g, "reread")
    BY <1>8 DEF EndInsert, StartupType
  <2> QED
    BY <1>3, <1>4, <1>8, <2>1, <2>2 DEF EndInsert, StartupType, processes, waiting, timing
<1>9. CASE Reread(g) /\ ~Crash
  <2>1. PICK c \in Addresses \cup {Nil} : client' = [client EXCEPT ![g] = c]
    BY <1>2, <1>9 DEF Reread
  <2>2. Goto(g, "try") /\ UNCHANGED <<clock, processes, timing, maps>>
    BY <1>9 DEF Reread
  <2> QED BY <1>3, <1>4, <1>5, <2>1, <2>2 DEF StartupType, processes, timing, maps
<1>10. CASE EndRecord(g)
  <2>1. torn' \subseteq Healths /\ result' \in [Waiters -> {"ok", "err", Nil}]
    BY <1>10 DEF EndRecord, StartupType
  <2>2. client' = [client EXCEPT ![g] = Nil] /\ Goto(g, "done")
    BY <1>10 DEF EndRecord
  <2>3. UNCHANGED <<clock, server, since, ival, wake, reached, clients, raced>>
    BY <1>10 DEF EndRecord, processes
  <2> QED BY <1>3, <1>4, <1>5, <2>1, <2>2, <2>3 DEF StartupType
<1> QED
  BY <1>6, <1>7, <1>8, <1>9, <1>10, CrashType DEF HealthStep, ConcurrentMapAccess

LEMMA ServerType ==
  ASSUME StartupType, NEW s \in Servers, ServerStep(s)
  PROVE  StartupType'
BY DEF ServerStep, Register, Listen, ListenFails, Becomes, StartupType, ServerPlaces, waiting,
   timing, maps

LEMMA MainType ==
  ASSUME StartupType, Proceed \/ AnswerStdin \/ StopContainer
  PROVE  StartupType'
<1>1. CASE StopContainer
  BY <1>1, CrashType DEF StopContainer
<1>2. CASE Proceed \/ AnswerStdin
  BY <1>2, ConstantFacts DEF Proceed, AnswerStdin, Becomes, StartupType, ServerPlaces, waiting,
     timing, maps
<1> QED BY <1>1, <1>2

LEMMA StepType == StartupType /\ [Next]_vars => StartupType'
<1> SUFFICES ASSUME StartupType, [Next]_vars
             PROVE  StartupType'
  OBVIOUS
<1>1. CASE UNCHANGED vars \/ AllOver
  BY <1>1 DEF vars, processes, waiting, timing, maps, AllOver, StartupType
<1>2. CASE Tick
  BY <1>2 DEF processes, waiting, timing, maps, Tick, StartupType
<1> QED BY <1>1, <1>2, WaitType, HealthType, ServerType, MainType DEF Next

\* Clocks, processes, goroutines and maps keep their types, whatever the
\* servers, the timeouts and the schedule (Startup's variables).
THEOREM TypeCorrect == Spec => []StartupType
BY InitType, StepType, PTL DEF Spec

(***************************************************************************)
(* The map of clients.                                                     *)
(***************************************************************************)

LEMMA InitClients == Init => ClientsInv
<1> SUFFICES ASSUME Init
             PROVE  ClientsInv
  OBVIOUS
<1>1. \A g \in Healths : wpc[g] = "lookup"
  BY ConstantFacts DEF Init
<1>2. server[Service] = "waiting"
  BY ConstantFacts DEF Init
<1>3. torn = {} /\ \A a \in Addresses : clients[a] = Nil
  BY DEF Init
<1> QED BY <1>1, <1>2, <1>3 DEF ClientsInv, MapInv, Inserted, WaitPlaces, EndPlaces, Started

\* When the process has ended nothing is left of its map and its goroutines.
LEMMA CrashClients == ASSUME StartupType, Crash PROVE ClientsInv'
<1>1. /\ server'[Service] = "dead" /\ torn' = {} /\ \A a \in Addresses : clients'[a] = Nil
      /\ \A g \in Healths : wpc'[g] = "done"
  BY CrashLeaves, ConstantFacts DEF StartupType
<1>2. MapInv'
  BY <1>1 DEF MapInv, Alive, Addresses, Healths
<1> QED BY <1>1, <1>2 DEF ClientsInv, WaitPlaces, Started, Healths

\* An insertion that overlaps no other adds the goroutine's own client.
LEMMA InsertMap ==
  ASSUME StartupType, ClientsInv, NEW g \in Healths, Alive, EndInsert(g)
  PROVE  MapInv'
<1>1. g \in Waiters /\ List[g] \in Addresses /\ Healths \subseteq Waiters
  BY ConstantFacts
<1>2. /\ wpc[g] = "inserting" /\ wpc' = [wpc EXCEPT ![g] = "reread"] /\ torn' = torn \ {g}
      /\ raced' = raced /\ server' = server
  BY DEF EndInsert, Goto, processes
<1>3. SUFFICES ASSUME ~raced
               PROVE  /\ \A h \in torn' : wpc'[h] # "inserting"
                      /\ \A a \in Addresses : clients'[a] \in {a, Nil}
                      /\ \A h \in Healths : wpc'[h] \in Inserted => clients'[List[h]] = List[h]
  BY <1>2 DEF MapInv, Addresses, Healths, Inserted, WaitPlaces, EndPlaces
<1>4. /\ \A h \in torn : wpc[h] # "inserting"
      /\ \A a \in Addresses : clients[a] \in {a, Nil}
      /\ \A h \in Healths : wpc[h] \in Inserted => clients[List[h]] = List[h]
  BY <1>3 DEF ClientsInv, MapInv
<1>5. clients' = [clients EXCEPT ![List[g]] = List[g]]
  BY <1>2, <1>4 DEF EndInsert, Written
<1>6. \A h \in torn' : wpc'[h] # "inserting"
  BY <1>2, <1>4, <1>1 DEF StartupType
<1>7. \A a \in Addresses : clients'[a] \in {a, Nil}
  BY <1>4, <1>5 DEF StartupType
<1>8. ASSUME NEW h \in Healths, wpc'[h] \in Inserted
      PROVE  clients'[List[h]] = List[h]
  <2>1. List[h] \in Addresses
    BY ConstantFacts
  <2>2. h # g => wpc[h] \in Inserted
    BY <1>1, <1>2, <1>8 DEF StartupType
  <2> QED BY <1>1, <1>4, <1>5, <2>1, <2>2 DEF StartupType
<1> QED BY <1>6, <1>7, <1>8

LEMMA HealthMap ==
  ASSUME StartupType, ClientsInv, NEW g \in Healths, Alive, HealthStep(g), ~Crash, Alive' => Alive
  PROVE  MapInv'
<1>1. g \in Waiters /\ List[g] \in Addresses /\ Healths \subseteq Waiters
  BY ConstantFacts
<1>2. CASE EndInsert(g)
  BY <1>2, InsertMap
<1>3. CASE BeginInsert(g)
  <2>1. SUFFICES ASSUME ~raced'
                 PROVE  /\ torn' = torn /\ clients' = clients /\ ~raced
                        /\ \A h \in torn : wpc'[h] # "inserting"
                        /\ \A h \in Healths : wpc'[h] \in Inserted => wpc[h] \in Inserted
    BY DEF ClientsInv, MapInv, Addresses, Healths, Inserted, WaitPlaces, EndPlaces
  <2>2. Inserting(g) = {} /\ ~raced /\ torn' = torn /\ clients' = clients
        /\ wpc[g] = "insert" /\ wpc' = [wpc EXCEPT ![g] = "inserting"]
    BY <1>3, <2>1 DEF BeginInsert, Goto
  <2>3. g \notin torn
    BY <2>2 DEF ClientsInv
  <2>4. \A h \in torn : wpc[h] # "inserting" /\ h \in Waiters /\ h # g
    BY <1>1, <2>2, <2>3 DEF ClientsInv, MapInv, StartupType
  <2> QED
    BY <1>1, <2>2, <2>4 DEF StartupType, Inserted, WaitPlaces, EndPlaces
<1>4. CASE Lookup(g) \/ Reread(g)
  <2>1. /\ UNCHANGED <<clients, torn, raced>>
        /\ wpc[g] \in {"lookup", "reread"}
        /\ wpc' = [wpc EXCEPT ![g] = wpc'[g]] /\ wpc'[g] \in {"insert", "try"}
        /\ wpc'[g] = "try" => wpc[g] = "reread" \/ clients[List[g]] # Nil
    <3>1. CASE Lookup(g)
      <4>1. PICK c \in Readable(g) : Goto(g, IF c = Nil THEN "insert" ELSE "try")
        BY <3>1 DEF Lookup
      <4>2. c # Nil => c = clients[List[g]]
        BY DEF Readable
      <4> QED BY <1>1, <3>1, <4>1, <4>2 DEF Lookup, Goto, maps, StartupType
    <3>2. CASE Reread(g)
      BY <1>1, <3>2 DEF Reread, Goto, maps, StartupType
    <3> QED BY <1>4, <3>1, <3>2
  <2>2. \A h \in Healths : h # g => wpc'[h] = wpc[h]
    BY <1>1, <2>1 DEF StartupType
  <2>3. SUFFICES ASSUME ~raced
                 PROVE  /\ \A h \in torn : wpc'[h] # "inserting"
                        /\ \A h \in Healths : wpc'[h] \in Inserted => clients[List[h]] = List[h]
    BY <2>1 DEF ClientsInv, MapInv, Addresses, Healths, Inserted, WaitPlaces, EndPlaces
  <2>4. /\ \A h \in torn : wpc[h] # "inserting" /\ h \in Healths
        /\ clients[List[g]] \in {List[g], Nil}
        /\ \A h \in Healths : wpc[h] \in Inserted => clients[List[h]] = List[h]
    BY <1>1, <2>3 DEF ClientsInv, MapInv, StartupType
  <2>5. wpc'[g] \in Inserted => clients[List[g]] = List[g]
    BY <2>1, <2>4 DEF Inserted, WaitPlaces, EndPlaces
  <2> QED BY <2>1, <2>2, <2>4, <2>5
<1>5. CASE BeginRecord(g) \/ EndRecord(g)
  <2>1. /\ UNCHANGED <<clients, raced>> /\ wpc[g] \in {"record", "recording"}
        /\ wpc' = [wpc EXCEPT ![g] = wpc'[g]] /\ wpc'[g] \in {"recording", "done"}
        /\ \A h \in torn' : h \in torn \/ h = g \/ wpc[h] = "recording"
    BY <1>1, <1>5 DEF BeginRecord, EndRecord, Goto, StartupType, Recording
  <2>2. \A h \in Healths : h # g => wpc'[h] = wpc[h]
    BY <1>1, <2>1 DEF StartupType
  <2>3. torn' \subseteq Healths
    BY HealthType DEF StartupType
  <2>4. wpc[g] \in Inserted
    BY <2>1 DEF Inserted, EndPlaces
  <2> QED
    BY <2>1, <2>2, <2>3, <2>4 DEF ClientsInv, MapInv, Addresses, Healths, Inserted, WaitPlaces,
       EndPlaces
<1> QED BY <1>2, <1>3, <1>4, <1>5 DEF HealthStep, ConcurrentMapAccess

LEMMA HealthClients ==
  ASSUME StartupType, ClientsInv, NEW g \in Healths, HealthStep(g), Alive' => Alive
  PROVE  ClientsInv'
<1>1. CASE Crash
  BY <1>1, CrashClients
<1>2. CASE HealthKeeps(g) /\ ~Crash
  <2>1. Alive /\ MapInv'
    BY <1>2, HealthMap DEF HealthStep
  <2>2. server' = server /\ server[Service] \notin Started /\ server[Service] # "starting"
    BY <1>2 DEF HealthKeeps, ClientsInv, AllRecorded
  <2>3. ASSUME NEW h \in torn'
        PROVE  wpc'[h] \in {"inserting", "recording"}
    <3>1. h \in Healths /\ g \in Waiters /\ Healths \subseteq Waiters
      BY HealthType, ConstantFacts DEF StartupType
    <3>2. CASE BeginInsert(g)
      BY <3>1, <3>2 DEF BeginInsert, Goto, StartupType, ClientsInv, Inserting
    <3>3. CASE BeginRecord(g)
      BY <3>1, <3>3 DEF BeginRecord, Goto, StartupType, ClientsInv, Recording
    <3>4. CASE EndInsert(g) \/ EndRecord(g)
      BY <3>1, <3>4 DEF EndInsert, EndRecord, Goto, StartupType, ClientsInv
    <3>5. CASE Lookup(g) \/ Reread(g)
      <4>1. h \in torn /\ wpc[g] \in {"lookup", "reread"}
        BY <1>2, <3>5 DEF Lookup, Reread, maps
      <4> QED BY <1>2, <3>1, <4>1 DEF HealthKeeps, ClientsInv
    <3> QED BY <1>2, <3>2, <3>3, <3>4, <3>5 DEF HealthStep, ConcurrentMapAccess
  <2>4. ASSUME NEW h \in Healths, wpc'[h] \in WaitPlaces
        PROVE  client'[h] \in Addresses
    <3>1. g \in Waiters /\ Healths \subseteq Waiters
      BY ConstantFacts
    <3>2. CASE h # g
      BY <1>2, <2>4, <3>1, <3>2 DEF HealthKeeps, ClientsInv
    <3>3. CASE h = g /\ (Lookup(g) \/ Reread(g))
      <4>1. client'[g] # Nil
        BY <1>2, <2>4, <3>1, <3>3 DEF Lookup, Reread, Goto, StartupType, WaitPlaces
      <4>2. client'[g] \in Addresses \cup {Nil}
        BY HealthType DEF StartupType
      <4> QED BY <3>3, <4>1, <4>2
    <3>4. CASE h = g /\ (BeginInsert(g) \/ EndInsert(g) \/ BeginRecord(g) \/ EndRecord(g))
      BY <2>4, <3>1, <3>4 DEF BeginInsert, EndInsert, BeginRecord, EndRecord, Goto, StartupType,
         WaitPlaces
    <3> QED BY <1>2, <3>2, <3>3, <3>4 DEF HealthStep, ConcurrentMapAccess
  <2> QED BY <2>1, <2>2, <2>3, <2>4 DEF ClientsInv, Healths
<1> QED BY <1>1, <1>2, HealthShape

LEMMA WaitClients ==
  ASSUME StartupType, ClientsInv, NEW w \in Waiters, WaitUntilReady(w)
  PROVE  ClientsInv'
<1>1. /\ UNCHANGED <<server, client, clients, torn, raced>>
      /\ \A v \in Waiters \ {w} : wpc'[v] = wpc[v]
  BY DEF WaitUntilReady, Try, Ready, Pause, Wake, GiveUp, Return, Goto, processes, maps,
     StartupType
<1>2. wpc[w] \in WaitPlaces /\ wpc'[w] \in {"calling", "sleeping", "try", "record", "done"}
  BY DEF WaitUntilReady, Try, Ready, Pause, Wake, GiveUp, Return, Goto, StartupType, WaitPlaces
<1>3. w # Cli => server[Service] \notin Started
  BY <1>2 DEF ClientsInv, AllRecorded, Waiters, WaitPlaces
<1>4. Cli \notin Healths /\ Healths \subseteq Waiters
  BY ConstantFacts
<1>5. ASSUME NEW g \in Healths
      PROVE  /\ wpc'[g] \in Inserted => wpc[g] \in Inserted
             /\ wpc'[g] \in WaitPlaces => wpc[g] \in WaitPlaces
             /\ g \in torn => wpc'[g] = wpc[g]
  BY <1>1, <1>2, <1>4 DEF Inserted, ClientsInv, WaitPlaces
<1>6. AllRecorded /\ w = Cli => AllRecorded'
  BY <1>1, <1>4 DEF AllRecorded
<1>7. MapInv'
  BY <1>1, <1>5 DEF ClientsInv, MapInv, StartupType, Alive, Inserted, WaitPlaces, EndPlaces,
     Addresses, Healths
<1> QED BY <1>1, <1>3, <1>5, <1>6, <1>7 DEF ClientsInv, StartupType, Healths

LEMMA StepClients == StartupType /\ ClientsInv /\ [Next]_vars => ClientsInv'
<1> SUFFICES ASSUME StartupType, ClientsInv, [Next]_vars
             PROVE  ClientsInv'
  OBVIOUS
<1>0. Service \in Servers /\ (Alive' => Alive)
  BY ConstantFacts, DeadStays
<1>1. ASSUME UNCHANGED <<wpc, client, clients, torn, raced>>,
             server'[Service] \in Started => server[Service] \in Started \/ AllRecorded,
             server'[Service] # "starting"
      PROVE  ClientsInv'
  BY <1>0, <1>1 DEF ClientsInv, MapInv, AllRecorded, Addresses, Healths, Inserted, WaitPlaces,
     EndPlaces
<1>2. CASE UNCHANGED vars \/ AllOver \/ Tick
  BY <1>1, <1>2 DEF vars, processes, waiting, maps, AllOver, Tick, ClientsInv
<1>3. ASSUME NEW s \in Servers, ServerStep(s)
      PROVE  ClientsInv'
  <2>1. UNCHANGED <<wpc, client, clients, torn, raced>>
    BY <1>3 DEF ServerStep, Register, Listen, ListenFails, maps, waiting
  <2>2. /\ server'[Service] \in Started => server[Service] \in Started
        /\ server'[Service] # "starting"
    BY <1>0, <1>3 DEF ServerStep, Register, Listen, ListenFails, Becomes, Started, StartupType,
       ClientsInv
  <2> QED BY <1>1, <2>1, <2>2
<1>4. CASE Proceed \/ AnswerStdin
  <2>1. UNCHANGED <<wpc, client, clients, torn, raced>>
    BY <1>4 DEF Proceed, AnswerStdin, maps, waiting
  <2>2. /\ server'[Service] \in Started => server[Service] \in Started \/ AllRecorded
        /\ server'[Service] # "starting"
    BY <1>0, <1>4 DEF Proceed, MayProceed, AnswerStdin, Becomes, Started, StartupType
  <2> QED BY <1>1, <2>1, <2>2
<1>5. CASE StopContainer
  BY <1>5, CrashClients DEF StopContainer
<1> QED BY <1>0, <1>2, <1>3, <1>4, <1>5, HealthClients, WaitClients DEF Next

\* Once the service serves, its map of clients has every analyzer's own
\* client, so that no request writes it, unless insertions overlapped before
\* (getHTTPClient, 480-488; WaitForAnalyzers, 231-246).
THEOREM NoLateInsert == Spec => []CachedUnlessRaced
<1>1. StartupType /\ ClientsInv => CachedUnlessRaced
  <2> SUFFICES ASSUME StartupType, ClientsInv, ~raced, Serving, NEW a \in Addresses
               PROVE  clients[a] = a
    BY DEF CachedUnlessRaced, ClientsCached
  <2>1. AllRecorded /\ Alive
    BY DEF ClientsInv, Serving, Started, Alive
  <2>2. PICK g \in Healths : a = List[g]
    BY DEF Addresses
  <2>3. wpc[g] \in Inserted
    BY <2>1 DEF AllRecorded, Inserted, EndPlaces
  <2> QED BY <2>1, <2>2, <2>3 DEF ClientsInv, MapInv
<1> QED BY <1>1, InitClients, StepClients, TypeCorrect, PTL DEF Spec

(***************************************************************************)
(* Time.  First what a step of one waiter does to the others.              *)
(***************************************************************************)

LEMMA WaitKept ==
  ASSUME NEW w \in Waiters, WaitOf(w), UNCHANGED <<clock, since>>, Alive' => Alive,
         wpc'[w] = wpc[w], ival'[w] = ival[w], wake'[w] = wake[w],
         reached'[w] = reached[w], result'[w] = result[w], client'[w] = client[w]
  PROVE  WaitOf(w)'
<1>1. Runs(w)' => Runs(w)
  BY DEF Runs
<1>2. PauseOf(w)' <=> PauseOf(w)
  BY DEF PauseOf, TimeoutOf
<1>3. /\ Listens(client[w])' <=> Listens(client[w])
      /\ since'[client'[w]] = since[client[w]]
  BY DEF Listens, Servers
<1>4. SinceOf(w, since[client[w]])' <=> SinceOf(w, since[client[w]])
  BY <1>3 DEF SinceOf
<1>5. EarlyFor(w, since[client[w]])' <=> EarlyFor(w, since[client[w]])
  BY <1>3 DEF EarlyFor, TimeoutOf
<1>6. TimeoutOf(w)' = TimeoutOf(w)
  BY DEF TimeoutOf
<1> QED BY <1>1, <1>2, <1>3, <1>4, <1>5, <1>6 DEF WaitOf

\* Nothing changes for the service unless it moves towards serving.
LEMMA ServiceKept ==
  ASSUME ServiceInv, UNCHANGED <<clock, since>>,
         server'[Service] \in {"waiting", "register", "bind", "stdin"} =>
           server[Service] \in {"waiting", "register", "bind", "stdin"}
  PROVE  ServiceInv'
<1>1. Listens(Service)' <=> Listens(Service)
  BY DEF Listens
<1>2. NotLate(clock)' <=> NotLate(clock)
  BY DEF NotLate, Listens
<1>3. NotLate(since[Service])' <=> NotLate(since[Service])
  BY DEF NotLate, Listens
<1> QED BY <1>1, <1>2, <1>3 DEF ServiceInv

LEMMA InitTime == Init => TimeInv
<1> SUFFICES ASSUME Init
             PROVE  TimeInv
  OBVIOUS
<1>1. \A s \in Servers : since[s] = Nil /\ server[s] # "listening"
  BY DEF Init
<1>2. ListeningInv
  BY <1>1 DEF ListeningInv
<1>3. \A s : ~Listens(s)
  BY <1>1 DEF Listens
<1>4. ASSUME NEW w \in Waiters
      PROVE  WaitOf(w)
  <2>1. wpc[w] \in MapPlaces \cup {"try"} /\ ival[w] = FirstInterval /\ clock = 0 /\ result[w] = Nil
    BY DEF Init, MapPlaces
  <2>2. PauseOf(w)
    BY <2>1, ConstantFacts DEF PauseOf, FirstInterval, MapPlaces
  <2> QED BY <1>3, <2>1, <2>2, ConstantFacts DEF WaitOf
<1>5. Addresses # {}
  BY ConstantFacts
<1> QED BY <1>2, <1>3, <1>4, <1>5 DEF TimeInv, WaitInv, ServiceInv, NotLate

(***************************************************************************)
(* WaitUntilReady.                                                         *)
(***************************************************************************)

LEMMA WaiterNumbers ==
  ASSUME StartupType, NEW w \in Waiters
  PROVE  /\ clock \in Nat /\ ival[w] \in Nat \ {0} /\ wake[w] \in Nat
         /\ reached[w] \in BOOLEAN /\ MaxCall \in Nat /\ TimeoutOf(w) \in Nat \ {0}
         /\ Listens(client[w]) => since[client[w]] \in Nat
BY ConstantFacts DEF StartupType, Listens

\* When a waiter is about to call, the server it waits for is still there.
LEMMA StillListening ==
  ASSUME StartupType, TimeInv, NEW w \in Waiters, wpc[w] \in WaitPlaces, Listens(client[w])
  PROVE  client[w] \in Servers /\ server[client[w]] = "listening"
<1>1. result[w] # "err"
  BY DEF TimeInv, WaitInv, WaitOf, WaitPlaces, EndPlaces
<1>2. client[w] = Service => w = Cli
  BY ConstantFacts DEF Waiters, StartupType
<1> QED BY <1>1, <1>2 DEF TimeInv, ListeningInv, Listens

LEMMA TryTime ==
  ASSUME StartupType, TimeInv, NEW w \in Waiters, Runs(w), Try(w)
  PROVE  WaitOf(w)'
<1>1. WaitOf(w) /\ wpc[w] = "try" /\ result[w] # "err"
  BY DEF TimeInv, WaitInv, WaitOf, Try, EndPlaces
<1>2. PICK d \in 0 .. MaxCall : wake' = [wake EXCEPT ![w] = clock + d]
  BY DEF Try
<1>3. /\ wake'[w] = clock + d /\ wpc'[w] = "calling" /\ clock < TimeoutOf(w)
      /\ UNCHANGED <<clock, server, since, client, ival, result>>
  BY <1>2, WaiterNumbers DEF Try, Goto, Expired, Elapsed, processes, StartupType
<1>4. reached'[w] <=> client[w] \in Servers /\ server[client[w]] = "listening"
  BY Zenon DEF Try, StartupType
<1>5. ival[w] <= clock + 1
  BY <1>1 DEF WaitOf, PauseOf
<1>6. PauseOf(w)'
  BY <1>3, <1>5, WaiterNumbers DEF PauseOf, TimeoutOf, MapPlaces
<1>7. ASSUME Listens(client[w])
      PROVE  SinceOf(w, since[client[w]])'
  <2>1. reached'[w]
    BY <1>1, <1>4, <1>7, StillListening DEF WaitPlaces
  <2>2. clock <= 2 * since[client[w]] + FirstInterval + MaxCall
    BY <1>1, <1>7 DEF WaitOf, SinceOf
  <2>3. wake'[w] <= 2 * since[client[w]] + FirstInterval + 2 * MaxCall
    BY <1>3, <1>7, <2>2, WaiterNumbers DEF FirstInterval
  <2> QED BY <1>3, <2>1, <2>3 DEF SinceOf
<1>8. Listens(client[w])' <=> Listens(client[w])
  BY <1>3 DEF Listens
<1> QED BY <1>1, <1>3, <1>6, <1>7, <1>8 DEF WaitOf

LEMMA PauseTime ==
  ASSUME StartupType, TimeInv, NEW w \in Waiters, Runs(w), Pause(w)
  PROVE  WaitOf(w)'
<1>1. WaitOf(w) /\ wpc[w] = "calling" /\ result[w] # "err"
  BY DEF TimeInv, WaitInv, WaitOf, Pause, EndPlaces
<1>2. /\ wake'[w] = clock + ival[w] /\ wpc'[w] = "sleeping" /\ wake[w] <= clock
      /\ ival'[w] <= 2 * ival[w]
      /\ UNCHANGED <<clock, server, since, client, reached, result>>
  BY WaiterNumbers, ConstantFacts DEF Pause, Goto, processes, StartupType
<1>3. ~reached[w]
  BY Zenon DEF Pause
<1>4. /\ ival[w] <= clock + 1 /\ ival[w] <= TimeoutOf(w)
      /\ clock <= wake[w] /\ wake[w] <= TimeoutOf(w) + MaxCall
  BY <1>1 DEF WaitOf, PauseOf
<1>5. ival'[w] \in Nat \ {0}
  BY WaitType DEF StartupType, WaitUntilReady
<1>6. PauseOf(w)'
  BY <1>2, <1>4, <1>5, WaiterNumbers DEF PauseOf, TimeoutOf, MapPlaces
<1>7. ASSUME Listens(client[w])
      PROVE  SinceOf(w, since[client[w]])'
  <2>1. wake[w] + ival[w] <= 2 * since[client[w]] + FirstInterval + MaxCall
    BY <1>1, <1>3, <1>7 DEF WaitOf, SinceOf
  <2>2. wake'[w] <= 2 * since[client[w]] + FirstInterval + MaxCall
    BY <1>2, <1>4, <1>7, <2>1, WaiterNumbers DEF FirstInterval
  <2> QED BY <1>2, <2>2 DEF SinceOf
<1>8. Listens(client[w])' <=> Listens(client[w])
  BY <1>2 DEF Listens
<1> QED BY <1>1, <1>2, <1>6, <1>7, <1>8 DEF WaitOf

LEMMA WakeTime ==
  ASSUME StartupType, TimeInv, NEW w \in Waiters, Runs(w), Wake(w)
  PROVE  WaitOf(w)'
<1>1. WaitOf(w) /\ wpc[w] = "sleeping" /\ result[w] # "err"
  BY DEF TimeInv, WaitInv, WaitOf, Wake, EndPlaces
<1>2. /\ wpc'[w] = "try" /\ wake[w] <= clock
      /\ UNCHANGED <<clock, server, since, client, ival, reached, result>>
  BY DEF Wake, Goto, processes, StartupType
<1>3. /\ ival[w] <= wake[w] + 1 /\ clock <= wake[w] /\ wake[w] <= 2 * TimeoutOf(w) + MaxCall
  BY <1>1 DEF WaitOf, PauseOf
<1>4. PauseOf(w)'
  BY <1>2, <1>3, WaiterNumbers DEF PauseOf, TimeoutOf, MapPlaces
<1>5. ASSUME Listens(client[w])
      PROVE  SinceOf(w, since[client[w]])'
  <2>1. wake[w] <= 2 * since[client[w]] + FirstInterval + MaxCall
    BY <1>1, <1>5 DEF WaitOf, SinceOf
  <2>2. clock <= 2 * since[client[w]] + FirstInterval + MaxCall
    BY <1>2, <1>3, <1>5, <2>1, WaiterNumbers DEF FirstInterval
  <2> QED BY <1>2, <2>2 DEF SinceOf
<1>6. Listens(client[w])' <=> Listens(client[w])
  BY <1>2 DEF Listens
<1> QED BY <1>1, <1>2, <1>4, <1>5, <1>6 DEF WaitOf

LEMMA ReturnTime ==
  ASSUME StartupType, TimeInv, NEW w \in Waiters, Runs(w), Ready(w) \/ GiveUp(w)
  PROVE  WaitOf(w)'
<1>1. WaitOf(w)
  BY DEF TimeInv, WaitInv
<1>2. /\ wpc'[w] \in {"done", "record"} /\ UNCHANGED <<clock, server, since, client>>
  BY DEF Ready, GiveUp, Return, Goto, processes, StartupType
<1>3. result'[w] = "err" => GiveUp(w)
  BY DEF Ready, Return, StartupType
<1>4. /\ Listens(client[w])' <=> Listens(client[w])
      /\ (since[client[w]])' = since[client[w]]
      /\ EarlyFor(w, since[client[w]])' <=> EarlyFor(w, since[client[w]])
      /\ TimeoutOf(w)' = TimeoutOf(w)
  BY <1>2 DEF Listens, EarlyFor, TimeoutOf
<1>5. ASSUME GiveUp(w)
      PROVE  /\ clock >= TimeoutOf(w)
             /\ Listens(client[w]) => ~EarlyFor(w, since[client[w]])
  <2>1. wpc[w] = "try" /\ clock >= TimeoutOf(w)
    BY <1>5 DEF GiveUp, Expired, Elapsed
  <2>2. Listens(client[w]) => clock <= 2 * since[client[w]] + FirstInterval + MaxCall
    BY <1>1, <2>1 DEF WaitOf, SinceOf
  <2> QED BY <2>1, <2>2, WaiterNumbers DEF EarlyFor, FirstInterval
<1>6. PauseOf(w)' /\ SinceOf(w, since[client[w]])'
  BY <1>2 DEF PauseOf, SinceOf, MapPlaces
<1> QED BY <1>2, <1>3, <1>4, <1>5, <1>6 DEF WaitOf, EndPlaces

LEMMA WaitTime ==
  ASSUME StartupType, TimeInv, NEW w \in Waiters, WaitUntilReady(w)
  PROVE  TimeInv'
<1>1. UNCHANGED <<clock, server, since, client>>
  BY DEF WaitUntilReady, Try, Ready, Pause, Wake, GiveUp, processes
<1>2. WaitOf(w)'
  BY TryTime, PauseTime, WakeTime, ReturnTime DEF WaitUntilReady
<1>3. ASSUME NEW v \in Waiters \ {w}
      PROVE  WaitOf(v)'
  <2>1. /\ wpc'[v] = wpc[v] /\ ival'[v] = ival[v] /\ wake'[v] = wake[v]
        /\ result'[v] = result[v]
    BY DEF WaitUntilReady, Try, Ready, Pause, Wake, GiveUp, Return, Goto, StartupType
  <2>2. reached'[v] = reached[v]
    BY DEF WaitUntilReady, Try, Ready, Pause, Wake, GiveUp, Return, StartupType
  <2> QED BY <1>1, <2>1, <2>2, WaitKept DEF TimeInv, WaitInv, Alive
<1>4. ListeningInv'
  <2>1. result[Cli] = "err" => result'[Cli] = "err"
    <3>1. result[Cli] = "err" => wpc[Cli] \in EndPlaces
      BY ConstantFacts DEF TimeInv, WaitInv, WaitOf
    <3>2. wpc[w] \in WaitPlaces
      BY DEF WaitUntilReady, Try, Ready, Pause, Wake, GiveUp, WaitPlaces
    <3>3. \A v \in Waiters \ {w} : result'[v] = result[v]
      BY DEF WaitUntilReady, Try, Ready, Pause, Wake, GiveUp, Return, StartupType
    <3> QED BY <3>1, <3>2, <3>3, ConstantFacts DEF WaitPlaces, EndPlaces
  <2> QED BY <1>1, <2>1 DEF TimeInv, ListeningInv
<1>5. ServiceInv'
  BY <1>1, ServiceKept DEF TimeInv
<1> QED BY <1>2, <1>3, <1>4, <1>5 DEF TimeInv, WaitInv

(***************************************************************************)
(* The goroutines outside WaitUntilReady, the servers and the clock.       *)
(***************************************************************************)

LEMMA CrashTime ==
  ASSUME StartupType, TimeInv, Crash, server[Service] # "listening" \/ result[Cli] = "err"
  PROVE  TimeInv'
<1>1. /\ ~Alive' /\ Service \in Servers /\ Cli \in Waiters /\ Cli \notin Healths
      /\ server'[Service] = "dead" /\ \A s \in Servers \ {Service} : server'[s] = server[s]
      /\ UNCHANGED <<clock, since>> /\ result'[Cli] = result[Cli]
  BY CrashLeaves, ConstantFacts DEF StartupType, Alive
<1>2. ASSUME NEW w \in Waiters
      PROVE  WaitOf(w)'
  <2>1. CASE w = Cli
    <3>1. /\ wpc'[w] = wpc[w] /\ ival'[w] = ival[w] /\ wake'[w] = wake[w]
          /\ reached'[w] = reached[w] /\ result'[w] = result[w] /\ client'[w] = client[w]
      BY <2>1, CrashLeaves
    <3> QED BY <1>1, <3>1, WaitKept DEF TimeInv, WaitInv
  <2>2. CASE w \in Healths
    <3>1. result'[w] # "err"
      BY <2>2, CrashLeaves, StartupTyped
    <3>2. ~Runs(w)'
      BY <1>1, <2>2 DEF Runs
    <3> QED BY <3>1, <3>2 DEF WaitOf
  <2> QED BY <2>1, <2>2 DEF Waiters
<1>3. ListeningInv'
  BY <1>1 DEF TimeInv, ListeningInv
<1>4. ServiceInv'
  BY <1>1, ServiceKept DEF TimeInv
<1> QED BY <1>2, <1>3, <1>4 DEF TimeInv, WaitInv

LEMMA HealthTime ==
  ASSUME StartupType, ClientsInv, TimeInv, NEW g \in Healths, HealthStep(g), Alive' => Alive
  PROVE  TimeInv'
<1>1. g \in Waiters /\ g # Cli /\ Cli \in Waiters /\ Service \in Servers
  BY ConstantFacts
<1>2. wpc[g] # "done"
  BY DEF HealthStep, Lookup, BeginInsert, EndInsert, Reread, ConcurrentMapAccess, BeginRecord,
     EndRecord
<1>3. server[Service] # "listening"
  BY <1>2 DEF ClientsInv, AllRecorded, Started
<1>4. CASE Crash
  BY <1>3, <1>4, CrashTime
<1>5. CASE HealthKeeps(g)
  <2>1. /\ UNCHANGED <<clock, server, since, ival, wake, reached>>
        /\ \A v \in Waiters \ {g} :
             wpc'[v] = wpc[v] /\ client'[v] = client[v] /\ result'[v] = result[v]
    BY <1>5 DEF HealthKeeps
  <2>2. \A v \in Waiters \ {g} : WaitOf(v)'
    BY <2>1, WaitKept DEF TimeInv, WaitInv
  <2>3. WaitOf(g) /\ Runs(g) /\ TimeoutOf(g)' = TimeoutOf(g)
    BY <1>1 DEF TimeInv, WaitInv, TimeoutOf, HealthStep, Runs
  <2>4. WaitOf(g)'
    <3>1. CASE wpc[g] \in MapPlaces /\ wpc'[g] \in MapPlaces \cup {"try"} /\ result'[g] = result[g]
      <4>1. clock = 0 /\ ival[g] = FirstInterval /\ result'[g] # "err"
        BY <2>3, <3>1 DEF WaitOf, PauseOf, MapPlaces, EndPlaces
      <4>2. PauseOf(g)'
        BY <1>1, <2>1, <3>1, <4>1, WaiterNumbers DEF PauseOf, MapPlaces, FirstInterval, TimeoutOf
      <4>3. ASSUME Listens(client[g])'
            PROVE  SinceOf(g, since[client[g]])'
        <5>1. since'[client'[g]] \in Nat
          BY <2>1, <4>3 DEF Listens, StartupType
        <5> QED
          BY <1>1, <2>1, <3>1, <4>1, <5>1, WaiterNumbers DEF SinceOf, MapPlaces, FirstInterval
      <4> QED BY <4>1, <4>2, <4>3 DEF WaitOf
    <3>2. CASE /\ wpc[g] = "record" /\ wpc'[g] = "recording"
               /\ client'[g] = client[g] /\ result'[g] = result[g]
      <4>1. PauseOf(g)' /\ SinceOf(g, since[client[g]])'
        BY <3>2 DEF PauseOf, SinceOf, MapPlaces
      <4>2. result'[g] = "err" =>
              /\ clock' >= TimeoutOf(g)
              /\ Listens(client[g])' => ~EarlyFor(g, since[client[g]])'
        BY <2>1, <2>3, <3>2 DEF WaitOf, Listens, EarlyFor
      <4> QED BY <2>3, <3>2, <4>1, <4>2 DEF WaitOf, EndPlaces
    <3>3. CASE wpc[g] = "recording" /\ wpc'[g] = "done" /\ client'[g] = Nil /\ result'[g] = Nil
      <4>1. PauseOf(g)' /\ SinceOf(g, since[client[g]])' /\ result'[g] # "err"
        BY <3>3, ConstantFacts DEF PauseOf, SinceOf, MapPlaces
      <4> QED BY <4>1 DEF WaitOf
    <3> QED BY <1>5, <3>1, <3>2, <3>3 DEF HealthKeeps
  <2>5. ListeningInv'
    BY <1>1, <2>1 DEF TimeInv, ListeningInv
  <2>6. ServiceInv'
    BY <2>1, ServiceKept DEF TimeInv
  <2> QED BY <2>2, <2>4, <2>5, <2>6 DEF TimeInv, WaitInv
<1> QED BY <1>4, <1>5, HealthShape

\* A server that goes from one place to another that is not listening.
LEMMA ServerMoves ==
  ASSUME StartupType, TimeInv, UNCHANGED <<clock, since, wpc, waiting>>, Alive' => Alive,
         NEW s \in Servers, NEW l, server' = [server EXCEPT ![s] = l], l # "listening",
         server[s] # "listening" \/ (s = Service /\ result[Cli] = "err"),
         s = Service /\ l \in {"waiting", "register", "bind", "stdin"} =>
           server[Service] \in {"waiting", "register", "bind", "stdin"}
  PROVE  TimeInv'
<1>1. \A w \in Waiters : WaitOf(w)'
  BY WaitKept DEF TimeInv, WaitInv, waiting, timing
<1>2. ListeningInv'
  BY DEF TimeInv, ListeningInv, StartupType, waiting, timing
<1>3. ServiceInv'
  BY ServiceKept, ConstantFacts DEF TimeInv, StartupType
<1> QED BY <1>1, <1>2, <1>3 DEF TimeInv, WaitInv

LEMMA ListenTime ==
  ASSUME StartupType, TimeInv, NEW s \in Servers, Listen(s), Alive' => Alive
  PROVE  TimeInv'
<1>1. /\ server[s] = "bind" /\ server' = [server EXCEPT ![s] = "listening"]
      /\ since' = [since EXCEPT ![s] = clock]
      /\ UNCHANGED <<clock, wpc, client, ival, wake, reached, result>>
  BY DEF Listen, Becomes, waiting, timing
<1>2. /\ \A t \in Servers \ {s} : since'[t] = since[t] /\ server'[t] = server[t]
      /\ since'[s] = clock /\ server'[s] = "listening" /\ clock \in Nat /\ clock # Nil
      /\ Service \in Servers
  BY <1>1, ConstantFacts DEF StartupType
<1>3. ListeningInv'
  BY <1>1, <1>2 DEF TimeInv, ListeningInv
<1>4. ASSUME NEW w \in Waiters
      PROVE  WaitOf(w)'
  <2>1. WaitOf(w) /\ (Runs(w)' => Runs(w)) /\ TimeoutOf(w)' = TimeoutOf(w) /\ client'[w] = client[w]
    BY <1>1 DEF TimeInv, WaitInv, Runs, TimeoutOf
  <2>2. PauseOf(w)' <=> PauseOf(w)
    BY <1>1 DEF PauseOf, TimeoutOf
  <2>3. CASE client[w] # s
    <3>1. /\ Listens(client[w])' <=> Listens(client[w])
          /\ Listens(client[w]) => (since[client[w]])' = since[client[w]]
      BY <1>2, <2>1, <2>3 DEF Listens, Servers
    <3>2. \A t : SinceOf(w, t)' <=> SinceOf(w, t)
      BY <1>1 DEF SinceOf
    <3>3. Listens(client[w]) =>
            /\ SinceOf(w, since[client[w]])' <=> SinceOf(w, since[client[w]])
            /\ EarlyFor(w, since[client[w]])' <=> EarlyFor(w, since[client[w]])
      BY <1>1, <3>1 DEF SinceOf, EarlyFor, TimeoutOf
    <3> QED BY <1>1, <2>1, <2>2, <3>1, <3>3 DEF WaitOf
  <2>4. CASE client[w] = s
    <3>1. (since[client[w]])' = clock
      BY <1>2, <2>1, <2>4
    <3>2. PauseOf(w) => SinceOf(w, since[client[w]])'
      BY <1>1, <3>1, WaiterNumbers DEF PauseOf, SinceOf, FirstInterval
    <3>3. clock >= TimeoutOf(w) => ~EarlyFor(w, since[client[w]])'
      BY <1>1, <2>1, <3>1, WaiterNumbers DEF EarlyFor, FirstInterval
    <3> QED BY <1>1, <2>1, <2>2, <3>2, <3>3 DEF WaitOf
  <2> QED BY <2>3, <2>4
<1>5. ASSUME NEW c \in Nat, c <= clock, NotLate(c)
      PROVE  NotLate(c)'
  <2>1. PICK a \in Addresses : Listens(a) => c <= 2 * since[a] + FirstInterval + 2 * MaxCall
    BY <1>5 DEF NotLate
  <2>2. Listens(a)' => c <= 2 * since'[a] + FirstInterval + 2 * MaxCall
    BY <1>2, <1>5, <2>1, ConstantFacts DEF Listens, FirstInterval
  <2> QED BY <2>2 DEF NotLate, Addresses, Healths
<1>6. ServiceInv'
  <2>1. CASE s = Service
    BY <1>1, <1>2, <1>5, <2>1 DEF TimeInv, ServiceInv, NotLate
  <2>2. CASE s # Service
    <3>1. server'[Service] = server[Service] /\ since'[Service] = since[Service]
      BY <1>2, <2>2
    <3>2. Listens(Service) => since[Service] \in Nat /\ since[Service] <= clock
      BY <1>2 DEF Listens, StartupType, TimeInv, ListeningInv
    <3>3. Listens(Service)' <=> Listens(Service)
      BY <3>1 DEF Listens
    <3>4. NotLate(clock) => NotLate(clock)'
      BY <1>1, <1>2, <1>5 DEF NotLate
    <3>5. Listens(Service) /\ NotLate(since[Service]) => NotLate(since[Service])'
      BY <3>1, <3>2, <1>5 DEF NotLate
    <3> QED BY <3>1, <3>3, <3>4, <3>5 DEF TimeInv, ServiceInv
  <2> QED BY <2>1, <2>2
<1> QED BY <1>3, <1>4, <1>6 DEF TimeInv, WaitInv

LEMMA ServerTime ==
  ASSUME StartupType, TimeInv, NEW s \in Servers, ServerStep(s), Alive' => Alive
  PROVE  TimeInv'
<1>1. CASE Listen(s)
  BY <1>1, ListenTime
<1>2. CASE Register(s) \/ ListenFails(s)
  <2>1. PICK l \in {"bind", "dead"} : server' = [server EXCEPT ![s] = l]
    BY <1>2 DEF Register, ListenFails, Becomes
  <2>2. server[s] \in {"starting", "register", "bind"}
    BY <1>2 DEF Register, ListenFails
  <2>3. s = Service => server[s] \in {"register", "bind"}
    BY <1>2 DEF Register, ListenFails
  <2>4. UNCHANGED <<clock, since, wpc, waiting>>
    BY <1>2 DEF Register, ListenFails
  <2> QED BY <2>1, <2>2, <2>3, <2>4, ServerMoves
<1> QED BY <1>1, <1>2 DEF ServerStep

LEMMA MainTime ==
  ASSUME StartupType, TimeInv, Proceed \/ AnswerStdin \/ StopContainer, Alive' => Alive
  PROVE  TimeInv'
<1>1. Service \in Servers
  BY ConstantFacts
<1>2. CASE Proceed
  <2>1. PICK l \in {"register", "stdin"} : server' = [server EXCEPT ![Service] = l]
    BY <1>2 DEF Proceed, Becomes
  <2>2. server[Service] = "waiting" /\ UNCHANGED <<clock, since, wpc, waiting>>
    BY <1>2 DEF Proceed, MayProceed
  <2> QED BY <1>1, <2>1, <2>2, ServerMoves
<1>3. CASE AnswerStdin
  <2>1. PICK l \in {"exited", "dead"} : server' = [server EXCEPT ![Service] = l]
    BY <1>3 DEF AnswerStdin, Becomes
  <2>2. server[Service] = "stdin" /\ UNCHANGED <<clock, since, wpc, waiting>>
    BY <1>3 DEF AnswerStdin
  <2> QED BY <1>1, <2>1, <2>2, ServerMoves
<1>4. CASE StopContainer
  BY <1>4, CrashTime DEF StopContainer
<1> QED BY <1>2, <1>3, <1>4

\* A waiter that time can pass over is in a call or a pause that goes on.
LEMMA NotBusy ==
  ASSUME StartupType, Tick, NEW w \in Waiters, Runs(w)
  PROVE  wpc[w] = "done" \/ (wpc[w] \in {"calling", "sleeping"} /\ clock + 1 <= wake[w])
<1>1. ~Busy(w)
  BY DEF Tick
<1> QED BY <1>1, WaiterNumbers DEF Busy

LEMMA TickTime ==
  ASSUME StartupType, ClientsInv, TimeInv, Tick
  PROVE  TimeInv'
<1>1. clock' = clock + 1 /\ UNCHANGED <<server, since, wpc, client, ival, wake, reached, result>>
  BY DEF Tick, processes, waiting, timing
<1>2. clock \in Nat /\ Service \in Servers
  BY ConstantFacts DEF StartupType
<1>3. ListeningInv'
  BY <1>1, <1>2 DEF TimeInv, ListeningInv, StartupType
<1>4. ASSUME NEW w \in Waiters
      PROVE  WaitOf(w)'
  <2>1. WaitOf(w) /\ (Runs(w)' <=> Runs(w)) /\ TimeoutOf(w)' = TimeoutOf(w)
    BY <1>1 DEF TimeInv, WaitInv, Runs, TimeoutOf, Alive
  <2>2. /\ Listens(client[w])' <=> Listens(client[w])
        /\ (since[client[w]])' = since[client[w]]
        /\ EarlyFor(w, since[client[w]])' <=> EarlyFor(w, since[client[w]])
    BY <1>1 DEF Listens, EarlyFor, TimeoutOf
  <2>3. ASSUME Runs(w)
        PROVE  PauseOf(w)' /\ (Listens(client[w]) => SinceOf(w, since[client[w]])')
    <3>1. wpc[w] = "done" \/ (wpc[w] \in {"calling", "sleeping"} /\ clock + 1 <= wake[w])
      BY <2>3, NotBusy
    <3>2. PauseOf(w)'
      <4>1. PauseOf(w)
        BY <2>1, <2>3 DEF WaitOf
      <4>2. wpc'[w] = wpc[w] /\ ival'[w] = ival[w] /\ wake'[w] = wake[w] /\ clock' = clock + 1
        BY <1>1
      <4>3. CASE wpc[w] = "done"
        BY <4>2, <4>3 DEF PauseOf, MapPlaces
      <4>4. CASE wpc[w] = "calling" /\ clock + 1 <= wake[w]
        BY <2>1, <4>1, <4>2, <4>4, WaiterNumbers DEF PauseOf, MapPlaces
      <4>5. CASE wpc[w] = "sleeping" /\ clock + 1 <= wake[w]
        BY <2>1, <4>1, <4>2, <4>5, WaiterNumbers DEF PauseOf, MapPlaces
      <4> QED BY <3>1, <4>3, <4>4, <4>5
    <3>3. Listens(client[w]) => SinceOf(w, since[client[w]])
      BY <2>1, <2>3 DEF WaitOf
    <3>4. Listens(client[w]) => SinceOf(w, since[client[w]])'
      BY <1>1, <2>2, <3>1, <3>3 DEF SinceOf
    <3> QED BY <3>2, <3>4
  <2>4. clock >= TimeoutOf(w) => clock' >= TimeoutOf(w)
    BY <1>1, <1>2, WaiterNumbers
  <2> QED BY <1>1, <2>1, <2>2, <2>3, <2>4 DEF WaitOf
<1>5. ServiceInv'
  <2>1. /\ Listens(Service)' <=> Listens(Service)
        /\ NotLate(since[Service])' <=> NotLate(since[Service])
    BY <1>1 DEF Listens, NotLate, Servers, Addresses, Healths
  <2>2. ASSUME server[Service] \in {"waiting", "register", "bind", "stdin"}
        PROVE  NotLate(clock)'
    <3>1. server[Service] = "waiting" /\ ~AllRecorded
      BY <1>2, <2>2 DEF Tick, MainBusy, MayProceed
    <3>2. PICK g \in Healths : wpc[g] # "done"
      BY <3>1 DEF AllRecorded
    <3>3. g \in Waiters /\ Runs(g)
      BY <3>1, ConstantFacts DEF Runs, Alive
    <3>4. /\ wpc[g] \in {"calling", "sleeping"} /\ clock + 1 <= wake[g]
          /\ client[g] \in Addresses
      BY <3>2, <3>3, NotBusy DEF ClientsInv, WaitPlaces
    <3>5. ASSUME Listens(client[g])
          PROVE  clock + 1 <= 2 * since[client[g]] + FirstInterval + 2 * MaxCall
      <4>1. SinceOf(g, since[client[g]])
        BY <3>3, <3>5 DEF TimeInv, WaitInv, WaitOf
      <4>2. wake[g] <= 2 * since[client[g]] + FirstInterval + 2 * MaxCall
        <5>1. CASE wpc[g] = "sleeping"
          BY <3>3, <3>5, <4>1, <5>1, WaiterNumbers DEF SinceOf, FirstInterval
        <5>2. CASE wpc[g] = "calling"
          BY <4>1, <5>2 DEF SinceOf
        <5> QED BY <3>4, <5>1, <5>2
      <4> QED BY <3>3, <3>4, <3>5, <4>2, WaiterNumbers DEF FirstInterval
    <3> QED BY <1>1, <3>4, <3>5 DEF NotLate, Listens, Servers, Addresses, Healths
  <2> QED BY <1>1, <2>1, <2>2 DEF TimeInv, ServiceInv
<1> QED BY <1>3, <1>4, <1>5 DEF TimeInv, WaitInv

LEMMA StepTime == StartupType /\ ClientsInv /\ TimeInv /\ [Next]_vars => TimeInv'
<1> SUFFICES ASSUME StartupType, ClientsInv, TimeInv, [Next]_vars
             PROVE  TimeInv'
  OBVIOUS
<1>1. Alive' => Alive
  BY DeadStays
<1>2. CASE UNCHANGED vars \/ AllOver
  <2>1. UNCHANGED <<clock, server, since, wpc, client, ival, wake, reached, result>>
    BY <1>2 DEF vars, processes, waiting, timing, AllOver
  <2>2. \A w \in Waiters : WaitOf(w)'
    BY <1>1, <2>1, WaitKept DEF TimeInv, WaitInv
  <2>3. ListeningInv'
    BY <2>1 DEF TimeInv, ListeningInv
  <2>4. ServiceInv'
    BY <2>1, ServiceKept DEF TimeInv
  <2> QED BY <2>2, <2>3, <2>4 DEF TimeInv, WaitInv
<1> QED BY <1>1, <1>2, WaitTime, HealthTime, ServerTime, MainTime, TickTime DEF Next

LEMMA TimeCorrect == Spec => [](StartupType /\ ClientsInv /\ TimeInv)
BY InitTime, StepTime, InitClients, StepClients, TypeCorrect, PTL DEF Spec

(***************************************************************************)
(* The theorems.                                                           *)
(***************************************************************************)

\* WaitUntilReady returns within twice its timeout, one first pause and one
\* call (WaitUntilReady, 295-326).
THEOREM WaitBounded == Spec => []ReturnsInTime
<1>1. StartupType /\ TimeInv => ReturnsInTime
  <2> SUFFICES ASSUME StartupType, TimeInv, NEW w \in Waiters, Runs(w), wpc[w] \in WaitPlaces
               PROVE  clock <= 2 * TimeoutOf(w) + FirstInterval + MaxCall
    BY DEF ReturnsInTime, Elapsed, WaitPlaces
  <2>1. PauseOf(w)
    BY DEF TimeInv, WaitInv, WaitOf
  <2> QED BY <2>1, WaiterNumbers DEF PauseOf, WaitPlaces, FirstInterval
<1> QED BY <1>1, TimeCorrect, PTL

\* A server that listens before half of a waiter's timeout is over is found
\* by it, however its pauses fall (WaitUntilReady, 295-326).
THEOREM EarlyServerFound == Spec => []FoundInFirstHalf
<1>1. StartupType /\ TimeInv => FoundInFirstHalf
  BY DEF FoundInFirstHalf, TimeInv, WaitInv, WaitOf, Listens
<1> QED BY <1>1, TimeCorrect, PTL

\* A command line that gives up has met a dead service or a late analyzer:
\* the service starts as soon as it has heard from all analyzers, and that
\* is early for the command line when the analyzers are (startShipshapeService,
\* 308; main, 46-77).
THEOREM ServiceFound == Spec => []CliFindsService
<1>1. StartupType /\ ClientsInv /\ TimeInv => CliFindsService
  <2> SUFFICES ASSUME StartupType, ClientsInv, TimeInv, result[Cli] = "err",
                      \A a \in Addresses :
                        Listens(a) /\ EarlyFor(Cli, 2 * since[a] + FirstInterval + 2 * MaxCall)
               PROVE  since[Service] = Nil /\ server[Service] \in {"dead", "exited"}
    BY DEF CliFindsService, Listens
  <2>1. /\ clock \in Nat /\ MaxCall \in Nat /\ CliTimeout \in Nat \ {0}
        /\ client[Cli] = Service /\ Service \in Servers /\ TimeoutOf(Cli) = CliTimeout
        /\ \A s \in Servers : Listens(s) => since[s] \in Nat
    BY ConstantFacts DEF StartupType, TimeoutOf, Listens
  <2>2. clock >= CliTimeout /\ (Listens(Service) => ~EarlyFor(Cli, since[Service]))
    BY <2>1, ConstantFacts DEF TimeInv, WaitInv, WaitOf
  <2>3. ASSUME NEW c \in Nat, NotLate(c)
        PROVE  EarlyFor(Cli, c)
    <3>1. PICK a \in Addresses : Listens(a) => c <= 2 * since[a] + FirstInterval + 2 * MaxCall
      BY <2>3 DEF NotLate
    <3>2. Listens(a) /\ EarlyFor(Cli, 2 * since[a] + FirstInterval + 2 * MaxCall)
      OBVIOUS
    <3>3. since[a] \in Nat
      BY <2>1, <3>2 DEF Listens
    <3> QED BY <2>1, <2>3, <3>1, <3>2, <3>3 DEF EarlyFor, FirstInterval
  <2>4. ~Listens(Service)
    BY <2>1, <2>2, <2>3 DEF TimeInv, ServiceInv
  <2>5. server[Service] \notin {"waiting", "register", "bind", "stdin"}
    <3>1. ~EarlyFor(Cli, clock)
      BY <2>1, <2>2 DEF EarlyFor, FirstInterval
    <3> QED BY <2>1, <2>3, <3>1 DEF TimeInv, ServiceInv
  <2>6. server[Service] # "listening"
    BY <2>1, <2>4 DEF TimeInv, ListeningInv, Listens
  <2>7. server[Service] \in ServerPlaces \ {"starting"} /\ since[Service] = Nil
    BY <2>1, <2>4 DEF StartupType, Listens, ClientsInv
  <2> QED BY <2>5, <2>6, <2>7 DEF ServerPlaces
<1> QED BY <1>1, TimeCorrect, PTL
=============================================================================
