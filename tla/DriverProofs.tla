---------------------------- MODULE DriverProofs ----------------------------
(***************************************************************************)
(* Theorems about Driver, for every set of requests, analyzers,            *)
(* repositories and configurations.                                        *)
(***************************************************************************)
EXTENDS Driver, TLAPS

(***************************************************************************)
(* What the operators return.                                              *)
(***************************************************************************)

\* Loading any file for any event yields a loaded configuration over the
\* same categories (config.go, loadConfig).
LEMMA LoadConfigType ==
  ASSUME NEW file \in ConfigFile, NEW name
  PROVE  loadConfig(file, name) \in Loaded
<1>1. \A n : eventWithName(file.events, n) \subseteq Event
  BY DEF eventWithName, ConfigFile
<1>2. buildConfig(file, name) \in Loaded
  <2> DEFINE own      == eventWithName(file.events, name)
             fallback == eventWithName(file.events, defaultName)
             stanza   == IF own # {} THEN own ELSE fallback
  <2>1. stanza \subseteq Event
    BY <1>1
  <2>2. UNION {ec.categories : ec \in stanza} \subseteq Categories
    BY <2>1 DEF Event
  <2>3. file.ignore \subseteq Prefixes /\ file.images \subseteq Images
    BY DEF ConfigFile
  <2>4. QED
    BY <2>2, <2>3 DEF buildConfig, Loaded
<1>3. NoConfig \in Loaded /\ ConfigError \in Loaded
  BY DEF NoConfig, ConfigError, Loaded
<1>4. file.state \in {"absent", "unreadable", "parsed"}
  BY DEF ConfigFile
<1>5. CASE file.state = "absent"
  BY <1>3, <1>5 DEF loadConfig
<1>6. CASE file.state = "unreadable"
  BY <1>3, <1>6 DEF loadConfig
<1>7. CASE file.state = "parsed"
  BY <1>2, <1>3, <1>7 DEF loadConfig
<1>8. QED
  BY <1>4, <1>5, <1>6, <1>7

\* Every request the service holds is a request.
LEMMA RequestType == Workload \cup {NoRequest} \subseteq Request
  BY ConstantsTyped DEF Request, NoRequest

LEMMA NoConfigType == NoConfig \in Loaded
  BY DEF NoConfig, Loaded

(***************************************************************************)
(* Type correctness.  A run that got past Chdir has a root one can enter,  *)
(* which is what makes FilesAt[root] defined when the files are collected. *)
(***************************************************************************)

Inside ==
  \A r \in Requests :
    (\/ pc[r] \in {"config", "remove", "files", "analyze"}
     \/ pc[r] = "info" /\ req[r].kind = "run") => req[r].root \in Roots

LEMMA InitTypeInside == Init => TypeOK /\ Inside
<1> SUFFICES ASSUME Init PROVE TypeOK /\ Inside
  OBVIOUS
<1> USE DEF Init
<1>1. cwd \in Dirs /\ defaultCats \in SUBSET Categories /\ alive \in BOOLEAN
  BY ConstantsTyped DEF Dirs
<1>2. pc \in [Requests -> Locations] /\ req \in [Requests -> Workload \cup {NoRequest}]
  BY DEF Locations
<1>3. orgDir \in [Requests -> Dirs] /\ cfg \in [Requests -> Loaded]
  BY NoConfigType DEF Dirs
<1>4. info \in [Requests -> [Analyzers ->
        [at : {"category", "stage", "done"}, categories : SUBSET Categories,
         stage : Stages \cup {Nil}]]]
  BY DEF NotAsked
<1>5. desired \in [Requests -> SUBSET Categories] /\ aliased \in [Requests -> BOOLEAN]
      /\ missing \in [Requests -> SUBSET Categories] /\ files \in [Requests -> SUBSET Files]
  OBVIOUS
<1>6. todo \in [Requests -> SUBSET Analyzers]
      /\ called \in [Requests -> [Analyzers -> SUBSET Categories]]
      /\ ars \in [Requests -> SUBSET AnalyzeResponse]
  OBVIOUS
<1>7. Inside
  BY DEF Inside
<1>8. QED
  BY <1>1, <1>2, <1>3, <1>4, <1>5, <1>6, <1>7 DEF TypeOK

\* What the driver adds of its own are responses.
LEMMA FailureType ==
  ASSUME NEW cats \in SUBSET (Categories \cup {Setup})
  PROVE  generateFailure(cats) \subseteq AnalyzeResponse
  BY DEF generateFailure, AnalyzeResponse, Failure

LEMMA AddFailuresType ==
  ASSUME TypeOK, NEW r \in Requests, NEW cats \in SUBSET (Categories \cup {Setup}),
         AddFailures(r, cats)
  PROVE  ars' \in [Requests -> SUBSET AnalyzeResponse]
  BY FailureType DEF AddFailures, TypeOK

LEMMA GotoType ==
  ASSUME TypeOK, NEW r \in Requests, NEW l \in Locations, Goto(r, l)
  PROVE  pc' \in [Requests -> Locations]
  BY DEF Goto, TypeOK

\* The categories in play are categories.
LEMMA ChosenType ==
  ASSUME TypeOK, NEW r \in Requests
  PROVE  /\ Explicit(r) \in SUBSET Categories
         /\ CurrentDesired(r) \in SUBSET Categories
         /\ allCats(r) \in SUBSET Categories
<1>1. req[r].triggered \in SUBSET Categories
  BY RequestType DEF TypeOK, Request
<1>2. cfg[r].categories \in SUBSET Categories
  BY DEF TypeOK, Loaded
<1>3. Explicit(r) \in SUBSET Categories
  BY <1>1, <1>2 DEF Explicit
<1>4. CurrentDesired(r) \in SUBSET Categories
  BY DEF TypeOK, CurrentDesired
<1>5. \A a \in Analyzers : info[r][a].categories \in SUBSET Categories
  BY DEF TypeOK
<1>6. QED
  BY <1>3, <1>4, <1>5 DEF allCats

LEMMA StepTypeInside == TypeOK /\ Inside /\ [Next]_vars => TypeOK' /\ Inside'
<1> SUFFICES ASSUME TypeOK, Inside, [Next]_vars
             PROVE  TypeOK' /\ Inside'
  OBVIOUS
<1> USE DEF vars, process, setup, choice, calls
<1>1. ASSUME NEW r \in Requests, Receive(r) PROVE TypeOK' /\ Inside'
  <2>1. PICK q \in Workload :
          /\ req' = [req EXCEPT ![r] = q]
          /\ Goto(r, IF q.kind = "categories" THEN "info"
                     ELSE IF Unset(q) THEN "panicked" ELSE "getwd")
    BY <1>1 DEF Receive
  <2>2. pc' \in [Requests -> Locations]
    BY <2>1, GotoType DEF Locations
  <2>3. TypeOK'
    BY <1>1, <2>1, <2>2 DEF Receive, TypeOK
  <2>4. Inside'
    BY <1>1, <2>1 DEF Receive, Inside, Goto, TypeOK
  <2>5. QED
    BY <2>3, <2>4
<1>2. ASSUME NEW r \in Requests, Getwd(r) PROVE TypeOK' /\ Inside'
  <2>1. TypeOK'
    BY <1>2 DEF Getwd, TypeOK, Goto, Locations
  <2>2. Inside'
    BY <1>2 DEF Getwd, TypeOK, Goto, Inside
  <2>3. QED
    BY <2>1, <2>2
<1>3. ASSUME NEW r \in Requests, Chdir(r) PROVE TypeOK' /\ Inside'
  <2>1. TypeOK'
    BY <1>3 DEF Chdir, TypeOK, Goto, Locations, Dirs
  <2>2. Inside'
    BY <1>3 DEF Chdir, TypeOK, Goto, Inside
  <2>3. QED
    BY <2>1, <2>2
<1>4. ASSUME NEW r \in Requests, ChdirFails(r) PROVE TypeOK' /\ Inside'
  <2>1. ars' \in [Requests -> SUBSET AnalyzeResponse]
    BY <1>4, AddFailuresType DEF ChdirFails
  <2>2. TypeOK'
    BY <1>4, <2>1 DEF ChdirFails, TypeOK, Goto, Locations
  <2>3. Inside'
    BY <1>4 DEF ChdirFails, TypeOK, Goto, Inside
  <2>4. QED
    BY <2>2, <2>3
<1>5. ASSUME NEW r \in Requests, LoadConfig(r) PROVE TypeOK' /\ Inside'
  <2> DEFINE loaded == loadConfig(ConfigAt[cwd], req[r].event)
  <2>1. loaded \in Loaded
    BY LoadConfigType, ConstantsTyped DEF TypeOK
  <2>2. /\ cfg' = [cfg EXCEPT ![r] = loaded]
        /\ AddFailures(r, IF loaded.status = "error" THEN {Setup} ELSE {})
        /\ Goto(r, IF loaded.status = "error" THEN "restore" ELSE "info")
    BY <1>5 DEF LoadConfig
  <2> HIDE DEF loaded
  <2>3. ars' \in [Requests -> SUBSET AnalyzeResponse]
    BY <2>2, AddFailuresType
  <2>4. pc' \in [Requests -> Locations]
    BY <2>2, GotoType DEF Locations
  <2>5. TypeOK'
    BY <1>5, <2>1, <2>2, <2>3, <2>4 DEF LoadConfig, TypeOK
  <2>6. Inside'
    BY <1>5, <2>2 DEF LoadConfig, TypeOK, Goto, Inside
  <2>7. QED
    BY <2>5, <2>6
<1>6. ASSUME NEW r \in Requests, NEW a \in Analyzers, CategoryReply(r, a)
      PROVE  TypeOK' /\ Inside'
  <2>1. PICK cats \in {Offers[a], {}} :
          info' = [info EXCEPT ![r][a] = [at |-> "stage", categories |-> cats, stage |-> Nil]]
    BY <1>6 DEF CategoryReply
  <2>2. cats \in SUBSET Categories
    BY ConstantsTyped
  <2>3. TypeOK'
    BY <1>6, <2>1, <2>2 DEF CategoryReply, TypeOK
  <2>4. QED
    BY <1>6, <2>3 DEF CategoryReply, Inside
<1>7. ASSUME NEW r \in Requests, NEW a \in Analyzers, StageReply(r, a)
      PROVE  TypeOK' /\ Inside'
  <2>1. info' \in [Requests -> [Analyzers ->
          [at : {"category", "stage", "done"}, categories : SUBSET Categories,
           stage : Stages \cup {Nil}]]]
    <3>1. CASE /\ StageOf[a] # Nil
               /\ info' = [info EXCEPT ![r][a] = InfoDone(info[r][a].categories, StageOf[a])]
      BY <3>1, ConstantsTyped DEF TypeOK, InfoDone
    <3>2. CASE info' = [info EXCEPT ![r][a] = InfoDone({}, Nil)]
      BY <3>2 DEF TypeOK, InfoDone
    <3>3. QED
      BY <1>7, <3>1, <3>2 DEF StageReply
  <2>2. TypeOK'
    BY <1>7, <2>1 DEF StageReply, TypeOK
  <2>3. QED
    BY <1>7, <2>2 DEF StageReply, Inside
<1>8. ASSUME NEW r \in Requests, NEW a \in Analyzers, StageMissing(r, a)
      PROVE  TypeOK' /\ Inside'
  BY <1>8 DEF StageMissing, TypeOK, Inside
<1>9. ASSUME NEW r \in Requests, ListCategories(r) PROVE TypeOK' /\ Inside'
  BY <1>9 DEF ListCategories, TypeOK, Inside, Goto, Locations
<1>10. ASSUME NEW r \in Requests, EventNotConfigured(r) PROVE TypeOK' /\ Inside'
  BY <1>10 DEF EventNotConfigured, TypeOK, Inside, Goto, Locations
<1>11. ASSUME NEW r \in Requests, SelectCategories(r) PROVE TypeOK' /\ Inside'
  <2> DEFINE absent == (IF Explicit(r) = {} THEN defaultCats ELSE Explicit(r)) \ allCats(r)
  <2>1. absent \in SUBSET Categories
    BY ChosenType DEF TypeOK
  <2>2. /\ desired' = [desired EXCEPT ![r] = Explicit(r)]
        /\ aliased' = [aliased EXCEPT ![r] = (Explicit(r) = {})]
        /\ missing' = [missing EXCEPT ![r] = absent]
        /\ AddFailures(r, absent)
    BY <1>11 DEF SelectCategories
  <2> HIDE DEF absent
  <2>3. ars' \in [Requests -> SUBSET AnalyzeResponse]
    BY <2>1, <2>2, AddFailuresType
  <2>4. /\ desired' \in [Requests -> SUBSET Categories]
        /\ aliased' \in [Requests -> BOOLEAN]
        /\ missing' \in [Requests -> SUBSET Categories]
    BY <2>1, <2>2, ChosenType DEF TypeOK
  <2>5. TypeOK'
    BY <1>11, <2>3, <2>4 DEF SelectCategories, TypeOK, Goto, Locations
  <2>6. Inside'
    BY <1>11 DEF SelectCategories, TypeOK, Goto, Inside
  <2>7. QED
    BY <2>5, <2>6
<1>12. ASSUME NEW r \in Requests, RemoveMissing(r) PROVE TypeOK' /\ Inside'
  <2>1. TypeOK'
    BY <1>12 DEF RemoveMissing, TypeOK, Goto, Locations
  <2>2. Inside'
    BY <1>12 DEF RemoveMissing, TypeOK, Goto, Inside
  <2>3. QED
    BY <2>1, <2>2
<1>13. ASSUME NEW r \in Requests, CollectFiles(r) PROVE TypeOK' /\ Inside'
  <2>1. req[r] \in Request
    BY RequestType DEF TypeOK
  <2>2. req[r].root \in Roots
    BY <1>13 DEF CollectFiles, Inside
  <2>3. retrieveAndFilterFiles(r) \in SUBSET Files
    BY <2>1, <2>2, ConstantsTyped DEF retrieveAndFilterFiles, filterPaths, Request
  <2>4. pc' \in [Requests -> Locations] /\ todo' \in [Requests -> SUBSET Analyzers]
    <3> DEFINE runs == retrieveAndFilterFiles(r) # {} /\ req[r].stage = "PRE_BUILD"
    <3>1. /\ runs => todo' = [todo EXCEPT ![r] = Analyzers] /\ Goto(r, "analyze")
          /\ ~runs => todo' = todo /\ Goto(r, "restore")
      BY <1>13 DEF CollectFiles
    <3> HIDE DEF runs
    <3>2. QED
      BY <3>1, GotoType DEF TypeOK, Locations
  <2>5. TypeOK'
    BY <1>13, <2>3, <2>4 DEF CollectFiles, TypeOK
  <2>6. Inside'
    BY <1>13, <2>2 DEF CollectFiles, TypeOK, Goto, Inside
  <2>7. QED
    BY <2>5, <2>6
<1>14. ASSUME NEW r \in Requests, NEW a \in Analyzers, Launch(r, a)
       PROVE  TypeOK' /\ Inside'
  <2>1. called' \in [Requests -> [Analyzers -> SUBSET Categories]]
    BY <1>14, ChosenType DEF Launch, TypeOK
  <2>2. TypeOK'
    BY <1>14, <2>1 DEF Launch, TypeOK
  <2>3. QED
    BY <1>14, <2>2 DEF Launch, Inside
<1>15. ASSUME NEW r \in Requests, NEW a \in Analyzers, AnalyzeReply(r, a)
       PROVE  TypeOK' /\ Inside'
  <2>1. PICK x \in Replies :
          ars' = [ars EXCEPT ![r] = @ \cup
                   {[from |-> a, notes |-> filterResults(r, x.notes), failures |-> x.failures]}]
    BY <1>15 DEF AnalyzeReply
  <2>2. [from |-> a, notes |-> filterResults(r, x.notes), failures |-> x.failures]
          \in AnalyzeResponse
    BY ConstantsTyped DEF filterResults, AnalyzeResponse, Failure
  <2>3. TypeOK'
    BY <1>15, <2>1, <2>2 DEF AnalyzeReply, TypeOK
  <2>4. QED
    BY <1>15, <2>3 DEF AnalyzeReply, Inside
<1>16. ASSUME NEW r \in Requests, NEW a \in Analyzers, AnalyzeError(r, a)
       PROVE  TypeOK' /\ Inside'
  <2>1. [from |-> a, notes |-> {}, failures |-> {Nil}] \in AnalyzeResponse
    BY DEF AnalyzeResponse, Failure
  <2>2. TypeOK'
    BY <1>16, <2>1 DEF AnalyzeError, TypeOK
  <2>3. QED
    BY <1>16, <2>2 DEF AnalyzeError, Inside
<1>17. ASSUME NEW r \in Requests, CollectResponses(r) PROVE TypeOK' /\ Inside'
  BY <1>17 DEF CollectResponses, TypeOK, Inside, Goto, Locations
<1>18. ASSUME NEW r \in Requests, Restore(r) PROVE TypeOK' /\ Inside'
  BY <1>18 DEF Restore, TypeOK, Inside, Goto, Locations
<1>19. ASSUME NEW r \in Requests, SendResponse(r) PROVE TypeOK' /\ Inside'
  BY <1>19 DEF SendResponse, TypeOK, Inside, Goto, Locations
<1>20. ASSUME NEW r \in Requests, NEW s \in Requests, MapRace(r, s)
       PROVE  TypeOK' /\ Inside'
  BY <1>20 DEF MapRace, TypeOK, Inside
<1>21. CASE UNCHANGED vars
  BY <1>21 DEF TypeOK, Inside
<1>22. QED
  BY <1>1, <1>2, <1>3, <1>4, <1>5, <1>6, <1>7, <1>8, <1>9, <1>10, <1>11, <1>12,
     <1>13, <1>14, <1>15, <1>16, <1>17, <1>18, <1>19, <1>20, <1>21
     DEF Next, RunStep, CallStep, Stopped

\* Every variable of the driver keeps its type, whatever the analyzers answer
\* and however the calls interleave (driver.go, Run and GetCategory).
THEOREM TypeCorrect == Spec => []TypeOK
<1>1. Init => TypeOK /\ Inside
  BY InitTypeInside
<1>2. TypeOK /\ Inside /\ [Next]_vars => (TypeOK /\ Inside)'
  BY StepTypeInside
<1>3. QED
  BY <1>1, <1>2, PTL DEF Spec

(***************************************************************************)
(* Every call is answered once.  The inductive invariant says where in a   *)
(* run calls and answers can exist: no call before the loop has reached    *)
(* its analyzer, no answer without a call, no end with a call unanswered.  *)
(***************************************************************************)

CallsOf(r) ==
  /\ pc[r] \notin {"analyze", "restore", "send", "done"} =>
       \A a \in Analyzers : called[r][a] = {}
  /\ pc[r] # "analyze" => todo[r] = {}
  /\ \A a \in todo[r] : called[r][a] = {}
  /\ \A a \in Analyzers : Answered(r, a) => called[r][a] # {}
  /\ pc[r] \in {"restore", "send", "done"} =>
       \A a \in Analyzers : called[r][a] # {} => Answered(r, a)
  /\ \A x, y \in ars[r] : x.from = y.from /\ x.from # Self => x = y

CallsInv == \A r \in Requests : CallsOf(r)

\* A request none of whose calls a step touches keeps its part.
LEMMA CallsFrame ==
  ASSUME NEW s \in Requests, CallsOf(s),
         pc'[s] = pc[s], todo'[s] = todo[s], called'[s] = called[s], ars'[s] = ars[s]
  PROVE  CallsOf(s)'
  BY DEF CallsOf, Answered

\* A move between two places that are both before the calls, or both after.
LEMMA CallsMove ==
  ASSUME TypeOK, CallsInv, NEW r \in Requests, NEW l \in Locations, Goto(r, l),
         todo' = todo, called' = called, ars' = ars, pc[r] # "analyze", l # "analyze",
         \/ pc[r] \in {"restore", "send", "done"} /\ l \in {"restore", "send", "done"}
         \/ pc[r] \notin {"restore", "send", "done"}
  PROVE  CallsInv'
<1>1. /\ pc'[r] = l
      /\ \A s \in Requests \ {r} : pc'[s] = pc[s]
  BY DEF Goto, TypeOK
<1>2. CallsOf(r)'
  BY <1>1 DEF CallsInv, CallsOf, Answered
<1>3. \A s \in Requests \ {r} : CallsOf(s)'
  BY <1>1, CallsFrame DEF CallsInv
<1>4. QED
  BY <1>2, <1>3 DEF CallsInv

\* The driver's own failures answer no call.
LEMMA CallsFailures ==
  ASSUME TypeOK, CallsInv, NEW r \in Requests, NEW cats, NEW l \in Locations,
         AddFailures(r, cats), Goto(r, l), todo' = todo, called' = called,
         pc[r] \notin {"analyze", "restore", "send", "done"}, l # "analyze"
  PROVE  CallsInv'
<1>1. /\ pc'[r] = l
      /\ ars'[r] = ars[r] \cup generateFailure(cats)
      /\ \A s \in Requests \ {r} : pc'[s] = pc[s] /\ ars'[s] = ars[s]
  BY DEF Goto, AddFailures, TypeOK
<1>2. \A x \in generateFailure(cats) : x.from = Self
  BY DEF generateFailure
<1>3. \A a \in Analyzers : Answered(r, a)' <=> Answered(r, a)
  BY <1>1, <1>2, NamesDistinct DEF Answered
<1>4. \A x, y \in ars'[r] : x.from = y.from /\ x.from # Self => x = y
  BY <1>1, <1>2 DEF CallsInv, CallsOf
<1>5. CallsOf(r)'
  BY <1>1, <1>3, <1>4 DEF CallsInv, CallsOf
<1>6. \A s \in Requests \ {r} : CallsOf(s)'
  BY <1>1, CallsFrame DEF CallsInv
<1>7. QED
  BY <1>5, <1>6 DEF CallsInv

\* An analyzer called and not answered yet gives one answer.
LEMMA CallsAnswer ==
  ASSUME TypeOK, CallsInv, NEW r \in Requests, NEW a \in Analyzers, NEW x,
         x.from = a, called[r][a] # {}, ~Answered(r, a),
         ars' = [ars EXCEPT ![r] = @ \cup {x}],
         pc' = pc, todo' = todo, called' = called
  PROVE  CallsInv'
<1>1. /\ ars'[r] = ars[r] \cup {x}
      /\ \A s \in Requests \ {r} : ars'[s] = ars[s]
  BY DEF TypeOK
<1>2. \A b \in Analyzers : Answered(r, b)' <=> Answered(r, b) \/ b = a
  BY <1>1 DEF Answered
<1>3. \A y \in ars[r] : y.from # a
  BY DEF Answered
<1>4. \A y, z \in ars'[r] : y.from = z.from /\ y.from # Self => y = z
  BY <1>1, <1>3 DEF CallsInv, CallsOf
<1>5. CallsOf(r)'
  BY <1>2, <1>4 DEF CallsInv, CallsOf
<1>6. \A s \in Requests \ {r} : CallsOf(s)'
  BY <1>1, CallsFrame DEF CallsInv
<1>7. QED
  BY <1>5, <1>6 DEF CallsInv

LEMMA StepCalls == TypeOK /\ CallsInv /\ [Next]_vars => CallsInv'
<1> SUFFICES ASSUME TypeOK, CallsInv, [Next]_vars
             PROVE  CallsInv'
  OBVIOUS
<1> USE DEF vars, process, setup, choice, calls
<1>1. ASSUME NEW r \in Requests, Receive(r) PROVE CallsInv'
  <2>1. PICK q \in Workload :
          Goto(r, IF q.kind = "categories" THEN "info"
                  ELSE IF Unset(q) THEN "panicked" ELSE "getwd")
    BY <1>1 DEF Receive
  <2>2. QED
    BY <1>1, <2>1, CallsMove DEF Receive, Locations
<1>2. ASSUME NEW r \in Requests, Getwd(r) PROVE CallsInv'
  BY <1>2, CallsMove DEF Getwd, Locations
<1>3. ASSUME NEW r \in Requests, Chdir(r) PROVE CallsInv'
  BY <1>3, CallsMove DEF Chdir, Locations
<1>4. ASSUME NEW r \in Requests, ChdirFails(r) PROVE CallsInv'
  BY <1>4, CallsFailures DEF ChdirFails, Locations
<1>5. ASSUME NEW r \in Requests, LoadConfig(r) PROVE CallsInv'
  <2> DEFINE failed == loadConfig(ConfigAt[cwd], req[r].event).status = "error"
             cats   == IF failed THEN {Setup} ELSE {}
             l      == IF failed THEN "restore" ELSE "info"
  <2>1. /\ AddFailures(r, cats) /\ Goto(r, l)
        /\ pc[r] = "config" /\ todo' = todo /\ called' = called
    BY <1>5 DEF LoadConfig
  <2>2. l \in Locations /\ l # "analyze"
    BY DEF Locations
  <2> HIDE DEF failed, cats, l
  <2>3. QED
    BY <2>1, <2>2, CallsFailures
<1>6. ASSUME NEW r \in Requests, NEW a \in Analyzers,
             CategoryReply(r, a) \/ StageReply(r, a) \/ StageMissing(r, a)
      PROVE  CallsInv'
  BY <1>6, CallsFrame DEF CategoryReply, StageReply, StageMissing, CallsInv
<1>7. ASSUME NEW r \in Requests, ListCategories(r) \/ EventNotConfigured(r)
      PROVE  CallsInv'
  BY <1>7, CallsMove DEF ListCategories, EventNotConfigured, Locations
<1>8. ASSUME NEW r \in Requests, SelectCategories(r) PROVE CallsInv'
  <2>1. PICK cats : AddFailures(r, cats)
    BY <1>8 DEF SelectCategories
  <2>2. QED
    BY <1>8, <2>1, CallsFailures DEF SelectCategories, Locations
<1>9. ASSUME NEW r \in Requests, RemoveMissing(r) PROVE CallsInv'
  BY <1>9, CallsMove DEF RemoveMissing, Locations
<1>10. ASSUME NEW r \in Requests, CollectFiles(r) PROVE CallsInv'
  <2>1. CASE todo' = todo /\ Goto(r, "restore")
    BY <1>10, <2>1, CallsMove DEF CollectFiles, Locations
  <2>2. CASE todo' = [todo EXCEPT ![r] = Analyzers] /\ Goto(r, "analyze")
    <3>1. /\ pc'[r] = "analyze" /\ todo'[r] = Analyzers
          /\ \A s \in Requests \ {r} : pc'[s] = pc[s] /\ todo'[s] = todo[s]
          /\ pc[r] = "files" /\ called' = called /\ ars' = ars
      BY <1>10, <2>2 DEF CollectFiles, Goto, TypeOK
    <3>2. CallsOf(r)'
      BY <3>1 DEF CallsInv, CallsOf, Answered
    <3>3. \A s \in Requests \ {r} : CallsOf(s)'
      BY <3>1, CallsFrame DEF CallsInv
    <3>4. QED
      BY <3>2, <3>3 DEF CallsInv
  <2>3. QED
    BY <1>10, <2>1, <2>2 DEF CollectFiles
<1>11. ASSUME NEW r \in Requests, NEW a \in Analyzers, Launch(r, a) PROVE CallsInv'
  <2>1. /\ todo'[r] = todo[r] \ {a} /\ pc[r] = "analyze" /\ pc' = pc /\ ars' = ars
        /\ \A b \in Analyzers \ {a} : called'[r][b] = called[r][b]
        /\ called[r][a] = {}
        /\ \A s \in Requests \ {r} : todo'[s] = todo[s] /\ called'[s] = called[s]
    BY <1>11 DEF Launch, TypeOK, CallsInv, CallsOf
  <2>2. \A b \in Analyzers : Answered(r, b)' <=> Answered(r, b)
    BY <2>1 DEF Answered
  <2>3. ~Answered(r, a)
    BY <2>1 DEF CallsInv, CallsOf
  <2>4. CallsOf(r)'
    <3>1. CallsOf(r)
      BY DEF CallsInv
    <3>2. \A b \in Analyzers : Answered(r, b)' => called'[r][b] # {}
      BY <2>1, <2>2, <2>3, <3>1 DEF CallsOf
    <3>3. \A b \in todo'[r] : called'[r][b] = {}
      BY <2>1, <3>1 DEF CallsOf, TypeOK
    <3>4. QED
      BY <2>1, <3>1, <3>2, <3>3 DEF CallsOf
  <2>5. \A s \in Requests \ {r} : CallsOf(s)'
    BY <2>1, CallsFrame DEF CallsInv
  <2>6. QED
    BY <2>4, <2>5 DEF CallsInv
<1>12. ASSUME NEW r \in Requests, NEW a \in Analyzers, AnalyzeReply(r, a)
       PROVE  CallsInv'
  <2>1. PICK x \in Replies :
          ars' = [ars EXCEPT ![r] = @ \cup
                   {[from |-> a, notes |-> filterResults(r, x.notes), failures |-> x.failures]}]
    BY <1>12 DEF AnalyzeReply
  <2> DEFINE answer == [from |-> a, notes |-> filterResults(r, x.notes),
                        failures |-> x.failures]
  <2>2. answer.from = a /\ ars' = [ars EXCEPT ![r] = @ \cup {answer}]
    BY <2>1
  <2> HIDE DEF answer
  <2>3. QED
    BY <1>12, <2>2, CallsAnswer DEF AnalyzeReply
<1>13. ASSUME NEW r \in Requests, NEW a \in Analyzers, AnalyzeError(r, a)
       PROVE  CallsInv'
  <2> DEFINE answer == [from |-> a, notes |-> {}, failures |-> {Nil}]
  <2>1. answer.from = a /\ ars' = [ars EXCEPT ![r] = @ \cup {answer}]
    BY <1>13 DEF AnalyzeError
  <2> HIDE DEF answer
  <2>2. QED
    BY <1>13, <2>1, CallsAnswer DEF AnalyzeError
<1>14. ASSUME NEW r \in Requests, CollectResponses(r) PROVE CallsInv'
  <2>1. /\ pc'[r] = "restore" /\ todo[r] = {} /\ pc[r] = "analyze"
        /\ todo' = todo /\ called' = called /\ ars' = ars
        /\ \A a \in Analyzers : called[r][a] # {} => Answered(r, a)
        /\ \A s \in Requests \ {r} : pc'[s] = pc[s]
    BY <1>14 DEF CollectResponses, Goto, TypeOK
  <2>2. CallsOf(r)'
    BY <2>1 DEF CallsInv, CallsOf, Answered
  <2>3. \A s \in Requests \ {r} : CallsOf(s)'
    BY <2>1, CallsFrame DEF CallsInv
  <2>4. QED
    BY <2>2, <2>3 DEF CallsInv
<1>15. ASSUME NEW r \in Requests, Restore(r) \/ SendResponse(r) PROVE CallsInv'
  BY <1>15, CallsMove DEF Restore, SendResponse, Locations
<1>16. ASSUME NEW r \in Requests, NEW s \in Requests, MapRace(r, s) PROVE CallsInv'
  BY <1>16, CallsFrame DEF MapRace, CallsInv
<1>17. CASE UNCHANGED vars
  BY <1>17, CallsFrame DEF CallsInv
<1>18. QED
  BY <1>1, <1>2, <1>3, <1>4, <1>5, <1>6, <1>7, <1>8, <1>9, <1>10, <1>11, <1>12,
     <1>13, <1>14, <1>15, <1>16, <1>17 DEF Next, RunStep, CallStep, Stopped

\* A response has exactly one answer for each call of its run, none for any
\* other analyzer (driver.go, callAllAnalyzers and callAnalyze).
THEOREM CallsAnswered == Spec => []EveryCallAnswered
<1>1. Init => CallsInv
  BY DEF Init, CallsInv, CallsOf, Answered
<1>2. TypeOK /\ CallsInv /\ [Next]_vars => CallsInv'
  BY StepCalls
<1>3. CallsInv => EveryCallAnswered
  BY DEF CallsInv, CallsOf, EveryCallAnswered
<1>4. QED
  BY <1>1, <1>2, <1>3, TypeCorrect, PTL DEF Spec

(***************************************************************************)
(* No category is lost.  Chosen is what the run is about: the categories   *)
(* named, or whatever the shared default set still holds; it only shrinks, *)
(* and the invariant says, place by place, that every chosen category is   *)
(* reported, or on its way to the analyzers that have it.                  *)
(***************************************************************************)

Chosen(r) == IF Explicit(r) = {} THEN defaultCats ELSE Explicit(r)

\* The run ended after choosing, with a usable repository.
Settled(r) ==
  /\ pc[r] \in {"restore", "send", "done"} /\ req[r].kind = "run"
  /\ Setup \notin Reported(r) /\ ~NotConfigured(r)

\* c was given to a, if a has it and is of the stage.
GivenTo(r, a, c) ==
  c \in info[r][a].categories /\ info[r][a].stage = "PRE_BUILD" => c \in called[r][a]

ChoiceOf(r) ==
  /\ pc[r] \in {"remove", "files", "analyze"} => aliased[r] = (Explicit(r) = {})
  /\ pc[r] = "remove" =>
       /\ ~aliased[r] => desired[r] = Explicit(r)
       /\ missing[r] \subseteq Reported(r)
       /\ Chosen(r) \subseteq missing[r] \cup allCats(r)
  /\ pc[r] \in {"files", "analyze"} =>
       Chosen(r) \subseteq Reported(r) \cup (CurrentDesired(r) \cap allCats(r))
  /\ pc[r] = "analyze" =>
       /\ req[r].stage = "PRE_BUILD"
       /\ \A c \in Chosen(r) \ Reported(r), a \in Analyzers \ todo[r] : GivenTo(r, a, c)
  /\ Settled(r) => \A c \in Chosen(r) : AccountedFor(r, c)

ChoiceInv == (\A r \in Requests : ChoiceOf(r)) /\ LostDefaultsReported

\* A run a step does not touch keeps its part, even if the step takes
\* default categories away.
LEMMA ChoiceFrame ==
  ASSUME NEW s \in Requests, ChoiceOf(s), defaultCats' \subseteq defaultCats,
         pc'[s] = pc[s], req'[s] = req[s], cfg'[s] = cfg[s], info'[s] = info[s],
         desired'[s] = desired[s], aliased'[s] = aliased[s], missing'[s] = missing[s],
         files'[s] = files[s], todo'[s] = todo[s], called'[s] = called[s], ars'[s] = ars[s]
  PROVE  ChoiceOf(s)'
<1>1. /\ Explicit(s)' = Explicit(s) /\ Reported(s)' = Reported(s) /\ allCats(s)' = allCats(s)
      /\ NotConfigured(s)' <=> NotConfigured(s)
  BY DEF Explicit, Reported, allCats, NotConfigured
<1>2. Chosen(s)' \subseteq Chosen(s)
  BY <1>1 DEF Chosen
<1>3. \A c : AccountedFor(s, c)' <=> AccountedFor(s, c)
  BY <1>1 DEF AccountedFor
<1>4. \A a, c : GivenTo(s, a, c)' <=> GivenTo(s, a, c)
  BY DEF GivenTo
<1>5. Settled(s)' <=> Settled(s)
  BY <1>1 DEF Settled
<1>6. pc[s] \in {"files", "analyze"} =>
        Chosen(s)' \subseteq Reported(s)' \cup (CurrentDesired(s)' \cap allCats(s)')
  <2>1. CASE aliased[s]
    BY <1>1, <1>2, <2>1 DEF ChoiceOf, Chosen, CurrentDesired
  <2>2. CASE ~aliased[s]
    BY <1>1, <1>2, <2>2 DEF ChoiceOf, CurrentDesired
  <2>3. QED
    BY <2>1, <2>2
<1>7. QED
  BY <1>1, <1>2, <1>3, <1>4, <1>5, <1>6 DEF ChoiceOf

\* AddFailures adds exactly the given categories to what r's client is told.
LEMMA ReportedAdded ==
  ASSUME TypeOK, NEW r \in Requests, NEW cats, AddFailures(r, cats)
  PROVE  /\ Reported(r)' = Reported(r) \cup cats
         /\ \A s \in Requests \ {r} : ars'[s] = ars[s]
<1>1. /\ ars'[r] = ars[r] \cup generateFailure(cats)
      /\ \A s \in Requests \ {r} : ars'[s] = ars[s]
  BY DEF AddFailures, TypeOK
<1>2. \A x : x \in generateFailure(cats) <=>
        \E c \in cats : x = [from |-> Self, notes |-> {}, failures |-> {c}]
  BY DEF generateFailure
<1>3. \A f : f \in Reported(r) <=> \E x \in ars[r] : x.from = Self /\ f \in x.failures
  BY DEF Reported
<1>4. \A f : f \in Reported(r)' <=> \E x \in ars'[r] : x.from = Self /\ f \in x.failures
  BY DEF Reported
<1>5. \A f : f \in Reported(r)' <=> f \in Reported(r) \cup cats
  <2> TAKE f
  <2>1. f \in Reported(r)' => f \in Reported(r) \cup cats
    BY <1>1, <1>2, <1>3, <1>4
  <2>2. f \in Reported(r) => f \in Reported(r)'
    BY <1>1, <1>3, <1>4
  <2>3. ASSUME f \in cats PROVE f \in Reported(r)'
    <3> DEFINE x == [from |-> Self, notes |-> {}, failures |-> {f}]
    <3>1. x \in ars'[r]
      BY <1>1, <1>2, <2>3
    <3>2. x.from = Self /\ f \in x.failures
      OBVIOUS
    <3> HIDE DEF x
    <3>3. QED
      BY <1>4, <3>1, <3>2
  <2>4. QED
    BY <2>1, <2>2, <2>3
<1>6. QED
  BY <1>1, <1>5

\* What is reported stays reported, so lost defaults stay accounted for.
LEMMA LostFrame ==
  ASSUME LostDefaultsReported, defaultCats' = defaultCats,
         \A s \in Requests : Reported(s) \subseteq Reported(s)'
  PROVE  LostDefaultsReported'
  BY DEF LostDefaultsReported

\* A step of r touches no other run's own state.
Only(r) ==
  \A s \in Requests \ {r} :
    /\ pc'[s] = pc[s] /\ req'[s] = req[s] /\ orgDir'[s] = orgDir[s] /\ cfg'[s] = cfg[s]
    /\ info'[s] = info[s] /\ desired'[s] = desired[s] /\ aliased'[s] = aliased[s]
    /\ missing'[s] = missing[s] /\ files'[s] = files[s] /\ todo'[s] = todo[s]
    /\ called'[s] = called[s] /\ ars'[s] = ars[s]

LEMMA RunLocal ==
  ASSUME TypeOK, NEW r \in Requests, Receive(r) \/ RunStep(r)
  PROVE  Only(r)
<1> USE DEF process, setup, choice, calls, Only, TypeOK, Goto, AddFailures
<1>1. CASE Receive(r)
  BY <1>1 DEF Receive
<1>2. CASE Getwd(r) \/ Chdir(r) \/ ChdirFails(r)
  BY <1>2 DEF Getwd, Chdir, ChdirFails
<1>3. CASE LoadConfig(r)
  BY <1>3 DEF LoadConfig
<1>4. CASE ListCategories(r) \/ EventNotConfigured(r)
  BY <1>4 DEF ListCategories, EventNotConfigured
<1>5. CASE SelectCategories(r)
  BY <1>5 DEF SelectCategories
<1>6. CASE RemoveMissing(r)
  BY <1>6 DEF RemoveMissing
<1>7. CASE CollectFiles(r)
  BY <1>7 DEF CollectFiles
<1>8. CASE \E a \in Analyzers : Launch(r, a)
  BY <1>8 DEF Launch
<1>9. CASE CollectResponses(r) \/ Restore(r) \/ SendResponse(r)
  BY <1>9 DEF CollectResponses, Restore, SendResponse
<1>10. QED
  BY <1>1, <1>2, <1>3, <1>4, <1>5, <1>6, <1>7, <1>8, <1>9 DEF RunStep

LEMMA CallLocal ==
  ASSUME TypeOK, NEW r \in Requests, NEW a \in Analyzers, CallStep(r, a)
  PROVE  Only(r)
<1> USE DEF process, setup, choice, calls, Only, TypeOK
<1>1. CASE CategoryReply(r, a)
  BY <1>1 DEF CategoryReply
<1>2. CASE StageReply(r, a)
  BY <1>2 DEF StageReply
<1>3. CASE StageMissing(r, a)
  BY <1>3 DEF StageMissing
<1>4. CASE AnalyzeReply(r, a)
  BY <1>4 DEF AnalyzeReply
<1>5. CASE AnalyzeError(r, a)
  BY <1>5 DEF AnalyzeError
<1>6. QED
  BY <1>1, <1>2, <1>3, <1>4, <1>5 DEF CallStep

\* So it is enough to look at r and at the lost defaults.
LEMMA ChoiceOthers ==
  ASSUME ChoiceInv, NEW r \in Requests, Only(r), defaultCats' \subseteq defaultCats,
         ChoiceOf(r)', LostDefaultsReported'
  PROVE  ChoiceInv'
<1>1. \A s \in Requests \ {r} : ChoiceOf(s)'
  BY ChoiceFrame DEF ChoiceInv, Only
<1>2. QED
  BY <1>1 DEF ChoiceInv

\* The same when the step only adds to what r has reported.
LEMMA ChoiceReport ==
  ASSUME ChoiceInv, NEW r \in Requests, Only(r), defaultCats' = defaultCats,
         ChoiceOf(r)', Reported(r) \subseteq Reported(r)'
  PROVE  ChoiceInv'
<1>1. \A s \in Requests : Reported(s) \subseteq Reported(s)'
  BY DEF Only, Reported
<1>2. LostDefaultsReported'
  BY <1>1, LostFrame DEF ChoiceInv
<1>3. QED
  BY <1>2, ChoiceOthers

\* A run that has not chosen yet owes nothing.
LEMMA ChoiceEarly ==
  ASSUME NEW r \in Requests,
         pc'[r] \notin {"remove", "files", "analyze", "restore", "send", "done"}
  PROVE  ChoiceOf(r)'
  BY DEF ChoiceOf, Settled

\* An answer of an analyzer changes nothing the driver reports.
LEMMA AnswerReported ==
  ASSUME TypeOK, NEW r \in Requests, NEW a \in Analyzers, NEW x, x.from = a,
         ars' = [ars EXCEPT ![r] = @ \cup {x}]
  PROVE  Reported(r)' = Reported(r)
<1>1. ars'[r] = ars[r] \cup {x}
  BY DEF TypeOK
<1>2. x.from # Self
  BY NamesDistinct
<1>3. {y \in ars'[r] : y.from = Self} = {y \in ars[r] : y.from = Self}
  BY <1>1, <1>2
<1>4. QED
  BY <1>3 DEF Reported

LEMMA SelectChoice ==
  ASSUME TypeOK, ChoiceInv, NEW r \in Requests, SelectCategories(r)
  PROVE  ChoiceInv'
<1> DEFINE absent == Chosen(r) \ allCats(r)
<1>1. /\ desired'[r] = Explicit(r) /\ aliased'[r] = (Explicit(r) = {})
      /\ missing'[r] = absent /\ pc'[r] = "remove"
      /\ AddFailures(r, absent)
      /\ defaultCats' = defaultCats /\ req' = req /\ cfg' = cfg /\ info' = info
  BY DEF SelectCategories, Chosen, TypeOK, Goto, process, setup
<1>2. Explicit(r)' = Explicit(r) /\ Chosen(r)' = Chosen(r) /\ allCats(r)' = allCats(r)
  BY <1>1 DEF Explicit, Chosen, allCats
<1>3. Reported(r)' = Reported(r) \cup absent
  BY <1>1, ReportedAdded
<1>4. ChoiceOf(r)'
  BY <1>1, <1>2, <1>3 DEF ChoiceOf, Settled
<1>5. Only(r)
  BY RunLocal DEF RunStep
<1>6. QED
  BY <1>1, <1>3, <1>4, <1>5, ChoiceReport

\* What the run deletes, from its own set or from everybody's, it reported.
LEMMA RemoveChoice ==
  ASSUME TypeOK, ChoiceInv, NEW r \in Requests, RemoveMissing(r)
  PROVE  ChoiceInv'
<1>1. /\ desired'[r] = desired[r] \ missing[r]
      /\ defaultCats' = IF aliased[r] THEN defaultCats \ missing[r] ELSE defaultCats
      /\ pc[r] = "remove"
      /\ pc'[r] = IF CurrentDesired(r) \subseteq missing[r] THEN "restore" ELSE "files"
      /\ req' = req /\ cfg' = cfg /\ info' = info /\ aliased' = aliased
      /\ missing' = missing /\ files' = files /\ called' = called /\ ars' = ars
  BY DEF RemoveMissing, TypeOK, Goto, setup, calls
<1>2. /\ Explicit(r)' = Explicit(r) /\ allCats(r)' = allCats(r)
      /\ \A s \in Requests : Reported(s)' = Reported(s)
  BY <1>1 DEF Explicit, allCats, Reported
<1>3. /\ aliased[r] = (Explicit(r) = {}) /\ (~aliased[r] => desired[r] = Explicit(r))
      /\ missing[r] \subseteq Reported(r) /\ Chosen(r) \subseteq missing[r] \cup allCats(r)
  BY <1>1 DEF ChoiceInv, ChoiceOf
<1>4. CurrentDesired(r) = Chosen(r)
  BY <1>3 DEF CurrentDesired, Chosen
<1>5. /\ Chosen(r)' \subseteq Chosen(r)
      /\ CurrentDesired(r)' = Chosen(r) \ missing[r]
  BY <1>1, <1>2, <1>3 DEF CurrentDesired, Chosen
<1>6. ChoiceOf(r)'
  <2>1. CASE CurrentDesired(r) \subseteq missing[r]
    <3>1. \A c \in Chosen(r)' : AccountedFor(r, c)'
      BY <1>2, <1>3, <1>4, <1>5, <2>1 DEF AccountedFor
    <3>2. pc'[r] = "restore"
      BY <1>1, <2>1
    <3>3. QED
      BY <3>1, <3>2 DEF ChoiceOf
  <2>2. CASE ~(CurrentDesired(r) \subseteq missing[r])
    <3>1. Chosen(r)' \subseteq Reported(r)' \cup (CurrentDesired(r)' \cap allCats(r)')
      BY <1>2, <1>3, <1>5
    <3>2. pc'[r] = "files"
      BY <1>1, <2>2
    <3>3. aliased'[r] = (Explicit(r)' = {})
      BY <1>1, <1>2, <1>3
    <3>4. QED
      BY <3>1, <3>2, <3>3 DEF ChoiceOf, Settled
  <2>3. QED
    BY <2>1, <2>2
<1>7. LostDefaultsReported'
  <2>1. DefaultCategories \ defaultCats' \subseteq (DefaultCategories \ defaultCats) \cup missing[r]
    BY <1>1
  <2>2. QED
    BY <1>2, <1>3, <2>1 DEF ChoiceInv, LostDefaultsReported
<1>8. Only(r)
  BY RunLocal DEF RunStep
<1>9. defaultCats' \subseteq defaultCats
  BY <1>1
<1>10. QED
  BY <1>6, <1>7, <1>8, <1>9, ChoiceOthers

LEMMA FilesChoice ==
  ASSUME TypeOK, ChoiceInv, NEW r \in Requests, CollectFiles(r)
  PROVE  ChoiceInv'
<1> DEFINE runs == retrieveAndFilterFiles(r) # {} /\ req[r].stage = "PRE_BUILD"
<1>1. /\ pc[r] = "files" /\ files'[r] = retrieveAndFilterFiles(r)
      /\ defaultCats' = defaultCats /\ req' = req /\ cfg' = cfg /\ info' = info
      /\ desired' = desired /\ aliased' = aliased /\ missing' = missing
      /\ called' = called /\ ars' = ars
      /\ runs => todo'[r] = Analyzers /\ pc'[r] = "analyze"
      /\ ~runs => pc'[r] = "restore"
  BY DEF CollectFiles, TypeOK, Goto, process, setup
<1>2. /\ Explicit(r)' = Explicit(r) /\ Chosen(r)' = Chosen(r) /\ allCats(r)' = allCats(r)
      /\ Reported(r)' = Reported(r) /\ CurrentDesired(r)' = CurrentDesired(r)
  BY <1>1 DEF Explicit, Chosen, allCats, Reported, CurrentDesired
<1>3. /\ aliased[r] = (Explicit(r) = {})
      /\ Chosen(r) \subseteq Reported(r) \cup (CurrentDesired(r) \cap allCats(r))
  BY <1>1 DEF ChoiceInv, ChoiceOf
<1>4. ChoiceOf(r)'
  <2>1. CASE runs
    BY <1>1, <1>2, <1>3, <2>1 DEF ChoiceOf, Settled
  <2>2. CASE ~runs
    <3>1. files'[r] = {} \/ req'[r].stage # "PRE_BUILD"
      BY <1>1, <2>2
    <3>2. \A c \in Chosen(r)' : AccountedFor(r, c)'
      BY <1>2, <1>3, <3>1 DEF AccountedFor
    <3>3. pc'[r] = "restore"
      BY <1>1, <2>2
    <3>4. QED
      BY <3>2, <3>3 DEF ChoiceOf
  <2>3. QED
    BY <2>1, <2>2
<1>5. Only(r)
  BY RunLocal DEF RunStep
<1>6. QED
  BY <1>1, <1>2, <1>4, <1>5, ChoiceReport

LEMMA LaunchChoice ==
  ASSUME TypeOK, ChoiceInv, NEW r \in Requests, NEW a \in Analyzers, Launch(r, a)
  PROVE  ChoiceInv'
<1>1. /\ pc[r] = "analyze" /\ pc' = pc /\ todo'[r] = todo[r] \ {a}
      /\ called'[r][a] = IF info[r][a].stage = req[r].stage
                         THEN info[r][a].categories \cap CurrentDesired(r) ELSE {}
      /\ \A b \in Analyzers \ {a} : called'[r][b] = called[r][b]
      /\ defaultCats' = defaultCats /\ req' = req /\ cfg' = cfg /\ info' = info
      /\ desired' = desired /\ aliased' = aliased /\ ars' = ars
  BY DEF Launch, TypeOK, process, setup, choice
<1>2. /\ Explicit(r)' = Explicit(r) /\ Chosen(r)' = Chosen(r) /\ allCats(r)' = allCats(r)
      /\ Reported(r)' = Reported(r) /\ CurrentDesired(r)' = CurrentDesired(r)
  BY <1>1 DEF Explicit, Chosen, allCats, Reported, CurrentDesired
<1>3. /\ aliased[r] = (Explicit(r) = {})
      /\ Chosen(r) \subseteq Reported(r) \cup (CurrentDesired(r) \cap allCats(r))
      /\ req[r].stage = "PRE_BUILD"
      /\ \A c \in Chosen(r) \ Reported(r), b \in Analyzers \ todo[r] : GivenTo(r, b, c)
  BY <1>1 DEF ChoiceInv, ChoiceOf
<1>4. \A c \in Chosen(r) \ Reported(r) : GivenTo(r, a, c)'
  BY <1>1, <1>3 DEF GivenTo
<1>5. ASSUME NEW c \in Chosen(r) \ Reported(r), NEW b \in Analyzers \ todo'[r]
      PROVE  GivenTo(r, b, c)'
  <2>1. CASE b = a
    BY <1>4, <2>1
  <2>2. CASE b # a
    BY <1>1, <1>3, <2>2 DEF GivenTo
  <2>3. QED
    BY <2>1, <2>2
<1>6. ChoiceOf(r)'
  BY <1>1, <1>2, <1>3, <1>5 DEF ChoiceOf, Settled
<1>7. Only(r)
  BY RunLocal DEF RunStep
<1>8. QED
  BY <1>1, <1>2, <1>6, <1>7, ChoiceReport

LEMMA CollectChoice ==
  ASSUME TypeOK, ChoiceInv, NEW r \in Requests, CollectResponses(r)
  PROVE  ChoiceInv'
<1>1. /\ pc[r] = "analyze" /\ pc'[r] = "restore" /\ todo[r] = {}
      /\ defaultCats' = defaultCats /\ req' = req /\ cfg' = cfg /\ info' = info
      /\ called' = called /\ ars' = ars /\ files' = files
  BY DEF CollectResponses, TypeOK, Goto, process, setup, choice, calls
<1>2. /\ Chosen(r)' = Chosen(r) /\ allCats(r)' = allCats(r) /\ Reported(r)' = Reported(r)
  BY <1>1 DEF Explicit, Chosen, allCats, Reported
<1>3. /\ Chosen(r) \subseteq Reported(r) \cup (CurrentDesired(r) \cap allCats(r))
      /\ \A c \in Chosen(r) \ Reported(r), b \in Analyzers : GivenTo(r, b, c)
  BY <1>1 DEF ChoiceInv, ChoiceOf
<1>4. \A c \in Chosen(r)' : AccountedFor(r, c)'
  BY <1>1, <1>2, <1>3 DEF AccountedFor, GivenTo
<1>5. ChoiceOf(r)'
  BY <1>1, <1>4 DEF ChoiceOf
<1>6. Only(r)
  BY RunLocal DEF RunStep
<1>7. QED
  BY <1>1, <1>2, <1>5, <1>6, ChoiceReport

\* The deferred calls do not change what is owed.
LEMMA DeferredChoice ==
  ASSUME TypeOK, ChoiceInv, NEW r \in Requests, Restore(r) \/ SendResponse(r)
  PROVE  ChoiceInv'
<1>1. /\ pc[r] \in {"restore", "send"} /\ pc'[r] \in {"send", "done"}
      /\ defaultCats' = defaultCats /\ req' = req /\ cfg' = cfg /\ info' = info
      /\ called' = called /\ ars' = ars /\ files' = files
  BY DEF Restore, SendResponse, TypeOK, Goto, process, setup, choice, calls
<1>2. /\ Chosen(r)' = Chosen(r) /\ Reported(r)' = Reported(r)
      /\ NotConfigured(r)' <=> NotConfigured(r)
      /\ \A c : AccountedFor(r, c)' <=> AccountedFor(r, c)
  BY <1>1 DEF Explicit, Chosen, allCats, Reported, NotConfigured, AccountedFor
<1>3. Settled(r)' => Settled(r)
  BY <1>1, <1>2 DEF Settled
<1>4. ChoiceOf(r)'
  BY <1>1, <1>2, <1>3 DEF ChoiceOf, ChoiceInv
<1>5. Only(r)
  BY RunLocal DEF RunStep
<1>6. QED
  BY <1>1, <1>2, <1>4, <1>5, ChoiceReport

LEMMA StepChoice == TypeOK /\ ChoiceInv /\ [Next]_vars => ChoiceInv'
<1> SUFFICES ASSUME TypeOK, ChoiceInv, [Next]_vars
             PROVE  ChoiceInv'
  OBVIOUS
<1> USE DEF vars, process, setup, choice, calls
<1>1. ASSUME NEW r \in Requests, Receive(r) \/ Getwd(r) \/ Chdir(r) PROVE ChoiceInv'
  <2>1. /\ pc'[r] \in {"info", "panicked", "getwd", "chdir", "config"}
        /\ defaultCats' = defaultCats /\ ars' = ars
    BY <1>1 DEF Receive, Getwd, Chdir, Goto, TypeOK
  <2>2. Only(r)
    BY <1>1, RunLocal DEF RunStep
  <2>3. Reported(r)' = Reported(r)
    BY <2>1 DEF Reported
  <2>4. QED
    BY <2>1, <2>2, <2>3, ChoiceEarly, ChoiceReport
<1>2. ASSUME NEW r \in Requests, ChdirFails(r) PROVE ChoiceInv'
  <2>1. AddFailures(r, {Setup}) /\ pc'[r] = "send" /\ defaultCats' = defaultCats
    BY <1>2 DEF ChdirFails, Goto, TypeOK
  <2>2. Reported(r)' = Reported(r) \cup {Setup}
    BY <2>1, ReportedAdded
  <2>3. ChoiceOf(r)'
    BY <2>1, <2>2 DEF ChoiceOf, Settled
  <2>4. Only(r)
    BY <1>2, RunLocal DEF RunStep
  <2>5. QED
    BY <2>1, <2>2, <2>3, <2>4, ChoiceReport
<1>3. ASSUME NEW r \in Requests, LoadConfig(r) PROVE ChoiceInv'
  <2> DEFINE failed == loadConfig(ConfigAt[cwd], req[r].event).status = "error"
             cats   == IF failed THEN {Setup} ELSE {}
  <2>1. /\ AddFailures(r, cats) /\ defaultCats' = defaultCats
        /\ pc'[r] = IF failed THEN "restore" ELSE "info"
    BY <1>3 DEF LoadConfig, Goto, TypeOK
  <2> HIDE DEF failed
  <2>2. Reported(r)' = Reported(r) \cup cats
    BY <2>1, ReportedAdded
  <2>3. ChoiceOf(r)'
    BY <2>1, <2>2 DEF ChoiceOf, Settled
  <2>4. Only(r)
    BY <1>3, RunLocal DEF RunStep
  <2>5. QED
    BY <2>1, <2>2, <2>3, <2>4, ChoiceReport
<1>4. ASSUME NEW r \in Requests, NEW a \in Analyzers,
             CategoryReply(r, a) \/ StageReply(r, a) \/ StageMissing(r, a)
      PROVE  ChoiceInv'
  <2>1. pc'[r] = "info" /\ defaultCats' = defaultCats /\ ars' = ars
    BY <1>4 DEF CategoryReply, StageReply, StageMissing
  <2>2. Only(r)
    BY <1>4, CallLocal DEF CallStep
  <2>3. Reported(r)' = Reported(r)
    BY <2>1 DEF Reported
  <2>4. QED
    BY <2>1, <2>2, <2>3, ChoiceEarly, ChoiceReport
<1>5. ASSUME NEW r \in Requests, ListCategories(r) \/ EventNotConfigured(r)
      PROVE  ChoiceInv'
  <2>1. /\ pc'[r] \in {"done", "restore"} /\ req' = req /\ cfg' = cfg
        /\ req[r].kind = "categories" \/ NotConfigured(r)
        /\ defaultCats' = defaultCats /\ ars' = ars
    BY <1>5 DEF ListCategories, EventNotConfigured, Goto, TypeOK
  <2>2. Reported(r)' = Reported(r) /\ (NotConfigured(r)' <=> NotConfigured(r))
    BY <2>1 DEF Reported, NotConfigured, Explicit
  <2>3. req[r].kind = "categories" => ~Settled(r)'
    BY <2>1 DEF Settled
  <2>4. ChoiceOf(r)'
    BY <2>1, <2>2, <2>3 DEF ChoiceOf, Settled
  <2>5. Only(r)
    BY <1>5, RunLocal DEF RunStep
  <2>6. QED
    BY <2>1, <2>2, <2>4, <2>5, ChoiceReport
<1>6. ASSUME NEW r \in Requests, NEW a \in Analyzers,
             AnalyzeReply(r, a) \/ AnalyzeError(r, a)
      PROVE  ChoiceInv'
  <2>1. PICK x : x.from = a /\ ars' = [ars EXCEPT ![r] = @ \cup {x}]
    <3>1. CASE AnalyzeReply(r, a)
      <4>1. PICK y \in Replies :
              ars' = [ars EXCEPT ![r] = @ \cup
                {[from |-> a, notes |-> filterResults(r, y.notes), failures |-> y.failures]}]
        BY <3>1 DEF AnalyzeReply
      <4> WITNESS [from |-> a, notes |-> filterResults(r, y.notes), failures |-> y.failures]
      <4>2. QED
        BY <4>1
    <3>2. CASE AnalyzeError(r, a)
      <4> WITNESS [from |-> a, notes |-> {}, failures |-> {Nil}]
      <4>1. QED
        BY <3>2 DEF AnalyzeError
    <3>3. QED
      BY <1>6, <3>1, <3>2
  <2>2. Reported(r)' = Reported(r)
    BY <2>1, AnswerReported
  <2>3. /\ pc' = pc /\ req' = req /\ cfg' = cfg /\ info' = info /\ desired' = desired
        /\ aliased' = aliased /\ missing' = missing /\ files' = files /\ todo' = todo
        /\ called' = called /\ defaultCats' = defaultCats
    BY <1>6 DEF AnalyzeReply, AnalyzeError
  <2>4. /\ Explicit(r)' = Explicit(r) /\ Chosen(r)' = Chosen(r) /\ allCats(r)' = allCats(r)
        /\ CurrentDesired(r)' = CurrentDesired(r) /\ (Settled(r)' <=> Settled(r))
        /\ \A c : AccountedFor(r, c)' <=> AccountedFor(r, c)
        /\ \A b, c : GivenTo(r, b, c)' <=> GivenTo(r, b, c)
    BY <2>2, <2>3 DEF Explicit, Chosen, allCats, CurrentDesired, Settled, NotConfigured,
                      AccountedFor, GivenTo
  <2>5. ChoiceOf(r)'
    BY <2>2, <2>3, <2>4 DEF ChoiceOf, ChoiceInv
  <2>6. Only(r)
    BY <1>6, CallLocal DEF CallStep
  <2>7. QED
    BY <2>2, <2>3, <2>5, <2>6, ChoiceReport
<1>7. ASSUME NEW r \in Requests, NEW s \in Requests, MapRace(r, s) PROVE ChoiceInv'
  BY <1>7, ChoiceFrame, LostFrame DEF MapRace, ChoiceInv, Reported
<1>8. CASE UNCHANGED vars
  BY <1>8, ChoiceFrame, LostFrame DEF ChoiceInv, Reported
<1>9. QED
  BY <1>1, <1>2, <1>3, <1>4, <1>5, <1>6, <1>7, <1>8, SelectChoice, RemoveChoice,
     FilesChoice, LaunchChoice, CollectChoice, DeferredChoice
     DEF Next, RunStep, CallStep, Stopped

LEMMA ChoiceCorrect == Spec => []ChoiceInv
<1>1. Init => ChoiceInv
  BY DEF Init, ChoiceInv, ChoiceOf, Settled, LostDefaultsReported
<1>2. QED
  BY <1>1, StepChoice, TypeCorrect, PTL DEF Spec

\* Whatever the analyzers, the configurations and the other requests do, a
\* run that names its categories reports or runs each of them (Run, 145-202).
THEOREM ExplicitNeverLost == Spec => []ExplicitAccounted
<1>1. ChoiceInv => ExplicitAccounted
  BY DEF ChoiceInv, ChoiceOf, ExplicitAccounted, Decided, Settled, Chosen
<1>2. QED
  BY <1>1, ChoiceCorrect, PTL

\* A default category that a run neither reports nor runs was reported to
\* some client before (Run, 158-202).
THEOREM DefaultsNeverSilent == Spec => []NoSilentLoss
<1>1. ChoiceInv => NoSilentLoss
  BY DEF ChoiceInv, ChoiceOf, NoSilentLoss, Decided, Settled, Chosen, LostDefaultsReported
<1>2. QED
  BY <1>1, ChoiceCorrect, PTL

(***************************************************************************)
(* Calls that do not overlap have the working directory to themselves.     *)
(***************************************************************************)

Active(r) == pc[r] \notin Over \cup {"idle"}

\* Where the process is, and where it will return to, at each place of r.
DirsOf(r) ==
  /\ pc[r] \in {"getwd", "chdir", "send"} => cwd = Home
  /\ pc[r] = "info" /\ req[r].kind = "categories" => cwd = Home
  /\ pc[r] \in {"chdir", "config", "remove", "files", "analyze", "restore"} => orgDir[r] = Home
  /\ pc[r] = "info" /\ req[r].kind = "run" => orgDir[r] = Home
  /\ pc[r] = "config" => cwd = req[r].root
  /\ pc[r] \in {"idle", "getwd", "chdir", "config"} => cfg[r] = NoConfig
  /\ pc[r] \in {"getwd", "chdir", "config"} => req[r].kind = "run"

OwnConfigOf(r) ==
  req[r].kind = "run" /\ (pc[r] \in {"info", "remove", "files", "analyze"}
                           \/ cfg[r].status # "none") =>
    cfg[r] = loadConfig(ConfigAt[req[r].root], req[r].event)

SerialInv ==
  /\ \A r, s \in Requests : Active(r) /\ Active(s) => r = s
  /\ \A r \in Requests : DirsOf(r) /\ OwnConfigOf(r)
  /\ CwdRestored

LEMMA InitSerial == Init => SerialInv
  BY DEF Init, SerialInv, Active, DirsOf, OwnConfigOf, CwdRestored, Quiescent, NoRequest, NoConfig

\* A step of the one active run leaves the others where they were.
LEMMA SerialStep ==
  ASSUME SerialInv, NEW r \in Requests, Only(r), Active(r),
         DirsOf(r)', OwnConfigOf(r)', ~Active(r)' => cwd' = Home
  PROVE  SerialInv'
<1>1. \A s \in Requests \ {r} : ~Active(s) /\ ~Active(s)'
  BY DEF SerialInv, Only, Active
<1>2. ASSUME NEW s \in Requests \ {r} PROVE DirsOf(s)' /\ OwnConfigOf(s)'
  <2>1. pc[s] \in Over \cup {"idle"} /\ pc'[s] = pc[s]
    BY <1>1 DEF Active, Only
  <2>2. DirsOf(s)'
    BY <2>1 DEF SerialInv, DirsOf, Only, Over
  <2>3. OwnConfigOf(s)'
    BY <2>1 DEF SerialInv, OwnConfigOf, Only, Over
  <2>4. QED
    BY <2>2, <2>3
<1>3. CwdRestored'
  BY DEF CwdRestored, Quiescent, Active
<1>4. QED
  BY <1>1, <1>2, <1>3 DEF SerialInv

LEMMA StepSerial ==
  ASSUME ~Overlap
  PROVE  TypeOK /\ SerialInv /\ [Next]_vars => SerialInv'
<1> SUFFICES ASSUME TypeOK, SerialInv, [Next]_vars
             PROVE  SerialInv'
  OBVIOUS
<1> USE DEF vars, process, setup, choice, calls
<1>1. ASSUME NEW r \in Requests, Receive(r) PROVE SerialInv'
  <2>1. PICK q \in Workload :
          /\ req' = [req EXCEPT ![r] = q]
          /\ Goto(r, IF q.kind = "categories" THEN "info"
                     ELSE IF Unset(q) THEN "panicked" ELSE "getwd")
    BY <1>1 DEF Receive
  <2>2. /\ \A s \in Requests : pc[s] \in Over \cup {"idle"}
        /\ pc[r] = "idle" /\ cwd' = cwd /\ cfg' = cfg /\ orgDir' = orgDir
    BY <1>1 DEF Receive
  <2>3. cwd = Home
    BY <2>2 DEF SerialInv, CwdRestored, Quiescent
  <2>4. /\ req'[r] = q /\ \A s \in Requests \ {r} : req'[s] = req[s] /\ pc'[s] = pc[s]
        /\ pc'[r] = IF q.kind = "categories" THEN "info"
                    ELSE IF Unset(q) THEN "panicked" ELSE "getwd"
    BY <2>1 DEF Goto, TypeOK
  <2>5. cfg[r] = NoConfig
    BY <2>2 DEF SerialInv, DirsOf
  <2>6. DirsOf(r)' /\ OwnConfigOf(r)'
    <3>1. q.kind \in {"run", "categories"}
      BY RequestType DEF Request
    <3>2. QED
      BY <2>2, <2>3, <2>4, <2>5, <3>1 DEF DirsOf, OwnConfigOf, NoConfig
  <2>7. \A s \in Requests \ {r} : DirsOf(s)' /\ OwnConfigOf(s)'
    BY <2>2, <2>4 DEF SerialInv, DirsOf, OwnConfigOf
  <2>8. CwdRestored'
    BY <2>2, <2>3 DEF CwdRestored
  <2>9. \A s \in Requests \ {r} : ~Active(s)'
    BY <2>2, <2>4 DEF Active
  <2>10. QED
    BY <2>6, <2>7, <2>8, <2>9 DEF SerialInv
<1>2. ASSUME NEW r \in Requests, RunStep(r) PROVE SerialInv'
  <2>1. Only(r)
    BY <1>2, RunLocal
  <2>2. DirsOf(r) /\ OwnConfigOf(r)
    BY DEF SerialInv
  <2>3. ASSUME Getwd(r)
        PROVE  Active(r) /\ DirsOf(r)' /\ OwnConfigOf(r)' /\ (~Active(r)' => cwd' = Home)
    BY <2>2, <2>3 DEF Getwd, Goto, TypeOK, Active, Over, DirsOf, OwnConfigOf
  <2>4. ASSUME Chdir(r) \/ ChdirFails(r)
        PROVE  Active(r) /\ DirsOf(r)' /\ OwnConfigOf(r)' /\ (~Active(r)' => cwd' = Home)
    BY <2>2, <2>4 DEF Chdir, ChdirFails, Goto, TypeOK, Active, Over, DirsOf, OwnConfigOf
  <2>5. ASSUME LoadConfig(r)
        PROVE  Active(r) /\ DirsOf(r)' /\ OwnConfigOf(r)' /\ (~Active(r)' => cwd' = Home)
    <3> DEFINE loaded == loadConfig(ConfigAt[cwd], req[r].event)
    <3>1. /\ cfg'[r] = loaded /\ pc[r] = "config" /\ cwd = req[r].root
          /\ pc'[r] = IF loaded.status = "error" THEN "restore" ELSE "info"
          /\ req' = req /\ orgDir' = orgDir
      BY <2>2, <2>5 DEF LoadConfig, Goto, TypeOK, DirsOf
    <3>2. OwnConfigOf(r)'
      BY <3>1 DEF OwnConfigOf
    <3> HIDE DEF loaded
    <3>3. QED
      BY <2>2, <3>1, <3>2 DEF DirsOf, Active, Over
  <2>6. ASSUME ListCategories(r) \/ EventNotConfigured(r)
        PROVE  Active(r) /\ DirsOf(r)' /\ OwnConfigOf(r)' /\ (~Active(r)' => cwd' = Home)
    BY <2>2, <2>6 DEF ListCategories, EventNotConfigured, Goto, TypeOK, Active, Over,
                      DirsOf, OwnConfigOf
  <2>7. ASSUME SelectCategories(r)
        PROVE  Active(r) /\ DirsOf(r)' /\ OwnConfigOf(r)' /\ (~Active(r)' => cwd' = Home)
    BY <2>2, <2>7 DEF SelectCategories, Goto, TypeOK, Active, Over, DirsOf, OwnConfigOf
  <2>8. ASSUME RemoveMissing(r)
        PROVE  Active(r) /\ DirsOf(r)' /\ OwnConfigOf(r)' /\ (~Active(r)' => cwd' = Home)
    BY <2>2, <2>8 DEF RemoveMissing, Goto, TypeOK, Active, Over, DirsOf, OwnConfigOf
  <2>9. ASSUME CollectFiles(r)
        PROVE  Active(r) /\ DirsOf(r)' /\ OwnConfigOf(r)' /\ (~Active(r)' => cwd' = Home)
    BY <2>2, <2>9 DEF CollectFiles, Goto, TypeOK, Active, Over, DirsOf, OwnConfigOf
  <2>10. ASSUME NEW a \in Analyzers, Launch(r, a)
        PROVE  Active(r) /\ DirsOf(r)' /\ OwnConfigOf(r)' /\ (~Active(r)' => cwd' = Home)
    BY <2>2, <2>10 DEF Launch, Goto, TypeOK, Active, Over, DirsOf, OwnConfigOf
  <2>11. ASSUME CollectResponses(r) \/ Restore(r) \/ SendResponse(r)
        PROVE  Active(r) /\ DirsOf(r)' /\ OwnConfigOf(r)' /\ (~Active(r)' => cwd' = Home)
    BY <2>2, <2>11 DEF CollectResponses, Restore, SendResponse, Goto, TypeOK, Active, Over,
                       DirsOf, OwnConfigOf
  <2>12. QED
    BY <1>2, <2>1, <2>3, <2>4, <2>5, <2>6, <2>7, <2>8, <2>9, <2>10, <2>11, SerialStep
       DEF RunStep
<1>3. ASSUME NEW r \in Requests, NEW a \in Analyzers, CallStep(r, a) PROVE SerialInv'
  <2>1. pc' = pc /\ cwd' = cwd /\ req' = req /\ orgDir' = orgDir /\ cfg' = cfg
    BY <1>3 DEF CallStep, CategoryReply, StageReply, StageMissing, AnalyzeReply, AnalyzeError
  <2>2. QED
    BY <2>1 DEF SerialInv, Active, DirsOf, OwnConfigOf, CwdRestored, Quiescent
<1>4. ASSUME NEW r \in Requests, NEW s \in Requests, MapRace(r, s) PROVE SerialInv'
  BY <1>4 DEF MapRace, SerialInv, Active, DirsOf, OwnConfigOf, CwdRestored, Quiescent
<1>5. CASE UNCHANGED vars
  BY <1>5 DEF SerialInv, Active, DirsOf, OwnConfigOf, CwdRestored, Quiescent
<1>6. QED
  BY <1>1, <1>2, <1>3, <1>4, <1>5 DEF Next, Stopped

\* When calls do not overlap, a run uses its own repository's configuration
\* (Run, 121-139; overlapping calls do not: run driver_config_overlap).
THEOREM SerialOwnConfig == ASSUME ~Overlap PROVE Spec => []OwnConfig
<1>1. SerialInv => OwnConfig
  BY DEF SerialInv, OwnConfigOf, OwnConfig
<1>2. QED
  BY <1>1, InitSerial, StepSerial, TypeCorrect, PTL DEF Spec

\* When calls do not overlap, the process is back in its own directory after
\* each (Run, 127-131; overlapping calls do not: run driver_config_overlap shows what follows).
THEOREM SerialCwdRestored == ASSUME ~Overlap PROVE Spec => []CwdRestored
<1>1. SerialInv => CwdRestored
  BY DEF SerialInv
<1>2. QED
  BY <1>1, InitSerial, StepSerial, TypeCorrect, PTL DEF Spec
=============================================================================
