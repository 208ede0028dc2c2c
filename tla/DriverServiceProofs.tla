------------------------- MODULE DriverServiceProofs -------------------------
(***************************************************************************)
(* Theorems about the driver as a service: calls that do not overlap are   *)
(* answered as AnalysisService promises, for every set of requests,        *)
(* analyzers, repositories and configurations.                             *)
(***************************************************************************)
EXTENDS DriverService, DriverProofs

(***************************************************************************)
(* The terms of the promise.                                               *)
(***************************************************************************)

Own(q) == loadConfig(ConfigAt[q.root], q.event)

NamedBy(q) == IF q.triggered # {} THEN q.triggered ELSE Own(q).categories

FilesOf(q) ==
  filterPaths(Own(q).ignore, IF q.files = {} THEN FilesAt[q.root] ELSE q.files)

\* The specification of the service reads a configuration as the driver does.
LEMMA SameLoad ==
  ASSUME NEW file, NEW name
  PROVE  Service!loadConfig(file, name) = loadConfig(file, name)
BY Zenon DEF loadConfig, buildConfig, validateConfig, GetEvent, eventWithName, NoConfig,
  ConfigError, Nil, defaultName, Service!loadConfig, Service!buildConfig,
  Service!validateConfig, Service!GetEvent, Service!eventWithName, Service!NoConfig,
  Service!ConfigError, Service!Nil, Service!defaultName

LEMMA SameTerms ==
  ASSUME NEW q
  PROVE  /\ Service!OwnConfig(q) = Own(q) /\ Service!Named(q) = NamedBy(q)
         /\ Service!OwnFiles(q) = FilesOf(q)
<1>1. Service!OwnConfig(q) = Own(q)
  BY SameLoad DEF Service!OwnConfig, Own
<1>2. Service!Named(q) = NamedBy(q)
  BY <1>1 DEF Service!Named, NamedBy
<1>3. Service!OwnFiles(q) = FilesOf(q)
  BY <1>1 DEF Service!OwnFiles, FilesOf, filterPaths
<1> QED BY <1>1, <1>2, <1>3

\* What r's client is told if the run ends now.
Told(r) == [missing |-> Reported(r), ran |-> UNION {called[r][a] : a \in Analyzers},
            about |-> NotedFiles(r)]

(***************************************************************************)
(* The inductive invariant: at each place of a run, what its answer holds  *)
(* so far; and once it is on its way out, that the promise is kept.        *)
(***************************************************************************)

Deciding == {"remove", "files", "analyze"}
Ending   == {"restore", "send", "done"}

Bound(r) == IF Explicit(r) = {} THEN DefaultCategories ELSE Explicit(r)

OfferedOnly(r) ==
  \A a \in Analyzers :
    /\ info[r][a].categories \subseteq Offers[a]
    /\ info[r][a].at = "done" /\ info[r][a].categories # {} => info[r][a].stage = StageOf[a]

NotesOf(r) ==
  /\ pc[r] \notin Deciding \cup Ending => ars[r] = {}
  /\ pc[r] \notin Ending \cup {"analyze"} => files[r] = {} /\ \A x \in ars[r] : x.notes = {}
  /\ pc[r] = "analyze" => files[r] = retrieveAndFilterFiles(r)
  /\ \A x \in ars[r] : \A n \in x.notes : n.path \in files[r] \cup {Nil}
  /\ files[r] \subseteq OwnFiles(r)
  /\ pc[r] \in Deciding => req[r].kind = "run"
  /\ cfg[r].status = "error" => pc[r] \in Ending

DecidingOf(r) ==
  pc[r] \in Deciding =>
    /\ InfoComplete(r) /\ ~NotConfigured(r)
    /\ Reported(r) = missing[r] /\ missing[r] \cap allCats(r) = {}
    /\ missing[r] \cup CurrentDesired(r) \subseteq Bound(r)
    /\ \A a \in Analyzers : called[r][a] \subseteq allCats(r) \cap Bound(r)

PromiseKept(r) == pc[r] \in Ending /\ req[r].kind = "run" => Service!Promise(req[r], Told(r))

ServiceInv ==
  /\ \A r \in Requests : OfferedOnly(r) /\ NotesOf(r) /\ DecidingOf(r) /\ PromiseKept(r)
  /\ defaultCats \subseteq DefaultCategories

SerialDriver == TypeOK /\ Inside /\ CallsInv /\ ChoiceInv /\ SerialInv

\* A run a step does not touch keeps its part.
LEMMA ServiceOthers ==
  ASSUME ServiceInv, NEW r \in Requests, Only(r), defaultCats' \subseteq defaultCats,
         OfferedOnly(r)', NotesOf(r)', DecidingOf(r)', PromiseKept(r)'
  PROVE  ServiceInv'
<1>1. ASSUME NEW s \in Requests \ {r}
      PROVE  OfferedOnly(s)' /\ NotesOf(s)' /\ DecidingOf(s)' /\ PromiseKept(s)'
  <2>1. OfferedOnly(s) /\ NotesOf(s) /\ DecidingOf(s) /\ PromiseKept(s)
    BY DEF ServiceInv
  <2>2. /\ pc'[s] = pc[s] /\ req'[s] = req[s] /\ cfg'[s] = cfg[s] /\ info'[s] = info[s]
        /\ desired'[s] = desired[s] /\ aliased'[s] = aliased[s] /\ missing'[s] = missing[s]
        /\ files'[s] = files[s] /\ called'[s] = called[s] /\ ars'[s] = ars[s]
    BY DEF Only
  <2>3. /\ Explicit(s)' = Explicit(s) /\ Reported(s)' = Reported(s) /\ allCats(s)' = allCats(s)
        /\ NotConfigured(s)' <=> NotConfigured(s)
        /\ InfoComplete(s)' <=> InfoComplete(s)
        /\ retrieveAndFilterFiles(s)' = retrieveAndFilterFiles(s)
        /\ OwnFiles(s)' = OwnFiles(s) /\ Bound(s)' = Bound(s) /\ Told(s)' = Told(s)
    BY <2>2 DEF Explicit, Reported, allCats, NotConfigured, InfoComplete,
       retrieveAndFilterFiles, OwnFiles, Bound, Told, NotedFiles
  <2>4. CurrentDesired(s)' \subseteq CurrentDesired(s)
    BY <2>2 DEF CurrentDesired
  <2>5. OfferedOnly(s)'
    BY <2>1, <2>2 DEF OfferedOnly
  <2>6. NotesOf(s)'
    BY <2>1, <2>2, <2>3 DEF NotesOf
  <2>7. DecidingOf(s)'
    BY <2>1, <2>2, <2>3, <2>4 DEF DecidingOf
  <2>8. PromiseKept(s)'
    BY <2>1, <2>2, <2>3 DEF PromiseKept
  <2> QED BY <2>5, <2>6, <2>7, <2>8
<1> QED BY <1>1 DEF ServiceInv

(***************************************************************************)
(* The three ways a promise is kept.                                       *)
(***************************************************************************)

LEMMA ExceptMissing ==
  ASSUME NEW m, NEW n
  PROVE  [[missing |-> n, ran |-> n, about |-> n] EXCEPT !.missing = m]
           = [missing |-> m, ran |-> n, about |-> n]
OBVIOUS

LEMMA KeptUnusable ==
  ASSUME NEW q, q.root \notin Roots \/ Own(q).status = "error"
  PROVE  Service!Promise(q, [missing |-> {Setup}, ran |-> {}, about |-> {}])
<1>1. [Service!NoAnswer EXCEPT !.missing = {"Driver setup"}]
        = [missing |-> {Setup}, ran |-> {}, about |-> {}]
  BY ExceptMissing, Zenon DEF Service!NoAnswer, Setup
<1>2. Service!Unusable(q)
  BY SameTerms DEF Service!Unusable
<1> QED BY <1>1, <1>2 DEF Service!Promise

LEMMA KeptUnknown ==
  ASSUME NEW q, q.root \in Roots, Own(q).status = "ok", NamedBy(q) = {},
         q.event # DefaultEvent
  PROVE  Service!Promise(q, [missing |-> {}, ran |-> {}, about |-> {}])
BY SameTerms DEF Service!Promise, Service!Unusable, Service!UnknownEvent, Service!NoAnswer,
   DefaultEvent

LEMMA KeptInFull ==
  ASSUME NEW q, NEW x, q.root \in Roots, Own(q).status # "error",
         ~(NamedBy(q) = {} /\ Own(q).status = "ok" /\ q.event # DefaultEvent),
         x.about \subseteq FilesOf(q),
         x.ran \cup x.missing \subseteq (IF NamedBy(q) = {} THEN DefaultCategories ELSE NamedBy(q)),
         x.ran \cap x.missing = {},
         \A c \in NamedBy(q) : c \in x.ran \cup x.missing \/ Service!Excused(q, c)
  PROVE  Service!Promise(q, x)
BY SameTerms DEF Service!Promise, Service!Unusable, Service!UnknownEvent, DefaultEvent

\* While a run has the working directory to itself, it works on its own
\* repository's configuration.
LEMMA OwnTerms ==
  ASSUME SerialDriver, NEW r \in Requests, pc[r] \in Deciding \cup {"info"},
         req[r].kind = "run"
  PROVE  /\ cfg[r] = Own(req[r]) /\ Explicit(r) = NamedBy(req[r])
         /\ retrieveAndFilterFiles(r) = FilesOf(req[r])
         /\ req[r].root \in Roots
<1>1. cfg[r] = Own(req[r])
  BY DEF SerialDriver, SerialInv, OwnConfigOf, Own, Deciding
<1>2. Explicit(r) = NamedBy(req[r])
  BY <1>1 DEF Explicit, NamedBy
<1>3. retrieveAndFilterFiles(r) = FilesOf(req[r])
  BY <1>1 DEF retrieveAndFilterFiles, FilesOf
<1>4. req[r].root \in Roots
  BY DEF SerialDriver, Inside, Deciding
<1> QED BY <1>1, <1>2, <1>3, <1>4

\* A configuration in use ignores what its file says.
LEMMA FilesOwn ==
  ASSUME NEW q, q.root \in Roots, Own(q).status # "error"
  PROVE  FilesOf(q) = (IF q.files = {} THEN FilesAt[q.root] ELSE q.files)
                        \ UNION {Under[p] : p \in ConfigAt[q.root].ignore}
<1>1. ConfigAt[q.root] \in ConfigFile
  BY ConstantsTyped DEF Dirs
<1>2. Own(q).ignore = ConfigAt[q.root].ignore
  <2>1. CASE ConfigAt[q.root].state = "absent"
    <3>1. ConfigAt[q.root].ignore = {}
      BY <2>1, AbsentIsEmpty DEF Dirs
    <3> QED BY <2>1, <3>1 DEF Own, loadConfig, NoConfig
  <2>2. CASE ConfigAt[q.root].state = "unreadable"
    BY <2>2 DEF Own, loadConfig, ConfigError
  <2>3. CASE ConfigAt[q.root].state = "parsed"
    BY <2>3 DEF Own, loadConfig, ConfigError, buildConfig
  <2>4. ConfigAt[q.root].state \in {"absent", "unreadable", "parsed"}
    BY <1>1 DEF ConfigFile
  <2> QED BY <2>1, <2>2, <2>3, <2>4
<1> QED BY <1>2 DEF FilesOf, filterPaths

\* A run that has chosen its categories, and run or reported each of them or
\* has an excuse, keeps its promise.
LEMMA DecidedKept ==
  ASSUME SerialDriver, ServiceInv, NEW r \in Requests, pc[r] \in Deciding,
         \A c \in Explicit(r) :
           \/ c \in Reported(r) \/ \E a \in Analyzers : c \in called[r][a]
           \/ Service!Excused(req[r], c)
  PROVE  Service!Promise(req[r], Told(r))
<1>1. NotesOf(r) /\ DecidingOf(r) /\ req[r].kind = "run"
  BY DEF ServiceInv, NotesOf
<1>2. /\ cfg[r] = Own(req[r]) /\ Explicit(r) = NamedBy(req[r])
      /\ retrieveAndFilterFiles(r) = FilesOf(req[r])
      /\ req[r].root \in Roots
  BY <1>1, OwnTerms
<1>3. Own(req[r]).status # "error"
  BY <1>1, <1>2 DEF NotesOf, Deciding, Ending
<1>4. ~(NamedBy(req[r]) = {} /\ Own(req[r]).status = "ok" /\ req[r].event # DefaultEvent)
  BY <1>1, <1>2 DEF DecidingOf, NotConfigured
<1>5. Told(r).about \subseteq FilesOf(req[r])
  <2>1. NotedFiles(r) \subseteq files[r]
    <3>1. \A x \in ars[r] : \A n \in x.notes : n.path \in files[r] \cup {Nil}
      BY <1>1 DEF NotesOf
    <3>2. Nil \notin Files \cup {"no location"}
      BY NamesDistinct DEF Nil
    <3> QED BY <3>1, <3>2 DEF NotedFiles
  <2>2. files[r] \subseteq FilesOf(req[r])
    BY <1>1, <1>2 DEF NotesOf, Deciding, Ending
  <2> QED BY <2>1, <2>2 DEF Told
<1>6. /\ Told(r).ran \cup Told(r).missing \subseteq Bound(r)
      /\ Told(r).ran \cap Told(r).missing = {}
  BY <1>1 DEF DecidingOf, Told
<1>7. \A c \in NamedBy(req[r]) :
        c \in Told(r).ran \cup Told(r).missing \/ Service!Excused(req[r], c)
  BY <1>2 DEF Told
<1> HIDE DEF Told
<1> QED BY <1>2, <1>3, <1>4, <1>5, <1>6, <1>7, KeptInFull DEF Bound

\* A run that has not told or collected anything.
LEMMA NothingTold ==
  ASSUME TypeOK, CallsInv, NEW r \in Requests, ars[r] = {},
         pc[r] \notin {"analyze", "restore", "send", "done"}
  PROVE  /\ Reported(r) = {} /\ NotedFiles(r) = {}
         /\ UNION {called[r][a] : a \in Analyzers} = {}
BY DEF CallsInv, CallsOf, Reported, NotedFiles

\* Before it has chosen, r only has its place to account for.
LEMMA ServiceEarly ==
  ASSUME ServiceInv, NEW r \in Requests, Only(r), defaultCats' = defaultCats,
         pc'[r] \notin Deciding \cup Ending,
         ars'[r] = {}, files'[r] = {}, cfg'[r].status # "error", OfferedOnly(r)'
  PROVE  ServiceInv'
<1>1. NotesOf(r)' /\ DecidingOf(r)' /\ PromiseKept(r)'
  BY DEF NotesOf, DecidingOf, PromiseKept, Deciding, Ending
<1> QED BY <1>1, ServiceOthers

\* A run that has a setup failure to report and nothing else.
LEMMA SetupFails ==
  ASSUME SerialDriver, ServiceInv, NEW r \in Requests, pc[r] \in {"chdir", "config"},
         AddFailures(r, {Setup}), Only(r), pc'[r] \in {"restore", "send"},
         UNCHANGED <<defaultCats, req, info, files, called>>,
         req[r].root \notin Roots \/ Own(req[r]).status = "error"
  PROVE  ServiceInv'
<1>1. OfferedOnly(r) /\ NotesOf(r) /\ TypeOK
  BY DEF ServiceInv, SerialDriver
<1>2. ars[r] = {} /\ files[r] = {}
  BY <1>1 DEF NotesOf, Deciding, Ending
<1>3. Reported(r)' = {Setup}
  BY <1>1, <1>2, ReportedAdded, NothingTold DEF SerialDriver
<1>4. \A x \in ars'[r] : x.notes = {}
  BY <1>1, <1>2 DEF AddFailures, generateFailure, TypeOK
<1>5. NotedFiles(r)' = {}
  BY <1>4 DEF NotedFiles
<1>6. UNION {called'[r][a] : a \in Analyzers} = {}
  BY <1>1, <1>2, NothingTold DEF SerialDriver
<1>7. Told(r)' = [missing |-> {Setup}, ran |-> {}, about |-> {}]
  BY <1>3, <1>5, <1>6 DEF Told
<1>8. PromiseKept(r)'
  BY <1>7, KeptUnusable DEF PromiseKept
<1>9. NotesOf(r)' /\ DecidingOf(r)'
  BY <1>2, <1>4 DEF NotesOf, DecidingOf, Deciding, Ending
<1>10. OfferedOnly(r)'
  BY <1>1 DEF OfferedOnly
<1> QED BY <1>8, <1>9, <1>10, ServiceOthers

LEMMA ConfigService ==
  ASSUME SerialDriver, ServiceInv, NEW r \in Requests, LoadConfig(r)
  PROVE  ServiceInv'
<1>1. OfferedOnly(r) /\ NotesOf(r) /\ TypeOK /\ DirsOf(r)
  BY DEF ServiceInv, SerialDriver, SerialInv
<1>2. Only(r)
  BY <1>1, RunLocal DEF RunStep
<1>3. /\ pc[r] = "config" /\ cwd = req[r].root
      /\ UNCHANGED <<defaultCats, req, info, files, called>>
  BY <1>1 DEF LoadConfig, DirsOf, process, choice
<1>4. /\ cfg'[r] = Own(req[r])
      /\ AddFailures(r, IF Own(req[r]).status = "error" THEN {Setup} ELSE {})
      /\ pc'[r] = IF Own(req[r]).status = "error" THEN "restore" ELSE "info"
  BY <1>1, <1>3 DEF LoadConfig, Goto, Own, TypeOK
<1>5. CASE Own(req[r]).status = "error"
  BY <1>2, <1>3, <1>4, <1>5, SetupFails
<1>6. CASE Own(req[r]).status # "error"
  <2>1. ars'[r] = {} /\ files'[r] = {}
    BY <1>1, <1>3, <1>4, <1>6 DEF NotesOf, Deciding, Ending, AddFailures, generateFailure, TypeOK
  <2>2. OfferedOnly(r)'
    BY <1>1, <1>3 DEF OfferedOnly
  <2> QED BY <1>2, <1>3, <1>4, <1>6, <2>1, <2>2, ServiceEarly DEF Deciding, Ending
<1> QED BY <1>5, <1>6

LEMMA InfoService ==
  ASSUME SerialDriver, ServiceInv, NEW r \in Requests, NEW a \in Analyzers,
         CategoryReply(r, a) \/ StageReply(r, a)
  PROVE  ServiceInv'
<1>1. OfferedOnly(r) /\ NotesOf(r) /\ TypeOK
  BY DEF ServiceInv, SerialDriver
<1>2. Only(r)
  BY <1>1, CallLocal DEF CallStep
<1>3. pc[r] = "info" /\ UNCHANGED <<defaultCats, pc, cfg, ars, files>>
  BY DEF CategoryReply, StageReply, process, setup, choice, calls
<1>4. OfferedOnly(r)'
  <2>1. CASE CategoryReply(r, a)
    <3>1. PICK cats \in {Offers[a], {}} :
            info' = [info EXCEPT ![r][a] = [at |-> "stage", categories |-> cats, stage |-> Nil]]
      BY <2>1 DEF CategoryReply
    <3>2. /\ info'[r][a] = [at |-> "stage", categories |-> cats, stage |-> Nil]
          /\ \A b \in Analyzers \ {a} : info'[r][b] = info[r][b]
      BY <1>1, <3>1 DEF TypeOK
    <3> QED BY <1>1, <3>2 DEF OfferedOnly
  <2>2. CASE StageReply(r, a)
    <3>1. /\ \A b \in Analyzers \ {a} : info'[r][b] = info[r][b]
          /\ \/ info'[r][a] = InfoDone(info[r][a].categories, StageOf[a])
             \/ info'[r][a] = InfoDone({}, Nil)
      BY <1>1, <2>2 DEF StageReply, TypeOK
    <3> QED BY <1>1, <3>1 DEF OfferedOnly, InfoDone
  <2> QED BY <2>1, <2>2
<1>5. ars'[r] = {} /\ files'[r] = {} /\ cfg'[r].status # "error"
  BY <1>1, <1>3 DEF NotesOf, Deciding, Ending
<1> QED BY <1>2, <1>3, <1>4, <1>5, ServiceEarly DEF Deciding, Ending

LEMMA SelectService ==
  ASSUME SerialDriver, ServiceInv, NEW r \in Requests, SelectCategories(r)
  PROVE  ServiceInv'
<1> DEFINE absent == Chosen(r) \ allCats(r)
<1>1. OfferedOnly(r) /\ NotesOf(r) /\ TypeOK /\ CallsOf(r)
  BY DEF ServiceInv, SerialDriver, CallsInv
<1>2. Only(r)
  BY <1>1, RunLocal DEF RunStep
<1>3. /\ pc[r] = "info" /\ pc'[r] = "remove" /\ req[r].kind = "run"
      /\ desired'[r] = Explicit(r) /\ aliased'[r] = (Explicit(r) = {})
      /\ missing'[r] = absent
      /\ AddFailures(r, absent)
      /\ InfoComplete(r) /\ ~NotConfigured(r)
      /\ UNCHANGED <<defaultCats, req, cfg, info, files, called>>
  BY <1>1 DEF SelectCategories, Chosen, Goto, TypeOK, process, setup
<1>4. /\ Explicit(r)' = Explicit(r) /\ allCats(r)' = allCats(r) /\ Bound(r)' = Bound(r)
      /\ InfoComplete(r)' /\ ~NotConfigured(r)'
  BY <1>3 DEF Explicit, allCats, Bound, InfoComplete, NotConfigured
<1>5. ars[r] = {} /\ files[r] = {}
  BY <1>1, <1>3 DEF NotesOf, Deciding, Ending
<1>6. Reported(r)' = absent
  BY <1>1, <1>3, <1>5, ReportedAdded, NothingTold DEF SerialDriver
<1>7. Chosen(r) \subseteq Bound(r)
  BY DEF Chosen, Bound, ServiceInv
<1>8. CurrentDesired(r)' \subseteq Bound(r)
  BY <1>3, <1>7 DEF CurrentDesired, Chosen
<1>9. \A a \in Analyzers : called'[r][a] = {}
  BY <1>1, <1>3 DEF CallsOf
<1>10. DecidingOf(r)'
  <2> HIDE DEF absent
  <2>1. absent \subseteq Bound(r) /\ absent \cap allCats(r) = {}
    BY <1>7 DEF absent
  <2> QED BY <1>3, <1>4, <1>6, <1>8, <1>9, <2>1 DEF DecidingOf
<1>11. \A x \in ars'[r] : x.notes = {}
  BY <1>1, <1>3, <1>5 DEF AddFailures, generateFailure, TypeOK
<1>12. NotesOf(r)'
  BY <1>1, <1>3, <1>5, <1>11 DEF NotesOf, Deciding, Ending
<1>13. OfferedOnly(r)' /\ PromiseKept(r)'
  BY <1>1, <1>3 DEF OfferedOnly, PromiseKept, Ending
<1> QED BY <1>2, <1>3, <1>10, <1>12, <1>13, ServiceOthers

\* What r's client would be told depends on what was called and collected only.
LEMMA ToldSame ==
  ASSUME NEW r \in Requests, called'[r] = called[r], ars'[r] = ars[r]
  PROVE  /\ Told(r)' = Told(r) /\ Reported(r)' = Reported(r)
BY DEF Told, Reported, NotedFiles

\* A run that has chosen goes on its way out.
LEMMA LeaveService ==
  ASSUME SerialDriver, ServiceInv, NEW r \in Requests, Only(r), pc[r] \in Deciding,
         pc'[r] = "restore", defaultCats' \subseteq defaultCats,
         UNCHANGED <<req, cfg, info, called, ars>>,
         files'[r] = files[r] \/ files'[r] = retrieveAndFilterFiles(r),
         \A c \in Explicit(r) :
           \/ c \in Reported(r) \/ \E a \in Analyzers : c \in called[r][a]
           \/ Service!Excused(req[r], c)
  PROVE  ServiceInv'
<1>1. OfferedOnly(r) /\ NotesOf(r) /\ req[r].kind = "run"
  BY DEF ServiceInv, NotesOf
<1>2. PromiseKept(r)'
  BY DecidedKept, ToldSame DEF PromiseKept
<1>3. retrieveAndFilterFiles(r) \subseteq OwnFiles(r)
  <2>1. retrieveAndFilterFiles(r) = FilesOf(req[r]) /\ req[r].root \in Roots
        /\ cfg[r] = Own(req[r])
    BY <1>1, OwnTerms
  <2>2. Own(req[r]).status # "error"
    BY <1>1, <2>1 DEF NotesOf, Deciding, Ending
  <2> QED BY <2>1, <2>2, FilesOwn DEF OwnFiles
<1>4. \A x \in ars[r] : \A n \in x.notes : n.path \in files'[r] \cup {Nil}
  BY <1>1 DEF NotesOf, Deciding, Ending
<1>5. files'[r] \subseteq OwnFiles(r)'
  BY <1>1, <1>3 DEF NotesOf, OwnFiles
<1>6. NotesOf(r)' /\ DecidingOf(r)'
  BY <1>1, <1>4, <1>5 DEF NotesOf, DecidingOf, Deciding, Ending
<1>7. OfferedOnly(r)'
  BY <1>1 DEF OfferedOnly
<1> QED BY <1>2, <1>6, <1>7, ServiceOthers

LEMMA RemoveService ==
  ASSUME SerialDriver, ServiceInv, NEW r \in Requests, RemoveMissing(r)
  PROVE  ServiceInv'
<1>1. OfferedOnly(r) /\ NotesOf(r) /\ DecidingOf(r) /\ TypeOK /\ ChoiceOf(r)
  BY DEF ServiceInv, SerialDriver, ChoiceInv
<1>2. Only(r)
  BY <1>1, RunLocal DEF RunStep
<1>3. /\ pc[r] = "remove"
      /\ pc'[r] = IF CurrentDesired(r) \subseteq missing[r] THEN "restore" ELSE "files"
      /\ desired'[r] = desired[r] \ missing[r]
      /\ defaultCats' \subseteq defaultCats
      /\ UNCHANGED <<req, cfg, info, aliased, missing, files, called, ars>>
  BY <1>1 DEF RemoveMissing, Goto, TypeOK, setup, calls
<1>4. CASE CurrentDesired(r) \subseteq missing[r]
  <2>1. Explicit(r) \subseteq Reported(r)
    BY <1>1, <1>3, <1>4 DEF ChoiceOf, CurrentDesired, DecidingOf, Deciding
  <2> QED BY <1>2, <1>3, <1>4, <2>1, LeaveService DEF Deciding
<1>5. CASE ~(CurrentDesired(r) \subseteq missing[r])
  <2>1. pc'[r] = "files"
    BY <1>3, <1>5
  <2>2. /\ Explicit(r)' = Explicit(r) /\ allCats(r)' = allCats(r) /\ Bound(r)' = Bound(r)
        /\ InfoComplete(r)' <=> InfoComplete(r)
        /\ NotConfigured(r)' <=> NotConfigured(r)
        /\ Reported(r)' = Reported(r) /\ OwnFiles(r)' = OwnFiles(r)
    BY <1>3 DEF Explicit, allCats, Bound, InfoComplete, NotConfigured, Reported, OwnFiles
  <2>3. CurrentDesired(r)' \subseteq CurrentDesired(r)
    BY <1>3 DEF CurrentDesired
  <2>4. DecidingOf(r)'
    BY <1>1, <1>3, <2>2, <2>3 DEF DecidingOf, Deciding
  <2>5. NotesOf(r)'
    BY <1>1, <1>3, <2>1, <2>2 DEF NotesOf, Deciding, Ending
  <2>6. OfferedOnly(r)' /\ PromiseKept(r)'
    BY <1>1, <1>3, <2>1 DEF OfferedOnly, PromiseKept, Ending
  <2> QED BY <1>2, <1>3, <2>4, <2>5, <2>6, ServiceOthers
<1> QED BY <1>4, <1>5

LEMMA FilesService ==
  ASSUME SerialDriver, ServiceInv, NEW r \in Requests, CollectFiles(r)
  PROVE  ServiceInv'
<1> DEFINE runs == retrieveAndFilterFiles(r) # {} /\ req[r].stage = "PRE_BUILD"
<1>1. OfferedOnly(r) /\ NotesOf(r) /\ DecidingOf(r) /\ TypeOK
  BY DEF ServiceInv, SerialDriver
<1>2. Only(r)
  BY <1>1, RunLocal DEF RunStep
<1>3. /\ pc[r] = "files" /\ files'[r] = retrieveAndFilterFiles(r)
      /\ runs => pc'[r] = "analyze"
      /\ ~runs => pc'[r] = "restore"
      /\ UNCHANGED <<defaultCats, req, cfg, info, desired, aliased, missing, called, ars>>
  BY <1>1 DEF CollectFiles, Goto, TypeOK, process, setup
<1>4. /\ retrieveAndFilterFiles(r) = FilesOf(req[r]) /\ req[r].root \in Roots
      /\ cfg[r] = Own(req[r]) /\ req[r].kind = "run"
  BY <1>1, <1>3, OwnTerms DEF NotesOf, Deciding
<1>5. CASE ~runs
  <2>1. FilesOf(req[r]) = {} \/ req[r].stage # "PRE_BUILD"
    BY <1>4, <1>5
  <2>2. \A c : Service!Excused(req[r], c)
    BY <2>1, SameTerms DEF Service!Excused
  <2>3. pc'[r] = "restore"
    BY <1>3, <1>5
  <2> HIDE DEF runs
  <2> QED BY <1>2, <1>3, <2>2, <2>3, LeaveService DEF Deciding
<1>6. CASE runs
  <2>1. pc'[r] = "analyze"
    BY <1>3, <1>6
  <2>2. /\ Explicit(r)' = Explicit(r) /\ allCats(r)' = allCats(r) /\ Bound(r)' = Bound(r)
        /\ InfoComplete(r)' <=> InfoComplete(r)
        /\ NotConfigured(r)' <=> NotConfigured(r)
        /\ Reported(r)' = Reported(r) /\ OwnFiles(r)' = OwnFiles(r)
        /\ CurrentDesired(r)' = CurrentDesired(r)
        /\ retrieveAndFilterFiles(r)' = retrieveAndFilterFiles(r)
    BY <1>3 DEF Explicit, allCats, Bound, InfoComplete, NotConfigured, Reported, OwnFiles,
       CurrentDesired, retrieveAndFilterFiles
  <2>3. DecidingOf(r)'
    BY <1>1, <1>3, <2>2 DEF DecidingOf, Deciding
  <2>4. files'[r] \subseteq OwnFiles(r)
    <3>1. Own(req[r]).status # "error"
      BY <1>1, <1>3, <1>4 DEF NotesOf, Ending
    <3> QED BY <1>3, <1>4, <3>1, FilesOwn DEF OwnFiles
  <2>5. \A x \in ars'[r] : x.notes = {}
    BY <1>1, <1>3 DEF NotesOf, Ending
  <2>6. NotesOf(r)'
    BY <1>1, <1>3, <1>4, <2>1, <2>2, <2>4, <2>5 DEF NotesOf, Deciding, Ending
  <2>7. OfferedOnly(r)' /\ PromiseKept(r)'
    BY <1>1, <1>3, <2>1 DEF OfferedOnly, PromiseKept, Ending
  <2> QED BY <1>2, <1>3, <2>3, <2>6, <2>7, ServiceOthers
<1> QED BY <1>5, <1>6

LEMMA LaunchService ==
  ASSUME SerialDriver, ServiceInv, NEW r \in Requests, NEW a \in Analyzers, Launch(r, a)
  PROVE  ServiceInv'
<1>1. OfferedOnly(r) /\ NotesOf(r) /\ DecidingOf(r) /\ TypeOK
  BY DEF ServiceInv, SerialDriver
<1>2. Only(r)
  BY <1>1, RunLocal DEF RunStep
<1>3. /\ pc[r] = "analyze"
      /\ called'[r][a] \subseteq info[r][a].categories \cap CurrentDesired(r)
      /\ \A b \in Analyzers \ {a} : called'[r][b] = called[r][b]
      /\ UNCHANGED <<pc, defaultCats, req, cfg, info, desired, aliased, missing, files, ars>>
  BY <1>1 DEF Launch, TypeOK, process, setup, choice
<1>4. /\ Explicit(r)' = Explicit(r) /\ allCats(r)' = allCats(r) /\ Bound(r)' = Bound(r)
      /\ InfoComplete(r)' <=> InfoComplete(r)
      /\ NotConfigured(r)' <=> NotConfigured(r)
      /\ Reported(r)' = Reported(r) /\ OwnFiles(r)' = OwnFiles(r)
      /\ CurrentDesired(r)' = CurrentDesired(r)
      /\ retrieveAndFilterFiles(r)' = retrieveAndFilterFiles(r)
  BY <1>3 DEF Explicit, allCats, Bound, InfoComplete, NotConfigured, Reported, OwnFiles,
     CurrentDesired, retrieveAndFilterFiles
<1>5. info[r][a].categories \subseteq allCats(r)
  BY DEF allCats
<1>6. /\ InfoComplete(r) /\ ~NotConfigured(r)
      /\ Reported(r) = missing[r] /\ missing[r] \cap allCats(r) = {}
      /\ missing[r] \cup CurrentDesired(r) \subseteq Bound(r)
      /\ \A b \in Analyzers : called[r][b] \subseteq allCats(r) \cap Bound(r)
  BY <1>1, <1>3 DEF DecidingOf, Deciding
<1>7. \A b \in Analyzers : called'[r][b] \subseteq allCats(r) \cap Bound(r)
  BY <1>3, <1>5, <1>6
<1>8. DecidingOf(r)'
  BY <1>3, <1>4, <1>6, <1>7 DEF DecidingOf
<1>9. NotesOf(r)'
  BY <1>1, <1>3, <1>4 DEF NotesOf
<1>10. OfferedOnly(r)' /\ PromiseKept(r)'
  BY <1>1, <1>3 DEF OfferedOnly, PromiseKept, Ending
<1> QED BY <1>2, <1>3, <1>8, <1>9, <1>10, ServiceOthers

LEMMA AnswerService ==
  ASSUME SerialDriver, ServiceInv, NEW r \in Requests, NEW a \in Analyzers,
         AnalyzeReply(r, a) \/ AnalyzeError(r, a)
  PROVE  ServiceInv'
<1>1. OfferedOnly(r) /\ NotesOf(r) /\ DecidingOf(r) /\ TypeOK /\ CallsOf(r)
  BY DEF ServiceInv, SerialDriver, CallsInv
<1>2. Only(r)
  BY <1>1, CallLocal DEF CallStep
<1>3. pc[r] = "analyze"
  BY <1>1 DEF AnalyzeReply, AnalyzeError, CallsOf
<1>4. UNCHANGED <<defaultCats, pc, req, cfg, info, desired, aliased, missing, files, called>>
  BY DEF AnalyzeReply, AnalyzeError, process, setup, choice
<1>5. PICK x : /\ x.from = a /\ ars' = [ars EXCEPT ![r] = @ \cup {x}]
               /\ \A n \in x.notes : n.path \in files[r] \cup {Nil}
  <2>1. CASE AnalyzeReply(r, a)
    <3>1. PICK y \in Replies :
            ars' = [ars EXCEPT ![r] = @ \cup
              {[from |-> a, notes |-> filterResults(r, y.notes), failures |-> y.failures]}]
      BY <2>1 DEF AnalyzeReply
    <3>2. \A n \in filterResults(r, y.notes) : n.path \in files[r] \cup {Nil}
      BY DEF filterResults
    <3> HIDE DEF filterResults
    <3> WITNESS [from |-> a, notes |-> filterResults(r, y.notes), failures |-> y.failures]
    <3> QED BY <3>1, <3>2
  <2>2. CASE AnalyzeError(r, a)
    <3> WITNESS [from |-> a, notes |-> {}, failures |-> {Nil}]
    <3> QED BY <2>2 DEF AnalyzeError
  <2> QED BY <2>1, <2>2
<1>6. /\ Explicit(r)' = Explicit(r) /\ allCats(r)' = allCats(r) /\ Bound(r)' = Bound(r)
      /\ InfoComplete(r)' <=> InfoComplete(r)
      /\ NotConfigured(r)' <=> NotConfigured(r)
      /\ OwnFiles(r)' = OwnFiles(r) /\ CurrentDesired(r)' = CurrentDesired(r)
      /\ retrieveAndFilterFiles(r)' = retrieveAndFilterFiles(r)
  BY <1>4 DEF Explicit, allCats, Bound, InfoComplete, NotConfigured, OwnFiles,
     CurrentDesired, retrieveAndFilterFiles
<1>7. Reported(r)' = Reported(r)
  BY <1>1, <1>5, AnswerReported
<1>8. DecidingOf(r)'
  BY <1>1, <1>4, <1>6, <1>7 DEF DecidingOf
<1>9. \A y \in ars'[r] : \A n \in y.notes : n.path \in files[r] \cup {Nil}
  BY <1>1, <1>5 DEF NotesOf, TypeOK
<1>10. NotesOf(r)'
  BY <1>1, <1>3, <1>4, <1>6, <1>9 DEF NotesOf, Deciding, Ending
<1>11. OfferedOnly(r)' /\ PromiseKept(r)'
  BY <1>1, <1>3, <1>4 DEF OfferedOnly, PromiseKept, Ending
<1> QED BY <1>2, <1>4, <1>8, <1>10, <1>11, ServiceOthers

LEMMA CollectService ==
  ASSUME SerialDriver, ServiceInv, NEW r \in Requests, CollectResponses(r)
  PROVE  ServiceInv'
<1>1. OfferedOnly(r) /\ DecidingOf(r) /\ TypeOK /\ ChoiceOf(r)
  BY DEF ServiceInv, SerialDriver, ChoiceInv
<1>2. Only(r)
  BY <1>1, RunLocal DEF RunStep
<1>3. /\ pc[r] = "analyze" /\ pc'[r] = "restore" /\ todo[r] = {}
      /\ UNCHANGED <<defaultCats, req, cfg, info, files, called, ars>>
  BY <1>1 DEF CollectResponses, Goto, TypeOK, process, setup, choice, calls
<1>4. ASSUME NEW c \in Explicit(r), c \notin Reported(r)
      PROVE  (\E a \in Analyzers : c \in called[r][a]) \/ Service!Excused(req[r], c)
  <2>1. /\ c \in allCats(r) /\ InfoComplete(r)
        /\ \A a \in Analyzers : GivenTo(r, a, c)
    BY <1>1, <1>3, <1>4 DEF ChoiceOf, Chosen, DecidingOf, Deciding
  <2>2. PICK a \in Analyzers : c \in info[r][a].categories
    BY <2>1 DEF allCats
  <2>3. c \in Offers[a] /\ info[r][a].stage = StageOf[a]
    BY <1>1, <2>1, <2>2 DEF OfferedOnly, InfoComplete
  <2> QED BY <2>1, <2>2, <2>3 DEF GivenTo, Service!Excused
<1> QED BY <1>2, <1>3, <1>4, LeaveService DEF Deciding

LEMMA UnknownService ==
  ASSUME SerialDriver, ServiceInv, NEW r \in Requests, EventNotConfigured(r)
  PROVE  ServiceInv'
<1>1. OfferedOnly(r) /\ NotesOf(r) /\ TypeOK
  BY DEF ServiceInv, SerialDriver
<1>2. Only(r)
  BY <1>1, RunLocal DEF RunStep
<1>3. /\ pc[r] = "info" /\ pc'[r] = "restore" /\ req[r].kind = "run" /\ NotConfigured(r)
      /\ UNCHANGED <<defaultCats, req, cfg, info, files, called, ars>>
  BY <1>1 DEF EventNotConfigured, Goto, TypeOK, process, setup, choice, calls
<1>4. cfg[r] = Own(req[r]) /\ Explicit(r) = NamedBy(req[r]) /\ req[r].root \in Roots
  BY <1>3, OwnTerms
<1>5. ars[r] = {} /\ files[r] = {}
  BY <1>1, <1>3 DEF NotesOf, Deciding, Ending
<1>6. Told(r)' = [missing |-> {}, ran |-> {}, about |-> {}]
  BY <1>1, <1>3, <1>5, NothingTold, ToldSame DEF Told, SerialDriver
<1>7. PromiseKept(r)'
  BY <1>3, <1>4, <1>6, KeptUnknown DEF PromiseKept, NotConfigured
<1>8. NotesOf(r)' /\ DecidingOf(r)'
  BY <1>3, <1>5 DEF NotesOf, DecidingOf, Deciding, Ending
<1>9. OfferedOnly(r)'
  BY <1>1, <1>3 DEF OfferedOnly
<1> QED BY <1>2, <1>3, <1>7, <1>8, <1>9, ServiceOthers

\* On its way out, and in the answer to a call that only lists categories,
\* nothing changes.
LEMMA OutService ==
  ASSUME SerialDriver, ServiceInv, NEW r \in Requests,
         Restore(r) \/ SendResponse(r) \/ ListCategories(r)
  PROVE  ServiceInv'
<1>1. OfferedOnly(r) /\ NotesOf(r) /\ PromiseKept(r) /\ TypeOK
  BY DEF ServiceInv, SerialDriver
<1>2. Only(r)
  BY <1>1, RunLocal DEF RunStep
<1>3. /\ pc'[r] \in Ending /\ (pc[r] \in Ending \/ req[r].kind = "categories")
      /\ pc[r] \notin Deciding
      /\ UNCHANGED <<defaultCats, req, cfg, info, files, called, ars>>
  BY <1>1 DEF Restore, SendResponse, ListCategories, Goto, TypeOK, process, setup, choice,
     calls, Ending, Deciding
<1>4. PromiseKept(r)'
  BY <1>1, <1>3, ToldSame DEF PromiseKept
<1>5. NotesOf(r)' /\ DecidingOf(r)'
  BY <1>1, <1>3 DEF NotesOf, OwnFiles, DecidingOf, Deciding, Ending
<1>6. OfferedOnly(r)'
  BY <1>1, <1>3 DEF OfferedOnly
<1> QED BY <1>2, <1>3, <1>4, <1>5, <1>6, ServiceOthers

LEMMA EntryService ==
  ASSUME SerialDriver, ServiceInv, NEW r \in Requests,
         Receive(r) \/ Getwd(r) \/ Chdir(r) \/ ChdirFails(r)
  PROVE  ServiceInv'
<1>1. OfferedOnly(r) /\ NotesOf(r) /\ TypeOK /\ DirsOf(r)
  BY DEF ServiceInv, SerialDriver, SerialInv
<1>2. Only(r)
  BY <1>1, RunLocal DEF RunStep
<1>3. CASE ChdirFails(r)
  <2>1. /\ pc[r] = "chdir" /\ pc'[r] = "send" /\ AddFailures(r, {Setup})
        /\ req[r].root \notin Roots
        /\ UNCHANGED <<defaultCats, req, info, files, called>>
    BY <1>1, <1>3 DEF ChdirFails, Goto, TypeOK, process, setup, choice
  <2> QED BY <1>2, <2>1, SetupFails
<1>4. CASE Receive(r) \/ Getwd(r) \/ Chdir(r)
  <2>1. /\ pc[r] \in {"idle", "getwd", "chdir"}
        /\ pc'[r] \in {"info", "panicked", "getwd", "chdir", "config"}
        /\ UNCHANGED <<defaultCats, cfg, info, files, ars>>
    BY <1>1, <1>4 DEF Receive, Getwd, Chdir, Goto, TypeOK, process, setup, choice, calls
  <2>2. ars'[r] = {} /\ files'[r] = {} /\ cfg'[r].status # "error"
    BY <1>1, <2>1 DEF NotesOf, DirsOf, NoConfig, Deciding, Ending
  <2>3. OfferedOnly(r)'
    BY <1>1, <2>1 DEF OfferedOnly
  <2> QED BY <1>2, <2>1, <2>2, <2>3, ServiceEarly DEF Deciding, Ending
<1> QED BY <1>3, <1>4

\* Nothing of a run is touched.
LEMMA StillService ==
  ASSUME ServiceInv,
         UNCHANGED <<defaultCats, pc, req, cfg, info, desired, aliased, missing, files, called,
                     ars>>
  PROVE  ServiceInv'
<1>1. ASSUME NEW s \in Requests
      PROVE  OfferedOnly(s)' /\ NotesOf(s)' /\ DecidingOf(s)' /\ PromiseKept(s)'
  <2>1. OfferedOnly(s) /\ NotesOf(s) /\ DecidingOf(s) /\ PromiseKept(s)
    BY DEF ServiceInv
  <2>2. /\ Explicit(s)' = Explicit(s) /\ Reported(s)' = Reported(s) /\ allCats(s)' = allCats(s)
        /\ NotConfigured(s)' <=> NotConfigured(s)
        /\ InfoComplete(s)' <=> InfoComplete(s)
        /\ retrieveAndFilterFiles(s)' = retrieveAndFilterFiles(s)
        /\ OwnFiles(s)' = OwnFiles(s) /\ Bound(s)' = Bound(s) /\ Told(s)' = Told(s)
        /\ CurrentDesired(s)' = CurrentDesired(s)
    BY DEF Explicit, Reported, allCats, NotConfigured, InfoComplete, CurrentDesired,
       retrieveAndFilterFiles, OwnFiles, Bound, Told, NotedFiles
  <2>3. OfferedOnly(s)'
    BY <2>1 DEF OfferedOnly
  <2>4. NotesOf(s)'
    BY <2>1, <2>2 DEF NotesOf
  <2>5. DecidingOf(s)'
    BY <2>1, <2>2 DEF DecidingOf
  <2>6. PromiseKept(s)'
    BY <2>1, <2>2 DEF PromiseKept
  <2> QED BY <2>3, <2>4, <2>5, <2>6
<1> QED BY <1>1 DEF ServiceInv

LEMMA StepService == SerialDriver /\ ServiceInv /\ [Next]_vars => ServiceInv'
<1> SUFFICES ASSUME SerialDriver, ServiceInv, [Next]_vars
             PROVE  ServiceInv'
  OBVIOUS
<1>1. ASSUME NEW r \in Requests, Receive(r) \/ RunStep(r)
      PROVE  ServiceInv'
  BY <1>1, EntryService, ConfigService, OutService, UnknownService, SelectService,
     RemoveService, FilesService, LaunchService, CollectService DEF RunStep
<1>2. ASSUME NEW r \in Requests, NEW a \in Analyzers, CallStep(r, a)
      PROVE  ServiceInv'
  <2>1. CASE StageMissing(r, a)
    BY <2>1, StillService DEF StageMissing, setup, choice, calls
  <2> QED BY <1>2, <2>1, InfoService, AnswerService DEF CallStep
<1>3. ASSUME NEW r \in Requests, NEW s \in Requests, MapRace(r, s)
      PROVE  ServiceInv'
  BY <1>3, StillService DEF MapRace, setup, choice, calls
<1>4. CASE UNCHANGED vars
  BY <1>4, StillService DEF vars, process, setup, choice, calls
<1> QED BY <1>1, <1>2, <1>3, <1>4 DEF Next, Stopped

LEMMA InitService == Init => ServiceInv
<1> SUFFICES ASSUME Init, NEW r \in Requests
             PROVE  OfferedOnly(r) /\ NotesOf(r) /\ DecidingOf(r) /\ PromiseKept(r)
  BY DEF Init, ServiceInv
<1>1. OfferedOnly(r)
  BY DEF Init, OfferedOnly, NotAsked
<1>2. NotesOf(r)
  BY DEF Init, NotesOf, NoConfig, Deciding, Ending
<1>3. DecidingOf(r) /\ PromiseKept(r)
  BY DEF Init, DecidingOf, PromiseKept, Deciding, Ending
<1> QED BY <1>1, <1>2, <1>3

LEMMA SerialCorrect == ASSUME ~Overlap PROVE Spec => [](SerialDriver /\ ServiceInv)
<1>1. Init => SerialDriver /\ ServiceInv
  <2>1. Init => CallsInv /\ ChoiceInv
    BY DEF Init, CallsInv, CallsOf, Answered, ChoiceInv, ChoiceOf, Settled,
       LostDefaultsReported
  <2> QED BY <2>1, InitTypeInside, InitSerial, InitService DEF SerialDriver
<1>2. SerialDriver /\ ServiceInv /\ [Next]_vars => (SerialDriver /\ ServiceInv)'
  BY StepTypeInside, StepCalls, StepChoice, StepSerial, StepService DEF SerialDriver
<1> QED BY <1>1, <1>2, PTL DEF Spec

\* When calls do not overlap, no note reaches a client about a file its
\* repository ignores or that it did not ask about.
THEOREM SerialNotesOnOwnFiles == ASSUME ~Overlap PROVE Spec => []NotesOnOwnFiles
<1>1. SerialDriver /\ ServiceInv => NotesOnOwnFiles
  BY DEF ServiceInv, NotesOf, NotesOnOwnFiles
<1> QED BY <1>1, SerialCorrect, PTL

(***************************************************************************)
(* Every step of the driver is a step of the service, or none.             *)
(***************************************************************************)

LEMMA InitRefines == Init => Service!Init
BY DEF Init, Service!Init, Service!NoAnswer, phaseOf, requestOf, answerOf, Visible, NoRequest

\* What a client sees of a run depends on the run only.
LEMMA SeenSame ==
  ASSUME NEW s \in Requests, pc'[s] = pc[s], req'[s] = req[s], called'[s] = called[s],
         ars'[s] = ars[s]
  PROVE  phaseOf(s)' = phaseOf(s) /\ requestOf(s)' = requestOf(s) /\ answerOf(s)' = answerOf(s)
<1>1. Visible(s)' <=> Visible(s)
  BY DEF Visible
<1>2. phaseOf(s)' = phaseOf(s) /\ requestOf(s)' = requestOf(s)
  BY <1>1 DEF phaseOf, requestOf
<1>3. NotedFiles(s)' = NotedFiles(s) /\ Reported(s)' = Reported(s)
  BY DEF NotedFiles, Reported
<1>4. answerOf(s)' = answerOf(s)
  BY <1>2, <1>3 DEF answerOf
<1> QED BY <1>2, <1>4

\* A step of r that its client does not see.
LEMMA Unseen ==
  ASSUME NEW r \in Requests, Only(r), alive' = alive,
         phaseOf(r)' = phaseOf(r), requestOf(r)' = requestOf(r), answerOf(r)' = answerOf(r)
  PROVE  UNCHANGED Service!vars
BY SeenSame DEF Only, Service!vars

\* Before it is done, a run's client has no answer.
LEMMA UnseenRunning ==
  ASSUME TypeOK, NEW r \in Requests, Only(r), alive' = alive, req'[r] = req[r],
         pc[r] \notin {"idle", "done", "panicked"}, pc'[r] \notin {"idle", "done", "panicked"}
  PROVE  UNCHANGED Service!vars
<1>1. Visible(r)' <=> Visible(r)
  BY DEF Visible
<1>2. /\ phaseOf(r)' = phaseOf(r) /\ phaseOf(r) \in {"idle", "running"}
      /\ requestOf(r)' = requestOf(r)
  BY <1>1 DEF phaseOf, requestOf, Visible
<1>3. answerOf(r)' = answerOf(r)
  BY <1>2 DEF answerOf
<1> QED BY <1>2, <1>3, Unseen

LEMMA ReceiveRefines ==
  ASSUME TypeOK, alive, NEW r \in Requests, Receive(r)
  PROVE  [Service!Next]_(Service!vars)
<1>1. PICK q \in Workload :
        /\ req' = [req EXCEPT ![r] = q]
        /\ Goto(r, IF q.kind = "categories" THEN "info"
                   ELSE IF Unset(q) THEN "panicked" ELSE "getwd")
  BY DEF Receive
<1>2. /\ req'[r] = q
      /\ pc'[r] = IF q.kind = "categories" THEN "info"
                  ELSE IF Unset(q) THEN "panicked" ELSE "getwd"
      /\ pc[r] = "idle" /\ alive' = alive
  BY <1>1 DEF Receive, Goto, TypeOK, process
<1>3. Only(r)
  BY RunLocal
<1>4. ~Visible(r) /\ phaseOf(r) = "idle" /\ requestOf(r) = NoRequest
  BY <1>2 DEF Visible, phaseOf, requestOf
<1>5. CASE q.kind = "categories"
  <2>1. ~Visible(r)'
    BY <1>2, <1>5 DEF Visible
  <2>2. phaseOf(r)' = "idle" /\ requestOf(r)' = NoRequest
    BY <2>1 DEF phaseOf, requestOf
  <2>3. answerOf(r)' = answerOf(r)
    BY <1>4, <2>2 DEF answerOf
  <2> QED BY <1>2, <1>3, <1>4, <2>2, <2>3, Unseen
<1>6. CASE q.kind # "categories"
  <2>1. q.kind = "run"
    BY <1>6, RequestType DEF Request
  <2>2. Visible(r)'
    BY <1>2, <1>6, <2>1 DEF Visible
  <2>3. requestOf(r)' = q /\ phaseOf(r)' = IF Unset(q) THEN "refused" ELSE "running"
    BY <1>2, <1>6, <2>2 DEF requestOf, phaseOf
  <2>4. answerOf(r)' = answerOf(r)
    BY <1>4, <2>3 DEF answerOf
  <2>5. \A s \in Requests \ {r} :
          phaseOf(s)' = phaseOf(s) /\ requestOf(s)' = requestOf(s) /\ answerOf(s)' = answerOf(s)
    BY <1>3, SeenSame DEF Only
  <2>6. [s \in Requests |-> requestOf(s)]' = [[s \in Requests |-> requestOf(s)] EXCEPT ![r] = q]
    BY <2>3, <2>5
  <2>7. [s \in Requests |-> phaseOf(s)]'
          = [[s \in Requests |-> phaseOf(s)] EXCEPT ![r] = IF Unset(q) THEN "refused" ELSE "running"]
    BY <2>3, <2>5
  <2>8. [s \in Requests |-> answerOf(s)]' = [s \in Requests |-> answerOf(s)]
    BY <2>4, <2>5
  <2>9. Service!Accept(r)
    BY <1>2, <1>4, <2>1, <2>6, <2>7, <2>8 DEF Service!Accept
  <2> QED BY <2>9 DEF Service!Next
<1> QED BY <1>5, <1>6

\* What a kept promise says is an answer.
LEMMA ToldType ==
  ASSUME SerialDriver, ServiceInv, NEW r \in Requests, req[r].kind = "run", pc[r] = "send"
  PROVE  Told(r) \in Service!Answer
<1>1. Service!Promise(req[r], Told(r)) /\ NotesOf(r) /\ TypeOK
  BY DEF ServiceInv, PromiseKept, Ending, SerialDriver
<1>2. Told(r).ran \subseteq Categories
  BY <1>1 DEF Told, TypeOK
<1>3. Told(r).about \subseteq Files
  <2>1. \A x \in ars[r] : \A n \in x.notes : n.path \in files[r] \cup {Nil}
    BY <1>1 DEF NotesOf
  <2>2. Nil # "no location" /\ files[r] \subseteq Files
    BY <1>1, NamesDistinct DEF Nil, TypeOK
  <2>3. \A f \in NotedFiles(r) : f \in Files \/ f = "no location"
    BY DEF NotedFiles
  <2>4. NotedFiles(r) \subseteq Files
    BY <2>1, <2>2, <2>3 DEF NotedFiles
  <2> QED BY <2>4 DEF Told
<1>4. Told(r).missing \subseteq Categories \cup {"Driver setup"}
  <2>1. CASE Service!Unusable(req[r])
    BY <1>1, <2>1 DEF Service!Promise, Service!NoAnswer
  <2>2. CASE ~Service!Unusable(req[r]) /\ Service!UnknownEvent(req[r])
    <3>1. Told(r) = Service!NoAnswer
      BY <1>1, <2>2, Zenon DEF Service!Promise
    <3> QED BY <3>1 DEF Service!NoAnswer
  <2>3. CASE ~Service!Unusable(req[r]) /\ ~Service!UnknownEvent(req[r])
    <3>1. Told(r).missing \subseteq
            (IF NamedBy(req[r]) = {} THEN DefaultCategories ELSE NamedBy(req[r]))
      BY <1>1, <2>3, SameTerms DEF Service!Promise
    <3>2. req[r].triggered \subseteq Categories
      BY <1>1, RequestType DEF TypeOK, Request
    <3>3. Own(req[r]) \in Loaded
      BY <2>3, LoadConfigType, ConstantsTyped DEF Own, Service!Unusable, Dirs
    <3>4. NamedBy(req[r]) \subseteq Categories
      BY <3>2, <3>3 DEF NamedBy, Loaded
    <3> QED BY <3>1, <3>4, ConstantsTyped
  <2> QED BY <2>1, <2>2, <2>3
<1>5. Told(r) = [missing |-> Told(r).missing, ran |-> Told(r).ran, about |-> Told(r).about]
  BY DEF Told
<1> HIDE DEF Told
<1> QED BY <1>2, <1>3, <1>4, <1>5 DEF Service!Answer

LEMMA SendRefines ==
  ASSUME SerialDriver, ServiceInv, alive, NEW r \in Requests, SendResponse(r)
  PROVE  [Service!Next]_(Service!vars)
<1>1. TypeOK /\ Only(r)
  BY RunLocal DEF SerialDriver, RunStep
<1>2. /\ pc[r] = "send" /\ pc'[r] = "done" /\ alive' = alive
      /\ UNCHANGED <<req, called, ars>>
  BY <1>1 DEF SendResponse, Goto, TypeOK, process, setup, calls
<1>3. Visible(r)' <=> Visible(r)
  BY <1>2 DEF Visible
<1>4. CASE ~Visible(r)
  <2>1. phaseOf(r) = "idle" /\ phaseOf(r)' = "idle" /\ requestOf(r)' = requestOf(r)
    BY <1>3, <1>4 DEF phaseOf, requestOf
  <2>2. answerOf(r)' = answerOf(r)
    BY <2>1 DEF answerOf
  <2> QED BY <1>1, <1>2, <2>1, <2>2, Unseen
<1>5. CASE Visible(r)
  <2>1. /\ phaseOf(r) = "running" /\ phaseOf(r)' = "answered"
        /\ requestOf(r) = req[r] /\ requestOf(r)' = requestOf(r) /\ req[r].kind = "run"
    BY <1>2, <1>3, <1>5 DEF phaseOf, requestOf, Visible
  <2>2. answerOf(r)' = Told(r)
    <3>1. Told(r)' = Told(r)
      BY <1>2, ToldSame
    <3> QED BY <2>1, <3>1 DEF answerOf, Told
  <2>3. Service!Promise(req[r], Told(r)) /\ Told(r) \in Service!Answer
    BY <1>2, <2>1, ToldType DEF ServiceInv, PromiseKept, Ending
  <2>4. \A s \in Requests \ {r} :
          phaseOf(s)' = phaseOf(s) /\ requestOf(s)' = requestOf(s) /\ answerOf(s)' = answerOf(s)
    BY <1>1, SeenSame DEF Only
  <2>5. [s \in Requests |-> requestOf(s)]' = [s \in Requests |-> requestOf(s)]
    BY <2>1, <2>4
  <2>6. [s \in Requests |-> phaseOf(s)]'
          = [[s \in Requests |-> phaseOf(s)] EXCEPT ![r] = "answered"]
    BY <2>1, <2>4
  <2>7. [s \in Requests |-> answerOf(s)]'
          = [[s \in Requests |-> answerOf(s)] EXCEPT ![r] = Told(r)]
    BY <2>2, <2>4
  <2>8. Service!Respond(r)
    <3> HIDE DEF Told
    <3> QED BY <1>2, <2>1, <2>3, <2>5, <2>6, <2>7 DEF Service!Respond
  <2> QED BY <2>8 DEF Service!Next
<1> QED BY <1>4, <1>5

LEMMA RunRefines ==
  ASSUME SerialDriver, ServiceInv, alive, NEW r \in Requests, RunStep(r)
  PROVE  [Service!Next]_(Service!vars)
<1>1. TypeOK /\ Only(r)
  BY RunLocal DEF SerialDriver
<1>2. CASE SendResponse(r)
  BY <1>2, SendRefines
<1>3. CASE ListCategories(r)
  <2>1. /\ req[r].kind = "categories" /\ req' = req /\ alive' = alive
    BY <1>3 DEF ListCategories, process, setup
  <2>2. ~Visible(r) /\ ~Visible(r)'
    BY <2>1 DEF Visible
  <2>3. phaseOf(r) = "idle" /\ phaseOf(r)' = "idle" /\ requestOf(r)' = requestOf(r)
    BY <2>2 DEF phaseOf, requestOf
  <2>4. answerOf(r)' = answerOf(r)
    BY <2>3 DEF answerOf
  <2> QED BY <1>1, <2>1, <2>3, <2>4, Unseen
<1>4. CASE ~SendResponse(r) /\ ~ListCategories(r)
  <2>1. /\ pc[r] \notin {"idle", "done", "panicked"} /\ pc'[r] \notin {"idle", "done", "panicked"}
        /\ alive' = alive /\ req' = req
    <3>1. CASE Getwd(r) \/ Chdir(r) \/ ChdirFails(r) \/ EventNotConfigured(r)
      BY <1>1, <3>1 DEF Getwd, Chdir, ChdirFails, EventNotConfigured, Goto, TypeOK, process, setup
    <3>2. CASE LoadConfig(r)
      BY <1>1, <3>2 DEF LoadConfig, Goto, TypeOK, process
    <3>3. CASE SelectCategories(r) \/ RemoveMissing(r) \/ CollectFiles(r)
      BY <1>1, <3>3 DEF SelectCategories, RemoveMissing, CollectFiles, Goto, TypeOK, process, setup
    <3>4. CASE \E a \in Analyzers : Launch(r, a)
      BY <1>1, <3>4 DEF Launch, process, setup
    <3>5. CASE CollectResponses(r) \/ Restore(r)
      BY <1>1, <3>5 DEF CollectResponses, Restore, Goto, TypeOK, process, setup
    <3> QED BY <1>4, <3>1, <3>2, <3>3, <3>4, <3>5 DEF RunStep
  <2> QED BY <1>1, <2>1, UnseenRunning
<1> QED BY <1>2, <1>3, <1>4

LEMMA CallRefines ==
  ASSUME SerialDriver, alive, NEW r \in Requests, NEW a \in Analyzers, CallStep(r, a)
  PROVE  [Service!Next]_(Service!vars)
<1>1. TypeOK /\ CallsOf(r) /\ Only(r)
  BY CallLocal DEF SerialDriver, CallsInv
<1>2. CASE StageMissing(r, a)
  <2>1. alive' = FALSE /\ UNCHANGED <<pc, req, called, ars>>
    BY <1>2 DEF StageMissing, setup, calls
  <2>2. \A s \in Requests :
          phaseOf(s)' = phaseOf(s) /\ requestOf(s)' = requestOf(s) /\ answerOf(s)' = answerOf(s)
    BY <2>1, SeenSame
  <2> QED BY <2>1, <2>2 DEF Service!Next, Service!GoDown
<1>3. CASE ~StageMissing(r, a)
  <2>1. /\ pc[r] \in {"info", "analyze"} /\ UNCHANGED <<pc, req, alive>>
    BY <1>1, <1>3 DEF CallStep, CategoryReply, StageReply, AnalyzeReply, AnalyzeError, CallsOf,
       process, setup
  <2> QED BY <1>1, <2>1, UnseenRunning
<1> QED BY <1>2, <1>3

LEMMA RaceRefines ==
  ASSUME alive, NEW r \in Requests, NEW s \in Requests, MapRace(r, s)
  PROVE  [Service!Next]_(Service!vars)
<1>1. alive' = FALSE /\ UNCHANGED <<pc, req, called, ars>>
  BY DEF MapRace, setup, calls
<1>2. \A t \in Requests :
        phaseOf(t)' = phaseOf(t) /\ requestOf(t)' = requestOf(t) /\ answerOf(t)' = answerOf(t)
  BY <1>1, SeenSame
<1> QED BY <1>1, <1>2 DEF Service!Next, Service!GoDown

\* Calls that do not overlap are answered as if each had the process to itself:
\* from its own configuration, with every category it names run or reported
\* (driver.go, Run as a whole).
THEOREM SerialServiceImplemented == ASSUME ~Overlap PROVE Spec => ImplementsService
<1>1. SerialDriver /\ ServiceInv /\ [Next]_vars => [Service!Next]_(Service!vars)
  <2> SUFFICES ASSUME SerialDriver, ServiceInv, [Next]_vars
               PROVE  [Service!Next]_(Service!vars)
    OBVIOUS
  <2>1. CASE UNCHANGED vars
    <3>1. UNCHANGED <<alive, pc, req, called, ars>>
      BY <2>1 DEF vars, process, setup, calls
    <3> QED BY <3>1, SeenSame DEF Service!vars
  <2> QED
    BY <2>1, ReceiveRefines, RunRefines, CallRefines, RaceRefines DEF Next, Stopped, SerialDriver
<1> QED
  BY <1>1, InitRefines, SerialCorrect, PTL DEF Spec, ImplementsService, Service!Spec
=============================================================================
