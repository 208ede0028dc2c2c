------------------------------- MODULE Driver -------------------------------
(***************************************************************************)
(* The Shipshape service's driver (shipshape/service/driver.go).  Every    *)
(* incoming RPC is a goroutine of one process: it changes the process's    *)
(* working directory to the repository, loads the configuration from       *)
(* there, asks every analyzer service for its categories and stage,        *)
(* decides what to run, calls the analyzers in parallel, filters what they *)
(* answer, changes back and sends one response.                            *)
(*                                                                         *)
(* Two pieces of state belong to the process and not to the request: its   *)
(* working directory, and the set of default categories, which a run that  *)
(* falls back on it holds by reference and edits in place.                 *)
(***************************************************************************)
EXTENDS Config

CONSTANTS
  Requests,          \* identities of the RPCs the service receives
  Analyzers,         \* AnalyzerLocations
  Roots,             \* repository roots one can change into
  BadRoots,          \* repository roots one cannot change into
  Home,              \* the directory the process is started in
  Files,             \* source files
  DefaultCategories, \* what main passes to NewDriver
  Offers,            \* the categories each analyzer implements
  StageOf,           \* the stage each analyzer declares, Nil if it sets none
  ConfigAt,          \* the ".shipshape" of each directory
  FilesAt,           \* the files collectAllFiles finds under each root
  Under,             \* the files whose path has a given prefix
  Workload,          \* the requests clients send
  Replies,           \* what an analyzer may answer to Analyze
  Overlap            \* whether a client may call while another's call runs

Dirs    == Roots \cup {Home}
Stages  == {"PRE_BUILD", "POST_BUILD"}
DefaultEvent == "manual"     \* defaults.DefaultEvent

Request ==
  [kind : {"run", "categories"}, root : Roots \cup BadRoots \cup {Nil},
   event : EventNames \cup {Nil}, stage : Stages \cup {Nil},
   triggered : SUBSET Categories, files : SUBSET Files]

\* A note names a category or none, and a file, no file (a location without
\* a path) or has no location at all.
Note  == [category : Categories \cup {Nil}, path : Files \cup {Nil, "no location"}]

\* The category of a failure: Setup is the driver's own, Nil is the one of
\* a call that returned an error.
Setup   == "Driver setup"
Failure == Categories \cup {Setup, Nil}

\* An AnalyzeResponse of the run, with who it comes from.
Self == "driver"
AnalyzeResponse == [from : Analyzers \cup {Self}, notes : SUBSET Note,
                    failures : SUBSET Failure]

ASSUME NamesDistinct ==
  /\ Nil \notin Categories \cup EventNames \cup Roots \cup BadRoots \cup Files
  /\ Setup \notin Categories
  /\ Self \notin Analyzers
  /\ "no location" \notin Files
  /\ Roots \cap BadRoots = {}

ASSUME ConstantsTyped ==
  /\ DefaultCategories \subseteq Categories
  /\ Offers \in [Analyzers -> SUBSET Categories]
  /\ StageOf \in [Analyzers -> Stages \cup {Nil}]
  /\ \A d \in Dirs : ConfigAt[d] \in ConfigFile
  /\ FilesAt \in [Roots -> SUBSET Files]
  /\ Under \in [Prefixes -> SUBSET Files]
  /\ Workload \subseteq Request
  /\ \A x \in Replies : x.notes \subseteq Note /\ x.failures \subseteq Categories
  /\ Overlap \in BOOLEAN

\* A file that is not there asks for nothing to be ignored.
ASSUME AbsentIsEmpty ==
  \A d \in Dirs : ConfigAt[d].state = "absent" => ConfigAt[d].ignore = {}

VARIABLES
  cwd,          \* the working directory of the process
  defaultCats,  \* the map behind sd.defaultCategories
  alive,        \* FALSE once the process has crashed
  pc,           \* where each request's goroutine is
  req,          \* the request it serves
  orgDir,       \* the directory ChangeDir saved
  cfg,          \* the loaded configuration
  info,         \* sd.serviceMap of this request, and each goroutine's progress
  desired,      \* desiredCats, when the request has a set of its own
  aliased,      \* whether desiredCats is the default map itself
  missing,      \* missingCats
  files,        \* context.FilePath after filtering
  todo,         \* analyzers callAllAnalyzers has not looked at yet
  called,       \* the categories each analyzer was asked to run
  ars           \* the collected AnalyzeResponses

process == <<cwd, defaultCats, alive>>
setup   == <<req, orgDir, cfg>>
choice  == <<desired, aliased, missing, files>>
calls   == <<todo, called, ars>>
vars    == <<process, pc, setup, info, choice, calls>>

-----------------------------------------------------------------------------

NoRequest == [kind |-> "run", root |-> Nil, event |-> Nil, stage |-> Nil,
              triggered |-> {}, files |-> {}]

NotAsked == [at |-> "category", categories |-> {}, stage |-> Nil]

Locations == {"idle", "getwd", "chdir", "config", "info", "remove", "files",
              "analyze", "restore", "send", "done", "panicked"}

Over == {"done", "panicked"}

Init ==
  /\ cwd = Home
  /\ defaultCats = DefaultCategories
  /\ alive = TRUE
  /\ pc = [r \in Requests |-> "idle"]
  /\ req = [r \in Requests |-> NoRequest]
  /\ orgDir = [r \in Requests |-> Home]
  /\ cfg = [r \in Requests |-> NoConfig]
  /\ info = [r \in Requests |-> [a \in Analyzers |-> NotAsked]]
  /\ desired = [r \in Requests |-> {}]
  /\ aliased = [r \in Requests |-> FALSE]
  /\ missing = [r \in Requests |-> {}]
  /\ files = [r \in Requests |-> {}]
  /\ todo = [r \in Requests |-> {}]
  /\ called = [r \in Requests |-> [a \in Analyzers |-> {}]]
  /\ ars = [r \in Requests |-> {}]

Goto(r, l) == pc' = [pc EXCEPT ![r] = l]

\* generateFailure: one response of the driver's own for each category.
generateFailure(cats) ==
  {[from |-> Self, notes |-> {}, failures |-> {c}] : c \in cats}

AddFailures(r, cats) == ars' = [ars EXCEPT ![r] = @ \cup generateFailure(cats)]

\* desiredCats as the code reads it: through the reference when aliased.
CurrentDesired(r) == IF aliased[r] THEN defaultCats ELSE desired[r]

-----------------------------------------------------------------------------
(* Receiving a request and changing into the repository.                   *)

Unset(q) == q.root = Nil \/ q.event = Nil \/ q.stage = Nil

\* The first statement logs *in.Event, *in.Stage and *RepoRoot: with one of
\* them unset the handler panics, which the HTTP endpoint recovers.
Receive(r) ==
  /\ pc[r] = "idle"
  /\ Overlap \/ \A s \in Requests : pc[s] \in Over \cup {"idle"}
  /\ \E q \in Workload :
       /\ req' = [req EXCEPT ![r] = q]
       /\ Goto(r, IF q.kind = "categories" THEN "info"
                  ELSE IF Unset(q) THEN "panicked" ELSE "getwd")
  /\ UNCHANGED <<process, orgDir, cfg, info, choice, calls>>

Getwd(r) ==
  /\ pc[r] = "getwd"
  /\ orgDir' = [orgDir EXCEPT ![r] = cwd]
  /\ Goto(r, "chdir")
  /\ UNCHANGED <<process, req, cfg, info, choice, calls>>

\* Mutant: the error of Chdir is not looked at.
ChdirUnchecked(r) ==
  /\ pc[r] = "chdir"
  /\ cwd' = req[r].root
  /\ Goto(r, "config")
  /\ UNCHANGED <<defaultCats, alive, setup, info, choice, calls>>

Chdir(r) ==
  /\ pc[r] = "chdir"
  /\ req[r].root \in Roots
  /\ cwd' = req[r].root
  /\ Goto(r, "config")
  /\ UNCHANGED <<defaultCats, alive, setup, info, choice, calls>>

\* restore is not deferred yet: the failure goes straight to the response.
ChdirFails(r) ==
  /\ pc[r] = "chdir"
  /\ req[r].root \notin Roots
  /\ AddFailures(r, {Setup})
  /\ Goto(r, "send")
  /\ UNCHANGED <<process, setup, info, choice, todo, called>>

\* Mutant: the configuration is looked up in the directory saved by ChangeDir.
LoadConfigFromSaved(r) ==
  /\ pc[r] = "config"
  /\ LET loaded == loadConfig(ConfigAt[orgDir[r]], req[r].event)
     IN /\ cfg' = [cfg EXCEPT ![r] = loaded]
        /\ AddFailures(r, IF loaded.status = "error" THEN {Setup} ELSE {})
        /\ Goto(r, IF loaded.status = "error" THEN "restore" ELSE "info")
  /\ UNCHANGED <<process, req, orgDir, info, choice, todo, called>>

\* Mutant: a configuration error returns before restore is deferred.
LoadConfigBeforeDefer(r) ==
  /\ pc[r] = "config"
  /\ LET loaded == loadConfig(ConfigAt[cwd], req[r].event)
     IN /\ cfg' = [cfg EXCEPT ![r] = loaded]
        /\ AddFailures(r, IF loaded.status = "error" THEN {Setup} ELSE {})
        /\ Goto(r, IF loaded.status = "error" THEN "send" ELSE "info")
  /\ UNCHANGED <<process, req, orgDir, info, choice, todo, called>>

\* The configuration is read relative to the working directory.
LoadConfig(r) ==
  /\ pc[r] = "config"
  /\ LET loaded == loadConfig(ConfigAt[cwd], req[r].event)
     IN /\ cfg' = [cfg EXCEPT ![r] = loaded]
        /\ AddFailures(r, IF loaded.status = "error" THEN {Setup} ELSE {})
        /\ Goto(r, IF loaded.status = "error" THEN "restore" ELSE "info")
  /\ UNCHANGED <<process, req, orgDir, info, choice, todo, called>>

-----------------------------------------------------------------------------
(* getAllServiceInfo: one goroutine per analyzer, two calls each; either   *)
(* call may fail, whatever the other does.                                 *)

CategoryReply(r, a) ==
  /\ pc[r] = "info" /\ info[r][a].at = "category"
  /\ \E cats \in {Offers[a], {}} :
       info' = [info EXCEPT ![r][a] = [at |-> "stage", categories |-> cats, stage |-> Nil]]
  /\ UNCHANGED <<process, pc, setup, choice, calls>>

InfoDone(cats, stage) == [at |-> "done", categories |-> cats, stage |-> stage]

\* An error here drops the categories the first call obtained.
StageReply(r, a) ==
  /\ pc[r] = "info" /\ info[r][a].at = "stage"
  /\ \/ /\ StageOf[a] # Nil
        /\ info' = [info EXCEPT ![r][a] = InfoDone(info[r][a].categories, StageOf[a])]
     \/ info' = [info EXCEPT ![r][a] = InfoDone({}, Nil)]
  /\ UNCHANGED <<process, pc, setup, choice, calls>>

\* A reply without a stage is dereferenced in a goroutine nobody recovers:
\* the process ends.
StageMissing(r, a) ==
  /\ pc[r] = "info" /\ info[r][a].at = "stage"
  /\ StageOf[a] = Nil
  /\ alive' = FALSE
  /\ UNCHANGED <<cwd, defaultCats, pc, setup, info, choice, calls>>

InfoComplete(r) == \A a \in Analyzers : info[r][a].at = "done"

allCats(r) == UNION {info[r][a].categories : a \in Analyzers}

\* The GetCategory RPC ends here, answering allCats.
ListCategories(r) ==
  /\ pc[r] = "info" /\ InfoComplete(r)
  /\ req[r].kind = "categories"
  /\ Goto(r, "done")
  /\ UNCHANGED <<process, setup, info, choice, calls>>

-----------------------------------------------------------------------------
(* Deciding what to run.                                                   *)

\* Mutant: triggered categories are added to the configured ones.
ExplicitBoth(r) == req[r].triggered \cup cfg[r].categories

\* The categories the request or the configuration names.
Explicit(r) == IF req[r].triggered # {} THEN req[r].triggered ELSE cfg[r].categories

\* A configuration without a stanza for an event other than the default one.
NotConfigured(r) ==
  Explicit(r) = {} /\ cfg[r].status = "ok" /\ req[r].event # DefaultEvent

EventNotConfigured(r) ==
  /\ pc[r] = "info" /\ InfoComplete(r)
  /\ req[r].kind = "run" /\ NotConfigured(r)
  /\ Goto(r, "restore")
  /\ UNCHANGED <<process, setup, info, choice, calls>>

\* Mutant: only categories someone named are reported when missing.
SelectQuietly(r) ==
  /\ pc[r] = "info" /\ InfoComplete(r)
  /\ req[r].kind = "run" /\ ~NotConfigured(r)
  /\ LET wanted == IF Explicit(r) = {} THEN defaultCats ELSE Explicit(r)
         absent == wanted \ allCats(r)
     IN /\ desired' = [desired EXCEPT ![r] = Explicit(r)]
        /\ aliased' = [aliased EXCEPT ![r] = (Explicit(r) = {})]
        /\ missing' = [missing EXCEPT ![r] = absent]
        /\ AddFailures(r, absent \cap Explicit(r))
  /\ Goto(r, "remove")
  /\ UNCHANGED <<process, setup, info, files, todo, called>>

\* With nothing named, desiredCats becomes the default map, not a copy.
SelectCategories(r) ==
  /\ pc[r] = "info" /\ InfoComplete(r)
  /\ req[r].kind = "run" /\ ~NotConfigured(r)
  /\ LET wanted == IF Explicit(r) = {} THEN defaultCats ELSE Explicit(r)
         absent == wanted \ allCats(r)
     IN /\ desired' = [desired EXCEPT ![r] = Explicit(r)]
        /\ aliased' = [aliased EXCEPT ![r] = (Explicit(r) = {})]
        /\ missing' = [missing EXCEPT ![r] = absent]
        /\ AddFailures(r, absent)
  /\ Goto(r, "remove")
  /\ UNCHANGED <<process, setup, info, files, todo, called>>

\* Mutant: with nothing left to run, choose again instead of returning.
RemoveAndRetry(r) ==
  /\ pc[r] = "remove"
  /\ desired' = [desired EXCEPT ![r] = @ \ missing[r]]
  /\ defaultCats' = IF aliased[r] THEN defaultCats \ missing[r] ELSE defaultCats
  /\ Goto(r, IF CurrentDesired(r) \subseteq missing[r] THEN "info" ELSE "files")
  /\ UNCHANGED <<cwd, alive, setup, info, aliased, missing, files, calls>>

\* RemoveSet works in place: through the reference it edits the defaults of
\* every later run.
RemoveMissing(r) ==
  /\ pc[r] = "remove"
  /\ desired' = [desired EXCEPT ![r] = @ \ missing[r]]
  /\ defaultCats' = IF aliased[r] THEN defaultCats \ missing[r] ELSE defaultCats
  /\ Goto(r, IF CurrentDesired(r) \subseteq missing[r] THEN "restore" ELSE "files")
  /\ UNCHANGED <<cwd, alive, setup, info, aliased, missing, files, calls>>

\* filterPaths: drops the files under an ignored prefix.
filterPaths(ignore, paths) == paths \ UNION {Under[p] : p \in ignore}

\* Mutant: only the files found by walking the root are filtered.
retrieveThenFilter(r) ==
  IF req[r].files = {} THEN filterPaths(cfg[r].ignore, FilesAt[req[r].root])
                       ELSE req[r].files

retrieveAndFilterFiles(r) ==
  filterPaths(cfg[r].ignore,
              IF req[r].files = {} THEN FilesAt[req[r].root] ELSE req[r].files)

CollectFiles(r) ==
  /\ pc[r] = "files"
  /\ files' = [files EXCEPT ![r] = retrieveAndFilterFiles(r)]
  /\ IF retrieveAndFilterFiles(r) # {} /\ req[r].stage = "PRE_BUILD"
     THEN /\ todo' = [todo EXCEPT ![r] = Analyzers]
          /\ Goto(r, "analyze")
     ELSE /\ todo' = todo
          /\ Goto(r, "restore")
  /\ UNCHANGED <<process, setup, info, desired, aliased, missing, called, ars>>

-----------------------------------------------------------------------------
(* callAllAnalyzers: the loop launches a goroutine per analyzer that has   *)
(* something to run; the analyzers answer while it goes on.                *)

\* Mutant: a category already given to one analyzer is not given to another.
LaunchOnce(r, a) ==
  /\ pc[r] = "analyze" /\ a \in todo[r]
  /\ todo' = [todo EXCEPT ![r] = @ \ {a}]
  /\ called' = [called EXCEPT ![r][a] =
                  IF info[r][a].stage = req[r].stage
                  THEN (info[r][a].categories \cap CurrentDesired(r))
                         \ UNION {called[r][b] : b \in Analyzers}
                  ELSE {}]
  /\ UNCHANGED <<process, pc, setup, info, choice, ars>>

Launch(r, a) ==
  /\ pc[r] = "analyze" /\ a \in todo[r]
  /\ todo' = [todo EXCEPT ![r] = @ \ {a}]
  /\ called' = [called EXCEPT ![r][a] =
                  IF info[r][a].stage = req[r].stage
                  THEN info[r][a].categories \cap CurrentDesired(r)
                  ELSE {}]
  /\ UNCHANGED <<process, pc, setup, info, choice, ars>>

Answered(r, a) == \E x \in ars[r] : x.from = a

\* filterResults: a note stays when it has a category, a location, and no
\* path or one of the run's files.  Failures all stay.
filterResults(r, notes) ==
  {n \in notes : n.category # Nil /\ n.path \in files[r] \cup {Nil}}

AnalyzeReply(r, a) ==
  /\ called[r][a] # {} /\ ~Answered(r, a)
  /\ \E x \in Replies :
       ars' = [ars EXCEPT ![r] = @ \cup
                 {[from |-> a, notes |-> filterResults(r, x.notes), failures |-> x.failures]}]
  /\ UNCHANGED <<process, pc, setup, info, choice, todo, called>>

\* The failure that stands for an RPC error carries no category.
AnalyzeError(r, a) ==
  /\ called[r][a] # {} /\ ~Answered(r, a)
  /\ ars' = [ars EXCEPT ![r] = @ \cup
               {[from |-> a, notes |-> {}, failures |-> {Nil}]}]
  /\ UNCHANGED <<process, pc, setup, info, choice, todo, called>>

\* Mutant: collection ends with the first answer.
CollectFirst(r) ==
  /\ pc[r] = "analyze" /\ todo[r] = {}
  /\ \E a \in Analyzers : called[r][a] # {} => Answered(r, a)
  /\ Goto(r, "restore")
  /\ UNCHANGED <<process, setup, info, choice, calls>>

\* The receive on every channel has returned.
CollectResponses(r) ==
  /\ pc[r] = "analyze" /\ todo[r] = {}
  /\ \A a \in Analyzers : called[r][a] # {} => Answered(r, a)
  /\ Goto(r, "restore")
  /\ UNCHANGED <<process, setup, info, choice, calls>>

-----------------------------------------------------------------------------
(* The deferred calls, last registered first, and the process.             *)

Restore(r) ==
  /\ pc[r] = "restore"
  /\ cwd' = orgDir[r]
  /\ Goto(r, "send")
  /\ UNCHANGED <<defaultCats, alive, setup, info, choice, calls>>

SendResponse(r) ==
  /\ pc[r] = "send"
  /\ Goto(r, "done")
  /\ UNCHANGED <<process, setup, info, choice, calls>>

\* r is about to delete from the default map, which has no lock.
Deleting(r) == pc[r] = "remove" /\ aliased[r] /\ missing[r] \cap defaultCats # {}

\* s is about to read it.
Reading(s) ==
  \/ Deleting(s)
  \/ pc[s] = "analyze" /\ aliased[s] /\ todo[s] # {}
  \/ pc[s] = "info" /\ InfoComplete(s) /\ req[s].kind = "run" /\ Explicit(s) = {}

\* A delete racing another access is undefined: besides the orders the other
\* actions give, a torn key may be dereferenced.
MapRace(r, s) ==
  /\ r # s /\ Deleting(r) /\ Reading(s)
  /\ alive' = FALSE
  /\ UNCHANGED <<cwd, defaultCats, pc, setup, info, choice, calls>>

\* Run's own goroutine once the request is accepted.
RunStep(r) ==
  \/ Getwd(r) \/ Chdir(r) \/ ChdirFails(r) \/ LoadConfig(r)
  \/ ListCategories(r) \/ EventNotConfigured(r) \/ SelectCategories(r)
  \/ RemoveMissing(r) \/ CollectFiles(r)
  \/ \E a \in Analyzers : Launch(r, a)
  \/ CollectResponses(r) \/ Restore(r) \/ SendResponse(r)

\* The goroutines that talk to one analyzer.
CallStep(r, a) ==
  \/ CategoryReply(r, a) \/ StageReply(r, a) \/ StageMissing(r, a)
  \/ AnalyzeReply(r, a) \/ AnalyzeError(r, a)

Stopped ==
  /\ ~alive \/ \A r \in Requests : pc[r] \in Over
  /\ UNCHANGED vars

Next ==
  \/ /\ alive
     /\ \/ \E r \in Requests :
             Receive(r) \/ RunStep(r) \/ \E a \in Analyzers : CallStep(r, a)
        \/ \E r, s \in Requests : MapRace(r, s)
  \/ Stopped

Spec == Init /\ [][Next]_vars

\* The scheduler runs every goroutine that can run, and every call to an
\* analyzer returns, if only with an error.  Clients need not call.
Fairness ==
  /\ \A r \in Requests : WF_vars(alive /\ RunStep(r))
  /\ \A r \in Requests, a \in Analyzers : WF_vars(alive /\ CallStep(r, a))

FairSpec == Spec /\ Fairness

-----------------------------------------------------------------------------
(* Properties.                                                             *)

TypeOK ==
  /\ cwd \in Dirs
  /\ defaultCats \in SUBSET Categories
  /\ alive \in BOOLEAN
  /\ pc \in [Requests -> Locations]
  /\ req \in [Requests -> Workload \cup {NoRequest}]
  /\ orgDir \in [Requests -> Dirs]
  /\ cfg \in [Requests -> Loaded]
  /\ info \in [Requests -> [Analyzers ->
                [at : {"category", "stage", "done"}, categories : SUBSET Categories,
                 stage : Stages \cup {Nil}]]]
  /\ desired \in [Requests -> SUBSET Categories]
  /\ aliased \in [Requests -> BOOLEAN]
  /\ missing \in [Requests -> SUBSET Categories]
  /\ files \in [Requests -> SUBSET Files]
  /\ todo \in [Requests -> SUBSET Analyzers]
  /\ called \in [Requests -> [Analyzers -> SUBSET Categories]]
  /\ ars \in [Requests -> SUBSET AnalyzeResponse]

Quiescent == \A r \in Requests : pc[r] \in Over \cup {"idle"}

\* The categories the driver itself reported as missing to r's client.
Reported(r) == UNION {x.failures : x \in {y \in ars[r] : y.from = Self}}

\* c was reported as missing, or it was found and went to each analyzer of
\* the request's stage that said it has it (unless nothing is to be run).
AccountedFor(r, c) ==
  \/ c \in Reported(r)
  \/ /\ c \in allCats(r)
     /\ files[r] # {} /\ req[r].stage = "PRE_BUILD" =>
          \A a \in Analyzers :
            c \in info[r][a].categories /\ info[r][a].stage = "PRE_BUILD" =>
              c \in called[r][a]

\* The run got as far as choosing categories, and has ended.
Decided(r) ==
  /\ pc[r] = "done" /\ req[r].kind = "run"
  /\ Setup \notin Reported(r) /\ ~NotConfigured(r)

\* No category that a client or a configuration asks for by name is lost
\* between the request and the response, whatever other requests do to the
\* state they share and whichever calls fail (driver.go, Run, 145-202).
ExplicitAccounted ==
  \A r \in Requests : Decided(r) => \A c \in Explicit(r) : AccountedFor(r, c)

\* The same for a run on the default categories (driver.go:158-163, "Find out
\* what categories we have available, and remove/warn on the missing ones").
DefaultsAccounted ==
  \A r \in Requests : Decided(r) /\ Explicit(r) = {} =>
    \A c \in DefaultCategories : AccountedFor(r, c)

\* A response carries exactly one answer for every Analyze call of its run,
\* and none for a call that was not made (driver.go, callAllAnalyzers).
EveryCallAnswered ==
  \A r \in Requests : pc[r] = "done" =>
    /\ \A a \in Analyzers : called[r][a] # {} <=> Answered(r, a)
    /\ \A x, y \in ars[r] : x.from = y.from /\ x.from # Self => x = y

\* A default category that later runs no longer see was reported as missing
\* by some run (driver.go, 164-168: the failure goes out before the delete).
LostDefaultsReported ==
  DefaultCategories \ defaultCats \subseteq UNION {Reported(r) : r \in Requests}

\* A default category a run neither reports nor runs has been reported to
\* some client, this one or another (driver.go, Run, 158-202).
NoSilentLoss ==
  \A r \in Requests : Decided(r) /\ Explicit(r) = {} =>
    \A c \in DefaultCategories :
      AccountedFor(r, c) \/ \E s \in Requests : c \in Reported(s)

\* A run uses the configuration of the repository it was asked about
\* (config.go:36, "Given a Shipshape Context, it will access the appropriate
\* config files").
OwnConfig ==
  \A r \in Requests :
    req[r].kind = "run" /\ (pc[r] \in {"info", "remove", "files", "analyze"}
                             \/ cfg[r].status # "none") =>
      cfg[r] = loadConfig(ConfigAt[req[r].root], req[r].event)

\* With no request under way the process is back where it was started
\* (file_util.go:24, "a function that can be defered to change back into it").
CwdRestored == Quiescent => cwd = Home

\* The files a client may hear about: the ones it named, or its repository's,
\* outside what the repository's own configuration ignores.
OwnFiles(r) ==
  (IF req[r].files = {} THEN FilesAt[req[r].root] ELSE req[r].files)
    \ UNION {Under[p] : p \in ConfigAt[req[r].root].ignore}

\* No note reaches a client about a file its repository ignores or that it
\* did not ask about, whichever working directory the run read its
\* configuration from (driver.go, retrieveAndFilterFiles and filterResults).
NotesOnOwnFiles ==
  \A r \in Requests : \A x \in ars[r] : \A n \in x.notes :
    n.path # Nil => n.path \in OwnFiles(r)

\* Every request under way is answered, unless the process crashes.
Responds == \A r \in Requests : pc[r] = "getwd" ~> pc[r] = "done" \/ ~alive
=============================================================================
