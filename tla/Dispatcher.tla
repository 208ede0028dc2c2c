----------------------------- MODULE Dispatcher -----------------------------
(***************************************************************************)
(* An analyzer service (shipshape/api/dispatcher.go, the dispatchers       *)
(* started by service/go_dispatcher.go and androidlint/service.go).  Every *)
(* Analyze call is a goroutine of one process: it changes the process's    *)
(* working directory to the repository, runs the requested analyzers one   *)
(* after the other on paths relative to that directory, and changes back.  *)
(* The working directory is the one thing the calls share.                 *)
(***************************************************************************)
EXTENDS Analyzers

CONSTANTS
  Calls,      \* identities of the Analyze calls
  Registered, \* the analyzers of the service, in the order they are run
  Panicky,    \* those of them that may panic
  Roots,      \* repositories one can change into
  BadRoots,   \* repositories one cannot change into
  Home,       \* the directory the process is started in
  Workload    \* the requests clients send

Offered == {Registered[i] : i \in DOMAIN Registered}
Dirs    == Roots \cup {Home}

Request == [root : Roots \cup BadRoots, files : SUBSET Files, categories : SUBSET STRING]

ASSUME ServiceTyped ==
  /\ Registered \in Seq(STRING) /\ Panicky \subseteq Offered
  /\ Roots \cap BadRoots = {} /\ Home \notin BadRoots
  /\ DOMAIN ProjectsAbove = Dirs
  /\ \A q \in Workload : q.root \in Roots \cup BadRoots /\ q.files \subseteq Files

VARIABLES
  cwd,        \* the working directory of the process
  pc,         \* where each call's goroutine is
  req,        \* the request it serves
  orgDir,     \* the directory ChangeDir saved
  at,         \* the position of the analyzer that runs or is to run next
  todo,       \* the units the running analyzer has not looked at
  mine,       \* the notes it has so far
  notes,      \* nts
  failures,   \* the categories in errs
  answer,     \* what the caller gets
  found,      \* every note any analyzer of the call made
  looked,     \* the units each analyzer of the call has looked at to the end
  mislaid,    \* the files AndroidLint has not found, or not in their project
  disturbed   \* the calls that overlapped another

setup   == <<req, orgDir>>
running == <<at, todo, mine>>
result  == <<notes, failures, answer>>
history == <<found, looked, mislaid, disturbed>>
vars    == <<cwd, pc, setup, running, result, history>>

NoRequest == [root |-> Home, files |-> {}, categories |-> {}]

Init ==
  /\ cwd = Home
  /\ pc = [c \in Calls |-> "idle"]
  /\ req = [c \in Calls |-> NoRequest]
  /\ orgDir = [c \in Calls |-> Home]
  /\ at = [c \in Calls |-> 1]
  /\ todo = [c \in Calls |-> {}]
  /\ mine = [c \in Calls |-> {}]
  /\ notes = [c \in Calls |-> {}]
  /\ failures = [c \in Calls |-> {}]
  /\ answer = [c \in Calls |-> "none"]
  /\ found = [c \in Calls |-> {}]
  /\ looked = [c \in Calls |-> {}]
  /\ mislaid = [c \in Calls |-> {}]
  /\ disturbed = {}

Goto(c, l) == pc' = [pc EXCEPT ![c] = l]
Answer(c, x) == answer' = [answer EXCEPT ![c] = x]
Active == {c \in Calls : pc[c] \notin {"idle", "done"}}

-----------------------------------------------------------------------------
(* The call up to its first analyzer.                                      *)

\* GetCategory answers the categories of the registered analyzers.
GetCategory == Offered

Receive(c) ==
  /\ pc[c] = "idle"
  /\ \E q \in Workload : req' = [req EXCEPT ![c] = q]
  /\ disturbed' = IF Active = {} THEN disturbed ELSE disturbed \cup Active \cup {c}
  /\ Goto(c, "getwd")
  /\ UNCHANGED <<cwd, orgDir, running, result, found, looked, mislaid>>

Getwd(c) ==
  /\ pc[c] = "getwd"
  /\ orgDir' = [orgDir EXCEPT ![c] = cwd]
  /\ Goto(c, "chdir")
  /\ UNCHANGED <<cwd, req, running, result, history>>

\* The loop over the registered analyzers: from position i on, the next one
\* that is requested, or the end.
Positions == 1 .. Len(Registered) + 1

Advance(c, i) ==
  \E j \in Positions :
    /\ i <= j /\ \A k \in i .. j - 1 : Registered[k] \notin req[c].categories
    /\ j \in DOMAIN Registered => Registered[j] \in req[c].categories
    /\ at' = [at EXCEPT ![c] = j]

\* Mutant: the error is only logged and the analyzers run where the process is.
ChdirFailsIgnored(c) ==
  /\ pc[c] = "chdir" /\ req[c].root \in BadRoots
  /\ Advance(c, 1)
  /\ Goto(c, "next")
  /\ UNCHANGED <<cwd, setup, todo, mine, result, history>>

\* Mutant: the response is returned without the error.
ChdirFailsQuietly(c) ==
  /\ pc[c] = "chdir" /\ req[c].root \in BadRoots
  /\ failures' = [failures EXCEPT ![c] = {"InternalFailure"}]
  /\ Answer(c, "response")
  /\ Goto(c, "done")
  /\ UNCHANGED <<cwd, setup, running, notes, history>>

\* The failure set aside for the response is lost with it: with an error the
\* caller gets nothing else.
ChdirFails(c) ==
  /\ pc[c] = "chdir" /\ req[c].root \in BadRoots
  /\ failures' = [failures EXCEPT ![c] = {"InternalFailure"}]
  /\ Answer(c, "error")
  /\ Goto(c, "done")
  /\ UNCHANGED <<cwd, setup, running, notes, history>>

\* Mutant: the change is believed without looking at its error.
ChdirUnchecked(c) ==
  /\ pc[c] = "chdir"
  /\ cwd' = req[c].root
  /\ Advance(c, 1)
  /\ Goto(c, "next")
  /\ UNCHANGED <<setup, todo, mine, result, history>>

Chdir(c) ==
  /\ pc[c] = "chdir" /\ req[c].root \in Roots
  /\ cwd' = req[c].root
  /\ Advance(c, 1)
  /\ Goto(c, "next")
  /\ UNCHANGED <<setup, todo, mine, result, history>>

-----------------------------------------------------------------------------
(* runAnalyzer, for one analyzer after the other.                          *)

\* AndroidLint looks for the projects from wherever the process is.
StartAnalyzer(c) ==
  /\ pc[c] = "next" /\ at[c] \in DOMAIN Registered
  /\ LET a == Registered[at[c]]
         files == req[c].files
     IN /\ \E where \in Lookups(files, cwd) :
             /\ todo' = [todo EXCEPT ![c] = UnitsOf(a, files, getAndroidProjects(where))]
             /\ mislaid' = [mislaid EXCEPT ![c] = IF a = "AndroidLint"
                  THEN @ \cup {f \in files : where[f] # getProject(cwd, f)} ELSE @]
        /\ mine' = [mine EXCEPT ![c] = NotesAtStart(a, cwd)]
        /\ found' = [found EXCEPT ![c] = @ \cup NotesAtStart(a, cwd)]
  /\ Goto(c, "analyze")
  /\ UNCHANGED <<cwd, setup, at, result, looked, disturbed>>

\* Mutant: an error of one file is logged and the next file is tried.
AfterUnitGoingOn(c, a, u, seen) ==
  /\ todo' = [todo EXCEPT ![c] = @ \ {u}]
  /\ mine' = [mine EXCEPT ![c] =
                IF seen.found THEN @ \cup {Note(a, PathIn(a, u), cwd)} ELSE @]
  /\ UNCHANGED <<pc, at, notes, failures>>

\* Mutant: runAnalyzer drops the notes of an analyzer that also has an error.
AfterUnitDropping(c, a, u, seen) ==
  LET noted == IF seen.found THEN mine[c] \cup {Note(a, PathIn(a, u), cwd)} ELSE mine[c]
  IN IF seen.error
     THEN /\ failures' = [failures EXCEPT ![c] = @ \cup {a}]
          /\ Advance(c, at[c] + 1)
          /\ todo' = [todo EXCEPT ![c] = {}]
          /\ mine' = [mine EXCEPT ![c] = {}]
          /\ Goto(c, "next")
          /\ UNCHANGED notes
     ELSE /\ todo' = [todo EXCEPT ![c] = @ \ {u}]
          /\ mine' = [mine EXCEPT ![c] = noted]
          /\ UNCHANGED <<pc, at, notes, failures>>

\* Every analyzer stops at its first error; the rest of its files are left.
AfterUnit(c, a, u, seen) ==
  LET noted == IF seen.found THEN mine[c] \cup {Note(a, PathIn(a, u), cwd)} ELSE mine[c]
  IN IF seen.error
     THEN /\ notes' = [notes EXCEPT ![c] = @ \cup IF a \in AllOrNothing THEN {} ELSE noted]
          /\ failures' = [failures EXCEPT ![c] = @ \cup {a}]
          /\ Advance(c, at[c] + 1)
          /\ todo' = [todo EXCEPT ![c] = {}]
          /\ mine' = [mine EXCEPT ![c] = {}]
          /\ Goto(c, "next")
     ELSE /\ todo' = [todo EXCEPT ![c] = @ \ {u}]
          /\ mine' = [mine EXCEPT ![c] = noted]
          /\ UNCHANGED <<pc, at, notes, failures>>

\* One file or project, in any order; the path is relative to wherever the
\* process is by now.
AnalyzeUnit(c) ==
  /\ pc[c] = "analyze"
  /\ LET a == Registered[at[c]]
     IN \E u \in todo[c], seen \in Outcomes(a) :
          /\ AfterUnit(c, a, u, seen)
          /\ found' = [found EXCEPT ![c] = IF seen.found
                         THEN @ \cup {Note(a, PathIn(a, u), cwd)} ELSE @]
          /\ looked' = [looked EXCEPT ![c] = IF seen.complete THEN @ \cup {<<a, u>>} ELSE @]
  /\ UNCHANGED <<cwd, setup, answer, mislaid, disturbed>>

\* Mutant: the loop does not move on to the next analyzer.
FinishAndRepeat(c) ==
  /\ pc[c] = "analyze" /\ todo[c] = {}
  /\ notes' = [notes EXCEPT ![c] = @ \cup mine[c]]
  /\ mine' = [mine EXCEPT ![c] = {}]
  /\ Goto(c, "next")
  /\ UNCHANGED <<cwd, setup, at, todo, failures, answer, history>>

FinishAnalyzer(c) ==
  /\ pc[c] = "analyze" /\ todo[c] = {}
  /\ notes' = [notes EXCEPT ![c] = @ \cup mine[c]]
  /\ mine' = [mine EXCEPT ![c] = {}]
  /\ Advance(c, at[c] + 1)
  /\ Goto(c, "next")
  /\ UNCHANGED <<cwd, setup, todo, failures, answer, history>>

\* Mutant: restore is called at the end of Analyze and not deferred.
PanicUnrestored(c) ==
  /\ pc[c] = "analyze" /\ Registered[at[c]] \in Panicky
  /\ Answer(c, "error")
  /\ Goto(c, "done")
  /\ UNCHANGED <<cwd, setup, running, notes, failures, history>>

\* Nothing in this file recovers: the deferred calls run and the endpoint
\* answers with an error, without what the other analyzers found.
Panic(c) ==
  /\ pc[c] = "analyze" /\ Registered[at[c]] \in Panicky
  /\ Answer(c, "error")
  /\ Goto(c, "restore")
  /\ UNCHANGED <<cwd, setup, running, notes, failures, history>>

AllRun(c) ==
  /\ pc[c] = "next" /\ at[c] \notin DOMAIN Registered
  /\ Goto(c, "restore")
  /\ UNCHANGED <<cwd, setup, running, result, history>>

Restore(c) ==
  /\ pc[c] = "restore"
  /\ cwd' = orgDir[c]
  /\ Answer(c, IF answer[c] = "none" THEN "response" ELSE "error")
  /\ Goto(c, "done")
  /\ UNCHANGED <<setup, running, notes, failures, history>>

Step(c) ==
  \/ Getwd(c) \/ ChdirFails(c) \/ Chdir(c) \/ StartAnalyzer(c) \/ AnalyzeUnit(c)
  \/ FinishAnalyzer(c) \/ Panic(c) \/ AllRun(c) \/ Restore(c)

Idle == Active = {} /\ UNCHANGED vars

Next == (\E c \in Calls : Receive(c) \/ Step(c)) \/ Idle

Spec == Init /\ [][Next]_vars

\* The scheduler runs every goroutine, and every tool ends.
FairSpec == Spec /\ \A c \in Calls : WF_vars(Step(c))

-----------------------------------------------------------------------------
(* Properties.                                                             *)

NoteType == [category : Offered, path : Units \cup {Nil, NoLocation}, dir : Dirs]

TypeOK ==
  /\ cwd \in Dirs
  /\ pc \in [Calls -> {"idle", "getwd", "chdir", "next", "analyze", "restore", "done"}]
  /\ req \in [Calls -> Workload \cup {NoRequest}]
  /\ orgDir \in [Calls -> Dirs]
  /\ at \in [Calls -> Positions]
  /\ \A c \in Calls : pc[c] = "analyze" => at[c] \in DOMAIN Registered
  /\ \A c \in Calls : pc[c] \in {"next", "analyze"} /\ at[c] \in DOMAIN Registered =>
       Registered[at[c]] \in req[c].categories
  /\ todo \in [Calls -> SUBSET Units]
  /\ mine \in [Calls -> SUBSET NoteType] /\ notes \in [Calls -> SUBSET NoteType]
  /\ failures \in [Calls -> SUBSET (Offered \cup {"InternalFailure"})]
  /\ answer \in [Calls -> {"none", "response", "error"}]
  /\ found \in [Calls -> SUBSET NoteType]
  /\ looked \in [Calls -> SUBSET (Offered \X Units)]
  /\ mislaid \in [Calls -> SUBSET Files]
  /\ disturbed \subseteq Calls

Responded(c) == pc[c] = "done" /\ answer[c] = "response"

\* A call nobody overlapped analyzes the files of its own repository, in
\* whichever directory earlier calls left the process (dispatcher.go, 63).
OwnRepository ==
  \A c \in Calls \ disturbed : \A n \in found[c] : n.dir = req[c].root

\* Until calls overlap, the process is back where it was started whenever no
\* call is under way, whatever failed or panicked (dispatcher.go, 69-73).
HomeRestored == disturbed = {} /\ Active = {} => cwd = Home

\* An analyzer was asked for in vain, or it has failed, or it has looked at all
\* that the call's repository has for it to the end, but for mislaid files.
AccountedFor(c, a) ==
  a \in Offered \cap req[c].categories =>
    \/ a \in failures[c]
    \/ LET projects == {getProject(req[c].root, f) : f \in req[c].files \ mislaid[c]} \ {Nil}
       IN {a} \X UnitsOf(a, req[c].files, projects) \subseteq looked[c]

\* A response accounts for all that the requested analyzers should look at.
\* There are two exceptions, in which nothing tells the caller.  The output of
\* a pylint that is killed or gives up is read as if complete (pylint/
\* analyzer.go, 61-78), and AndroidLint passes over files it cannot find, such
\* as those of a call that another one has moved (androidlint/analyzer.go, 141).
NothingSkipped ==
  \A c \in Calls : Responded(c) =>
    \A a \in Offered \ {"PyLint"} :
      (a = "AndroidLint" => c \notin disturbed) => AccountedFor(c, a)

\* What an analyzer found before something failed reaches the caller, and
\* one analyzer's failure takes no other's notes along; only the two that
\* drop their own notes do (dispatcher.go, 108-112).
FindingsKept ==
  \A c \in Calls : Responded(c) =>
    /\ notes[c] \subseteq found[c]
    /\ \A n \in found[c] \ notes[c] : n.category \in AllOrNothing \cap failures[c]

\* What the driver relies on: notes and failures are of categories it asked
\* for and the service has, and InternalFailure is never among them.
AnswersRequested ==
  \A c \in Calls : Responded(c) =>
    failures[c] \cup {n.category : n \in notes[c]} \subseteq req[c].categories \cap GetCategory

\* Every call is answered.
Responds == \A c \in Calls : pc[c] = "getwd" ~> pc[c] = "done"
=============================================================================
