-------------------------- MODULE DispatcherProofs --------------------------
(***************************************************************************)
(* Theorems about Dispatcher, for every number of calls, every list of     *)
(* analyzers and every request.                                            *)
(***************************************************************************)
EXTENDS Dispatcher, TLAPS

(***************************************************************************)
(* What the analyzers work on, and what becomes of it.                     *)
(***************************************************************************)

LEMMA ProjectsTyped ==
  ASSUME NEW files \in SUBSET Files, NEW dir, NEW where \in Lookups(files, dir)
  PROVE  /\ getAndroidProjects(where) \in SUBSET Projects
         /\ \A f \in files : where[f] # Nil => where[f] \in getAndroidProjects(where)
BY DEF Lookups, getAndroidProjects

LEMMA UnitsTyped ==
  \A a : \A files \in SUBSET Files, projects \in SUBSET Projects :
    UnitsOf(a, files, projects) \subseteq Units
<1> SUFFICES ASSUME NEW a, NEW files \in SUBSET Files, NEW projects \in SUBSET Projects
             PROVE  UnitsOf(a, files, projects) \subseteq Units
  OBVIOUS
<1>1. \A ext : WithExt(files, ext) \subseteq Files
  BY DEF WithExt
<1> QED BY <1>1 DEF UnitsOf, Units

\* Only AndroidLint works on projects, and on no fewer when there are more.
LEMMA UnitsGrow ==
  ASSUME NEW a, NEW files, NEW few, NEW many, a = "AndroidLint" => few \subseteq many
  PROVE  UnitsOf(a, files, few) \subseteq UnitsOf(a, files, many)
BY DEF UnitsOf

\* Only pylint can end without an error and without having seen all there is.
LEMMA LookedAtOrFailed ==
  ASSUME NEW a, a # "PyLint", NEW seen \in Outcomes(a)
  PROVE  seen.error \/ seen.complete
<1>1. \A x : NoIssues(x).error \/ NoIssues(x).complete
  BY Zenon DEF NoIssues, Seen
<1>2. \A x : ReadIssues(x).error \/ ReadIssues(x).complete
  BY Zenon DEF ReadIssues, Seen
<1>4. \A x : GoVet(x).error \/ GoVet(x).complete
  BY <1>1, <1>2, Zenon DEF GoVet
<1>5. \A x : JSHint(x).error \/ JSHint(x).complete
  BY <1>1, <1>2, Zenon DEF JSHint
<1>6. \A x : AndroidLint(x).error \/ AndroidLint(x).complete
  <2>1. \A x : LET s == Seen(x.lines = "good", x.lines \notin {"none", "good"},
                            x.lines \in {"none", "good"})
               IN s.error \/ s.complete
    BY Zenon DEF Seen
  <2> QED BY <1>1, <2>1, Zenon DEF AndroidLint
<1>7. \A s \in WordCount \cup CodeAlert : s.error \/ s.complete
  <2>1. Unreadable.error /\ Seen(TRUE, FALSE, TRUE).complete /\ Seen(FALSE, FALSE, TRUE).complete
    BY DEF Unreadable, Seen
  <2> QED BY <2>1, Zenon DEF WordCount, CodeAlert
<1>8. \/ seen \in {GoVet(x) : x \in ToolRun} \/ seen \in {JSHint(x) : x \in ToolRun}
      \/ seen \in {AndroidLint(x) : x \in ToolRun} \/ seen \in WordCount \cup CodeAlert
  <2>1. CASE a = "go vet"
    BY <2>1 DEF Outcomes
  <2>2. CASE a = "JSHint"
    BY <2>2 DEF Outcomes
  <2>3. CASE a = "AndroidLint"
    BY <2>3 DEF Outcomes
  <2>4. CASE a \in {"WordCount", "CodeAlert"}
    BY <2>4 DEF Outcomes
  <2>5. CASE a \notin {"go vet", "JSHint", "AndroidLint", "WordCount", "CodeAlert"}
    BY <2>5 DEF Outcomes
  <2> QED BY <2>1, <2>2, <2>3, <2>4, <2>5
<1> QED BY <1>4, <1>5, <1>6, <1>7, <1>8, Zenon

(***************************************************************************)
(* Type correctness.                                                       *)
(***************************************************************************)

LEMMA InitType == Init => TypeOK
<1> SUFFICES ASSUME Init
             PROVE  TypeOK
  OBVIOUS
<1>1. 1 \in Positions
  BY ServiceTyped DEF Positions
<1> QED BY <1>1 DEF Init, TypeOK, Dirs

\* The loop moves on to a requested analyzer or to the end.
LEMMA AdvanceType ==
  ASSUME TypeOK, NEW c \in Calls, NEW i, Advance(c, i)
  PROVE  /\ at' \in [Calls -> Positions]
         /\ \A d \in Calls \ {c} : at'[d] = at[d]
         /\ at'[c] \in DOMAIN Registered => Registered[at'[c]] \in req[c].categories
         /\ \A k \in Int : i <= k /\ k < at'[c] => Registered[k] \notin req[c].categories
BY ServiceTyped DEF Advance, TypeOK, Positions

LEMMA NoteTyped ==
  ASSUME NEW a \in Offered, NEW dir \in Dirs
  PROVE  /\ NotesAtStart(a, dir) \in SUBSET NoteType
         /\ \A n \in NotesAtStart(a, dir) : n.category = a /\ n.dir = dir
         /\ \A u \in Units : LET n == Note(a, PathIn(a, u), dir)
                            IN n \in NoteType /\ n.category = a /\ n.dir = dir
BY DEF Note, PathIn, NotesAtStart, NoteType

\* What one unit's outcome does to the call.
LEMMA UnitStep ==
  ASSUME TypeOK, NEW c \in Calls, AnalyzeUnit(c)
  PROVE  LET a == Registered[at[c]]
         IN  /\ pc[c] = "analyze" /\ a \in Offered \cap req[c].categories
             /\ UNCHANGED <<cwd, req, orgDir, answer, mislaid, disturbed>>
             /\ \E u \in todo[c], seen \in Outcomes(a), m \in SUBSET NoteType :
                  /\ u \in Units /\ \A n \in m : n.category = a /\ n.dir = cwd
                  /\ found' = [found EXCEPT ![c] = @ \cup m]
                  /\ looked' = [looked EXCEPT ![c] =
                       IF seen.complete THEN @ \cup {<<a, u>>} ELSE @]
                  /\ \/ /\ seen.error
                        /\ notes' = [notes EXCEPT ![c] =
                             @ \cup IF a \in AllOrNothing THEN {} ELSE mine[c] \cup m]
                        /\ failures' = [failures EXCEPT ![c] = @ \cup {a}]
                        /\ Advance(c, at[c] + 1)
                        /\ todo' = [todo EXCEPT ![c] = {}]
                        /\ mine' = [mine EXCEPT ![c] = {}]
                        /\ pc' = [pc EXCEPT ![c] = "next"]
                     \/ /\ ~seen.error
                        /\ todo' = [todo EXCEPT ![c] = @ \ {u}]
                        /\ mine' = [mine EXCEPT ![c] = @ \cup m]
                        /\ UNCHANGED <<pc, at, notes, failures>>
<1> DEFINE a == Registered[at[c]]
<1>1. pc[c] = "analyze"
  BY DEF AnalyzeUnit
<1>2. a \in Offered \cap req[c].categories
  BY <1>1 DEF TypeOK, Offered
<1> PICK u \in todo[c], seen \in Outcomes(a) :
         /\ AfterUnit(c, a, u, seen)
         /\ found' = [found EXCEPT ![c] = IF seen.found
              THEN @ \cup {Note(a, PathIn(a, u), cwd)} ELSE @]
         /\ looked' = [looked EXCEPT ![c] = IF seen.complete THEN @ \cup {<<a, u>>} ELSE @]
  BY DEF AnalyzeUnit
<1>3. UNCHANGED <<cwd, req, orgDir, answer, mislaid, disturbed>>
  BY DEF AnalyzeUnit, setup
<1>4. u \in Units /\ cwd \in Dirs
  BY DEF TypeOK
<1> DEFINE n == Note(a, PathIn(a, u), cwd)
           m == IF seen.found THEN {n} ELSE {}
<1>5. n \in NoteType /\ n.category = a /\ n.dir = cwd
  BY <1>2, <1>4, NoteTyped
<1> HIDE DEF n
<1>6. m \in SUBSET NoteType /\ \A x \in m : x.category = a /\ x.dir = cwd
  BY <1>5, Zenon
<1>7. found' = [found EXCEPT ![c] = @ \cup m]
  <2>1. CASE seen.found
    BY <2>1 DEF n
  <2>2. CASE ~seen.found
    BY <2>2 DEF TypeOK
  <2> QED BY <2>1, <2>2
<1>8. (IF seen.found THEN mine[c] \cup {n} ELSE mine[c]) = mine[c] \cup m
  OBVIOUS
<1> HIDE DEF a, m
<1>9. CASE seen.error
  <2>1. /\ notes' = [notes EXCEPT ![c] = @ \cup IF a \in AllOrNothing THEN {} ELSE mine[c] \cup m]
        /\ failures' = [failures EXCEPT ![c] = @ \cup {a}]
        /\ Advance(c, at[c] + 1)
        /\ todo' = [todo EXCEPT ![c] = {}]
        /\ mine' = [mine EXCEPT ![c] = {}]
        /\ pc' = [pc EXCEPT ![c] = "next"]
    BY <1>8, <1>9, Zenon DEF AfterUnit, Goto, n
  <2> QED BY <1>1, <1>2, <1>3, <1>4, <1>6, <1>7, <1>9, <2>1, Zenon DEF a
<1>10. CASE ~seen.error
  <2>1. /\ todo' = [todo EXCEPT ![c] = @ \ {u}]
        /\ mine' = [mine EXCEPT ![c] = @ \cup m]
        /\ UNCHANGED <<pc, at, notes, failures>>
    BY <1>8, <1>10, Zenon DEF AfterUnit, n
  <2> QED BY <1>1, <1>2, <1>3, <1>4, <1>6, <1>7, <1>10, <2>1, Zenon DEF a
<1> QED BY <1>9, <1>10

\* A step of one call leaves what the others keep alone.
LEMMA StepLocal ==
  ASSUME TypeOK, NEW c \in Calls, Receive(c) \/ Step(c), NEW d \in Calls \ {c}
  PROVE  /\ pc'[d] = pc[d] /\ req'[d] = req[d] /\ orgDir'[d] = orgDir[d]
         /\ at'[d] = at[d] /\ todo'[d] = todo[d] /\ mine'[d] = mine[d]
         /\ notes'[d] = notes[d] /\ failures'[d] = failures[d] /\ answer'[d] = answer[d]
         /\ found'[d] = found[d] /\ looked'[d] = looked[d] /\ mislaid'[d] = mislaid[d]
         /\ disturbed \subseteq disturbed'
<1> USE DEF TypeOK, Goto, Answer, setup, running, result, history
<1>1. CASE Receive(c)
  BY <1>1 DEF Receive
<1>2. CASE Getwd(c)
  BY <1>2 DEF Getwd
<1>3. CASE ChdirFails(c)
  BY <1>3 DEF ChdirFails
<1>4. CASE Chdir(c)
  BY <1>4, AdvanceType DEF Chdir
<1>5. CASE StartAnalyzer(c)
  BY <1>5 DEF StartAnalyzer
<1>6. CASE AnalyzeUnit(c)
  BY <1>6, UnitStep, AdvanceType, SMTT(30)
<1>7. CASE FinishAnalyzer(c)
  BY <1>7, AdvanceType DEF FinishAnalyzer
<1>8. CASE Panic(c)
  BY <1>8 DEF Panic
<1>9. CASE AllRun(c)
  BY <1>9 DEF AllRun
<1>10. CASE Restore(c)
  BY <1>10 DEF Restore
<1> QED BY <1>1, <1>2, <1>3, <1>4, <1>5, <1>6, <1>7, <1>8, <1>9, <1>10 DEF Step

LEMMA StepType == TypeOK /\ [Next]_vars => TypeOK'
<1> SUFFICES ASSUME TypeOK, [Next]_vars
             PROVE  TypeOK'
  OBVIOUS
<1> USE DEF TypeOK, Goto, Answer, setup, running, result, history
<1>0. ASSUME UNCHANGED vars
      PROVE  TypeOK'
  BY <1>0 DEF vars
<1>1. ASSUME NEW c \in Calls, Receive(c)
      PROVE  TypeOK'
  <2>1. req' \in [Calls -> Workload \cup {NoRequest}]
    BY <1>1 DEF Receive
  <2>2. disturbed' \subseteq Calls
    BY <1>1 DEF Receive, Active
  <2> QED BY <1>1, <2>1, <2>2 DEF Receive
<1>2. ASSUME NEW c \in Calls, Getwd(c)
      PROVE  TypeOK'
  BY <1>2 DEF Getwd
<1>3. ASSUME NEW c \in Calls, ChdirFails(c)
      PROVE  TypeOK'
  BY <1>3 DEF ChdirFails
<1>4. ASSUME NEW c \in Calls, Chdir(c)
      PROVE  TypeOK'
  <2>1. req[c].root \in Dirs
    BY <1>4 DEF Chdir, Dirs
  <2> QED BY <1>4, <2>1, AdvanceType DEF Chdir
<1>5. ASSUME NEW c \in Calls, StartAnalyzer(c)
      PROVE  TypeOK'
  <2> DEFINE a == Registered[at[c]]
  <2>1. a \in Offered
    BY <1>5 DEF StartAnalyzer, Offered
  <2>2. NotesAtStart(a, cwd) \in SUBSET NoteType
    BY <2>1, NoteTyped
  <2>3. req[c].files \in SUBSET Files
    BY ServiceTyped DEF NoRequest
  <2>4. PICK where \in Lookups(req[c].files, cwd) :
            /\ todo' = [todo EXCEPT ![c] = UnitsOf(a, req[c].files, getAndroidProjects(where))]
            /\ mislaid' = [mislaid EXCEPT ![c] = IF a = "AndroidLint"
                 THEN @ \cup {f \in req[c].files : where[f] # getProject(cwd, f)} ELSE @]
    BY <1>5 DEF StartAnalyzer
  <2>5. UnitsOf(a, req[c].files, getAndroidProjects(where)) \in SUBSET Units
    BY <2>3, UnitsTyped, ProjectsTyped
  <2>6. todo' \in [Calls -> SUBSET Units]
    BY <2>4, <2>5
  <2>7. mislaid' \in [Calls -> SUBSET Files]
    BY <2>3, <2>4
  <2>8. /\ UNCHANGED <<cwd, req, orgDir, at, notes, failures, answer, looked, disturbed>>
        /\ mine' = [mine EXCEPT ![c] = NotesAtStart(a, cwd)]
        /\ found' = [found EXCEPT ![c] = @ \cup NotesAtStart(a, cwd)]
        /\ pc[c] = "next" /\ pc' = [pc EXCEPT ![c] = "analyze"] /\ at[c] \in DOMAIN Registered
    BY <1>5 DEF StartAnalyzer
  <2> HIDE DEF a
  <2> QED BY <2>2, <2>6, <2>7, <2>8
<1>6. ASSUME NEW c \in Calls, AnalyzeUnit(c)
      PROVE  TypeOK'
  BY <1>6, UnitStep, AdvanceType, SMTT(30)
<1>7. ASSUME NEW c \in Calls, FinishAnalyzer(c)
      PROVE  TypeOK'
  BY <1>7, AdvanceType DEF FinishAnalyzer
<1>8. ASSUME NEW c \in Calls, Panic(c)
      PROVE  TypeOK'
  BY <1>8 DEF Panic
<1>9. ASSUME NEW c \in Calls, AllRun(c)
      PROVE  TypeOK'
  BY <1>9 DEF AllRun
<1>10. ASSUME NEW c \in Calls, Restore(c)
       PROVE  TypeOK'
  BY <1>10 DEF Restore
<1> QED
  BY <1>0, <1>1, <1>2, <1>3, <1>4, <1>5, <1>6, <1>7, <1>8, <1>9, <1>10 DEF Next, Step, Idle

\* A step that changes a call, with the cases of UnitStep at hand.
LEMMA CallStep ==
  ASSUME TypeOK, [Next]_vars
  PROVE  UNCHANGED vars \/ \E c \in Calls : Receive(c) \/ Step(c)
BY DEF Next, Idle

\* In every state the variables have their types: whatever the requests, the
\* process is in a directory it can be in, and an analyzer runs only for a
\* call that asked for it.
THEOREM TypeCorrect == Spec => []TypeOK
BY InitType, StepType, PTL DEF Spec

(***************************************************************************)
(* What one call keeps of what it found.  Each of the predicates is about  *)
(* the variables of one call alone, so a step of another call keeps it.    *)
(***************************************************************************)

\* Nothing is there before the first analyzer runs.
Fresh(c) ==
  pc[c] \in {"idle", "getwd", "chdir"} =>
    /\ found[c] = {} /\ notes[c] = {} /\ mine[c] = {} /\ failures[c] = {}
    /\ answer[c] = "none"

\* A note is either kept, or made by the analyzer that is running, or lost
\* with one that failed and returns no notes then.
Kept(c) ==
  answer[c] # "error" =>
    /\ pc[c] # "analyze" => mine[c] = {}
    /\ \A n \in mine[c] : n.category = Registered[at[c]]
    /\ notes[c] \cup mine[c] \subseteq found[c]
    /\ \A n \in found[c] \ (notes[c] \cup mine[c]) : n.category \in AllOrNothing \cap failures[c]

\* Notes and failures are of analyzers the call asked for.
Asked(c) ==
  answer[c] # "error" =>
    /\ failures[c] \subseteq req[c].categories \cap Offered
    /\ \A n \in notes[c] : n.category \in req[c].categories \cap Offered

CallInv(c) == Fresh(c) /\ Kept(c) /\ Asked(c)

LEMMA OtherCall ==
  ASSUME TypeOK, NEW c \in Calls, Receive(c) \/ Step(c), NEW d \in Calls \ {c}, CallInv(d)
  PROVE  CallInv(d)'
BY StepLocal DEF CallInv, Fresh, Kept, Asked

LEMMA OwnStep ==
  ASSUME TypeOK, NEW c \in Calls, Receive(c) \/ Step(c), CallInv(c)
  PROVE  CallInv(c)'
<1> USE DEF TypeOK, CallInv, Fresh, Kept, Asked, Goto, Answer, setup, running, result, history
<1>1. CASE Receive(c)
  BY <1>1 DEF Receive
<1>2. CASE Getwd(c)
  BY <1>2 DEF Getwd
<1>3. CASE ChdirFails(c)
  BY <1>3 DEF ChdirFails
<1>4. CASE Chdir(c)
  BY <1>4 DEF Chdir
<1>5. CASE StartAnalyzer(c)
  <2>1. Registered[at[c]] \in Offered
    BY <1>5 DEF StartAnalyzer, Offered
  <2> QED BY <1>5, <2>1, NoteTyped DEF StartAnalyzer
<1>6. CASE AnalyzeUnit(c)
  <2> DEFINE a == Registered[at[c]]
  <2>1. /\ pc[c] = "analyze" /\ answer'[c] = answer[c] /\ req'[c] = req[c]
        /\ a \in Offered \cap req[c].categories
    BY <1>6, UnitStep
  <2>2. PICK m \in SUBSET NoteType :
             /\ \A n \in m : n.category = a /\ n.dir = cwd
             /\ found' = [found EXCEPT ![c] = @ \cup m]
             /\ \/ /\ notes' = [notes EXCEPT ![c] =
                        @ \cup IF a \in AllOrNothing THEN {} ELSE mine[c] \cup m]
                   /\ failures' = [failures EXCEPT ![c] = @ \cup {a}]
                   /\ mine' = [mine EXCEPT ![c] = {}]
                   /\ pc' = [pc EXCEPT ![c] = "next"]
                \/ /\ mine' = [mine EXCEPT ![c] = @ \cup m]
                   /\ UNCHANGED <<pc, at, notes, failures>>
    <3> HIDE DEF TypeOK, CallInv, Fresh, Kept, Asked, Goto, Answer, setup, running, result, history
    <3> QED BY <1>6, UnitStep, Zenon
  <2> HIDE DEF a
  <2>4. Fresh(c)'
    BY <2>1, <2>2
  <2>5. Kept(c)'
    BY <2>1, <2>2 DEF a
  <2>6. Asked(c)'
    BY <2>1, <2>2 DEF a
  <2> QED BY <2>4, <2>5, <2>6
<1>7. CASE FinishAnalyzer(c)
  <2>1. Registered[at[c]] \in Offered \cap req[c].categories
    BY <1>7 DEF FinishAnalyzer, Offered
  <2> QED BY <1>7, <2>1 DEF FinishAnalyzer
<1>8. CASE Panic(c)
  BY <1>8 DEF Panic
<1>9. CASE AllRun(c)
  BY <1>9 DEF AllRun
<1>10. CASE Restore(c)
  BY <1>10 DEF Restore
<1> QED BY <1>1, <1>2, <1>3, <1>4, <1>5, <1>6, <1>7, <1>8, <1>9, <1>10 DEF Step

LEMMA CallsInit == Init => \A c \in Calls : CallInv(c)
BY DEF Init, CallInv, Fresh, Kept, Asked

LEMMA CallsStep ==
  ASSUME TypeOK, [Next]_vars, \A c \in Calls : CallInv(c)
  PROVE  \A c \in Calls : CallInv(c)'
<1> SUFFICES ASSUME NEW d \in Calls
             PROVE  CallInv(d)'
  OBVIOUS
<1>1. CASE UNCHANGED vars
  BY <1>1 DEF vars, setup, running, result, history, CallInv, Fresh, Kept, Asked
<1>2. ASSUME NEW c \in Calls, Receive(c) \/ Step(c)
      PROVE  CallInv(d)'
  BY <1>2, OtherCall, OwnStep
<1> QED BY <1>1, <1>2, CallStep

\* For every number of calls and every list of analyzers: what was found
\* before something failed reaches the caller.
THEOREM FindingsAreKept == Spec => []FindingsKept
<1>1. Init => TypeOK /\ \A c \in Calls : CallInv(c)
  BY InitType, CallsInit
<1>2. TypeOK /\ (\A c \in Calls : CallInv(c)) /\ [Next]_vars
        => TypeOK' /\ (\A c \in Calls : CallInv(c))'
  BY StepType, CallsStep
<1>3. (\A c \in Calls : CallInv(c)) => FindingsKept
  BY DEF FindingsKept, Responded, CallInv, Kept
<1> QED BY <1>1, <1>2, <1>3, PTL DEF Spec

\* For every number of calls and every list of analyzers: the response only
\* speaks of what was asked for, InternalFailure included.
THEOREM AnswersAreRequested == Spec => []AnswersRequested
<1>1. Init => TypeOK /\ \A c \in Calls : CallInv(c)
  BY InitType, CallsInit
<1>2. TypeOK /\ (\A c \in Calls : CallInv(c)) /\ [Next]_vars
        => TypeOK' /\ (\A c \in Calls : CallInv(c))'
  BY StepType, CallsStep
<1>3. (\A c \in Calls : CallInv(c)) => AnswersRequested
  BY DEF AnswersRequested, GetCategory, Responded, CallInv, Asked
<1> QED BY <1>1, <1>2, <1>3, PTL DEF Spec

(***************************************************************************)
(* The working directory, which the calls share.                           *)
(***************************************************************************)

\* Calls that are under way together know they are not alone.
Lone == \A c, d \in Active : c # d => c \in disturbed

\* A call nobody overlapped is alone with the working directory.
OwnDir(c) ==
  c \notin disturbed =>
    /\ pc[c] \in {"next", "analyze"} => cwd = req[c].root
    /\ \A n \in found[c] : n.dir = req[c].root

\* Until calls overlap, each one finds the process at home and remembers it.
WayHome ==
  disturbed = {} =>
    /\ Active = {} => cwd = Home
    /\ \A c \in Calls :
         /\ pc[c] \in {"getwd", "chdir"} => cwd = Home
         /\ pc[c] \in {"chdir", "next", "analyze", "restore"} => orgDir[c] = Home

\* A step of a call that has begun: the call is active, and no call becomes so.
LEMMA StepActive ==
  ASSUME TypeOK, NEW c \in Calls, Step(c)
  PROVE  c \in Active /\ Active' \subseteq Active /\ disturbed' = disturbed
<1> USE DEF TypeOK, Goto, Active, history
<1>1. /\ c \in Active /\ disturbed' = disturbed
  BY UnitStep DEF Step, Getwd, ChdirFails, Chdir, StartAnalyzer, AnalyzeUnit, FinishAnalyzer,
     Panic, AllRun, Restore
<1>2. \A d \in Calls \ {c} : pc'[d] = pc[d]
  BY StepLocal
<1> QED BY <1>1, <1>2

LEMMA LoneStep ==
  ASSUME TypeOK, [Next]_vars, Lone
  PROVE  Lone'
<1>1. CASE UNCHANGED vars
  BY <1>1 DEF vars, history, Lone, Active
<1>2. ASSUME NEW c \in Calls, Receive(c)
      PROVE  Lone'
  <2>1. Active' \subseteq Active \cup {c}
    BY <1>2 DEF Receive, Active, Goto, TypeOK
  <2> QED BY <1>2, <2>1 DEF Receive, Lone
<1>3. ASSUME NEW c \in Calls, Step(c)
      PROVE  Lone'
  BY <1>3, StepActive DEF Lone
<1> QED BY <1>1, <1>2, <1>3, CallStep

LEMMA OwnDirOwn ==
  ASSUME TypeOK, NEW c \in Calls, Receive(c) \/ Step(c), Fresh(c), OwnDir(c)
  PROVE  OwnDir(c)'
<1> USE DEF TypeOK, OwnDir, Goto, Answer, setup, running, result, history
<1>1. CASE Receive(c)
  BY <1>1 DEF Receive, Fresh
<1>2. CASE Getwd(c)
  BY <1>2 DEF Getwd
<1>3. CASE ChdirFails(c)
  BY <1>3 DEF ChdirFails
<1>4. CASE Chdir(c)
  BY <1>4 DEF Chdir
<1>5. CASE StartAnalyzer(c)
  <2>1. Registered[at[c]] \in Offered
    BY <1>5 DEF StartAnalyzer, Offered
  <2> QED BY <1>5, <2>1, NoteTyped DEF StartAnalyzer
<1>6. CASE AnalyzeUnit(c)
  <2>1. /\ pc[c] = "analyze" /\ UNCHANGED <<cwd, req, disturbed>>
    BY <1>6, UnitStep
  <2>2. PICK m \in SUBSET NoteType :
             /\ \A n \in m : n.dir = cwd
             /\ found' = [found EXCEPT ![c] = @ \cup m]
    <3> HIDE DEF TypeOK, OwnDir, Goto, Answer, setup, running, result, history
    <3> QED BY <1>6, UnitStep, Zenon
  <2> QED BY <2>1, <2>2
<1>7. CASE FinishAnalyzer(c)
  BY <1>7 DEF FinishAnalyzer
<1>8. CASE Panic(c)
  BY <1>8 DEF Panic
<1>9. CASE AllRun(c)
  BY <1>9 DEF AllRun
<1>10. CASE Restore(c)
  BY <1>10 DEF Restore
<1> QED BY <1>1, <1>2, <1>3, <1>4, <1>5, <1>6, <1>7, <1>8, <1>9, <1>10 DEF Step

LEMMA OwnDirStep ==
  ASSUME TypeOK, [Next]_vars, Lone, \A c \in Calls : CallInv(c), \A c \in Calls : OwnDir(c)
  PROVE  \A c \in Calls : OwnDir(c)'
<1> SUFFICES ASSUME NEW d \in Calls
             PROVE  OwnDir(d)'
  OBVIOUS
<1>1. CASE UNCHANGED vars
  BY <1>1 DEF vars, setup, history, OwnDir
<1>2. ASSUME NEW c \in Calls, Receive(c) \/ Step(c), c = d
      PROVE  OwnDir(d)'
  BY <1>2, OwnDirOwn DEF CallInv
<1>3. ASSUME NEW c \in Calls, Receive(c), c # d
      PROVE  OwnDir(d)'
  <2>1. cwd' = cwd /\ disturbed \subseteq disturbed'
    BY <1>3 DEF Receive, TypeOK
  <2> QED BY <1>3, <2>1, StepLocal DEF OwnDir
<1>4. ASSUME NEW c \in Calls, Step(c), c # d
      PROVE  OwnDir(d)'
  <2>1. pc[d] \in {"next", "analyze"} => d \in disturbed
    BY <1>4, StepActive DEF Lone, Active
  <2> QED BY <1>4, <2>1, StepActive, StepLocal DEF OwnDir
<1> QED BY <1>1, <1>2, <1>3, <1>4, CallStep

\* For every number of calls: one that was alone has only looked at files of
\* its own repository.
THEOREM OwnRepositoryOnly == Spec => []OwnRepository
<1> DEFINE Calm == Lone /\ (\A c \in Calls : CallInv(c)) /\ (\A c \in Calls : OwnDir(c))
<1>1. Init => TypeOK /\ Calm
  BY InitType, CallsInit DEF Init, Lone, Active, OwnDir
<1>2. TypeOK /\ Calm /\ [Next]_vars => TypeOK' /\ Calm'
  BY StepType, LoneStep, CallsStep, OwnDirStep
<1>3. Calm => OwnRepository
  BY DEF OwnRepository, OwnDir
<1> QED BY <1>1, <1>2, <1>3, PTL DEF Spec

LEMMA WayHomeStep ==
  ASSUME TypeOK, [Next]_vars, Lone, WayHome
  PROVE  WayHome'
<1> SUFFICES ASSUME disturbed' = {}
             PROVE  WayHome'
  BY DEF WayHome
<1>1. CASE UNCHANGED vars
  BY <1>1 DEF vars, setup, history, WayHome, Active
<1>2. ASSUME NEW c \in Calls, Receive(c)
      PROVE  WayHome'
  <2>1. Active = {} /\ disturbed = {}
    BY <1>2 DEF Receive
  <2>2. cwd' = Home /\ pc' = [pc EXCEPT ![c] = "getwd"]
    BY <1>2, <2>1 DEF Receive, WayHome, Goto
  <2>3. \A d \in Calls : pc[d] \in {"idle", "done"}
    BY <2>1 DEF Active
  <2> QED BY <2>2, <2>3 DEF WayHome, Active, TypeOK
<1>3. ASSUME NEW c \in Calls, Step(c)
      PROVE  WayHome'
  <2>1. disturbed = {} /\ c \in Active
    BY <1>3, StepActive
  <2>2. \A d \in Calls \ {c} : pc[d] \in {"idle", "done"} /\ pc'[d] = pc[d]
    BY <1>3, <2>1, StepLocal DEF Lone, Active
  <2>3. /\ Active' = {} => cwd' = Home
        /\ pc'[c] \in {"getwd", "chdir"} => cwd' = Home
        /\ pc'[c] \in {"chdir", "next", "analyze", "restore"} => orgDir'[c] = Home
    <3> USE <2>1 DEF WayHome, TypeOK, Goto, setup, Active
    <3>1. CASE Getwd(c)
      BY <3>1 DEF Getwd
    <3>2. CASE ChdirFails(c)
      BY <3>2 DEF ChdirFails
    <3>3. CASE Chdir(c)
      BY <3>3 DEF Chdir
    <3>4. CASE StartAnalyzer(c)
      BY <3>4 DEF StartAnalyzer
    <3>5. CASE AnalyzeUnit(c)
      <4>1. pc[c] = "analyze" /\ UNCHANGED <<cwd, orgDir>>
        BY <3>5, UnitStep
      <4>2. pc'[c] \in {"next", "analyze"}
        <5> HIDE DEF WayHome, TypeOK, Goto, setup, Active
        <5>1. pc' = [pc EXCEPT ![c] = "next"] \/ UNCHANGED pc
          BY <3>5, UnitStep, Zenon
        <5> QED BY <4>1, <5>1 DEF TypeOK
      <4> QED BY <4>1, <4>2
    <3>6. CASE FinishAnalyzer(c)
      BY <3>6 DEF FinishAnalyzer
    <3>7. CASE Panic(c)
      BY <3>7 DEF Panic
    <3>8. CASE AllRun(c)
      BY <3>8 DEF AllRun
    <3>9. CASE Restore(c)
      BY <3>9 DEF Restore
    <3> QED BY <1>3, <3>1, <3>2, <3>3, <3>4, <3>5, <3>6, <3>7, <3>8, <3>9 DEF Step
  <2> QED BY <2>2, <2>3 DEF WayHome
<1> QED BY <1>1, <1>2, <1>3, CallStep

\* For every number of calls: as long as none overlaps another, the process is
\* back home after each of them, the failed and panicked ones included.
THEOREM HomeIsRestored == Spec => []HomeRestored
<1>1. Init => TypeOK /\ Lone /\ WayHome
  BY InitType DEF Init, Lone, WayHome, Active
<1>2. TypeOK /\ Lone /\ WayHome /\ [Next]_vars => TypeOK' /\ Lone' /\ WayHome'
  BY StepType, LoneStep, WayHomeStep
<1>3. WayHome => HomeRestored
  BY DEF WayHome, HomeRestored
<1> QED BY <1>1, <1>2, <1>3, PTL DEF Spec

(***************************************************************************)
(* Nothing a call asked for is passed over in silence.                     *)
(***************************************************************************)

\* The projects AndroidLint owes the call.
Due(c) == {getProject(req[c].root, f) : f \in req[c].files \ mislaid[c]} \ {Nil}

\* An analyzer that owes the call nothing: it was not asked for, has failed, or
\* is one of the two exceptions.
Excused(c, a) ==
  \/ a \notin req[c].categories \/ a \in failures[c]
  \/ a = "PyLint" \/ (a = "AndroidLint" /\ c \in disturbed)

\* What the analyzer at position k should look at.
Owed(c, k) ==
  LET a == Registered[k]
  IN IF Excused(c, a) THEN {} ELSE {a} \X UnitsOf(a, req[c].files, Due(c))

\* Every position the loop has left behind has got what it is owed, the present
\* one but for the units still to do, and the loop ends behind the last one.
Covered(c) ==
  answer[c] # "error" /\ pc[c] \notin {"idle", "getwd", "chdir"} =>
    /\ \A k \in DOMAIN Registered : k < at[c] => Owed(c, k) \subseteq looked[c]
    /\ pc[c] = "analyze" =>
         Owed(c, at[c]) \subseteq looked[c] \cup ({Registered[at[c]]} \X todo[c])
    /\ pc[c] \in {"restore", "done"} => at[c] \notin DOMAIN Registered

\* Less is owed when more has failed, is mislaid or disturbed.
LEMMA OwedShrinks ==
  ASSUME NEW c, req'[c] = req[c], mislaid[c] \subseteq mislaid'[c],
         disturbed \subseteq disturbed', failures[c] \subseteq failures'[c], NEW k
  PROVE  Owed(c, k)' \subseteq Owed(c, k)
<1> DEFINE a == Registered[k]
<1>1. Due(c)' \subseteq Due(c)
  BY DEF Due
<1>2. UnitsOf(a, req[c].files, Due(c)') \subseteq UnitsOf(a, req[c].files, Due(c))
  BY <1>1, UnitsGrow
<1>3. Excused(c, a) => Excused(c, a)'
  BY DEF Excused
<1> QED BY <1>2, <1>3 DEF Owed

LEMMA CoveredOther ==
  ASSUME TypeOK, NEW c \in Calls, Receive(c) \/ Step(c), NEW d \in Calls \ {c}, Covered(d)
  PROVE  Covered(d)'
<1>1. /\ pc'[d] = pc[d] /\ at'[d] = at[d] /\ todo'[d] = todo[d] /\ answer'[d] = answer[d]
      /\ req'[d] = req[d] /\ mislaid'[d] = mislaid[d] /\ disturbed \subseteq disturbed'
      /\ failures'[d] = failures[d] /\ looked'[d] = looked[d]
  BY StepLocal
<1>2. \A k : Owed(d, k)' \subseteq Owed(d, k)
  BY <1>1, OwedShrinks
<1> QED BY <1>1, <1>2 DEF Covered

\* Advance passes over no position that was asked for.
LEMMA Passed ==
  ASSUME TypeOK, NEW c \in Calls, NEW i \in Nat, Advance(c, i), req'[c] = req[c],
         \A k \in DOMAIN Registered : k < i => Owed(c, k)' \subseteq looked'[c]
  PROVE  \A k \in DOMAIN Registered : k < at'[c] => Owed(c, k)' \subseteq looked'[c]
<1> SUFFICES ASSUME NEW k \in DOMAIN Registered, k < at'[c], ~(k < i)
             PROVE  Owed(c, k)' \subseteq looked'[c]
  OBVIOUS
<1>1. k \in Int /\ i <= k
  BY ServiceTyped
<1>2. Registered[k] \notin req'[c].categories
  BY <1>1, AdvanceType
<1> QED BY <1>2 DEF Owed, Excused

\* When AndroidLint starts for an undisturbed call, it has all the projects it
\* owes the call.
LEMMA StartAccounts ==
  ASSUME TypeOK, NEW c \in Calls, OwnDir(c), StartAnalyzer(c)
  PROVE  /\ Owed(c, at[c])' \subseteq {Registered[at[c]]} \X todo'[c]
         /\ mislaid[c] \subseteq mislaid'[c]
<1> DEFINE a == Registered[at[c]]
           files == req[c].files
<1>1. /\ pc[c] = "next" /\ UNCHANGED <<cwd, req, at, failures, looked, disturbed>>
      /\ files \in SUBSET Files
  <2>1. pc[c] = "next" /\ UNCHANGED <<cwd, req, at, failures, looked, disturbed>>
    BY DEF StartAnalyzer, setup, result
  <2>2. CASE req[c] \in Workload
    BY <2>1, <2>2, ServiceTyped
  <2>3. CASE req[c] = NoRequest
    BY <2>1, <2>3 DEF NoRequest
  <2> QED BY <2>1, <2>2, <2>3 DEF TypeOK
<1>2. PICK where \in Lookups(files, cwd) :
           /\ todo' = [todo EXCEPT ![c] = UnitsOf(a, files, getAndroidProjects(where))]
           /\ mislaid' = [mislaid EXCEPT ![c] = IF a = "AndroidLint"
                THEN @ \cup {f \in files : where[f] # getProject(cwd, f)} ELSE @]
  BY DEF StartAnalyzer
<1>3. /\ todo'[c] = UnitsOf(a, files, getAndroidProjects(where))
      /\ mislaid[c] \subseteq mislaid'[c]
      /\ a = "AndroidLint" => \A f \in files \ mislaid'[c] : where[f] = getProject(cwd, f)
  BY <1>2 DEF TypeOK
<1>4. ASSUME ~Excused(c, a)
      PROVE  UnitsOf(a, files, Due(c)') \subseteq todo'[c]
  <2>1. a = "AndroidLint" => cwd = req[c].root
    BY <1>1, <1>4 DEF OwnDir, Excused
  <2>2. a = "AndroidLint" => Due(c)' \subseteq getAndroidProjects(where)
    BY <1>1, <1>3, <2>1, ProjectsTyped DEF Due
  <2> QED BY <1>3, <2>2, UnitsGrow
<1>5. Excused(c, a)' <=> Excused(c, a)
  BY <1>1 DEF Excused
<1> QED BY <1>1, <1>3, <1>4, <1>5 DEF Owed

LEMMA CoveredOwn ==
  ASSUME TypeOK, NEW c \in Calls, Receive(c) \/ Step(c), OwnDir(c), Covered(c)
  PROVE  Covered(c)'
<1> USE DEF TypeOK, Goto, Answer, setup, running, result, history
<1>0. at[c] \in Nat /\ DOMAIN Registered = 1 .. Len(Registered) /\ Len(Registered) \in Nat
  BY ServiceTyped DEF Positions
<1>1. CASE Receive(c)
  BY <1>1 DEF Receive, Covered
<1>2. CASE Getwd(c)
  BY <1>2 DEF Getwd, Covered
<1>3. CASE ChdirFails(c)
  BY <1>3 DEF ChdirFails, Covered
<1>4. CASE Chdir(c)
  <2>1. Advance(c, 1) /\ req'[c] = req[c] /\ pc'[c] = "next"
    BY <1>4 DEF Chdir
  <2>2. \A k \in DOMAIN Registered : ~(k < 1)
    BY <1>0
  <2>3. \A k \in DOMAIN Registered : k < at'[c] => Owed(c, k)' \subseteq looked'[c]
    BY <2>1, <2>2, Passed
  <2> QED BY <2>1, <2>3 DEF Covered
<1>5. CASE StartAnalyzer(c)
  <2>1. /\ pc'[c] = "analyze" /\ pc[c] = "next"
        /\ UNCHANGED <<req, at, failures, answer, looked, disturbed>>
    BY <1>5 DEF StartAnalyzer
  <2>2. /\ Owed(c, at[c])' \subseteq {Registered[at[c]]} \X todo'[c]
        /\ mislaid[c] \subseteq mislaid'[c]
    BY <1>5, StartAccounts
  <2>3. \A k : Owed(c, k)' \subseteq Owed(c, k)
    BY <2>1, <2>2, OwedShrinks
  <2>4. Owed(c, at[c])' \subseteq looked'[c] \cup ({Registered[at'[c]]} \X todo'[c])
    BY <2>1, <2>2
  <2> HIDE DEF TypeOK
  <2> QED BY <2>1, <2>3, <2>4 DEF Covered
<1>6. CASE AnalyzeUnit(c)
  <2> DEFINE a == Registered[at[c]]
  <2>1. /\ pc[c] = "analyze" /\ UNCHANGED <<req, answer, mislaid, disturbed>>
        /\ a \in Offered \cap req[c].categories
    BY <1>6, UnitStep
  <2>2. PICK u \in todo[c], seen \in Outcomes(a) :
             /\ looked' = [looked EXCEPT ![c] = IF seen.complete THEN @ \cup {<<a, u>>} ELSE @]
             /\ \/ /\ seen.error
                   /\ failures' = [failures EXCEPT ![c] = @ \cup {a}]
                   /\ Advance(c, at[c] + 1)
                   /\ pc' = [pc EXCEPT ![c] = "next"]
                \/ /\ ~seen.error
                   /\ todo' = [todo EXCEPT ![c] = @ \ {u}]
                   /\ UNCHANGED <<pc, at, failures>>
    <3> HIDE DEF TypeOK, Goto, Answer, setup, running, result, history
    <3> QED BY <1>6, UnitStep, Zenon
  <2> SUFFICES ASSUME answer[c] # "error"
               PROVE  Covered(c)'
    BY <2>1 DEF Covered
  <2>3. /\ \A k \in DOMAIN Registered : k < at[c] => Owed(c, k) \subseteq looked[c]
        /\ Owed(c, at[c]) \subseteq looked[c] \cup ({a} \X todo[c])
    BY <2>1 DEF Covered
  <2>4. looked[c] \subseteq looked'[c] /\ failures[c] \subseteq failures'[c]
    BY <2>2
  <2>5. \A k : Owed(c, k)' \subseteq Owed(c, k)
    BY <2>1, <2>4, OwedShrinks
  <2>6. \A k \in DOMAIN Registered : k < at[c] => Owed(c, k)' \subseteq looked'[c]
    BY <2>3, <2>4, <2>5
  <2>7. CASE seen.error
    <3>1. Advance(c, at[c] + 1) /\ a \in failures'[c] /\ pc'[c] = "next"
      BY <2>2, <2>7
    <3>2. \A k \in DOMAIN Registered : k = at[c] => Owed(c, k)' \subseteq looked'[c]
      BY <3>1 DEF Owed, Excused
    <3>3. \A k \in DOMAIN Registered : k < at[c] + 1 => Owed(c, k)' \subseteq looked'[c]
      BY <1>0, <2>6, <3>2
    <3>4. \A k \in DOMAIN Registered : k < at'[c] => Owed(c, k)' \subseteq looked'[c]
      BY <1>0, <2>1, <3>1, <3>3, Passed
    <3> QED BY <3>1, <3>4 DEF Covered
  <2>8. CASE ~seen.error
    <3>1. todo'[c] = todo[c] \ {u} /\ UNCHANGED <<pc, at, failures>>
      BY <2>2, <2>8
    <3>2. a # "PyLint" => <<a, u>> \in looked'[c]
      BY <2>2, <2>8, LookedAtOrFailed
    <3>3. a = "PyLint" => Owed(c, at[c])' = {}
      BY <3>1 DEF Owed, Excused
    <3>4. Owed(c, at[c])' \subseteq looked'[c] \cup ({a} \X todo'[c])
      BY <2>3, <2>4, <2>5, <3>1, <3>2, <3>3
    <3> QED BY <2>1, <2>6, <3>1, <3>4 DEF Covered
  <2> QED BY <2>7, <2>8
<1>7. CASE FinishAnalyzer(c)
  <2>1. /\ pc[c] = "analyze" /\ todo[c] = {} /\ pc'[c] = "next" /\ Advance(c, at[c] + 1)
        /\ UNCHANGED <<req, failures, answer, looked, mislaid, disturbed>>
    BY <1>7 DEF FinishAnalyzer
  <2> SUFFICES ASSUME answer[c] # "error"
               PROVE  Covered(c)'
    BY <2>1 DEF Covered
  <2>2. /\ \A k \in DOMAIN Registered : k < at[c] => Owed(c, k) \subseteq looked[c]
        /\ Owed(c, at[c]) \subseteq looked[c]
    BY <2>1 DEF Covered
  <2>3. \A k : Owed(c, k)' \subseteq Owed(c, k)
    BY <2>1, OwedShrinks
  <2>4. \A k \in DOMAIN Registered : k < at[c] + 1 => Owed(c, k)' \subseteq looked'[c]
    BY <1>0, <2>1, <2>2, <2>3
  <2>5. \A k \in DOMAIN Registered : k < at'[c] => Owed(c, k)' \subseteq looked'[c]
    <3>1. at[c] + 1 \in Nat /\ req'[c] = req[c]
      BY <1>0, <2>1
    <3> HIDE DEF TypeOK
    <3> QED BY <2>1, <2>4, <3>1, Passed
  <2> QED BY <2>1, <2>5 DEF Covered
<1>8. CASE Panic(c)
  BY <1>8 DEF Panic, Covered
<1>9. CASE AllRun(c) \/ Restore(c)
  <2>1. \A k : Owed(c, k)' \subseteq Owed(c, k)
    BY <1>9, OwedShrinks DEF AllRun, Restore
  <2>2. /\ UNCHANGED <<at, looked>> /\ pc'[c] \in {"restore", "done"}
        /\ pc[c] \in {"next", "restore"}
        /\ answer'[c] # "error" => answer[c] # "error"
        /\ pc[c] = "next" => at[c] \notin DOMAIN Registered
    BY <1>9 DEF AllRun, Restore
  <2> HIDE DEF TypeOK
  <2> QED BY <2>1, <2>2 DEF Covered
<1> QED BY <1>1, <1>2, <1>3, <1>4, <1>5, <1>6, <1>7, <1>8, <1>9 DEF Step

LEMMA CoveredStep ==
  ASSUME TypeOK, [Next]_vars, \A c \in Calls : OwnDir(c), \A c \in Calls : Covered(c)
  PROVE  \A c \in Calls : Covered(c)'
<1> SUFFICES ASSUME NEW d \in Calls
             PROVE  Covered(d)'
  OBVIOUS
<1>1. CASE UNCHANGED vars
  <2>1. \A k : Owed(d, k)' = Owed(d, k)
    BY <1>1 DEF vars, setup, result, history, Owed, Excused, Due
  <2> QED BY <1>1, <2>1 DEF vars, setup, running, result, history, Covered
<1>2. ASSUME NEW c \in Calls, Receive(c) \/ Step(c)
      PROVE  Covered(d)'
  BY <1>2, CoveredOther, CoveredOwn
<1> QED BY <1>1, <1>2, CallStep

\* For every number of calls, every list of analyzers and every layout of the
\* repositories: all that a requested analyzer should look at was looked at, or
\* its category has failed, but for a pylint that gives up, files AndroidLint
\* cannot find and its part in calls that overlap (dispatcher.go, 88-131;
\* androidlint/analyzer.go, 55-168).
THEOREM NothingIsSkipped == Spec => []NothingSkipped
<1> DEFINE Calm == Lone /\ (\A c \in Calls : CallInv(c)) /\ (\A c \in Calls : OwnDir(c))
           All == \A c \in Calls : Covered(c)
<1>1. Init => TypeOK /\ Calm /\ All
  BY InitType, CallsInit DEF Init, Lone, Active, OwnDir, Covered
<1>2. TypeOK /\ Calm /\ All /\ [Next]_vars => TypeOK' /\ Calm' /\ All'
  BY StepType, LoneStep, CallsStep, OwnDirStep, CoveredStep
<1>3. TypeOK /\ All => NothingSkipped
  <2> SUFFICES ASSUME TypeOK, All, NEW c \in Calls, Responded(c),
                      NEW a \in Offered \ {"PyLint"}, a = "AndroidLint" => c \notin disturbed,
                      a \in req[c].categories, a \notin failures[c]
               PROVE  {a} \X UnitsOf(a, req[c].files, Due(c)) \subseteq looked[c]
    BY DEF NothingSkipped, AccountedFor, Due
  <2>1. PICK k \in DOMAIN Registered : a = Registered[k]
    BY DEF Offered
  <2>2. at[c] \notin DOMAIN Registered
    BY DEF Covered, Responded
  <2>3. k < at[c]
    BY <2>2, ServiceTyped DEF TypeOK, Positions
  <2>4. Owed(c, k) \subseteq looked[c]
    BY <2>3 DEF Covered, Responded
  <2>5. ~Excused(c, a)
    BY DEF Excused
  <2> QED BY <2>1, <2>4, <2>5 DEF Owed
<1> QED BY <1>1, <1>2, <1>3, PTL DEF Spec
=============================================================================
