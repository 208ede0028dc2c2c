--------------------------- MODULE AnalysisService ---------------------------
(***************************************************************************)
(* What a client of the Shipshape service is promised, request by request, *)
(* with no process-wide state at all: an accepted run is answered once,    *)
(* from its own repository's configuration, or the service goes down.      *)
(* Driver implements this when calls do not overlap (DriverService).       *)
(***************************************************************************)
EXTENDS Config

CONSTANTS
  Requests,          \* identities of the calls
  Analyzers,         \* the analyzer services
  Roots,             \* repository roots that can be entered
  Files,             \* source files
  DefaultCategories, \* what runs when nothing is asked for
  Offers,            \* the categories each analyzer implements
  StageOf,           \* the stage each analyzer declares
  ConfigAt,          \* the configuration file of each repository
  FilesAt,           \* the files of each repository
  Under,             \* the files under each prefix
  Workload,          \* the requests clients send
  NoRequest,         \* no request yet
  Unset(_)           \* whether a field of a request is not set

VARIABLES
  up,       \* whether the service runs
  phase,    \* of each call: "idle", "running", "answered" or "refused"
  request,  \* what each client asked
  answer    \* what it was told

vars == <<up, phase, request, answer>>

\* The categories reported as missing (with "Driver setup" when the
\* repository or its configuration cannot be used), the categories some
\* analyzer was asked to run, and the files the notes are about.
Answer == [missing : SUBSET (Categories \cup {"Driver setup"}),
           ran     : SUBSET Categories,
           about   : SUBSET Files]

NoAnswer == [missing |-> {}, ran |-> {}, about |-> {}]

-----------------------------------------------------------------------------

OwnConfig(q) == loadConfig(ConfigAt[q.root], q.event)

\* The repository or its configuration is unusable.
Unusable(q) == q.root \notin Roots \/ OwnConfig(q).status = "error"

Named(q) == IF q.triggered # {} THEN q.triggered ELSE OwnConfig(q).categories

\* The repository's configuration does not know the event.
UnknownEvent(q) ==
  Named(q) = {} /\ OwnConfig(q).status = "ok" /\ q.event # "manual"

OwnFiles(q) ==
  (IF q.files = {} THEN FilesAt[q.root] ELSE q.files)
    \ UNION {Under[p] : p \in OwnConfig(q).ignore}

\* c may be passed over silently: nothing is run at all, or an analyzer of
\* another stage has it too.
Excused(q, c) ==
  \/ OwnFiles(q) = {} \/ q.stage # "PRE_BUILD"
  \/ \E a \in Analyzers : c \in Offers[a] /\ StageOf[a] # "PRE_BUILD"

\* Every category asked for is run or reported as missing, nothing else is,
\* and the notes stay within the files of the run.
Promise(q, x) ==
  IF Unusable(q) THEN x = [NoAnswer EXCEPT !.missing = {"Driver setup"}]
  ELSE IF UnknownEvent(q) THEN x = NoAnswer
  ELSE /\ x.about \subseteq OwnFiles(q)
       /\ x.ran \cup x.missing \subseteq
            (IF Named(q) = {} THEN DefaultCategories ELSE Named(q))
       /\ x.ran \cap x.missing = {}
       /\ \A c \in Named(q) : c \in x.ran \cup x.missing \/ Excused(q, c)

-----------------------------------------------------------------------------

Init ==
  /\ up = TRUE
  /\ phase = [r \in Requests |-> "idle"]
  /\ request = [r \in Requests |-> NoRequest]
  /\ answer = [r \in Requests |-> NoAnswer]

\* An incomplete request is refused: the client sees an error of the call.
Accept(r) ==
  /\ up /\ phase[r] = "idle"
  /\ \E q \in Workload :
       /\ q.kind = "run"
       /\ request' = [request EXCEPT ![r] = q]
       /\ phase' = [phase EXCEPT ![r] = IF Unset(q) THEN "refused" ELSE "running"]
  /\ UNCHANGED <<up, answer>>

Respond(r) ==
  /\ up /\ phase[r] = "running"
  /\ phase' = [phase EXCEPT ![r] = "answered"]
  /\ \E x \in Answer :
       /\ answer' = [answer EXCEPT ![r] = x]
       /\ Promise(request[r], x)
  /\ UNCHANGED <<up, request>>

GoDown == up /\ up' = FALSE /\ UNCHANGED <<phase, request, answer>>

Next == (\E r \in Requests : Accept(r) \/ Respond(r)) \/ GoDown

Spec == Init /\ [][Next]_vars
=============================================================================
