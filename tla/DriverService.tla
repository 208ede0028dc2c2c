---------------------------- MODULE DriverService ----------------------------
(***************************************************************************)
(* The driver as an AnalysisService: what its clients see of it.           *)
(***************************************************************************)
EXTENDS Driver

Visible(r) == pc[r] # "idle" /\ req[r].kind = "run"

phaseOf(r) ==
  CASE ~Visible(r)                                        -> "idle"
    [] Visible(r) /\ pc[r] = "panicked"                   -> "refused"
    [] Visible(r) /\ pc[r] = "done"                       -> "answered"
    [] Visible(r) /\ pc[r] \notin {"done", "panicked"}    -> "running"

requestOf(r) == IF Visible(r) THEN req[r] ELSE NoRequest

NotedFiles(r) ==
  {f \in Files \cup {"no location"} : \E x \in ars[r] : \E n \in x.notes : n.path = f}

answerOf(r) ==
  IF phaseOf(r) = "answered"
  THEN [missing |-> Reported(r),
        ran     |-> UNION {called[r][a] : a \in Analyzers},
        about   |-> NotedFiles(r)]
  ELSE [missing |-> {}, ran |-> {}, about |-> {}]

Service == INSTANCE AnalysisService WITH
  up      <- alive,
  phase   <- [r \in Requests |-> phaseOf(r)],
  request <- [r \in Requests |-> requestOf(r)],
  answer  <- [r \in Requests |-> answerOf(r)]

\* Calls that do not overlap are answered as if each had the process to
\* itself: from its own configuration, with every category it names run or
\* reported (driver.go, Run as a whole).
ImplementsService == Service!Spec
=============================================================================
