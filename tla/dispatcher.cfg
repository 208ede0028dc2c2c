\* Two calls that may overlap.
CONSTANTS
  Files = {"main", "tool", "page"}
  Projects = {"app", "suite"}
  Ext <- MCExt
  ProjectsAbove <- MCProjectsAbove
  Nil = "nil"
  Calls = {c1, c2}
  Registered <- MCRegistered
  Panicky = {"AndroidLint"}
  Roots = {"r1", "r2"}
  BadRoots = {"gone"}
  Home = "home"
  Workload <- MCWorkload
SPECIFICATION FairSpec
INVARIANTS
  TypeOK
  OwnRepository
  HomeRestored
  NothingSkipped
  FindingsKept
  AnswersRequested
PROPERTY Responds
