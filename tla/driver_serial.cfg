\* Two calls, one after the other.
CONSTANTS
  Requests = {r1, r2}
  Analyzers = {"a1", "a2", "a3"}
  Roots = {"app", "lib", "bad"}
  BadRoots = {"void"}
  Home = "home"
  Files = {"main", "made"}
  Prefixes = {"gen"}
  Images = {}
  Categories <- MCCategories
  EventNames <- MCEventNames
  DefaultCategories <- MCDefaults
  Offers <- SerialOffers
  StageOf <- MixedStageOf
  ConfigAt <- MCConfigAt
  FilesAt <- MCFilesAt
  Under <- MCUnder
  Workload <- SerialWorkload
  Replies <- MCReplies
  Overlap = FALSE
SPECIFICATION Spec
SYMMETRY Symmetry
INVARIANTS
  TypeOK
  OwnConfig
  CwdRestored
  NotesOnOwnFiles
PROPERTY ImplementsService
