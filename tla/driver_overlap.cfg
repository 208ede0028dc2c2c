\* Two clients whose calls overlap.
CONSTANTS
  Requests = {r1, r2}
  Analyzers = {"a1", "a2"}
  Roots = {"app", "lib", "bad"}
  BadRoots = {"void"}
  Home = "home"
  Files = {"main", "made"}
  Prefixes = {"gen"}
  Images = {}
  Categories <- MCCategories
  EventNames <- MCEventNames
  DefaultCategories <- MCDefaults
  Offers <- MCOffers
  StageOf <- MCStageOf
  ConfigAt <- MCConfigAt
  FilesAt <- MCFilesAt
  Under <- MCUnder
  Workload <- OverlapWorkload
  Replies <- OneReply
  Overlap = TRUE
SPECIFICATION FairSpec
INVARIANTS
  ExplicitAccounted
  EveryCallAnswered
  NoSilentLoss
PROPERTY Responds
