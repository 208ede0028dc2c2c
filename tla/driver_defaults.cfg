\* A default category one run misses is gone for the next.
CONSTANTS
  Requests = {r1, r2}
  Analyzers = {"a1", "a2"}
  Roots = {"app", "lib", "bad"}
  BadRoots = {"void"}
  Home = "home"
  Files = {"main", "made"}
  Prefixes = {"gen"}
  Images = {}
  Categories <- MCCategories
  EventNames <- MCEventNames
  DefaultCategories <- MCDefaults
  Offers <- MCOffers
  StageOf <- MCStageOf
  ConfigAt <- MCConfigAt
  FilesAt <- MCFilesAt
  Under <- MCUnder
  Workload <- DefaultWorkload
  Replies <- OneReply
  Overlap = FALSE
SPECIFICATION Spec
SYMMETRY Symmetry
INVARIANT DefaultsAccounted
