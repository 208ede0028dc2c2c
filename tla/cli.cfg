\* Two invocations that may overlap, one of them killed or a container lost.
CONSTANTS
  ThirdParty = {"lint", "androidlint"}
  Ids = {0}
  Dirs = {"/a", "/a/b", "/ab"}
  Inside <- MCInside
  Prefixed <- MCPrefixed
  SuffixOf <- MCSuffixOf
  Released = {"service"}
  Invocations = {i1, i2}
  Workload <- MCWorkload
  MaxFaults = 1
  Nil = nil
  Absent = absent
SPECIFICATION FairSpec
INVARIANTS
  TypeOK
  ServedAsAsked
  LinkedAsStarted
  NamesFree
  CleanedUp
PROPERTY Ends
