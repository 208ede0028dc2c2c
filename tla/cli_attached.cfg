\* Whether the service has the analyzers that were started for it.
CONSTANTS
  ThirdParty = {"lint", "androidlint"}
  Ids = {0, 1}
  Dirs = {"/a", "/a/b", "/ab"}
  Inside <- MCInside
  Prefixed <- MCPrefixed
  SuffixOf <- MCSuffixOf
  Released = {"service"}
  Invocations = {i1}
  Workload <- TwoAnalyzers
  MaxFaults = 0
  Nil = nil
  Absent = absent
SPECIFICATION Spec
INVARIANT AnalyzersAttached
