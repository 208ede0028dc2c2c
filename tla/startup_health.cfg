\* Whether the service knows the health of every analyzer when it starts.
CONSTANTS
  Analyzers = {"a1", "a2"}
  List <- MCList
  Handler <- MCHandler
  AsService = {TRUE, FALSE}
  Timeout = 14
  CliTimeout = 13
  MaxInterval = 10
  MaxCall = 1
  LatestStart = 14
  Horizon = 31
  Nil = nil
SPECIFICATION Spec
INVARIANT EveryHealthReported
