\* A service that waits for two analyzers, and a command line that waits for it.
CONSTANTS
  Analyzers = {"a1", "a2"}
  List <- ListOfTwo
  Handler <- MCHandler
  AsService = {TRUE, FALSE}
  Timeout = 30
  CliTimeout = 10
  MaxInterval = 10
  MaxCall = 1
  LatestStart = 14
  Horizon = 63
  Nil = nil
SPECIFICATION FairSpec
INVARIANTS
  ReturnsInTime
  FoundInFirstHalf
  CliFindsService
  CachedUnlessRaced
PROPERTY Starts
