\* Every request, well-formed or not.
CONSTANTS
  MaxResults = 3
  Workload <- Request
SPECIFICATION FairSpec
CHECK_DEADLOCK FALSE
INVARIANTS
  TypeOK
  CleanEnd
  NoFalseAlarm
  OneEnd
PROPERTIES
  ImplementsStream
  CallerReturns
  SendsComplete
