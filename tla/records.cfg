SPECIFICATION FairSpec
CHECK_DEADLOCK FALSE
CONSTANTS
    Base = 2
    RecordSet <- MCRecordSet
    MaxPuts = 3
INVARIANTS
    Intact
    NothingLost
    ShortReported
PROPERTY
    ReaderEnds
