SPECIFICATION FairSpec
CONSTANTS
    TableSize = 4
    Total = 5
INVARIANTS
    TypeOK
    Preserved
    FetchedIsNext
    NoSharedBlock
    RaisedOnlyIfExposed
PROPERTIES
    GatesOpen
CHECK_DEADLOCK FALSE
