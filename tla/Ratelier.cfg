SPECIFICATION FairSpec
CONSTANTS
    Workers = {w1, w2}
    Scattering = scattering
    Gathering = gathering
    NoThread = nobody
    ScatterSize = 2
    GatherSize = 2
    IndexSize = 6
    Total = 7
    NoObject = none
INVARIANTS
    TypeOK
    NothingRaised
    RoomCanBeMade
    NoIdleWorker
PROPERTIES
    PipeSpec
    Delivered
CHECK_DEADLOCK FALSE
