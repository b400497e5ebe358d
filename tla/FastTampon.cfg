SPECIFICATION FairSpec
CONSTANTS
    Feeder = feeder
    Fetcher = fetcher
    Threads = {feeder, fetcher}
    NoThread = nobody
    Instances = {0, 1}
    N = 4
    Sizes = {0, 1}
INVARIANTS
    Inv
    NoSharedBlock
    NoLostWakeup
    NoBug
PROPERTIES
    PipeSpec
    SuspendedServed
    ReturnsEnd
