SPECIFICATION FairSpec
CONSTANTS
    Threads = {t1, t2, t3}
    NoThread = nobody
    Instances = {0}
    Bound = 3
INVARIANTS
    TypeOK
    SleepersAreOwed
PROPERTIES
    PermitSpec
    WokenReturns
    ResetEnds
CHECK_DEADLOCK FALSE
