SPECIFICATION FairSpec
CONSTANTS
    Threads = {t1, t2, t3}
    NoThread = nobody
    Instances = {0}
    Rounds = 2
    WordSize = 4
INVARIANTS
    CountIsExactUntilOverlap
    SoundRoundsAligned
PROPERTIES
    AllGoThrough
CHECK_DEADLOCK FALSE
