SPECIFICATION FairSpec
CONSTANTS
    Workers = {w1, w2}
    Scattering = scattering
    Gathering = gathering
    NoThread = nobody
    ScatterSize = 1
    GatherSize = 1
    IndexSize = 5
    Total = 6
    NoObject = none
PROPERTIES
    Delivered
CHECK_DEADLOCK FALSE
