SPECIFICATION FairSpec
CONSTANTS
    Threads = {t1, t2, t3, t4}
    NoThread = nobody
    Creator = t1
    MaxValue = 2
PROPERTIES
    PermitServes
