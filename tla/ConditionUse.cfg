SPECIFICATION Spec
CONSTANTS
    Threads = {t1, t2, t3}
    NoThread = nobody
    Instances = {0, 1}
INVARIANTS
    CounterInv
