SPECIFICATION Spec
CONSTANTS
    Callers = {c1, c2}
    Owners = {c1}
    NoThread = nobody
    MaxRuns = 2
    MaxStacks = 2
    StackAnyTime = TRUE
    MemoryShort = FALSE
INVARIANTS
    StackOutlivesWorker
CHECK_DEADLOCK FALSE
