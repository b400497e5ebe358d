SPECIFICATION FairSignalSpec
CONSTANTS
    Callers = {c1, c2}
    Owners = {c1}
    NoThread = nobody
    MaxRuns = 2
    MaxStacks = 0
    StackAnyTime = FALSE
    MemoryShort = FALSE
    Signals = {usr2, chld, kill}
    DefaultSignal = usr2
    Forbidden = {chld, kill}
    Uncatchable = {kill}
    Masks = {{chld}}
    Aftermath = FALSE
INVARIANTS
    SignalTypeOK
    RunningIsExact
    NoWorkerForgotten
    DestroyedIsQuiet
    TerminatedOnlyIfExposed
PROPERTIES
    FoundIsNotJoined
    CancelServes
    DestructorEnds
CHECK_DEADLOCK FALSE
