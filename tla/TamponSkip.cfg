SPECIFICATION Spec
CONSTANTS
    TableSize = 3
    Total = 3
INVARIANTS
    PutBackIsPreserved
CHECK_DEADLOCK FALSE
