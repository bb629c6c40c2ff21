SPECIFICATION Spec
CONSTANTS
    MaxProcs = 2
    MaxEvents = 1
INVARIANTS OldIsGoneFirst
CHECK_DEADLOCK FALSE
