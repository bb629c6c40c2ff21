SPECIFICATION Spec
CONSTANTS
    MaxProcs = 3
    MaxEvents = 2
INVARIANTS OneInstance ProfileIsHandedOver
PROPERTIES RequestIsSeen ShutdownEnds RestartComesBack
CHECK_DEADLOCK FALSE
