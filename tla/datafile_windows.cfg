SPECIFICATION Spec
CONSTANTS
    s0 = s0
    s1 = s1
    s2 = s2
    harm1 = harm1
    harm2 = harm2
    Snapshots <- MCSnapshots
    EmptyStore <- s0
    Harmed <- MCHarmed
    Torn = Torn
    None = None
    Posix = FALSE
PROPERTIES KeepsContract
\* Both files harmed: the program stops with an error dialog and starts no more.
CHECK_DEADLOCK FALSE
