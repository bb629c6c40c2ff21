SPECIFICATION Spec
CONSTANTS
    n = n
    o = o
    Combos <- MCCombos
    Default = n
    Empty = Empty
    Off = Off
    Backups <- MCBackups
    MaxChanges = 2
    MaxFaults = 2
INVARIANTS KeyInStep
\* The user changes nothing more at the bound.
CHECK_DEADLOCK FALSE
