SPECIFICATION PageSpec
CONSTANTS
    a = a
    b = b
    Labels <- MCLabels
    MaxIds = 3
    MaxMenus = 2
    MaxUnderway = 2
    MaxActs = 3
    MaxFaults = 1
SYMMETRY MCSymmetry
CHECK_DEADLOCK FALSE
INVARIANTS MirrorAgrees MenuIsAwaited PickIsItsOwn
PROPERTIES ClickMeansPress
