SPECIFICATION PageSpec
CONSTANTS
    high = high
    Sizes <- MCSizes
    FirstSize = high
    Away = Away
    Between = Between
    Steps = 0
    MaxMoves = 3
    MaxQueued = 1
    MaxLoads = 2
VIEW PageView
INVARIANTS ShownAsPrepared KeysFollowWindow
PROPERTIES ShownWhenReady ShieldHolds
\* The user asks for nothing more at the bound, and the page may be gone.
CHECK_DEADLOCK FALSE
