SPECIFICATION ToggleSpec
CONSTANTS
    low = low
    high = high
    Sizes <- MCSizes
    FirstSize = low
    Away = Away
    Between = Between
    Steps = 1
    MaxMoves = 3
    MaxSwitches = 2
    MaxQueued = 1
INVARIANTS ParkedIsAway EndsInCorner
PROPERTIES HideEnds PendingIsShown ClickIsMeant
