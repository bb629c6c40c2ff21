SPECIFICATION Spec
CONSTANTS
    low = low
    high = high
    Sizes <- MCSizes
    FirstSize = low
    Away = Away
    Between = Between
    Steps = 2
    MaxMoves = 3
    MaxQueued = 1
INVARIANTS RestsInCorner
