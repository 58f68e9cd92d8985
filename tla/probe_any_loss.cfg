SPECIFICATION FairSpec
CONSTANTS
    Travel = 4
    Short = 1
    Refresh = 4
    ErrorLift = 1
    Blocks = 2
    PresBlocks = 2
    ProCnt = 3
    Beds <- MCBeds
    MaxLost = 2
    MaxFalse = 1
INVARIANT StopsWithinAStep
INVARIANT ReturnsToStart
INVARIANT RepairedIsWhole
PROPERTY MeasuredIsTrue
PROPERTY ProbeEnds
CHECK_DEADLOCK FALSE
