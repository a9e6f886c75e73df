\* Both types of timer, followed by their callers from time 1 to time 6.
CONSTANTS
    Elems = {e1, e2, e3}
    NoElem = none
    Types <- QueueAndWheel
    WheelSize = 3
    Word = 7
    IntHalf = 3
    Timeouts = {0, 2, 4, 6}
    MaxCbTimes <- Plenty
    Rearming <- QueueOnly
SPECIFICATION FairSpec
INVARIANTS TypeOK RotationExact
PROPERTIES ImplementsAlarms CheckReturns
