CONSTANTS
    Elems = {e1, e2}
    NoElem = none
    Types <- WheelOnly
    WheelSize = 3
    Word = 8
    IntHalf = 4
    Timeouts = {0, 1, 2, 3}
    MaxCbTimes <- Plenty
    Rearming <- WheelOnly
SPECIFICATION Spec
PROPERTY NeverEarly
