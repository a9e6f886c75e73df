\* Two threads, three days of which two have the same number, restarts.
CONSTANTS
    Threads = {t1, t2}
    Days <- ThreeDays
    UserFiles = {u}
    NULL = null
    LevelsSet = {2, 4}
    LevelsLogged = {2, 5}
    MaxOpen = 3
    MaxMessages = 2
SPECIFICATION Spec
INVARIANTS NothingLost OwnDay ChoiceLasts NullOnlyWithoutFile
SYMMETRY Symmetry
