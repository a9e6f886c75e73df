CONSTANTS
    Writers = {w1}
    Readers = {r1}
    NoThread = none
    Size = 3
    Blocking = TRUE
    Word = 16
    Values = {a}
    Null = null
    WriterCalls <- LivePaths
    ReaderCalls <- LivePaths
SPECIFICATION HistorySpec
PROPERTY EveryCallReturns
INVARIANTS RefusalJustified IndInv SlotOwnership
