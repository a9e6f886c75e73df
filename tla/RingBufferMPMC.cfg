\* Two writers and two readers around one slot, blocking mode.
CONSTANTS
    Writers = {w1, w2}
    Readers = {r1, r2}
    NoThread = none
    Size = 2
    Blocking = TRUE
    Word = 16
    Values = {a}
    Null = null
    WriterCalls <- LockedPaths
    ReaderCalls <- LockedOnes
SPECIFICATION BusySpec
INVARIANTS SideExclusion NoLostWakeup TryNeverWaits
PROPERTY DataFlows
