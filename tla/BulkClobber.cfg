CONSTANTS
    Writers = {w1}
    Readers = {r1}
    NoThread = none
    Size = 4
    Blocking = FALSE
    Word = 16
    Values = {a}
    Null = null
    WriterCalls <- Quadruples
    ReaderCalls <- UnlockedOnes
SPECIFICATION Spec
INVARIANT BulkKeepsOldValues
