\* Two writers and two readers, single values and pairs in chunks, polling mode.
CONSTANTS
    Writers = {w1, w2}
    Readers = {r1, r2}
    NoThread = none
    Size = 3
    Blocking = FALSE
    Word = 16
    Values = {a, b}
    Null = null
    WriterCalls <- MixedWrites
    ReaderCalls <- MixedReads
SPECIFICATION Spec
PROPERTY ImplementsFIFO
SYMMETRY Symmetry
