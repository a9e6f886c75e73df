\* Two captures decoded into one packet with room for three layers.
CONSTANTS
    MAX_LAYERS = 3
    MAX_TCPOPTLEN = 8
    Word = 16777216
    Captures <- TwoUses
    Contents <- Everything
    Heap = {0, 3}
SPECIFICATION FairSpec
INVARIANTS TypeOK HeadersInside PayloadIsRest AccessorsReadTcp
    FragmentsStop OptionsFit
PROPERTIES DecodeReturns ImplementsHeaderChain
CHECK_DEADLOCK FALSE
