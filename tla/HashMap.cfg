CONSTANTS
    Keys <- KeyNames
    Data = {x, y}
    Missing = missing
    Free = free
    HashFunctions <- Crowds
    InitialSize = 4
    MaxChain = 2
    MaxTable = 32
    FailDepths <- AnyDepth
    MaxCalls = 1
    Usages = {"removing", "overwriting"}
SPECIFICATION FairSpec
INVARIANTS GetFindsAll IterateVisitsEachOnce SizeIsLoad
PROPERTIES ImplementsMap PutReturns
