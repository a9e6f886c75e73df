CONSTANTS
    Keys <- KeyNames
    Data = {x, y}
    Missing = missing
    Free = free
    HashFunctions <- Crowds
    InitialSize = 4
    MaxChain = 2
    MaxTable = 32
    FailDepths <- Outermost
    MaxCalls = 1
    Usages = {"both"}
SPECIFICATION Spec
PROPERTY RemoveRemoves
