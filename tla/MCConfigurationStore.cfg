CONSTANTS
    MaxVersion = 3
    MaxOperations = 4
    MaxCuts = 3
    MaxErases = 1
    EraseAnytime = FALSE
SPECIFICATION Spec
INVARIANTS DurableWhenDone FlashUsedRight
PROPERTY EveryWriteReported
CHECK_DEADLOCK FALSE
