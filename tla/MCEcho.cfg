CONSTANTS
    Proxies = {"p1", "p2"}
    NoProxy = "none"
    Sizes = {0, 1, 3}
    MaxPieces = 2
    MaxMethods = 4
    MaxStarts = 1
    ResetsWhenBusy = FALSE
    LateDone = FALSE
SPECIFICATION Spec
INVARIANTS  ExecutedWhole
PROPERTIES EveryRequestGranted EveryMethodExecuted
CHECK_DEADLOCK FALSE
