CONSTANTS
    MaxFrame = 2
    Contents <- MCContents
    MaxMessages = 2
    MaxResets = 2
    LineRoom = 3
    RequestsEarly = FALSE
SPECIFICATION Spec
INVARIANTS  ForwardedIntact SizesAddUp
PROPERTIES EveryMessageForwarded EveryRequestAnswered
CHECK_DEADLOCK FALSE
