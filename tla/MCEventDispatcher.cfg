CONSTANTS
    main = main
    t1 = t1
    t2 = t2
    none = none
    Size = 2
    Threads <- TwoWriters
    Dispatcher = main
    MaxActions = 2
    MaxOutstanding = 3
    NoAction = none
SPECIFICATION Spec
INVARIANTS ExecutedInOrder
PROPERTIES StopsOnlyOnOverflow EveryActionExecuted
CHECK_DEADLOCK FALSE
