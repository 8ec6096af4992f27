SPECIFICATION Spec
CONSTANTS
    SingleShot = {"s"}
    Repeating = {"r"}
    Durations = {1, 2, 15}
    Resolution = 2
    MaxTicks = 7
    MaxTime = 18
INVARIANTS
    NextTriggerIsEarliest
PROPERTIES
    NoTickPassesATimer
    TriggersInOrder
CHECK_DEADLOCK FALSE
