CONSTANTS
    N = 4
    MaxRange = 3
    MaxBytes = 10
    Threaded = {"irqWriter"}
SPECIFICATION Spec
INVARIANTS NoByteLost OneWakeup
PROPERTY ImplementsStream
CHECK_DEADLOCK FALSE
