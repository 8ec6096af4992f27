CONSTANTS
    a = a
    b = b
    Peers <- Ends
    OwnBufferSize <- Buffers
    Requests = {3}
    MaxStarts = 2
    Crossing = FALSE
SPECIFICATION Spec
INVARIANTS ReceiverNeverOverrun SessionsNeverMix
PROPERTIES EveryRequestServed FallsSilent
CHECK_DEADLOCK FALSE
