CONSTANTS
    NumberOfSectors = 3
    SizeOfSector = 9
    RecordSizes = {1, 5}
    MaxRecords = 4
    MaxResets = 2
    ClearsWhileReading = FALSE
SPECIFICATION Spec
INVARIANTS  StoreAgreesWithFlash
PROPERTIES NeverSkips
CHECK_DEADLOCK FALSE
