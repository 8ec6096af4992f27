CONSTANTS
    NumberOfUnits = 4
    NumberOfSectors = 2
    SectorOfUnit <- TwoUnitsPerSector
    ErrorCodes = {0, 1, 2, 4, 1000, 1001, 1002}
    Packs <- AllPacks
    InitialPack <- BlankFlash
    SlotChunks = 3
    InitialImage = "old"
    FittingImages <- Fitting
SPECIFICATION BootSpec
INVARIANT RejectedLeavesOldApplication
