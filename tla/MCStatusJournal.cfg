CONSTANTS
    NumberOfUnits = 3
    NumberOfSectors = 1
    SectorOfUnit <- OneSector
    ErrorCodes = {0, 1000}
SPECIFICATION JournalSpec
INVARIANTS NoUnitProgrammedTwice RecordReadsBack
PROPERTIES ImplementsRegister
