SPECIFICATION Spec
CONSTANTS
    Vectors <- MCVectors
    FirmwareIrq = 104
    HeaderSize = 8
    EntrySize = 4
    Word32 = 32
    Lengths <- MCLengths
    MaxEntries = 3
INVARIANTS
    InterruptsHaveHandlers
    
    FlagNamesController
    ScanInTable
    OnlySummedTables
    FirstTaken
CHECK_DEADLOCK FALSE
