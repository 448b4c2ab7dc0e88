SPECIFICATION FairSpec
CONSTANTS
    SectorSize = 3
    LogSects = 6
    MAX_IO = 2
    MaxCount = 2
    RecordLen = 2
    Tables = 1
    DumpAnytime = FALSE
    MaxRecords = 6
    MaxCrashes = 2
INVARIANTS
    
    LogComplete
PROPERTIES
    ReportersServed
CHECK_DEADLOCK FALSE
