SPECIFICATION Spec
CONSTANTS
    d1 = d1
    d2 = d2
    file1 = file1
    file2 = file2
    File = {file1, file2}
    Desc = {d1, d2}
    FileOf <- MCFileOf
    Bytes = 2
    Start <- MCStart
    Sects = 3
    SECTOR_SIZE = 2
    BufSects = 2
    MaxLen = 4
    Overrun = FALSE
    TruncateShared = FALSE
INVARIANTS
    PositionsInside
PROPERTIES
    ReadsAndWrites
