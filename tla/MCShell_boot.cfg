SPECIFICATION FairSpec
CONSTANTS
    t1 = t1
    t2 = t2
    a = a
    r = r
    MaxLine = 4
    Slot = {1, 2, 3, 4}
    Terminals <- MCTerminals
    Archive <- MCArchive
    Chunks = 2
    Chars = {a, r}
    BLANK = BLANK
    AMPERSAND = AMPERSAND
    LinesOf <- MCLines
    RM <- MCRM
    TOUCH <- MCTOUCH
    MaxCrashes = 1
INVARIANTS
    SpacedLinesUnderstood
    OneActive
PROPERTIES
    ExtractedWhole
    TerminalAnswers
CHECK_DEADLOCK FALSE
