SPECIFICATION FairConsoleSpec
CONSTANTS
    Width = 4
    Height = 3
    Lines = 9
    TabWidth = 3
    EraseLimit = 8
    Serials = 19
INVARIANTS
    InsideConsole
    LinesKept
PROPERTIES
    OneLineAtATime
    ScrollEnds
CHECK_DEADLOCK FALSE
