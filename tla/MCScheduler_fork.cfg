SPECIFICATION FairSpec
CONSTANTS
    Proc = {0, 4, 6, 10}
    Native = {0, 4, 6}
    FIRST = 0
    IntTasks = {0}
    MM = 4
    Priority <- MCPriority
    TimePiece <- MCTimePiece
    NO_PROC = NO_PROC
    Recycle = FALSE
INVARIANTS
    
    NobodyForgotten
PROPERTIES
    NoEarlyRefill
    HighestQueueRuns
    NoStarvation
    ScheduleReturns
CHECK_DEADLOCK FALSE
