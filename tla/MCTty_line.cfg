SPECIFICATION FairSpec
CONSTANTS
    Proc = {p, q}
    Writers = {q}
    TASK_TTY = TASK_TTY
    NO_TASK = NO_TASK
    Chars = {a}
    ENTER = ENTER
    BACKSPACE = BACKSPACE
    EXT = EXT
    Counts = {2}
    KB_IN_BYTES = 2
    MaxBytes = 4
    SharedReads = FALSE
INVARIANTS
    LineAsTyped
    SuspendedIsKnown
PROPERTIES
    ReaderAnswered
CHECK_DEADLOCK FALSE
