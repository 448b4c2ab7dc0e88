SPECIFICATION Spec
CONSTANTS
    Proc = {u1, tty}
    DiskTasks = {}
    TickTasks = {tty}
    ANY = ANY
    INTERRUPT = INTERRUPT
    NO_TASK = NO_TASK
INVARIANT MatchedStillWaiting
CHECK_DEADLOCK FALSE
