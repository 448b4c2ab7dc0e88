SPECIFICATION FairSpec
CONSTANTS
    Proc = {6, 10, 11}
    InitProc = 6
    NO_TASK = NO_TASK
    Kinds = {"FORK", "EXIT", "WAIT", "EXEC", "KILL"}
    Prompt = {"FORK", "EXEC"}
    KillAnybody = FALSE
INVARIANTS
    NoForgottenZombie
    ParentsLive
    KernelGoesOn
PROPERTIES
    ForkReturns
    WaitReturns
CHECK_DEADLOCK FALSE
