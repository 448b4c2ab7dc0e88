SYMMETRY Symmetry
SPECIFICATION Spec
CONSTANTS
    Proc = {p1, p2}
    Name = {tty0, cmdtar, f1, f2}
    TTY = tty0
    TAR = cmdtar
    Long = {}
    Inode = {1, 2, 3, 4, 5}
    Fd = {0, 1}
    Desc = {1, 2, 3}
    NR_INODE = 3
    FILE_SECTS = 2
    NR_SECTS = 10
    TAR_START = 5
    PER_SECT = 4
    White = {p1}
    Protected = {cmdtar}
    RefusedUnlink = FALSE
    LastUnlink = TRUE
    NO_PROC = NO_PROC
    NO_NAME = NO_NAME
INVARIANTS
    AssertionsHold
CHECK_DEADLOCK FALSE
