SPECIFICATION Spec
CONSTANTS
    Proc = {u1, u2, u3, hd}
    DiskTasks = {hd}
    TickTasks = {}
    ANY = ANY
    INTERRUPT = INTERRUPT
    NO_TASK = NO_TASK
SYMMETRY Symmetry
INVARIANTS
    TypeOK
    QueueExact
    NoMissedRendezvous
    NoCircularWait
PROPERTIES
    NoOvertaking
    ImplementsRendezvous
CHECK_DEADLOCK FALSE
