\* Process life cycle: start, exit, kill, waitpid and sleep, with the heap
\* (four structs) and the pids (0..2) exhausted and zombies left behind.
SPECIFICATION Spec
CONSTANTS
    Task = {idle, t1, t2, t3}
    Idle = idle
    NULL = null
    PID_MAX = 2
    MIN_PRIO = 1
    MAX_PRIO = 2
    Fid = {}
    ClockMod = 1
    StartBy = {idle, t1, t2, t3}
    StartPrio = {1, 2}
    ChPrio = {}
    WakeTime = {}
INVARIANTS
    TypeOK
    QueueMatchesState
    OnlyCurrentRuns
    PidsUnique
    NoLostChildWakeup
    ChildrenConsistent
PROPERTIES
    ZombiesKept
SYMMETRY Symmetry
