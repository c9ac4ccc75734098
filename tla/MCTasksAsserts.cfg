\* The asserts of queue.h, with one process that sleeps.
SPECIFICATION Spec
CONSTANTS
    Task = {idle, t1}
    Idle = idle
    NULL = null
    PID_MAX = 1
    MIN_PRIO = 1
    MAX_PRIO = 2
    Fid = {}
    ClockMod = 3
    StartBy = {idle, t1}
    StartPrio = {1, 2}
    ChPrio = {}
    WakeTime = {0, 2}
INVARIANTS
    AssertsHold
SYMMETRY Symmetry
