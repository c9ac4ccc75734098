\* Scheduling: priorities changed while tasks run, wait and sleep, a clock that
\* wraps around, sleeps until a time already reached.
SPECIFICATION Spec
CONSTANTS
    Task = {idle, t1, t2, t3}
    Idle = idle
    NULL = null
    PID_MAX = 2
    MIN_PRIO = 1
    MAX_PRIO = 2
    Fid = {}
    ClockMod = 4
    StartBy = {idle}
    StartPrio = {1, 2}
    ChPrio = {1, 2}
    WakeTime = {0, 1, 3}
INVARIANTS
    ListsSorted
    NoOverdueSleeper
PROPERTIES
    MostUrgentGoesOn
SYMMETRY Symmetry
