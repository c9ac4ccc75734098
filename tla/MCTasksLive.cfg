\* Liveness: no symmetry, two priorities, clock wrap-around.
SPECIFICATION FairSpec
CONSTANTS
    Task = {idle, t1, t2}
    Idle = idle
    NULL = null
    PID_MAX = 1
    MIN_PRIO = 1
    MAX_PRIO = 2
    Fid = {}
    ClockMod = 3
    StartBy = {idle, t1, t2}
    StartPrio = {1, 2}
    ChPrio = {}
    WakeTime = {1, 2}
PROPERTIES
    SleepersWake
    RoundRobin
