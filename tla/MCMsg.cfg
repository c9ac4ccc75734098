\* Senders and receivers on one queue, killed, reprioritised and preempted; the
\* queue deleted and created again while they wait.
SPECIFICATION MsgSpec
CONSTANTS
    Task = {idle, t1, t2, t3}
    Idle = idle
    NULL = null
    PID_MAX = 2
    MIN_PRIO = 1
    MAX_PRIO = 2
    Fid = {0}
    ClockMod = 1
    StartBy = {idle}
    StartPrio = {1}
    ChPrio = {2}
    WakeTime = {}
    Message = {1}
    Size = {1}
    DeleteFid = {0}
    ResetFid = {}
    MaxReset = 1
INVARIANTS
    WaitersConsistent
    WaitersHaveAReason
    ServedOrReset
SYMMETRY Symmetry
