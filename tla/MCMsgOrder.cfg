\* The order of messages and what pcount reports: two messages that differ, a queue
\* of two that is also reset.
SPECIFICATION MsgSpec
CONSTANTS
    Task = {idle, t1, t2}
    Idle = idle
    NULL = null
    PID_MAX = 1
    MIN_PRIO = 1
    MAX_PRIO = 2
    Fid = {0}
    ClockMod = 1
    StartBy = {idle}
    StartPrio = {1}
    ChPrio = {}
    WakeTime = {}
    Message = {1, 2}
    Size = {2}
    DeleteFid = {0}
    ResetFid = {0}
    MaxReset = 2
INVARIANTS
    PcountExact
PROPERTIES
    ReceiveInOrder
SYMMETRY Symmetry
