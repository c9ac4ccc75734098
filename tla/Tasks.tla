------------------------------- MODULE Tasks -------------------------------
(***************************************************************************)
(* The processes of the kernel and their scheduler: kernel/task.c,         *)
(* start.c, exit.c, kill.c, wait.c, prio.c, pid_allocator.c and the tick   *)
(* handler of clock.c.                                                     *)
(*                                                                         *)
(* The kernel is not preemptible: interrupt gates clear IF, so a system    *)
(* call runs alone up to the point where it calls schedule().  A handler   *)
(* is therefore one action up to that call, schedule() is a sequence of    *)
(* actions during which nothing else happens (mode = "schedule"), and what *)
(* the handler does after schedule() returns to it is a further action,    *)
(* taken when the task is current again (kpc says where it stopped).       *)
(*                                                                         *)
(* A member of Task is the address of a struct task.  The heap holds as    *)
(* many of them as Task has members; alloc is the set in use.  A freed     *)
(* struct may be allocated again while stale pointers to it remain.        *)
(*                                                                         *)
(* Calls that return an error without changing any state are left out.     *)
(***************************************************************************)
EXTENDS PrioQueue, FiniteSets

CONSTANTS
    Task,       \* addresses of struct task
    Idle,       \* the idle task, started by start_idle
    NULL,
    PID_MAX, MIN_PRIO, MAX_PRIO,
    Fid,        \* message queue identifiers, 0..NBQUEUE-1 in the code
    ClockMod,   \* total_ticks is a uint32_t: 2^32 in the code
    StartBy,    \* tasks that run programs which start others
    StartPrio,  \* priorities programs pass to start
    ChPrio,     \* priorities programs pass to chprio
    WakeTime    \* times programs pass to wait_clock

ASSUME TaskAssumption == Idle \in Task /\ NULL \notin Task
ASSUME ParamAssumption ==
    /\ PID_MAX \in Nat
    /\ MIN_PRIO \in Int /\ MAX_PRIO \in Int /\ MIN_PRIO <= MAX_PRIO
    /\ ClockMod \in Nat \ {0}
ASSUME InputAssumption ==
    /\ StartBy \subseteq Task
    /\ StartPrio \subseteq MIN_PRIO..MAX_PRIO
    /\ ChPrio \subseteq MIN_PRIO..MAX_PRIO
    /\ WakeTime \subseteq 0..(ClockMod - 1)

VARIABLES
    \* the CPU
    current,    \* __running_task
    mode,       \* "cpu": current runs; "schedule": inside schedule();
                \* "msg": inside pdelete() or preset() (module Msg);
                \* "fault": entering the page fault handler; "panic": for ever
    total_ticks,
    \* struct task, one function per field
    alloc,      \* the structs in use
    state, priority, pid, parent, children, wake_time, msg_val,
    \* kernel stacks: the call a task is suspended in, and its local pointer
    kpc, child,
    \* the lists threaded through the "tasks" link
    queue,      \* the list of each state in QState
    senders, receivers,  \* waiting lists of the message queues
    \* processes that can be named by a pid
    global,     \* global_task_list
    pidmap      \* __pidmap

cpuVars == <<current, mode, total_ticks>>
structVars == <<alloc, state, priority, pid, parent, children, wake_time, msg_val>>
stackVars == <<kpc, child>>
msgLists == <<senders, receivers>>
nameVars == <<global, pidmap>>
vars == <<cpuVars, structVars, stackVars, queue, msgLists, nameVars>>

\* States that task.c keeps a list for.
QState == {"READY", "SLEEPING", "ZOMBIE", "INTERRUPTED_CHILD"}
\* The memory allocator zeroes what it frees, and TASK_STARTUP is 0.
State == QState \cup {"STARTUP", "RUNNING", "INTERRUPTED_MSG"}
KernelCall == {"user", "start", "waitany", "waitpid", "psend", "preceive"}
Clock == 0..(ClockMod - 1)
Pid == 0..(PID_MAX + 1)

-----------------------------------------------------------------------------
(* Helpers *)

\* queue_del on the "tasks" link: t leaves the state list it is on.
unlink(q, t) == [s \in QState |-> queue_del(q[s], t)]
link(q, s, t, prio) == [q EXCEPT ![s] = queue_add(@, t, prio)]

\* Mutated form: the task is linked into the new list without queue_del.
move_without_del(q, s, t, prio) == link(q, s, t, prio)

\* __set_task_state for a task that is not current: from its list to s's.
move(q, s, t, prio) == link(unlink(q, t), s, t, prio)

\* UINT32_MAX - current_clock() stored into an int.
zombie_priority ==
    LET u == (ClockMod - 1) - total_ticks
    IN  IF u < ClockMod \div 2 THEN u ELSE u - ClockMod

\* The parent's struct has been freed (and not allocated again since).
dangling(t) == parent[t] \notin alloc

\* global_task_list is sorted by pid and pids are unique in it, so it is a set.
pid_to_task(p) ==
    IF pid[current] = p THEN current
    ELSE IF \E t \in global : pid[t] = p
         THEN CHOOSE t \in global : pid[t] = p
         ELSE NULL

\* alloc_pid tests a pid against PID_MAX only after finding it used, so
\* PID_MAX + 1 is handed out too.
free_pids == Pid \ pidmap

\* Mutated form: the number of processes as the next pid.
alloc_pid_by_count == Cardinality(global) % (PID_MAX + 2)
alloc_pid == CHOOSE p \in free_pids : \A q \in free_pids : p <= q

\* queue_from_msg finds p on the waiting list of some message queue.
on_msg_queue(p) ==
    \E f \in Fid : \E t \in ToSet(senders[f]) \cup ToSet(receivers[f]) : pid[t] = p

-----------------------------------------------------------------------------
(* free_task and __exit_task, shared by several handlers *)

\* Mutated form: the siblings link is forgotten.
children_with(c) == children
children_without(c) ==
    [t \in Task |-> IF t = c THEN <<>> ELSE queue_del(children[t], c)]

\* A freed struct is all zeroes.  Its siblings link is taken out of the
\* list of its parent; if that parent has been freed itself, the write goes
\* to memory nobody reads as a children list any more.
free_task(c) ==
    /\ queue' = unlink(queue, c)
    /\ alloc' = alloc \ {c}
    /\ state' = [state EXCEPT ![c] = "STARTUP"]
    /\ priority' = [priority EXCEPT ![c] = 0]
    /\ pid' = [pid EXCEPT ![c] = 0]
    /\ parent' = [parent EXCEPT ![c] = NULL]
    /\ children' = children_without(c)
    /\ wake_time' = [wake_time EXCEPT ![c] = 0]
    /\ msg_val' = [msg_val EXCEPT ![c] = 0]

\* Mutated form: a parent waiting for a given child is not woken.
unlocks_waitany(t) == /\ parent[t] \in alloc
                      /\ state[parent[t]] = "INTERRUPTED_CHILD"
                      /\ kpc[parent[t]] = "waitany"
\* unlock_interrupted_child_parent finds the parent of t blocked in waitpid.
unlocks_parent(t) == parent[t] \in alloc /\ state[parent[t]] = "INTERRUPTED_CHILD"

\* t becomes a zombie and a parent blocked in waitpid is made ready.
exit_task(t) ==
    LET prio == [priority EXCEPT ![t] = zombie_priority]
        p == parent[t]
        wakes == unlocks_parent(t)
        q == move(queue, "ZOMBIE", t, prio)
    IN  /\ priority' = prio
        /\ IF on_msg_queue(pid[t])
           THEN /\ senders' = [f \in Fid |-> queue_del(senders[f], t)]
                /\ receivers' = [f \in Fid |-> queue_del(receivers[f], t)]
           ELSE UNCHANGED msgLists
        /\ global' = global \ {t}
        /\ pidmap' = pidmap \ {pid[t]}
        /\ state' = [x \in Task |-> IF x = t THEN "ZOMBIE"
                                    ELSE IF wakes /\ x = p THEN "READY" ELSE state[x]]
        /\ queue' = IF wakes THEN move(q, "READY", p, prio) ELSE q
        /\ UNCHANGED <<alloc, pid, parent, children, wake_time, msg_val>>

\* What happens to the CPU after exit_task.  When the parent's struct has
\* been freed, its state byte is whatever the allocator left there; if that
\* reads as INTERRUPTED_CHILD, queue_del finds a null link and asserts, and
\* panic() writes to address 0.
after_exit(t, next) ==
    \/ mode' = next
    \/ dangling(t) /\ mode' = "fault"

-----------------------------------------------------------------------------
(* System calls and interrupts, from user mode *)

InUser == mode = "cpu" /\ kpc[current] = "user"
\* user/idle only ever starts processes: it does not block, exit or kill.
InProcess == InUser /\ current # Idle

\* start() when a struct task can be allocated.
Start(prio, t) ==
    /\ InUser
    /\ current \in StartBy
    /\ free_pids # {}
    /\ t \notin alloc
    /\ LET prios == [priority EXCEPT ![t] = prio]
           yields == prio >= priority[current]
       IN /\ priority' = prios
          /\ children' = [children EXCEPT ![current] = queue_add(@, t, prios)]
          /\ queue' = link(queue, "READY", t, prios)
          /\ mode' = IF yields THEN "schedule" ELSE "cpu"
          /\ kpc' = [kpc EXCEPT ![current] = IF yields THEN "start" ELSE "user"]
          /\ child' = [child EXCEPT ![current] = IF yields THEN t ELSE NULL]
    /\ alloc' = alloc \cup {t}
    /\ state' = [state EXCEPT ![t] = "READY"]
    /\ pid' = [pid EXCEPT ![t] = alloc_pid]
    /\ pidmap' = pidmap \cup {alloc_pid}
    /\ parent' = [parent EXCEPT ![t] = current]
    /\ msg_val' = [msg_val EXCEPT ![t] = -1]
    /\ global' = global \cup {t}
    /\ UNCHANGED <<current, total_ticks, wake_time, msgLists>>

\* start() when the heap is exhausted: the pid is not given back.
StartNoMemory ==
    /\ InUser
    /\ current \in StartBy
    /\ free_pids # {}
    /\ alloc = Task
    /\ pidmap' = pidmap \cup {alloc_pid}
    /\ UNCHANGED <<cpuVars, structVars, stackVars, queue, msgLists, global>>

\* exit()
Exit ==
    /\ InProcess
    /\ exit_task(current)
    /\ after_exit(current, "schedule")
    /\ UNCHANGED <<current, total_ticks, stackVars>>

\* Mutated form: a process that kills itself goes on running.
KillWithoutSchedule(p) ==
    LET t == pid_to_task(p)
    IN  /\ InProcess
        /\ t # NULL /\ t # Idle
        /\ exit_task(t)
        /\ after_exit(t, "cpu")
        /\ UNCHANGED <<current, total_ticks, stackVars>>

\* kill() only calls schedule() when a process kills itself.
Kill(p) ==
    LET t == pid_to_task(p)
    IN  /\ InProcess
        /\ t # NULL /\ t # Idle
        /\ exit_task(t)
        /\ after_exit(t, IF t = current THEN "schedule" ELSE "cpu")
        /\ UNCHANGED <<current, total_ticks, stackVars>>

\* wait_clock() takes an absolute time.
WaitClock(c) ==
    /\ InProcess
    /\ wake_time' = [wake_time EXCEPT ![current] = c]
    /\ state' = [state EXCEPT ![current] = "SLEEPING"]
    /\ queue' = link(queue, "SLEEPING", current, priority)
    /\ mode' = "schedule"
    /\ UNCHANGED <<current, total_ticks, alloc, priority, pid, parent, children,
                   msg_val, stackVars, msgLists, nameVars>>

\* Mutated form: a task keeps its place when its priority changes.
requeue_in_place(t, prios) == queue
\* __update_queue_priority
requeue(t, prios) ==
    IF state[t] \in QState THEN move(queue, state[t], t, prios) ELSE queue

\* Mutated form: lowering one's own priority never gives the CPU away.
chprio_yields_up(t, prio) ==
    t # current /\ state[t] = "READY" /\ prio > priority[current]
\* Whether chprio ends in schedule().
chprio_yields(t, prio) ==
    \/ t # current /\ state[t] = "READY" /\ prio > priority[current]
    \/ t = current /\ priority[queue_top(queue["READY"])] > prio

\* Mutated form: a waiting task keeps its place on the message queue.
reinsert_in_place(lists, t, prios) == lists
\* msg_reinsert, on the waiting list that t is on.
msg_reinsert(lists, t, prios) ==
    [f \in Fid |-> IF t \in ToSet(lists[f]) THEN queue_update(lists[f], t, prios)
                                           ELSE lists[f]]

Chprio(p, prio) ==
    LET t == pid_to_task(p)
        prios == [priority EXCEPT ![t] = prio]
    IN  /\ InProcess
        /\ t # NULL /\ t # Idle
        /\ priority' = prios
        /\ queue' = requeue(t, prios)
        /\ IF state[t] = "INTERRUPTED_MSG"
           THEN /\ senders' = msg_reinsert(senders, t, prios)
                /\ receivers' = msg_reinsert(receivers, t, prios)
           ELSE UNCHANGED msgLists
        /\ mode' = IF chprio_yields(t, prio) THEN "schedule" ELSE "cpu"
        /\ UNCHANGED <<current, total_ticks, alloc, state, pid, parent, children,
                       wake_time, msg_val, stackVars, nameVars>>

\* Reap c and return to user mode.
collect(c) ==
    /\ free_task(c)
    /\ kpc' = [kpc EXCEPT ![current] = "user", ![c] = "user"]
    /\ child' = [child EXCEPT ![current] = NULL, ![c] = NULL]
    /\ UNCHANGED <<cpuVars, msgLists, nameVars>>

\* Sleep until some child exits.
block_for_child(call, c) ==
    /\ state' = [state EXCEPT ![current] = "INTERRUPTED_CHILD"]
    /\ queue' = link(queue, "INTERRUPTED_CHILD", current, priority)
    /\ mode' = "schedule"
    /\ kpc' = [kpc EXCEPT ![current] = call]
    /\ child' = [child EXCEPT ![current] = c]
    /\ UNCHANGED <<current, total_ticks, alloc, priority, pid, parent, children,
                   wake_time, msg_val, msgLists, nameVars>>

\* The index of the first child satisfying a test; 0 when there is none.
first_zombie == SelectInSeq(children[current], LAMBDA c : state[c] = "ZOMBIE")
first_named(p) == SelectInSeq(children[current], LAMBDA c : pid[c] = p)

\* The loop body of __wait_any_child.
wait_any ==
    IF first_zombie # 0
    THEN collect(children[current][first_zombie])
    ELSE block_for_child("waitany", NULL)

WaitAny == InProcess /\ children[current] # <<>> /\ wait_any

\* The loop of __wait_specific_child once the child c has been found.
wait_specific(c) ==
    IF state[c] = "ZOMBIE" THEN collect(c) ELSE block_for_child("waitpid", c)

WaitSpecific(p) ==
    /\ InProcess
    /\ p > 0
    /\ first_named(p) # 0
    /\ wait_specific(children[current][first_named(p)])

\* Mutated form: the counter does not wrap.
TickWithoutWrap ==
    /\ InUser
    /\ total_ticks' = total_ticks + 1
    /\ mode' = "schedule"
    /\ UNCHANGED <<current, structVars, stackVars, queue, msgLists, nameVars>>

\* The clock interrupt; only user mode runs with interrupts enabled.
Tick ==
    /\ InUser
    /\ total_ticks' = (total_ticks + 1) % ClockMod
    /\ mode' = "schedule"
    /\ UNCHANGED <<current, structVars, stackVars, queue, msgLists, nameVars>>

\* page_fault_handler calls exit(0), for a fault in kernel mode too: the
\* current process dies, unless it is a zombie already.
PageFault ==
    /\ mode = "fault"
    /\ IF state[current] = "ZOMBIE"
       THEN mode' = "schedule" /\ UNCHANGED <<structVars, queue, msgLists, nameVars>>
       ELSE exit_task(current) /\ after_exit(current, "schedule")
    /\ UNCHANGED <<current, total_ticks, stackVars>>

-----------------------------------------------------------------------------
(* schedule() *)

\* Mutated form: a sleeper is woken one tick late.
due_late == {i \in 1..Len(queue["SLEEPING"]) :
                  total_ticks > wake_time[queue["SLEEPING"][i]]}
\* The positions of the sleepers whose time has come.
due == {i \in 1..Len(queue["SLEEPING"]) : total_ticks >= wake_time[queue["SLEEPING"][i]]}
first_due == queue["SLEEPING"][CHOOSE i \in due : \A j \in due : i <= j]

\* try_wakeup_tasks, one sleeper at a time, least urgent first.
WakeUp ==
    /\ mode = "schedule"
    /\ due # {}
    /\ first_due # current
    /\ wake_time' = [wake_time EXCEPT ![first_due] = 0]
    /\ state' = [state EXCEPT ![first_due] = "READY"]
    /\ queue' = move(queue, "READY", first_due, priority)
    /\ UNCHANGED <<cpuVars, alloc, priority, pid, parent, children, msg_val,
                   stackVars, msgLists, nameVars>>

\* set_task_ready does not unlink the current task, so queue_add asserts.
\* The exit(0) of the page fault that panic() causes tries to link the task
\* again, asserts again, and so on until the kernel stack overflows.
WakeUpCurrent ==
    /\ mode = "schedule"
    /\ due # {}
    /\ first_due = current
    /\ wake_time' = [wake_time EXCEPT ![current] = 0]
    /\ mode' = "panic"
    /\ UNCHANGED <<current, total_ticks, alloc, state, priority, pid, parent, children,
                   msg_val, stackVars, queue, msgLists, nameVars>>

zombie_at(i) == queue["ZOMBIE"][i]
\* Mutated form: every zombie but the current task is freed.
must_reap_all(i) == zombie_at(i) # current
\* reap_zombies frees the zombie at index i ...
must_reap(i) ==
    /\ zombie_at(i) # current
    /\ parent[zombie_at(i)] = Idle \/ state[parent[zombie_at(i)]] = "ZOMBIE"
\* ... or may do so, because it reads the state of a freed struct.
may_reap(i) == zombie_at(i) # current /\ dangling(zombie_at(i))

zombies == 1..Len(queue["ZOMBIE"])

\* reap_zombies, one zombie at a time, in list order.
Reap(i) ==
    /\ mode = "schedule"
    /\ due = {}
    /\ i \in zombies
    /\ must_reap(i) \/ may_reap(i)
    /\ \A j \in 1..(i - 1) : ~must_reap(j)
    /\ free_task(zombie_at(i))
    /\ kpc' = [kpc EXCEPT ![zombie_at(i)] = "user"]
    /\ child' = [child EXCEPT ![zombie_at(i)] = NULL]
    /\ UNCHANGED <<cpuVars, msgLists, nameVars>>

\* Mutated form: no preemption among equals.
keeps_cpu_equal ==
    queue["READY"] # <<>> =>
        /\ state[current] = "RUNNING"
        /\ priority[current] >= priority[queue_top(queue["READY"])]
\* schedule() finds no ready task, or none that is as urgent as the caller.
keeps_cpu ==
    queue["READY"] # <<>> =>
        /\ state[current] = "RUNNING"
        /\ priority[current] > priority[queue_top(queue["READY"])]

choosing == mode = "schedule" /\ due = {} /\ \A i \in zombies : ~must_reap(i)

\* schedule() returns to its caller.
Keep ==
    /\ choosing
    /\ keeps_cpu
    /\ mode' = "cpu"
    /\ UNCHANGED <<current, total_ticks, structVars, stackVars, queue, msgLists, nameVars>>

\* schedule() switches to the ready task of highest priority.
Switch ==
    LET new == queue_top(queue["READY"])
        preempted == state[current] = "RUNNING"
    IN  /\ choosing
        /\ ~keeps_cpu
        /\ current' = new
        /\ mode' = "cpu"
        /\ state' = IF preempted THEN [state EXCEPT ![current] = "READY", ![new] = "RUNNING"]
                                 ELSE [state EXCEPT ![new] = "RUNNING"]
        /\ queue' = unlink(IF preempted THEN link(queue, "READY", current, priority)
                                        ELSE queue, new)
        /\ UNCHANGED <<total_ticks, alloc, priority, pid, parent, children, wake_time,
                       msg_val, stackVars, msgLists, nameVars>>

-----------------------------------------------------------------------------
(* Back in the call that a task was suspended in *)

Resumes(call) == mode = "cpu" /\ kpc[current] = call

\* start() reads task->pid and returns it.
ReturnFromStart ==
    /\ Resumes("start")
    /\ kpc' = [kpc EXCEPT ![current] = "user"]
    /\ child' = [child EXCEPT ![current] = NULL]
    /\ UNCHANGED <<cpuVars, structVars, queue, msgLists, nameVars>>

ResumeWaitAny == Resumes("waitany") /\ wait_any

ResumeWaitSpecific == Resumes("waitpid") /\ wait_specific(child[current])

\* The kernel is stuck.
Panicked == mode = "panic" /\ UNCHANGED vars

-----------------------------------------------------------------------------
Init ==
    /\ current = Idle
    /\ mode = "cpu"
    /\ total_ticks = 0
    /\ alloc = {Idle}
    /\ state = [t \in Task |-> IF t = Idle THEN "RUNNING" ELSE "STARTUP"]
    /\ priority = [t \in Task |-> IF t = Idle THEN MIN_PRIO ELSE 0]
    /\ pid = [t \in Task |-> 0]
    /\ parent = [t \in Task |-> NULL]
    /\ children = [t \in Task |-> <<>>]
    /\ wake_time = [t \in Task |-> 0]
    /\ msg_val = [t \in Task |-> 0]
    /\ kpc = [t \in Task |-> "user"]
    /\ child = [t \in Task |-> NULL]
    /\ queue = [s \in QState |-> <<>>]
    /\ senders = [f \in Fid |-> <<>>]
    /\ receivers = [f \in Fid |-> <<>>]
    /\ global = {Idle}
    /\ pidmap = {0}

SystemCall ==
    \/ \E prio \in StartPrio, t \in Task : Start(prio, t)
    \/ StartNoMemory
    \/ Exit
    \/ \E p \in Pid : Kill(p)
    \/ \E c \in WakeTime : WaitClock(c)
    \/ \E p \in Pid, prio \in ChPrio : Chprio(p, prio)
    \/ WaitAny
    \/ \E p \in Pid : WaitSpecific(p)

Schedule == WakeUp \/ WakeUpCurrent \/ (\E i \in zombies : Reap(i)) \/ Keep \/ Switch

Resume == ReturnFromStart \/ ResumeWaitAny \/ ResumeWaitSpecific

Next == SystemCall \/ Tick \/ PageFault \/ Schedule \/ Resume \/ Panicked

Spec == Init /\ [][Next]_vars

\* The CPU keeps executing kernel code it has entered, and a clock interrupt
\* that finds interrupts enabled again and again is eventually taken.
Fairness == WF_vars(PageFault) /\ WF_vars(Schedule) /\ WF_vars(Resume) /\ SF_vars(Tick)

FairSpec == Spec /\ Fairness

-----------------------------------------------------------------------------
(* Properties *)

\* Every field holds a value of its C type, and every list holds tasks.
TypeOK ==
    /\ current \in Task
    /\ mode \in {"cpu", "schedule", "msg", "fault", "panic"}
    /\ total_ticks \in Clock
    /\ alloc \subseteq Task
    /\ state \in [Task -> State]
    /\ priority \in [Task -> Int]
    /\ pid \in [Task -> Pid]
    /\ parent \in [Task -> Task \cup {NULL}]
    /\ children \in [Task -> Seq(Task)]
    /\ wake_time \in [Task -> Clock]
    /\ msg_val \in [Task -> Int]
    /\ kpc \in [Task -> KernelCall]
    /\ child \in [Task -> Task \cup {NULL}]
    /\ queue \in [QState -> Seq(Task)]
    /\ senders \in [Fid -> Seq(Task)]
    /\ receivers \in [Fid -> Seq(Task)]
    /\ global \subseteq Task
    /\ pidmap \subseteq Pid

\* A task is linked into the list of its state, once, and into no other
\* list; a freed struct is on none.  The asserts of queue_add and queue_del
\* (queue.h:86, 166) hold because of this.
QueueMatchesState ==
    \A s \in QState :
        /\ NoDup(queue[s])
        /\ ToSet(queue[s]) = {t \in alloc : state[t] = s}

\* chprio, wake-ups and preemption keep the ready and sleeping lists sorted by
\* the current priorities, so queue_top is a ready task of highest priority.
ListsSorted ==
    /\ Sorted(queue["READY"], priority)
    /\ Sorted(queue["SLEEPING"], priority)

\* Only the current task runs, and schedule() never returns to a task that
\* blocked or died in it: exit()'s panic is unreachable, and wait loops are
\* re-entered only after a wake-up.  The idle task can always take over.
OnlyCurrentRuns ==
    /\ current \in alloc
    /\ mode = "cpu" => state[current] = "RUNNING"
    /\ \A t \in Task \ {current} : state[t] # "RUNNING"
    /\ state[Idle] \in {"RUNNING", "READY"}

\* The processes a pid can name are the allocated tasks that are not zombies;
\* their pids differ and are marked in the pid map.
PidsUnique ==
    /\ global = {t \in alloc : state[t] # "ZOMBIE"}
    /\ \A t, u \in global : pid[t] = pid[u] => t = u
    /\ \A t \in global : pid[t] \in pidmap

\* No wake-up is lost: a task blocked in waitpid has a child to wait for, and
\* none that it waits for is already a zombie.
NoLostChildWakeup ==
    \A t \in alloc : state[t] = "INTERRUPTED_CHILD" =>
        \/ /\ kpc[t] = "waitpid"
           /\ child[t] \in ToSet(children[t])
           /\ state[child[t]] # "ZOMBIE"
        \/ /\ kpc[t] = "waitany"
           /\ children[t] # <<>>
           /\ \A c \in ToSet(children[t]) : state[c] # "ZOMBIE"

\* The child pointer that start() or waitpid() keeps on a process's kernel stack
\* across schedule() still points to that child's struct when it is used.
ChildPointerValid ==
    \A t \in global \ {Idle} : child[t] # NULL =>
        child[t] \in alloc /\ parent[child[t]] = t

\* The children list of a task holds each of its children's structs once,
\* and no struct that was freed or given to another parent.
ChildrenAllocated ==
    \A t \in Task :
        /\ NoDup(children[t])
        /\ \A c \in ToSet(children[t]) : c \in alloc /\ parent[c] = t

\* Parents and children agree through exit, kill, reaping and reuse of structs,
\* in the lists and in the pointers that suspended calls keep.
ChildrenConsistent == ChildPointerValid /\ ChildrenAllocated

\* No process is left asleep past its time: whenever user code runs, every
\* sleeper's wake-up time lies ahead, whatever the clock did (the counter wraps)
\* and whoever called schedule() since.
NoOverdueSleeper ==
    mode = "cpu" => \A t \in alloc : state[t] = "SLEEPING" => total_ticks < wake_time[t]

\* A zombie is never revived, and while its parent lives only the parent's own
\* waitpid (never reap_zombies) disposes of it and of its exit status.
ZombiesKept ==
    [][\A z \in alloc : state[z] = "ZOMBIE" =>
          /\ z \in alloc' => state'[z] = "ZOMBIE" /\ parent'[z] = parent[z]
          /\ z \notin alloc' /\ parent[z] \in global \ {Idle} =>
                 mode = "cpu" /\ current = parent[z]]_vars

\* The rule quoted in schedule() (task.c:411): the running process is as urgent
\* as every ready one.  It is not an invariant, because kill, pdelete and preset
\* make processes ready without calling schedule().
PriorityRespected ==
    mode = "cpu" => \A t \in alloc : state[t] = "READY" => priority[t] <= priority[current]

\* schedule() establishes that rule, and chprio keeps it where it held: neither
\* leaves a process waiting that is more urgent than the one that goes on.
MostUrgentGoesOn ==
    [][/\ mode = "schedule" => PriorityRespected'
       /\ priority' # priority /\ alloc' = alloc /\ global' = global /\ PriorityRespected
              => PriorityRespected']_vars

\* A sleeping process wakes up (or is killed) although the clock wraps around
\* and other processes keep making system calls.
SleepersWake ==
    \A t \in Task : state[t] = "SLEEPING" ~> (state[t] # "SLEEPING" \/ mode = "panic")

\* t is ready and nothing runnable is more urgent.
Top(t) ==
    /\ state[t] = "READY"
    /\ \A u \in alloc : state[u] \in {"READY", "RUNNING"} => priority[u] <= priority[t]

\* Round robin: a ready process of highest priority runs, unless something more
\* urgent appears, however the processes of its priority behave.
RoundRobin == \A t \in Task : Top(t) ~> (~Top(t) \/ mode = "panic")

-----------------------------------------------------------------------------
(* What the comments, docs and tests say, and the code does not do *)

\* queue.h:86 and 166 assert that links are null before queue_add and are not
\* before queue_del.
AssertsHold == mode # "panic"

=============================================================================
