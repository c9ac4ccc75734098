---------------------------- MODULE TasksProofs ----------------------------
(***************************************************************************)
(* Type correctness of Tasks; then the lists match the states, only the    *)
(* current task runs, and pids name one process, proved together; parents  *)
(* and children; the order in which tasks run: for every number of tasks,  *)
(* pids, priorities and every clock width.                                 *)
(***************************************************************************)
EXTENDS Tasks, PrioQueueProofs

\* Updating a function keeps it in its function set.
LEMMA ExceptType ==
    ASSUME NEW D, NEW R, NEW f \in [D -> R], NEW c, NEW v \in R
    PROVE  [f EXCEPT ![c] = v] \in [D -> R]
  OBVIOUS

\* The lists indexed by state.
Lists == [QState -> Seq(Task)]

\* Each list links its members once.
NoDups(q) == \A s \in QState : NoDup(q[s])

\* unlink takes t out of every list and leaves the others on theirs.
LEMMA Unlink ==
    ASSUME NEW q \in Lists, NEW t
    PROVE  /\ unlink(q, t) \in Lists
           /\ NoDups(q) =>
                 /\ NoDups(unlink(q, t))
                 /\ \A s \in QState : ToSet(unlink(q, t)[s]) = ToSet(q[s]) \ {t}
<1>1. \A s \in QState : unlink(q, t)[s] = queue_del(q[s], t)
  BY DEF unlink
<1>2. ASSUME NEW s \in QState
      PROVE  /\ queue_del(q[s], t) \in Seq(Task)
             /\ NoDup(q[s]) => /\ NoDup(queue_del(q[s], t))
                               /\ ToSet(queue_del(q[s], t)) = ToSet(q[s]) \ {t}
  <2>1. q[s] \in Seq(Task)
    BY DEF Lists
  <2>2. QED
    BY <2>1, QueueDel
<1>3. unlink(q, t) \in Lists
  BY <1>2 DEF unlink, Lists
<1>4. QED
  BY <1>1, <1>2, <1>3 DEF NoDups

\* link adds t to the list of s.
LEMMA Link ==
    ASSUME NEW q \in Lists, NEW s \in QState, NEW t \in Task, NEW prio \in [Task -> Int]
    PROVE  /\ link(q, s, t, prio) \in Lists
           /\ \A r \in QState : ToSet(link(q, s, t, prio)[r]) =
                                   IF r = s THEN ToSet(q[r]) \cup {t} ELSE ToSet(q[r])
           /\ NoDups(q) /\ t \notin ToSet(q[s]) => NoDups(link(q, s, t, prio))
<1>1. \A r \in QState :
         link(q, s, t, prio)[r] = IF r = s THEN queue_add(q[s], t, prio) ELSE q[r]
  BY DEF link, Lists
<1>2. q[s] \in Seq(Task)
  BY DEF Lists
<1>3. /\ queue_add(q[s], t, prio) \in Seq(Task)
      /\ ToSet(queue_add(q[s], t, prio)) = ToSet(q[s]) \cup {t}
      /\ NoDup(q[s]) /\ t \notin ToSet(q[s]) => NoDup(queue_add(q[s], t, prio))
  BY <1>2, QueueAdd
<1>4. link(q, s, t, prio) \in Lists
  BY <1>3 DEF link, Lists
<1>5. QED
  BY <1>1, <1>3, <1>4 DEF NoDups

\* move puts t on the list of s and on no other.
LEMMA Move ==
    ASSUME NEW q \in Lists, NEW s \in QState, NEW t \in Task, NEW prio \in [Task -> Int]
    PROVE  /\ move(q, s, t, prio) \in Lists
           /\ NoDups(q) =>
                 /\ NoDups(move(q, s, t, prio))
                 /\ \A r \in QState : ToSet(move(q, s, t, prio)[r]) =
                                         IF r = s THEN ToSet(q[r]) \cup {t}
                                                  ELSE ToSet(q[r]) \ {t}
<1> DEFINE u == unlink(q, t)
<1>1. /\ u \in Lists
      /\ NoDups(q) => /\ NoDups(u)
                      /\ \A r \in QState : ToSet(u[r]) = ToSet(q[r]) \ {t}
  BY Unlink
<1> HIDE DEF u
<1>2. /\ link(u, s, t, prio) \in Lists
      /\ \A r \in QState : ToSet(link(u, s, t, prio)[r]) =
                              IF r = s THEN ToSet(u[r]) \cup {t} ELSE ToSet(u[r])
      /\ NoDups(u) /\ t \notin ToSet(u[s]) => NoDups(link(u, s, t, prio))
  BY <1>1, Link
<1>3. move(q, s, t, prio) = link(u, s, t, prio)
  BY DEF move, u
<1>4. QED
  BY <1>1, <1>2, <1>3
-----------------------------------------------------------------------------
(* Type correctness *)

LEMMA InitTypeOK == Init => TypeOK
  BY TaskAssumption, ParamAssumption
     DEF Init, TypeOK, State, QState, KernelCall, Clock, Pid

\* A task that a pid names is a task.
LEMMA PidToTask ==
    ASSUME TypeOK, NEW p, pid_to_task(p) # NULL
    PROVE  pid_to_task(p) \in Task
  BY DEF pid_to_task, TypeOK

\* The pid that is handed out is a free one, and the least.
LEMMA AllocPid ==
    ASSUME TypeOK, free_pids # {}
    PROVE  alloc_pid \in Pid \ pidmap
<1>1. free_pids \subseteq Nat
  BY ParamAssumption DEF free_pids, Pid
<1>2. \E p \in free_pids : \A q \in free_pids : p <= q
  BY <1>1, LeastNat
<1>3. QED
  BY <1>2 DEF alloc_pid, free_pids

LEMMA ZombiePriority ==
    ASSUME TypeOK
    PROVE  zombie_priority \in Int
  BY ParamAssumption DEF zombie_priority, TypeOK, Clock

\* The sleeper that is woken is a task on the sleeping list.
LEMMA FirstDue ==
    ASSUME TypeOK, due # {}
    PROVE  first_due \in Task /\ first_due \in ToSet(queue["SLEEPING"])
<1>1. queue["SLEEPING"] \in Seq(Task)
  BY DEF TypeOK, QState
<1>2. due \subseteq Nat
  BY DEF due
<1>3. \E i \in due : \A j \in due : i <= j
  BY <1>2, LeastNat
<1>4. PICK i \in due : first_due = queue["SLEEPING"][i]
  BY <1>3 DEF first_due
<1>5. i \in 1..Len(queue["SLEEPING"])
  BY DEF due
<1>6. QED
  BY <1>1, <1>4, <1>5, LenProperties, ElementOfSeq DEF ToSet

\* free_task keeps every field typed.
LEMMA FreeTaskTypeOK ==
    ASSUME TypeOK, NEW c, free_task(c)
    PROVE  /\ queue' \in Lists
           /\ alloc' \subseteq Task
           /\ state' \in [Task -> State]
           /\ priority' \in [Task -> Int]
           /\ pid' \in [Task -> Pid]
           /\ parent' \in [Task -> Task \cup {NULL}]
           /\ children' \in [Task -> Seq(Task)]
           /\ wake_time' \in [Task -> Clock]
           /\ msg_val' \in [Task -> Int]
<1>1. queue' \in Lists
  BY Unlink DEF free_task, TypeOK, Lists
<1>2. children' \in [Task -> Seq(Task)]
  <2>1. ASSUME NEW t \in Task PROVE queue_del(children[t], c) \in Seq(Task)
    <3>1. children[t] \in Seq(Task)
      BY DEF TypeOK
    <3>2. QED
      BY <3>1, QueueDel
  <2>2. QED
    BY <2>1 DEF free_task, children_without
<1>3. 0 \in Pid /\ 0 \in Clock
  BY ParamAssumption DEF Pid, Clock
<1>4. alloc' \subseteq Task /\ state' \in [Task -> State]
  BY DEF free_task, TypeOK, State
<1>5. pid' \in [Task -> Pid] /\ parent' \in [Task -> Task \cup {NULL}]
  BY <1>3 DEF free_task, TypeOK
<1>6. wake_time' \in [Task -> Clock]
  BY <1>3 DEF free_task, TypeOK
<1>7. priority' \in [Task -> Int] /\ msg_val' \in [Task -> Int]
  <2>1. priority \in [Task -> Int] /\ msg_val \in [Task -> Int] /\ 0 \in Int
    BY DEF TypeOK
  <2>2. /\ [priority EXCEPT ![c] = 0] \in [Task -> Int]
        /\ [msg_val EXCEPT ![c] = 0] \in [Task -> Int]
    BY <2>1, ExceptType
  <2>3. QED
    BY <2>2 DEF free_task
<1>8. QED
  BY <1>1, <1>2, <1>4, <1>5, <1>6, <1>7

\* So does __exit_task.
LEMMA ExitTaskTypeOK ==
    ASSUME TypeOK, NEW t \in Task, exit_task(t)
    PROVE  /\ queue' \in Lists
           /\ state' \in [Task -> State]
           /\ priority' \in [Task -> Int]
           /\ senders' \in [Fid -> Seq(Task)]
           /\ receivers' \in [Fid -> Seq(Task)]
           /\ global' \subseteq Task
           /\ pidmap' \subseteq Pid
           /\ UNCHANGED <<alloc, pid, parent, children, wake_time, msg_val>>
<1> DEFINE prio == [priority EXCEPT ![t] = zombie_priority]
           q == move(queue, "ZOMBIE", t, prio)
           p == parent[t]
<1>1. prio \in [Task -> Int]
  BY ZombiePriority DEF TypeOK
<1>2. queue \in Lists /\ "ZOMBIE" \in QState /\ "READY" \in QState
  BY DEF TypeOK, Lists, QState
<1>3. q \in Lists
  BY <1>1, <1>2, Move
<1>4. unlocks_parent(t) => p \in Task /\ move(q, "READY", p, prio) \in Lists
  <2>1. unlocks_parent(t) => p \in Task
    BY DEF unlocks_parent, TypeOK
  <2> HIDE DEF q, prio, p
  <2>2. QED
    BY <1>1, <1>2, <1>3, <2>1, Move
<1>5. queue' \in Lists
  BY <1>3, <1>4 DEF exit_task
<1>6. senders' \in [Fid -> Seq(Task)] /\ receivers' \in [Fid -> Seq(Task)]
  <2>1. ASSUME NEW f \in Fid
        PROVE  queue_del(senders[f], t) \in Seq(Task) /\ queue_del(receivers[f], t) \in Seq(Task)
    BY ZenonT(40), QueueDel DEF TypeOK
  <2>2. QED
    BY <2>1 DEF exit_task, msgLists, TypeOK
<1>7. state' \in [Task -> State]
  BY DEF exit_task, TypeOK, State, QState
<1>8. QED
  BY <1>1, <1>5, <1>6, <1>7 DEF exit_task, TypeOK

LEMMA CollectTypeOK ==
    ASSUME TypeOK, NEW c, collect(c)
    PROVE  TypeOK'
<1>1. kpc' \in [Task -> KernelCall] /\ child' \in [Task -> Task \cup {NULL}]
  BY DEF collect, TypeOK, KernelCall
<1>2. QED
  BY <1>1, FreeTaskTypeOK DEF collect, TypeOK, Lists, cpuVars, msgLists, nameVars

LEMMA BlockTypeOK ==
    ASSUME TypeOK, NEW call \in KernelCall, NEW c \in Task \cup {NULL}, block_for_child(call, c)
    PROVE  TypeOK'
<1>1. queue' \in [QState -> Seq(Task)]
  BY Link DEF block_for_child, TypeOK, Lists, QState
<1>2. QED
  BY <1>1 DEF block_for_child, TypeOK, State, QState, msgLists, nameVars

LEMMA WaitAnyTypeOK ==
    ASSUME TypeOK, wait_any
    PROVE  TypeOK'
  BY CollectTypeOK, BlockTypeOK DEF wait_any, KernelCall

LEMMA WaitSpecificTypeOK ==
    ASSUME TypeOK, NEW c \in Task \cup {NULL}, wait_specific(c)
    PROVE  TypeOK'
  BY CollectTypeOK, BlockTypeOK DEF wait_specific, KernelCall

\* The index of the first child with a given pid is an index.
LEMMA FirstNamed ==
    ASSUME TypeOK, NEW p, first_named(p) # 0
    PROVE  children[current][first_named(p)] \in Task
<1> DEFINE I == {i \in 1..Len(children[current]) : pid[children[current][i]] = p}
<1>1. first_named(p) = IF I # {} THEN Min(I) ELSE 0
  BY DEF first_named, SelectInSeq
<1>2. I # {} /\ first_named(p) = Min(I)
  BY <1>1
<1>3. children[current] \in Seq(Task)
  BY DEF TypeOK
<1>4. \E x \in I : \A y \in I : x <= y
  <2>1. I \subseteq Nat
    OBVIOUS
  <2> HIDE DEF I
  <2>2. QED
    BY <1>2, <2>1, LeastNat
<1>5. Min(I) \in I
  <2> HIDE DEF I
  <2> QED BY <1>4 DEF Min
<1>6. first_named(p) \in 1..Len(children[current])
  BY <1>2, <1>5
<1>7. QED
  BY <1>3, <1>6, ElementOfSeq

LEMMA StartTypeOK ==
    ASSUME TypeOK, NEW prio \in StartPrio, NEW t \in Task, Start(prio, t)
    PROVE  TypeOK'
<1> DEFINE prios == [priority EXCEPT ![t] = prio]
<1>1. prios \in [Task -> Int]
  BY InputAssumption, ParamAssumption DEF TypeOK
<1>2. children' \in [Task -> Seq(Task)]
  <2>1. children[current] \in Seq(Task)
    BY DEF TypeOK
  <2>2. queue_add(children[current], t, prios) \in Seq(Task)
    <3> HIDE DEF prios
    <3> QED BY <1>1, <2>1, QueueAdd
  <2>3. QED
    BY <2>2 DEF Start, TypeOK
<1>3. queue' \in [QState -> Seq(Task)]
  <2>1. queue' = link(queue, "READY", t, prios)
    BY DEF Start
  <2>2. QED
    BY <1>1, <2>1, Link DEF TypeOK, Lists, QState
<1>4. alloc_pid \in Pid
  BY AllocPid DEF Start
<1>5. /\ pid' \in [Task -> Pid] /\ pidmap' \subseteq Pid
      /\ parent' \in [Task -> Task \cup {NULL}] /\ global' \subseteq Task
  BY <1>4 DEF Start, TypeOK
<1>6. /\ kpc' \in [Task -> KernelCall] /\ child' \in [Task -> Task \cup {NULL}]
      /\ mode' \in {"cpu", "schedule", "msg", "fault", "panic"}
  BY DEF Start, TypeOK, KernelCall
<1>7. /\ state' \in [Task -> State] /\ alloc' \subseteq Task
      /\ msg_val' \in [Task -> Int] /\ priority' \in [Task -> Int]
  BY <1>1 DEF Start, TypeOK, State, QState
<1>8. QED
  BY <1>2, <1>3, <1>5, <1>6, <1>7 DEF Start, TypeOK, msgLists

LEMMA ExitTypeOK ==
    ASSUME TypeOK, NEW t \in Task, exit_task(t), NEW next \in {"cpu", "schedule"},
           after_exit(t, next), UNCHANGED <<current, total_ticks, stackVars>>
    PROVE  TypeOK'
<1>1. mode' \in {"cpu", "schedule", "msg", "fault", "panic"}
  BY DEF after_exit
<1>2. QED
  BY <1>1, ExitTaskTypeOK DEF TypeOK, Lists, stackVars

LEMMA WaitClockTypeOK ==
    ASSUME TypeOK, NEW c \in WakeTime, WaitClock(c)
    PROVE  TypeOK'
<1>1. queue' \in [QState -> Seq(Task)]
  BY Link DEF WaitClock, TypeOK, Lists, QState
<1>2. c \in Clock
  BY InputAssumption DEF Clock
<1>3. QED
  BY <1>1, <1>2 DEF WaitClock, TypeOK, State, QState, stackVars, msgLists, nameVars

LEMMA ChprioTypeOK ==
    ASSUME TypeOK, NEW p, NEW prio \in ChPrio, Chprio(p, prio)
    PROVE  TypeOK'
<1> DEFINE t == pid_to_task(p)
           prios == [priority EXCEPT ![t] = prio]
<1>1. t \in Task
  BY PidToTask DEF Chprio
<1> HIDE DEF t
<1>2. prios \in [Task -> Int]
  BY <1>1, InputAssumption, ParamAssumption DEF TypeOK
<1>3. queue' \in [QState -> Seq(Task)]
  <2>1. queue' = requeue(t, prios)
    BY DEF Chprio, t
  <2> HIDE DEF prios
  <2>2. QED
    BY <1>1, <1>2, <2>1, Move DEF requeue, TypeOK, Lists
<1>4. ASSUME NEW lists \in [Fid -> Seq(Task)]
      PROVE  msg_reinsert(lists, t, prios) \in [Fid -> Seq(Task)]
  <2>1. ASSUME NEW f \in Fid PROVE queue_update(lists[f], t, prios) \in Seq(Task)
    <3>1. queue_del(lists[f], t) \in Seq(Task)
      BY QueueDel
    <3> HIDE DEF prios
    <3>2. QED
      BY <3>1, <1>1, <1>2, QueueAdd DEF queue_update
  <2>2. QED
    BY <2>1 DEF msg_reinsert
<1>5. senders' \in [Fid -> Seq(Task)] /\ receivers' \in [Fid -> Seq(Task)]
  BY <1>4 DEF Chprio, TypeOK, msgLists, t
<1>6. mode' \in {"cpu", "schedule", "msg", "fault", "panic"} /\ priority' \in [Task -> Int]
  BY <1>2 DEF Chprio, t
<1>7. QED
  BY <1>3, <1>5, <1>6 DEF Chprio, TypeOK, stackVars, nameVars

LEMMA WakeUpTypeOK ==
    ASSUME TypeOK, WakeUp
    PROVE  TypeOK'
<1>1. first_due \in Task
  BY FirstDue DEF WakeUp
<1>2. queue' \in [QState -> Seq(Task)]
  BY <1>1, Move DEF WakeUp, TypeOK, Lists, QState
<1>3. 0 \in Clock
  BY ParamAssumption DEF Clock
<1>4. QED
  BY <1>1, <1>2, <1>3
     DEF WakeUp, TypeOK, State, QState, cpuVars, stackVars, msgLists, nameVars

LEMMA WakeUpCurrentTypeOK ==
    ASSUME TypeOK, WakeUpCurrent
    PROVE  TypeOK'
<1>1. 0 \in Clock
  BY ParamAssumption DEF Clock
<1>2. QED
  BY <1>1 DEF WakeUpCurrent, TypeOK, stackVars, msgLists, nameVars

LEMMA ReapTypeOK ==
    ASSUME TypeOK, NEW i, Reap(i)
    PROVE  TypeOK'
<1>1. kpc' \in [Task -> KernelCall] /\ child' \in [Task -> Task \cup {NULL}]
  BY DEF Reap, TypeOK, KernelCall
<1>2. QED
  BY <1>1, FreeTaskTypeOK DEF Reap, TypeOK, Lists, cpuVars, msgLists, nameVars

\* The task schedule() switches to is on the ready list.
LEMMA QueueTop ==
    ASSUME TypeOK, ~keeps_cpu
    PROVE  /\ queue_top(queue["READY"]) \in Task
           /\ queue_top(queue["READY"]) \in ToSet(queue["READY"])
<1>1. queue["READY"] \in Seq(Task) /\ queue["READY"] # <<>>
  BY DEF TypeOK, QState, keeps_cpu
<1>2. Len(queue["READY"]) \in 1..Len(queue["READY"])
  BY <1>1, EmptySeq
<1>3. QED
  BY <1>1, <1>2, ElementOfSeq, LenProperties DEF queue_top, ToSet

LEMMA SwitchTypeOK ==
    ASSUME TypeOK, Switch
    PROVE  TypeOK'
<1> DEFINE new == queue_top(queue["READY"])
           q == IF state[current] = "RUNNING" THEN link(queue, "READY", current, priority)
                                              ELSE queue
<1>1. new \in Task
  BY QueueTop DEF Switch
<1>2. q \in Lists
  BY Link DEF TypeOK, Lists, QState
<1>3. queue' \in [QState -> Seq(Task)]
  <2>1. queue' = unlink(q, new)
    BY DEF Switch
  <2> HIDE DEF q, new
  <2>2. QED
    BY <1>2, <2>1, Unlink DEF Lists
<1>4. state' \in [Task -> State]
  BY DEF Switch, TypeOK, State, QState
<1>5. QED
  BY <1>1, <1>3, <1>4 DEF Switch, TypeOK, stackVars, msgLists, nameVars

LEMMA NextTypeOK == TypeOK /\ [Next]_vars => TypeOK'
<1> SUFFICES ASSUME TypeOK, [Next]_vars PROVE TypeOK'
  OBVIOUS
<1>1. ASSUME NEW prio \in StartPrio, NEW t \in Task, Start(prio, t) PROVE TypeOK'
  BY <1>1, StartTypeOK
<1>2. CASE StartNoMemory
  <2>1. alloc_pid \in Pid
    BY <1>2, AllocPid DEF StartNoMemory
  <2>2. QED
    BY <1>2, <2>1 DEF StartNoMemory, TypeOK, cpuVars, structVars, stackVars, msgLists
<1>3. CASE Exit
  <2>1. current \in Task
    BY DEF TypeOK
  <2>2. QED
    BY <1>3, <2>1, ExitTypeOK DEF Exit
<1>4. ASSUME NEW p \in Pid, Kill(p) PROVE TypeOK'
  <2>1. pid_to_task(p) \in Task
    BY <1>4, PidToTask DEF Kill
  <2>2. (IF pid_to_task(p) = current THEN "schedule" ELSE "cpu") \in {"cpu", "schedule"}
    OBVIOUS
  <2>3. QED
    BY <1>4, <2>1, <2>2, ExitTypeOK DEF Kill
<1>5. ASSUME NEW c \in WakeTime, WaitClock(c) PROVE TypeOK'
  BY <1>5, WaitClockTypeOK
<1>6. ASSUME NEW p \in Pid, NEW prio \in ChPrio, Chprio(p, prio) PROVE TypeOK'
  BY <1>6, ChprioTypeOK
<1>7. CASE WaitAny
  BY <1>7, WaitAnyTypeOK DEF WaitAny
<1>8. ASSUME NEW p \in Pid, WaitSpecific(p) PROVE TypeOK'
  BY <1>8, FirstNamed, WaitSpecificTypeOK DEF WaitSpecific
<1>9. CASE Tick
  <2>1. (total_ticks + 1) % ClockMod \in Clock
    BY ParamAssumption DEF TypeOK, Clock
  <2>2. QED
    BY <1>9, <2>1 DEF Tick, TypeOK, structVars, stackVars, msgLists, nameVars
<1>10. CASE WakeUp
  BY <1>10, WakeUpTypeOK
<1>11. CASE WakeUpCurrent
  BY <1>11, WakeUpCurrentTypeOK
<1>12. ASSUME NEW i \in zombies, Reap(i) PROVE TypeOK'
  BY <1>12, ReapTypeOK
<1>13. CASE Keep
  BY <1>13 DEF Keep, TypeOK, structVars, stackVars, msgLists, nameVars
<1>14. CASE Switch
  BY <1>14, SwitchTypeOK
<1>15. CASE ReturnFromStart
  BY <1>15 DEF ReturnFromStart, TypeOK, KernelCall, cpuVars, structVars, msgLists, nameVars
<1>16. CASE ResumeWaitAny
  BY <1>16, WaitAnyTypeOK DEF ResumeWaitAny
<1>17. CASE ResumeWaitSpecific
  <2>1. child[current] \in Task \cup {NULL}
    BY DEF TypeOK
  <2>2. QED
    BY <1>17, <2>1, WaitSpecificTypeOK DEF ResumeWaitSpecific
<1>18. CASE PageFault
  <2>1. CASE state[current] = "ZOMBIE"
    BY <1>18, <2>1 DEF PageFault, TypeOK, structVars, stackVars, msgLists, nameVars
  <2>2. CASE state[current] # "ZOMBIE"
    <3>1. current \in Task
      BY DEF TypeOK
    <3>2. QED
      BY <1>18, <2>2, <3>1, ExitTypeOK DEF PageFault
  <2>3. QED
    BY <2>1, <2>2
<1>19. CASE UNCHANGED vars
  BY <1>19 DEF TypeOK, vars, cpuVars, structVars, stackVars, msgLists, nameVars
<1>20. QED
  BY <1>1, <1>2, <1>3, <1>4, <1>5, <1>6, <1>7, <1>8, <1>9, <1>10, <1>11, <1>12, <1>13,
     <1>14, <1>15, <1>16, <1>17, <1>18, <1>19
     DEF Next, SystemCall, Schedule, Resume, Panicked

\* Every reachable state of the task subsystem is well typed: in particular no
\* list ever holds anything but tasks, whatever is freed and allocated again.
THEOREM TypeCorrect == Spec => []TypeOK
<1>1. QED
  BY InitTypeOK, NextTypeOK, PTL DEF Spec

-----------------------------------------------------------------------------
(***************************************************************************)
(* The inductive invariant.  QueueMatchesState alone is not inductive: that *)
(* a list operation finds the task where it expects it depends on what the *)
(* current task's state can be, on freed structs being in no state of      *)
(* their own, and on kill finding only processes that are alive.           *)
(***************************************************************************)

\* Exactly the freed structs are in state STARTUP.
FreedAreStartup == \A t \in Task : t \in alloc <=> state[t] # "STARTUP"

\* The state the current task can be in at each point of the kernel.
CurrentState ==
    /\ mode \in {"cpu", "msg"} => state[current] = "RUNNING"
    /\ mode = "fault" => state[current] \in {"RUNNING", "ZOMBIE"} /\ current # Idle
    /\ state[current] # "READY"

\* No task is its own parent.
NotOwnParent == \A t \in alloc : parent[t] # t

\* A task suspended in waitpid(pid) remembers a child, and the idle task is
\* never suspended in a call that blocks.
SuspendedCalls ==
    /\ \A t \in Task : kpc[t] = "waitpid" => child[t] \in Task
    /\ kpc[Idle] \in {"user", "start"}

Struct ==
    /\ QueueMatchesState
    /\ OnlyCurrentRuns
    /\ PidsUnique
    /\ FreedAreStartup
    /\ CurrentState
    /\ NotOwnParent
    /\ SuspendedCalls

StructInv == TypeOK /\ Struct

-----------------------------------------------------------------------------
(* Lists and states *)

\* The lists q hold the tasks of al by their state in st, each once.
Match(q, al, st) ==
    /\ NoDups(q)
    /\ \A s \in QState : ToSet(q[s]) = {u \in al : st[u] = s}

LEMMA MatchDef ==
    /\ QueueMatchesState <=> Match(queue, alloc, state)
    /\ QueueMatchesState' <=> Match(queue', alloc', state')
  BY DEF QueueMatchesState, Match, NoDups

\* A task that is on no list is linked into the list of its new state.
LEMMA LinkMatch ==
    ASSUME NEW q \in Lists, NEW al \in SUBSET Task, NEW st \in [Task -> State],
           Match(q, al, st),
           NEW s \in QState, NEW t \in Task, NEW prio \in [Task -> Int],
           t \in al => st[t] \notin QState
    PROVE  Match(link(q, s, t, prio), al \cup {t}, [st EXCEPT ![t] = s])
<1> DEFINE q2 == link(q, s, t, prio)
           st2 == [st EXCEPT ![t] = s]
<1>1. /\ link(q, s, t, prio) \in Lists
      /\ \A r \in QState : ToSet(link(q, s, t, prio)[r]) =
                              IF r = s THEN ToSet(q[r]) \cup {t} ELSE ToSet(q[r])
      /\ NoDups(q) /\ t \notin ToSet(q[s]) => NoDups(link(q, s, t, prio))
  BY Link
<1> HIDE DEF q2
<1>3. t \notin ToSet(q[s]) /\ NoDups(q)
  BY DEF Match
<1>4. NoDups(q2)
  BY <1>1, <1>3 DEF q2
<1>5. ASSUME NEW r \in QState PROVE ToSet(q2[r]) = {u \in al \cup {t} : st2[u] = r}
  <2>0. ToSet(q[r]) = {u \in al : st[u] = r}
    BY DEF Match
  <2>1. CASE r = s
    <3>1. ToSet(q2[r]) = ToSet(q[r]) \cup {t}
      BY <1>1, <2>1 DEF q2
    <3>2. QED
      BY <2>0, <2>1, <3>1
  <2>2. CASE r # s
    <3>1. ToSet(q2[r]) = ToSet(q[r])
      BY <1>1, <2>2 DEF q2
    <3>2. t \in al => st[t] # r
      OBVIOUS
    <3>3. QED
      BY <2>0, <2>2, <3>1, <3>2
  <2>3. QED
    BY <2>1, <2>2
<1>6. QED
  BY <1>4, <1>5 DEF Match, q2

\* A task that leaves its list and goes to a state without one, or is freed.
LEMMA UnlinkMatch ==
    ASSUME NEW q \in Lists, NEW al \in SUBSET Task, NEW st \in [Task -> State],
           Match(q, al, st),
           NEW t \in Task, NEW r \in State \ QState, NEW al2 \in {al, al \ {t}}
    PROVE  Match(unlink(q, t), al2, [st EXCEPT ![t] = r])
<1> DEFINE q2 == unlink(q, t)
           st2 == [st EXCEPT ![t] = r]
<1>1. /\ NoDups(q2)
      /\ \A s \in QState : ToSet(q2[s]) = ToSet(q[s]) \ {t}
  BY Unlink DEF Match
<1> HIDE DEF q2
<1>2. ASSUME NEW s \in QState PROVE ToSet(q2[s]) = {u \in al2 : st2[u] = s}
  BY <1>1, <1>2 DEF Match
<1>3. QED
  BY <1>1, <1>2 DEF Match, q2

\* A task that moves from the list of its state, if it is on one, to that of s.
LEMMA MoveMatch ==
    ASSUME NEW q \in Lists, NEW al \in SUBSET Task, NEW st \in [Task -> State],
           Match(q, al, st),
           NEW s \in QState, NEW t \in Task, t \in al, NEW prio \in [Task -> Int]
    PROVE  Match(move(q, s, t, prio), al, [st EXCEPT ![t] = s])
<1> DEFINE u == unlink(q, t)
           off == [st EXCEPT ![t] = "STARTUP"]
<1>1. "STARTUP" \in State \ QState
  BY DEF State, QState
<1>2. Match(u, al, off)
  BY <1>1, UnlinkMatch
<1>3. u \in Lists
  BY Unlink
<1>4. off \in [Task -> State] /\ off[t] \notin QState
  BY <1>1
<1>5. [off EXCEPT ![t] = s] = [st EXCEPT ![t] = s] /\ al \cup {t} = al
  OBVIOUS
<1>6. move(q, s, t, prio) = link(u, s, t, prio)
  BY DEF move
<1> HIDE DEF u, off
<1>7. Match(link(u, s, t, prio), al \cup {t}, [off EXCEPT ![t] = s])
  BY <1>2, <1>3, <1>4, LinkMatch
<1>8. QED
  BY <1>5, <1>6, <1>7

-----------------------------------------------------------------------------
LEMMA InitStruct == Init => StructInv
<1> SUFFICES ASSUME Init PROVE StructInv
  OBVIOUS
<1>1. TypeOK
  BY InitTypeOK
<1>2. QueueMatchesState
  BY TaskAssumption DEF Init, QueueMatchesState, QState, NoDup, ToSet
<1>3. /\ OnlyCurrentRuns /\ PidsUnique /\ FreedAreStartup /\ CurrentState
      /\ NotOwnParent /\ SuspendedCalls
  BY TaskAssumption
     DEF Init, OnlyCurrentRuns, PidsUnique, FreedAreStartup, CurrentState, NotOwnParent,
         SuspendedCalls
<1>4. QED
  BY <1>1, <1>2, <1>3 DEF StructInv, Struct

\* What the invariant says of the lists, and of the idle and current tasks.
LEMMA StructFacts ==
    ASSUME StructInv
    PROVE  /\ queue \in Lists /\ alloc \in SUBSET Task /\ state \in [Task -> State]
           /\ priority \in [Task -> Int]
           /\ Match(queue, alloc, state)
           /\ Idle \in Task /\ current \in Task /\ current \in alloc
           /\ mode \in {"cpu", "msg"} => state[current] = "RUNNING"
           /\ \A t \in Task : t \in global <=> t \in alloc /\ state[t] # "ZOMBIE"
           /\ \A t \in Task : t \in alloc <=> state[t] # "STARTUP"
  BY MatchDef, TaskAssumption
     DEF StructInv, Struct, TypeOK, Lists, OnlyCurrentRuns, PidsUnique, FreedAreStartup,
         CurrentState

-----------------------------------------------------------------------------
(* One lemma per handler *)

\* start() links a struct that was free.
LEMMA StartStruct ==
    ASSUME StructInv, NEW prio \in StartPrio, NEW t \in Task, Start(prio, t)
    PROVE  Struct'
<1> DEFINE prios == [priority EXCEPT ![t] = prio]
<1>1. prios \in [Task -> Int]
  BY StructFacts, InputAssumption, ParamAssumption
<1>2. t \notin alloc /\ state[t] = "STARTUP" /\ t # current /\ "READY" \in QState
  BY StructFacts DEF Start, QState
<1>3. /\ state' = [state EXCEPT ![t] = "READY"]
      /\ alloc' = alloc \cup {t}
      /\ queue' = link(queue, "READY", t, prios)
  BY DEF Start
<1>4. QueueMatchesState'
  <2> HIDE DEF prios
  <2>1. Match(link(queue, "READY", t, prios), alloc \cup {t}, [state EXCEPT ![t] = "READY"])
    BY <1>1, <1>2, StructFacts, LinkMatch
  <2>2. QED
    BY <1>3, <2>1, MatchDef
<1>5. current' = current /\ mode' \in {"cpu", "schedule"} /\ state[current] = "RUNNING"
  BY StructFacts DEF Start, InUser
<1>6. OnlyCurrentRuns' /\ FreedAreStartup' /\ CurrentState'
  BY <1>2, <1>3, <1>5, StructFacts
     DEF StructInv, Struct, OnlyCurrentRuns, FreedAreStartup, CurrentState
<1>7. PidsUnique'
  <2>1. alloc_pid \notin pidmap
    BY AllocPid DEF Start, StructInv
  <2>2. /\ global' = global \cup {t} /\ pidmap' = pidmap \cup {alloc_pid}
        /\ pid' = [pid EXCEPT ![t] = alloc_pid] /\ pid \in [Task -> Pid] /\ global \subseteq Task
    BY DEF Start, StructInv, TypeOK
  <2>3. /\ global = {u \in alloc : state[u] # "ZOMBIE"}
        /\ \A u, v \in global : pid[u] = pid[v] => u = v
        /\ \A u \in global : pid[u] \in pidmap
    BY DEF StructInv, Struct, PidsUnique
  <2>4. global' = {u \in alloc' : state'[u] # "ZOMBIE"}
    BY <1>2, <1>3, <2>2, <2>3, StructFacts
  <2>5. \A u \in global' : pid'[u] \in pidmap'
    BY <2>2, <2>3
  <2>6. \A u, v \in global' : pid'[u] = pid'[v] => u = v
    BY <2>1, <2>2, <2>3
  <2>7. QED
    BY <2>4, <2>5, <2>6 DEF PidsUnique
<1>8. NotOwnParent'
  <2>1. parent' = [parent EXCEPT ![t] = current] /\ parent \in [Task -> Task \cup {NULL}]
    BY DEF Start, StructInv, TypeOK
  <2>2. QED
    BY <1>2, <1>3, <2>1, StructFacts DEF NotOwnParent, StructInv, Struct
<1>9. SuspendedCalls'
  <2>1. /\ kpc' \in {[kpc EXCEPT ![current] = "start"], [kpc EXCEPT ![current] = "user"]}
        /\ child' \in {[child EXCEPT ![current] = t], [child EXCEPT ![current] = NULL]}
        /\ kpc \in [Task -> KernelCall] /\ child \in [Task -> Task \cup {NULL}]
    BY DEF Start, StructInv, TypeOK
  <2>2. QED
    BY <2>1, StructFacts DEF SuspendedCalls, StructInv, Struct
<1>10. QED
  BY <1>4, <1>6, <1>7, <1>8, <1>9 DEF Struct

\* __exit_task of a live process other than idle, by the current task.
LEMMA ExitStruct ==
    ASSUME StructInv, state[current] = "RUNNING", current # Idle,
           NEW t \in Task, t \in global, t # Idle, exit_task(t),
           UNCHANGED <<current, total_ticks, stackVars>>,
           \/ t = current /\ mode' \in {"schedule", "fault"}
           \/ t # current /\ mode' \in {"cpu", "fault"}
    PROVE  Struct'
<1> DEFINE prio == [priority EXCEPT ![t] = zombie_priority]
           q == move(queue, "ZOMBIE", t, prio)
           p == parent[t]
           wakes == unlocks_parent(t)
           dead == [state EXCEPT ![t] = "ZOMBIE"]
<1>1. prio \in [Task -> Int]
  BY ZombiePriority, StructFacts DEF StructInv
<1>2. "ZOMBIE" \in QState /\ "READY" \in QState
  BY DEF QState
<1>3. t \in alloc /\ state[t] # "ZOMBIE"
  BY StructFacts
<1>4. wakes => /\ p \in Task /\ p \in alloc /\ p # t
               /\ state[p] = "INTERRUPTED_CHILD" /\ p # current
  BY <1>3, StructFacts DEF unlocks_parent, StructInv, Struct, NotOwnParent
<1>5. /\ queue' = IF wakes THEN move(q, "READY", p, prio) ELSE q
      /\ state' = [x \in Task |-> IF x = t THEN "ZOMBIE"
                                  ELSE IF wakes /\ x = p THEN "READY" ELSE state[x]]
      /\ alloc' = alloc
  BY DEF exit_task
<1>6. dead \in [Task -> State] /\ dead[t] = "ZOMBIE"
  BY <1>2, StructFacts DEF State
<1>7. state' = IF wakes THEN [dead EXCEPT ![p] = "READY"] ELSE dead
  BY <1>4, <1>5, <1>6, StructFacts
<1>8. QueueMatchesState'
  <2>1. Match(q, alloc, dead)
    <3> HIDE DEF prio
    <3> QED BY <1>1, <1>2, <1>3, StructFacts, MoveMatch
  <2>2. q \in Lists
    <3> HIDE DEF prio
    <3> QED BY <1>1, <1>2, StructFacts, Move
  <2> HIDE DEF prio, q, dead, p, wakes
  <2>3. wakes => Match(move(q, "READY", p, prio), alloc, [dead EXCEPT ![p] = "READY"])
    BY <1>1, <1>2, <1>4, <1>6, <2>1, <2>2, StructFacts, MoveMatch
  <2>4. QED
    BY <1>5, <1>7, <2>1, <2>3, MatchDef
<1>9. OnlyCurrentRuns' /\ FreedAreStartup' /\ CurrentState'
  <2> HIDE DEF p, wakes
  <2>1. current' = current
    OBVIOUS
  <2>2. \A x \in Task : state'[x] = IF x = t THEN "ZOMBIE"
                                    ELSE IF wakes /\ x = p THEN "READY" ELSE state[x]
    BY <1>5
  <2>3. QED
    BY <1>3, <1>4, <1>5, <2>1, <2>2, StructFacts
       DEF StructInv, Struct, OnlyCurrentRuns, FreedAreStartup, CurrentState
<1>10. PidsUnique'
  <2> HIDE DEF p, wakes
  <2>1. global' = global \ {t} /\ pidmap' = pidmap \ {pid[t]} /\ pid' = pid
    BY DEF exit_task
  <2>2. \A x \in Task : state'[x] = IF x = t THEN "ZOMBIE"
                                    ELSE IF wakes /\ x = p THEN "READY" ELSE state[x]
    BY <1>5
  <2>3. QED
    BY <1>3, <1>4, <1>5, <2>1, <2>2, StructFacts DEF StructInv, Struct, PidsUnique
<1>11. NotOwnParent' /\ SuspendedCalls'
  BY <1>5 DEF exit_task, stackVars, StructInv, Struct, NotOwnParent, SuspendedCalls
<1>12. QED
  BY <1>8, <1>9, <1>10, <1>11 DEF Struct

\* The struct of a zombie that is not the current task is freed.
LEMMA FreeStruct ==
    ASSUME StructInv, NEW c \in Task, state[c] = "ZOMBIE", c # current, free_task(c),
           UNCHANGED <<cpuVars, nameVars>>,
           \A t \in Task \ {c} : kpc'[t] = "waitpid" => kpc[t] = "waitpid" /\ child'[t] = child[t],
           kpc'[c] = "user", kpc'[Idle] \in {"user", kpc[Idle]}
    PROVE  Struct'
<1>1. c \in alloc /\ c \notin global /\ c # Idle
  BY StructFacts DEF StructInv, Struct, OnlyCurrentRuns
<1>2. /\ queue' = unlink(queue, c)
      /\ alloc' = alloc \ {c}
      /\ state' = [state EXCEPT ![c] = "STARTUP"]
  BY DEF free_task
<1>3. "STARTUP" \in State \ QState
  BY DEF State, QState
<1>4. QueueMatchesState'
  <2>1. Match(unlink(queue, c), alloc \ {c}, [state EXCEPT ![c] = "STARTUP"])
    BY <1>3, StructFacts, UnlinkMatch
  <2>2. QED
    BY <1>2, <2>1, MatchDef
<1>5. OnlyCurrentRuns' /\ FreedAreStartup' /\ CurrentState'
  BY <1>1, <1>2, StructFacts
     DEF StructInv, Struct, OnlyCurrentRuns, FreedAreStartup, CurrentState, cpuVars
<1>6. PidsUnique'
  <2>1. pid' = [pid EXCEPT ![c] = 0] /\ pid \in [Task -> Pid] /\ global \subseteq Task
    BY DEF free_task, StructInv, TypeOK
  <2>2. \A u \in global : pid'[u] = pid[u]
    BY <1>1, <2>1
  <2>3. global' = {u \in alloc' : state'[u] # "ZOMBIE"}
    BY <1>1, <1>2, StructFacts DEF StructInv, Struct, PidsUnique, nameVars
  <2>4. QED
    BY <2>2, <2>3 DEF StructInv, Struct, PidsUnique, nameVars
<1>7. NotOwnParent'
  <2>1. parent' = [parent EXCEPT ![c] = NULL] /\ parent \in [Task -> Task \cup {NULL}]
    BY DEF free_task, StructInv, TypeOK
  <2>2. QED
    BY <1>2, <2>1, StructFacts DEF StructInv, Struct, NotOwnParent
<1>8. SuspendedCalls'
  BY DEF StructInv, Struct, SuspendedCalls
<1>9. QED
  BY <1>4, <1>5, <1>6, <1>7, <1>8 DEF Struct

LEMMA CollectStruct ==
    ASSUME StructInv, state[current] = "RUNNING", NEW c \in Task, state[c] = "ZOMBIE", collect(c)
    PROVE  Struct'
<1>1. c # current /\ current \in Task
  BY StructFacts
<1>2. kpc \in [Task -> KernelCall] /\ child \in [Task -> Task \cup {NULL}]
  BY DEF StructInv, TypeOK
<1>3. /\ kpc' = [kpc EXCEPT ![current] = "user", ![c] = "user"]
      /\ child' = [child EXCEPT ![current] = NULL, ![c] = NULL]
  BY DEF collect
<1>4. /\ kpc'[c] = "user" /\ kpc'[Idle] \in {"user", kpc[Idle]}
      /\ \A t \in Task \ {c} : kpc'[t] = "waitpid" => kpc[t] = "waitpid" /\ child'[t] = child[t]
  BY <1>1, <1>2, <1>3, TaskAssumption
<1>5. QED
  BY <1>1, <1>4, FreeStruct DEF collect

\* The current process blocks: it is linked into the list of its new state.
LEMMA BlockStruct ==
    ASSUME StructInv, state[current] = "RUNNING", current # Idle,
           NEW s \in QState \ {"READY", "ZOMBIE"},
           state' = [state EXCEPT ![current] = s],
           queue' = link(queue, s, current, priority),
           mode' = "schedule",
           UNCHANGED <<current, alloc, pid, parent, nameVars>>,
           SuspendedCalls'
    PROVE  Struct'
<1>1. s \in State /\ s # "STARTUP" /\ s # "RUNNING" /\ "RUNNING" \notin QState /\ s \in QState
  BY DEF State, QState
<1>2. alloc \cup {current} = alloc
  BY StructFacts
<1>3. QueueMatchesState'
  <2>1. current \in alloc => state[current] \notin QState
    BY <1>1
  <2>2. Match(link(queue, s, current, priority), alloc \cup {current},
              [state EXCEPT ![current] = s])
    BY <1>1, <2>1, StructFacts, LinkMatch
  <2>3. QED
    BY <1>2, <2>2, MatchDef
<1>4. OnlyCurrentRuns' /\ FreedAreStartup' /\ CurrentState' /\ NotOwnParent'
  BY <1>1, StructFacts
     DEF StructInv, Struct, OnlyCurrentRuns, FreedAreStartup, CurrentState, NotOwnParent
<1>5. PidsUnique'
  BY <1>1, StructFacts DEF StructInv, Struct, PidsUnique, nameVars
<1>6. QED
  BY <1>3, <1>4, <1>5 DEF Struct

LEMMA BlockForChildStruct ==
    ASSUME StructInv, state[current] = "RUNNING", current # Idle,
           NEW call, NEW c, call = "waitpid" => c \in Task, block_for_child(call, c)
    PROVE  Struct'
<1>1. SuspendedCalls'
  <2>1. /\ kpc \in [Task -> KernelCall] /\ child \in [Task -> Task \cup {NULL}]
        /\ kpc' = [kpc EXCEPT ![current] = call] /\ child' = [child EXCEPT ![current] = c]
    BY DEF StructInv, TypeOK, block_for_child
  <2>2. QED
    BY <2>1 DEF StructInv, Struct, SuspendedCalls
<1>2. "INTERRUPTED_CHILD" \in QState \ {"READY", "ZOMBIE"}
  BY DEF QState
<1>3. QED
  BY <1>1, <1>2, BlockStruct DEF block_for_child

\* The child that waitpid(-1) finds is a zombie.
LEMMA FirstZombie ==
    ASSUME TypeOK, first_zombie # 0
    PROVE  /\ children[current][first_zombie] \in Task
           /\ state[children[current][first_zombie]] = "ZOMBIE"
<1> DEFINE I == {i \in 1..Len(children[current]) : state[children[current][i]] = "ZOMBIE"}
<1>1. first_zombie = IF I # {} THEN Min(I) ELSE 0
  BY DEF first_zombie, SelectInSeq
<1>2. I # {} /\ first_zombie = Min(I)
  BY <1>1
<1>3. children[current] \in Seq(Task)
  BY DEF TypeOK
<1>4. \E x \in I : \A y \in I : x <= y
  <2>1. I \subseteq Nat
    OBVIOUS
  <2> HIDE DEF I
  <2>2. QED
    BY <1>2, <2>1, LeastNat
<1>5. Min(I) \in I
  <2> HIDE DEF I
  <2> QED BY <1>4 DEF Min
<1>6. first_zombie \in I
  BY <1>2, <1>5
<1>7. QED
  BY <1>3, <1>6, ElementOfSeq

\* The loops of waitpid, entered from user mode or again after a wake-up.
LEMMA WaitStruct ==
    ASSUME StructInv, state[current] = "RUNNING", current # Idle
    PROVE  /\ wait_any => Struct'
           /\ \A c \in Task : wait_specific(c) => Struct'
<1>1. ASSUME wait_any PROVE Struct'
  <2>1. CASE first_zombie # 0
    BY <1>1, <2>1, FirstZombie, CollectStruct DEF wait_any, StructInv
  <2>2. CASE first_zombie = 0
    BY <1>1, <2>2, BlockForChildStruct DEF wait_any
  <2>3. QED
    BY <2>1, <2>2
<1>2. ASSUME NEW c \in Task, wait_specific(c) PROVE Struct'
  <2>1. CASE state[c] = "ZOMBIE"
    BY <1>2, <2>1, CollectStruct DEF wait_specific
  <2>2. CASE state[c] # "ZOMBIE"
    BY <1>2, <2>2, BlockForChildStruct DEF wait_specific
  <2>3. QED
    BY <2>1, <2>2
<1>3. QED
  BY <1>1, <1>2

LEMMA WaitClockStruct ==
    ASSUME StructInv, NEW c, WaitClock(c)
    PROVE  Struct'
<1>1. "SLEEPING" \in QState \ {"READY", "ZOMBIE"}
  BY DEF QState
<1>2. state[current] = "RUNNING" /\ current # Idle
  BY StructFacts DEF WaitClock, InProcess, InUser
<1>3. SuspendedCalls'
  BY DEF WaitClock, stackVars, StructInv, Struct, SuspendedCalls
<1>4. QED
  BY <1>1, <1>2, <1>3, BlockStruct DEF WaitClock

\* A pid names a live process.
LEMMA PidToLive ==
    ASSUME StructInv, mode = "cpu", NEW p, pid_to_task(p) # NULL
    PROVE  pid_to_task(p) \in Task /\ pid_to_task(p) \in global
<1>1. pid_to_task(p) \in Task
  BY PidToTask DEF StructInv
<1>2. current \in global
  BY StructFacts
<1>3. QED
  BY <1>1, <1>2 DEF pid_to_task

\* Nothing that the invariant speaks of changes but the order of the lists,
\* and the CPU goes to the scheduler or stays with the current task.
LEMMA SameStruct ==
    ASSUME StructInv, Match(queue', alloc, state),
           UNCHANGED <<current, alloc, state, pid, parent, nameVars>>,
           SuspendedCalls',
           mode' \in {"cpu", "schedule", "panic"},
           mode' = "cpu" => state[current] = "RUNNING"
    PROVE  Struct'
<1>1. QueueMatchesState'
  BY MatchDef
<1>2. OnlyCurrentRuns' /\ FreedAreStartup' /\ CurrentState' /\ NotOwnParent' /\ PidsUnique'
  BY DEF StructInv, Struct, OnlyCurrentRuns, FreedAreStartup, CurrentState, NotOwnParent,
         PidsUnique, nameVars
<1>3. QED
  BY <1>1, <1>2 DEF Struct

LEMMA ChprioStruct ==
    ASSUME StructInv, NEW p, NEW prio \in ChPrio, Chprio(p, prio)
    PROVE  Struct'
<1> DEFINE t == pid_to_task(p)
           prios == [priority EXCEPT ![t] = prio]
<1>1. mode = "cpu" /\ t # NULL
  BY DEF Chprio, InProcess, InUser
<1>2. t \in Task /\ t \in alloc
  BY <1>1, PidToLive, StructFacts
<1>3. queue' = requeue(t, prios)
  BY DEF Chprio
<1>4. /\ UNCHANGED <<current, alloc, state, pid, parent, nameVars, stackVars>>
      /\ mode' \in {"cpu", "schedule"}
  BY DEF Chprio
<1> HIDE DEF t
<1>5. prios \in [Task -> Int]
  <2>1. prio \in Int /\ priority \in [Task -> Int]
    BY StructFacts, InputAssumption, ParamAssumption
  <2>2. QED
    BY <2>1, ExceptType
<1> HIDE DEF prios
<1>6. Match(queue', alloc, state)
  <2>1. CASE state[t] \in QState
    <3>1. Match(move(queue, state[t], t, prios), alloc, [state EXCEPT ![t] = state[t]])
      BY <1>2, <1>5, <2>1, StructFacts, MoveMatch
    <3>2. [state EXCEPT ![t] = state[t]] = state
      BY StructFacts
    <3>3. QED
      BY <1>3, <2>1, <3>1, <3>2 DEF requeue
  <2>2. CASE state[t] \notin QState
    BY <1>3, <2>2, StructFacts DEF requeue
  <2>3. QED
    BY <2>1, <2>2
<1>7. SuspendedCalls'
  BY <1>4 DEF stackVars, StructInv, Struct, SuspendedCalls
<1>8. QED
  BY <1>1, <1>4, <1>6, <1>7, StructFacts, SameStruct

LEMMA WakeUpStruct ==
    ASSUME StructInv, WakeUp
    PROVE  Struct'
<1> DEFINE t == first_due
<1>1. t \in Task /\ t \in ToSet(queue["SLEEPING"]) /\ t # current
  BY FirstDue DEF WakeUp, StructInv
<1>2. /\ state' = [state EXCEPT ![t] = "READY"]
      /\ queue' = move(queue, "READY", t, priority)
      /\ UNCHANGED <<cpuVars, alloc, pid, parent, stackVars, nameVars>>
  BY DEF WakeUp
<1> HIDE DEF t
<1>3. "SLEEPING" \in QState /\ "READY" \in QState
  BY DEF QState
<1>4. t \in alloc /\ state[t] = "SLEEPING"
  BY <1>1, <1>3 DEF StructInv, Struct, QueueMatchesState
<1>5. QueueMatchesState'
  <2>1. Match(move(queue, "READY", t, priority), alloc, [state EXCEPT ![t] = "READY"])
    BY <1>1, <1>3, <1>4, StructFacts, MoveMatch
  <2>2. QED
    BY <1>2, <2>1, MatchDef
<1>6. OnlyCurrentRuns' /\ FreedAreStartup' /\ CurrentState' /\ NotOwnParent'
  BY <1>1, <1>2, <1>4, StructFacts
     DEF StructInv, Struct, OnlyCurrentRuns, FreedAreStartup, CurrentState, NotOwnParent, cpuVars
<1>7. PidsUnique'
  BY <1>1, <1>2, <1>4, StructFacts DEF StructInv, Struct, PidsUnique, nameVars
<1>8. SuspendedCalls'
  BY <1>2 DEF stackVars, StructInv, Struct, SuspendedCalls
<1>9. QED
  BY <1>5, <1>6, <1>7, <1>8 DEF Struct

LEMMA ReapStruct ==
    ASSUME StructInv, NEW i, Reap(i)
    PROVE  Struct'
<1> DEFINE c == zombie_at(i)
<1>1. queue["ZOMBIE"] \in Seq(Task) /\ i \in 1..Len(queue["ZOMBIE"]) /\ "ZOMBIE" \in QState
  BY DEF Reap, zombies, StructInv, TypeOK, QState
<1>2. c \in Task /\ c \in ToSet(queue["ZOMBIE"])
  BY <1>1, ElementOfSeq, LenProperties DEF zombie_at, ToSet
<1>3. c # current
  BY DEF Reap, must_reap, may_reap
<1>4. state[c] = "ZOMBIE"
  BY <1>1, <1>2 DEF StructInv, Struct, QueueMatchesState
<1>5. /\ kpc' = [kpc EXCEPT ![c] = "user"] /\ child' = [child EXCEPT ![c] = NULL]
      /\ kpc \in [Task -> KernelCall] /\ child \in [Task -> Task \cup {NULL}]
      /\ free_task(c) /\ UNCHANGED <<cpuVars, nameVars>>
  BY DEF Reap, StructInv, TypeOK
<1> HIDE DEF c
<1>6. /\ kpc'[c] = "user" /\ kpc'[Idle] \in {"user", kpc[Idle]}
      /\ \A t \in Task \ {c} : kpc'[t] = "waitpid" => kpc[t] = "waitpid" /\ child'[t] = child[t]
  BY <1>2, <1>5, TaskAssumption
<1>7. QED
  BY <1>2, <1>3, <1>4, <1>5, <1>6, FreeStruct

\* With no ready task, schedule() was called by the idle task.
LEMMA KeepStruct ==
    ASSUME StructInv, Keep
    PROVE  Struct'
<1>1. state[current] = "RUNNING"
  <2>1. CASE queue["READY"] = <<>>
    <3>1. ToSet(queue["READY"]) = {} /\ "READY" \in QState
      BY <2>1 DEF ToSet, QState
    <3>2. state[Idle] # "READY"
      BY <3>1, StructFacts DEF StructInv, Struct, QueueMatchesState
    <3>3. QED
      BY <3>2, StructFacts DEF StructInv, Struct, OnlyCurrentRuns
  <2>2. CASE queue["READY"] # <<>>
    BY <2>2 DEF Keep, keeps_cpu
  <2>3. QED
    BY <2>1, <2>2
<1>2. SuspendedCalls'
  BY DEF Keep, stackVars, StructInv, Struct, SuspendedCalls
<1>3. QED
  BY <1>1, <1>2, StructFacts, SameStruct DEF Keep, structVars

\* The task schedule() switches to comes off the ready list, and a preempted
\* one goes on it.
LEMMA SwitchStruct ==
    ASSUME StructInv, Switch
    PROVE  Struct'
<1> DEFINE new == queue_top(queue["READY"])
           preempted == state[current] = "RUNNING"
           q == IF preempted THEN link(queue, "READY", current, priority) ELSE queue
           st == IF preempted THEN [state EXCEPT ![current] = "READY"] ELSE state
<1>1. "READY" \in QState /\ "READY" \in State /\ "RUNNING" \in State \ QState
  BY DEF QState, State
<1>2. new \in Task /\ new \in ToSet(queue["READY"])
  BY QueueTop DEF Switch, StructInv
<1>3. new \in alloc /\ state[new] = "READY"
  BY <1>1, <1>2 DEF StructInv, Struct, QueueMatchesState
<1>4. new # current
  BY <1>3 DEF StructInv, Struct, CurrentState
<1>5. /\ current' = new /\ mode' = "cpu"
      /\ queue' = unlink(q, new)
      /\ UNCHANGED <<alloc, pid, parent, stackVars, nameVars>>
  BY DEF Switch
<1>6. state' = [st EXCEPT ![new] = "RUNNING"]
  BY <1>2, <1>4, StructFacts DEF Switch
<1>7. st \in [Task -> State]
  BY <1>1, StructFacts
<1> HIDE DEF new
<1>8. QueueMatchesState'
  <2>1. Match(q, alloc, st) /\ q \in Lists
    <3>1. CASE preempted
      <4>1. current \in alloc => state[current] \notin QState
        BY <3>1, <1>1
      <4>2. Match(link(queue, "READY", current, priority), alloc \cup {current},
                  [state EXCEPT ![current] = "READY"])
        BY <1>1, <4>1, StructFacts, LinkMatch
      <4>3. link(queue, "READY", current, priority) \in Lists
        BY <1>1, StructFacts, Link
      <4>4. alloc \cup {current} = alloc
        BY StructFacts
      <4>5. QED
        BY <3>1, <4>2, <4>3, <4>4
    <3>2. CASE ~preempted
      BY <3>2, StructFacts
    <3>3. QED
      BY <3>1, <3>2
  <2> HIDE DEF q, st
  <2>2. Match(unlink(q, new), alloc, [st EXCEPT ![new] = "RUNNING"])
    BY <1>1, <1>2, <1>7, <2>1, StructFacts, UnlinkMatch
  <2>3. QED
    BY <1>5, <1>6, <2>2, MatchDef
<1>9. /\ state'[new] = "RUNNING"
      /\ preempted => state'[current] = "READY"
      /\ \A x \in Task \ {current, new} : state'[x] = state[x]
      /\ ~preempted => state'[current] = state[current]
  BY <1>2, <1>4, <1>6, StructFacts
<1>10. OnlyCurrentRuns' /\ FreedAreStartup' /\ CurrentState' /\ NotOwnParent'
  BY <1>2, <1>3, <1>4, <1>5, <1>9, StructFacts
     DEF StructInv, Struct, OnlyCurrentRuns, FreedAreStartup, CurrentState, NotOwnParent
<1>11. PidsUnique'
  BY <1>2, <1>3, <1>4, <1>5, <1>9, StructFacts DEF StructInv, Struct, PidsUnique, nameVars
<1>12. SuspendedCalls'
  BY <1>5 DEF stackVars, StructInv, Struct, SuspendedCalls
<1>13. QED
  BY <1>8, <1>10, <1>11, <1>12 DEF Struct

\* A page fault kills the process that runs, unless it is dead already.
LEMMA PageFaultStruct ==
    ASSUME StructInv, PageFault
    PROVE  Struct'
<1>1. /\ state[current] \in {"RUNNING", "ZOMBIE"} /\ current # Idle
      /\ UNCHANGED <<current, total_ticks, stackVars>>
  BY DEF PageFault, StructInv, Struct, CurrentState
<1>2. CASE state[current] = "ZOMBIE"
  <2>1. SuspendedCalls'
    BY <1>1 DEF stackVars, StructInv, Struct, SuspendedCalls
  <2>2. QED
    BY <1>1, <1>2, <2>1, StructFacts, SameStruct DEF PageFault, structVars
<1>3. CASE state[current] = "RUNNING"
  <2>1. exit_task(current) /\ mode' \in {"schedule", "fault"}
    BY <1>3 DEF PageFault, after_exit
  <2>2. current \in Task /\ current \in global
    BY <1>3, StructFacts
  <2>3. QED
    BY <1>1, <1>3, <2>1, <2>2, ExitStruct
<1>4. QED
  BY <1>1, <1>2, <1>3

-----------------------------------------------------------------------------
LEMMA NextStruct == StructInv /\ [Next]_vars => Struct'
<1> SUFFICES ASSUME StructInv, [Next]_vars PROVE Struct'
  OBVIOUS
<1>a. InUser => mode = "cpu" /\ state[current] = "RUNNING"
  BY StructFacts DEF InUser
<1>1. ASSUME NEW prio \in StartPrio, NEW t \in Task, Start(prio, t) PROVE Struct'
  BY <1>1, StartStruct
<1>2. CASE StartNoMemory
  BY <1>2, StructFacts
     DEF StartNoMemory, cpuVars, structVars, stackVars, StructInv, Struct, QueueMatchesState,
         OnlyCurrentRuns, PidsUnique, FreedAreStartup, CurrentState, NotOwnParent, SuspendedCalls
<1>3. CASE Exit
  <2>1. /\ exit_task(current) /\ mode' \in {"schedule", "fault"} /\ current # Idle
        /\ UNCHANGED <<current, total_ticks, stackVars>>
    BY <1>3 DEF Exit, InProcess, after_exit
  <2>2. state[current] = "RUNNING" /\ current \in Task /\ current \in global
    BY <1>3, <1>a, StructFacts DEF Exit, InProcess
  <2>3. QED
    BY <2>1, <2>2, ExitStruct
<1>4. ASSUME NEW p \in Pid, Kill(p) PROVE Struct'
  <2> DEFINE t == pid_to_task(p)
  <2>1. /\ exit_task(t) /\ t # NULL /\ t # Idle /\ current # Idle /\ InUser
        /\ UNCHANGED <<current, total_ticks, stackVars>>
        /\ \/ t = current /\ mode' \in {"schedule", "fault"}
           \/ t # current /\ mode' \in {"cpu", "fault"}
    BY <1>4 DEF Kill, InProcess, after_exit
  <2>2. t \in Task /\ t \in global
    BY <1>a, <2>1, PidToLive
  <2> HIDE DEF t
  <2>3. QED
    BY <1>a, <2>1, <2>2, ExitStruct
<1>5. ASSUME NEW c \in WakeTime, WaitClock(c) PROVE Struct'
  BY <1>5, WaitClockStruct
<1>6. ASSUME NEW p \in Pid, NEW prio \in ChPrio, Chprio(p, prio) PROVE Struct'
  BY <1>6, ChprioStruct
<1>7. CASE WaitAny
  BY <1>7, <1>a, WaitStruct DEF WaitAny, InProcess
<1>8. ASSUME NEW p \in Pid, WaitSpecific(p) PROVE Struct'
  BY <1>8, <1>a, FirstNamed, WaitStruct DEF WaitSpecific, InProcess, StructInv
<1>9. CASE Tick
  <2>1. SuspendedCalls'
    BY <1>9 DEF Tick, stackVars, StructInv, Struct, SuspendedCalls
  <2>2. QED
    BY <1>9, <2>1, StructFacts, SameStruct DEF Tick, structVars
<1>10. CASE WakeUp
  BY <1>10, WakeUpStruct
<1>11. CASE WakeUpCurrent
  <2>1. SuspendedCalls'
    BY <1>11 DEF WakeUpCurrent, stackVars, StructInv, Struct, SuspendedCalls
  <2>2. QED
    BY <1>11, <2>1, StructFacts, SameStruct DEF WakeUpCurrent
<1>12. ASSUME NEW i \in zombies, Reap(i) PROVE Struct'
  BY <1>12, ReapStruct
<1>13. CASE Keep
  BY <1>13, KeepStruct
<1>14. CASE Switch
  BY <1>14, SwitchStruct
<1>b. mode = "cpu" => state[current] = "RUNNING"
  BY StructFacts
<1>15. CASE ReturnFromStart
  <2>1. SuspendedCalls'
    <3>1. /\ kpc' = [kpc EXCEPT ![current] = "user"] /\ child' = [child EXCEPT ![current] = NULL]
          /\ kpc \in [Task -> KernelCall] /\ child \in [Task -> Task \cup {NULL}]
      BY <1>15 DEF ReturnFromStart, StructInv, TypeOK
    <3>2. QED
      BY <3>1 DEF StructInv, Struct, SuspendedCalls
  <2>2. QED
    BY <1>15, <1>b, <2>1, StructFacts, SameStruct DEF ReturnFromStart, Resumes, cpuVars, structVars
<1>16. CASE ResumeWaitAny
  <2>1. current # Idle
    BY <1>16 DEF ResumeWaitAny, Resumes, StructInv, Struct, SuspendedCalls
  <2>2. QED
    BY <1>16, <1>b, <2>1, WaitStruct DEF ResumeWaitAny, Resumes
<1>17. CASE ResumeWaitSpecific
  <2>1. child[current] \in Task /\ current # Idle
    BY <1>17, StructFacts DEF ResumeWaitSpecific, Resumes, StructInv, Struct, SuspendedCalls
  <2>2. QED
    BY <1>17, <1>b, <2>1, WaitStruct DEF ResumeWaitSpecific, Resumes
<1>18. CASE PageFault
  BY <1>18, PageFaultStruct
<1>19. CASE UNCHANGED vars
  BY <1>19
     DEF vars, cpuVars, structVars, stackVars, nameVars, StructInv, Struct, QueueMatchesState,
         OnlyCurrentRuns, PidsUnique, FreedAreStartup, CurrentState, NotOwnParent, SuspendedCalls
<1>20. QED
  BY <1>1, <1>2, <1>3, <1>4, <1>5, <1>6, <1>7, <1>8, <1>9, <1>10, <1>11, <1>12, <1>13,
     <1>14, <1>15, <1>16, <1>17, <1>18, <1>19
     DEF Next, SystemCall, Schedule, Resume, Panicked

LEMMA StructInvariant == Spec => []StructInv
<1>1. StructInv /\ [Next]_vars => StructInv'
  BY NextTypeOK, NextStruct DEF StructInv
<1>2. QED
  BY InitStruct, <1>1, PTL DEF Spec

\* Every task is linked into the list of its state and into no other, whatever
\* is started, killed, reaped and allocated again: outside WakeUpCurrent the
\* asserts of queue_add and queue_del hold, for any number of tasks.
THEOREM ListsCorrect == Spec => []QueueMatchesState
<1>1. StructInv => QueueMatchesState
  BY DEF StructInv, Struct
<1>2. QED
  BY StructInvariant, <1>1, PTL

\* schedule() never gives the CPU back to a task that blocked or died in it,
\* and the idle task is always there to take over.
THEOREM SchedulerCorrect == Spec => []OnlyCurrentRuns
<1>1. StructInv => OnlyCurrentRuns
  BY DEF StructInv, Struct
<1>2. QED
  BY StructInvariant, <1>1, PTL

\* A pid names at most one live process, and every live process has one that
\* alloc_pid will not hand out again.
THEOREM PidsCorrect == Spec => []PidsUnique
<1>1. StructInv => PidsUnique
  BY DEF StructInv, Struct
<1>2. QED
  BY StructInvariant, <1>1, PTL

-----------------------------------------------------------------------------
(***************************************************************************)
(* Parents and children: the children lists and the pointers that          *)
(* suspended calls keep are right, no parent misses the end of a child,    *)
(* and zombies are disposed of by those who may.                           *)
(*                                                                         *)
(* The inductive invariant.  NoLostChildWakeup and ChildrenConsistent need *)
(* that a struct that is allocated again carries nothing of a call of its  *)
(* former owner, and that a process woken in waitpid, which looks through  *)
(* its children again, still has the ones it was waiting for: nobody else  *)
(* disposes of them while it lives.                                        *)
(***************************************************************************)

\* free_task leaves no suspended call behind.
FreedHaveNoCall == \A t \in Task \ alloc : kpc[t] = "user" /\ child[t] = NULL

\* What a live process waits for, or has just been woken for, is still there.
WaitsForChildren ==
    \A t \in global :
        /\ kpc[t] = "waitany" => children[t] # <<>>
        /\ kpc[t] = "waitpid" => child[t] \in ToSet(children[t])

Family ==
    /\ ChildrenAllocated
    /\ ChildPointerValid
    /\ NoLostChildWakeup
    /\ FreedHaveNoCall
    /\ WaitsForChildren

FamilyInv == StructInv /\ Family

\* One step of ZombiesKept.
ZombieStep ==
    \A z \in alloc : state[z] = "ZOMBIE" =>
        /\ z \in alloc' => state'[z] = "ZOMBIE" /\ parent'[z] = parent[z]
        /\ z \notin alloc' /\ parent[z] \in global \ {Idle} =>
               mode = "cpu" /\ current = parent[z]

-----------------------------------------------------------------------------
LEMMA InitFamily == Init => FamilyInv
<1> SUFFICES ASSUME Init PROVE FamilyInv
  OBVIOUS
<1>1. StructInv
  BY InitStruct
<1>2. ChildrenAllocated
  BY DEF Init, ChildrenAllocated, NoDup, ToSet
<1>3. /\ ChildPointerValid /\ NoLostChildWakeup /\ FreedHaveNoCall /\ WaitsForChildren
  BY TaskAssumption
     DEF Init, ChildPointerValid, NoLostChildWakeup, FreedHaveNoCall, WaitsForChildren
<1>4. QED
  BY <1>1, <1>2, <1>3 DEF FamilyInv, Family

\* The types of what the invariant speaks of.
LEMMA FamilyTypes ==
    ASSUME FamilyInv
    PROVE  /\ children \in [Task -> Seq(Task)]
           /\ parent \in [Task -> Task \cup {NULL}]
           /\ kpc \in [Task -> KernelCall]
           /\ child \in [Task -> Task \cup {NULL}]
           /\ global \subseteq Task /\ NULL \notin Task
  BY TaskAssumption DEF FamilyInv, StructInv, TypeOK

\* Nothing changes but the calls that tasks are in, which do not become a wait
\* for a child, and states, where nobody becomes a zombie or is one no longer.
LEMMA SameFamily ==
    ASSUME FamilyInv,
           UNCHANGED <<alloc, parent, children, global>>,
           \A t \in Task : \/ kpc'[t] = kpc[t] /\ child'[t] = child[t]
                           \/ /\ kpc'[t] \notin {"waitany", "waitpid"} /\ t \in alloc
                              /\ child'[t] \in {NULL, child[t]},
           \A t \in Task : state'[t] = "INTERRUPTED_CHILD" =>
                              /\ state[t] = "INTERRUPTED_CHILD"
                              /\ kpc'[t] = kpc[t] /\ child'[t] = child[t],
           \A t \in Task : state'[t] = "ZOMBIE" <=> state[t] = "ZOMBIE"
    PROVE  Family' /\ ZombieStep
<1>1. ChildrenAllocated'
  BY DEF FamilyInv, Family, ChildrenAllocated
<1>2. ChildPointerValid'
  BY FamilyTypes DEF FamilyInv, Family, ChildPointerValid
<1>3. WaitsForChildren' /\ FreedHaveNoCall'
  BY FamilyTypes DEF FamilyInv, Family, WaitsForChildren, FreedHaveNoCall
<1>4. NoLostChildWakeup'
  <2> SUFFICES ASSUME NEW t \in alloc, state'[t] = "INTERRUPTED_CHILD"
               PROVE  \/ /\ kpc[t] = "waitpid"
                         /\ child[t] \in ToSet(children[t])
                         /\ state'[child[t]] # "ZOMBIE"
                      \/ /\ kpc[t] = "waitany"
                         /\ children[t] # <<>>
                         /\ \A c \in ToSet(children[t]) : state'[c] # "ZOMBIE"
    BY StructFacts DEF NoLostChildWakeup, FamilyInv
  <2>1. t \in Task /\ state[t] = "INTERRUPTED_CHILD"
    BY StructFacts DEF FamilyInv
  <2>2. \A c \in ToSet(children[t]) : c \in Task
    BY <2>1, StructFacts DEF FamilyInv, Family, ChildrenAllocated
  <2>3. QED
    BY <2>1, <2>2 DEF FamilyInv, Family, NoLostChildWakeup
<1>5. ZombieStep
  BY StructFacts DEF ZombieStep, FamilyInv
<1>6. QED
  BY <1>1, <1>2, <1>3, <1>4, <1>5 DEF Family

-----------------------------------------------------------------------------
(* One lemma per handler *)

\* start() puts a struct that was free on the children list of its caller.
LEMMA StartFamily ==
    ASSUME FamilyInv, NEW prio \in StartPrio, NEW t \in Task, Start(prio, t)
    PROVE  Family' /\ ZombieStep
<1> DEFINE prios == [priority EXCEPT ![t] = prio]
           l == queue_add(children[current], t, prios)
<1>1. /\ current \in alloc /\ current \in Task /\ state[current] = "RUNNING"
      /\ t \notin alloc /\ t # current /\ t \notin global
      /\ \A u \in global : u \in alloc
  <2>1. mode = "cpu" /\ t \notin alloc
    BY DEF Start, InUser
  <2>2. QED
    BY <2>1, StructFacts, FamilyTypes DEF FamilyInv
<1>2. /\ alloc' = alloc \cup {t} /\ global' = global \cup {t}
      /\ parent' = [parent EXCEPT ![t] = current]
      /\ state' = [state EXCEPT ![t] = "READY"]
      /\ children' = [children EXCEPT ![current] = l]
      /\ \/ /\ kpc' = [kpc EXCEPT ![current] = "start"]
            /\ child' = [child EXCEPT ![current] = t]
         \/ /\ kpc' = [kpc EXCEPT ![current] = "user"]
            /\ child' = [child EXCEPT ![current] = NULL]
  BY DEF Start
<1>3. prios \in [Task -> Int]
  BY StructFacts, InputAssumption, ParamAssumption DEF FamilyInv
<1>4. children[current] \in Seq(Task) /\ NoDup(children[current])
      /\ t \notin ToSet(children[current])
  BY <1>1, FamilyTypes DEF FamilyInv, Family, ChildrenAllocated
<1>5. NoDup(l) /\ ToSet(l) = ToSet(children[current]) \cup {t}
  <2> HIDE DEF prios
  <2> QED BY <1>3, <1>4, QueueAdd
<1> HIDE DEF l
<1>6. ChildrenAllocated'
  BY <1>1, <1>2, <1>5, FamilyTypes DEF FamilyInv, Family, ChildrenAllocated
<1>7. \A u \in Task : /\ u # current => kpc'[u] = kpc[u] /\ child'[u] = child[u]
                      /\ u = current => /\ kpc'[u] \in {"user", "start"}
                                        /\ child'[u] \in {NULL, t}
  BY <1>1, <1>2, FamilyTypes
<1>8. ChildPointerValid' /\ FreedHaveNoCall' /\ WaitsForChildren'
  <2>1. kpc[t] = "user" /\ child[t] = NULL
    BY <1>1 DEF FamilyInv, Family, FreedHaveNoCall
  <2>2. ASSUME NEW u \in global', u # Idle, child'[u] # NULL
        PROVE  child'[u] \in alloc' /\ parent'[child'[u]] = u
    <3>1. u \in Task /\ u # t
      BY <1>1, <1>2, <1>7, <2>1, <2>2, FamilyTypes
    <3>2. CASE u = current
      BY <1>2, <1>7, <2>2, <3>2, FamilyTypes
    <3>3. CASE u # current
      <4>1. child'[u] = child[u] /\ u \in global
        BY <1>2, <1>7, <3>1, <3>3
      <4>2. child[u] \in alloc /\ parent[child[u]] = u
        BY <2>2, <4>1 DEF FamilyInv, Family, ChildPointerValid
      <4>3. QED
        BY <1>1, <1>2, <4>1, <4>2, FamilyTypes, StructFacts DEF FamilyInv
    <3>4. QED
      BY <3>2, <3>3
  <2>3. ASSUME NEW u \in Task, u \notin alloc'
        PROVE  kpc'[u] = "user" /\ child'[u] = NULL
    BY <1>1, <1>2, <1>7, <2>3 DEF FamilyInv, Family, FreedHaveNoCall
  <2>4. ASSUME NEW u \in global'
        PROVE  /\ kpc'[u] = "waitany" => children'[u] # <<>>
               /\ kpc'[u] = "waitpid" => child'[u] \in ToSet(children'[u])
    <3>1. CASE u = t \/ u = current
      BY <1>1, <1>7, <2>1, <3>1
    <3>2. CASE u # t /\ u # current
      <4>1. u \in global /\ u \in Task /\ children'[u] = children[u]
        BY <1>2, <2>4, <3>2, FamilyTypes
      <4>2. QED
        BY <1>7, <3>2, <4>1 DEF FamilyInv, Family, WaitsForChildren
    <3>3. QED
      BY <3>1, <3>2
  <2>5. QED
    BY <2>2, <2>3, <2>4 DEF ChildPointerValid, FreedHaveNoCall, WaitsForChildren
<1>9. NoLostChildWakeup'
  <2> SUFFICES ASSUME NEW u \in alloc', state'[u] = "INTERRUPTED_CHILD"
               PROVE  \/ /\ kpc'[u] = "waitpid"
                         /\ child'[u] \in ToSet(children'[u])
                         /\ state'[child'[u]] # "ZOMBIE"
                      \/ /\ kpc'[u] = "waitany"
                         /\ children'[u] # <<>>
                         /\ \A c \in ToSet(children'[u]) : state'[c] # "ZOMBIE"
    BY DEF NoLostChildWakeup
  <2>1. u \in alloc /\ u \in Task /\ u # current /\ u # t /\ state[u] = "INTERRUPTED_CHILD"
    BY <1>1, <1>2, StructFacts DEF FamilyInv
  <2>2. kpc'[u] = kpc[u] /\ child'[u] = child[u] /\ children'[u] = children[u]
    BY <1>2, <1>7, <2>1, FamilyTypes
  <2>3. \A c \in ToSet(children[u]) : c \in alloc /\ c # t /\ state'[c] = state[c]
    BY <1>1, <1>2, <2>1, StructFacts DEF FamilyInv, Family, ChildrenAllocated
  <2>4. QED
    BY <2>1, <2>2, <2>3 DEF FamilyInv, Family, NoLostChildWakeup
<1>10. ZombieStep
  BY <1>1, <1>2, StructFacts, FamilyTypes DEF ZombieStep, FamilyInv
<1>11. QED
  BY <1>6, <1>7, <1>8, <1>9, <1>10 DEF Family

\* __exit_task wakes the parent if it waits for a child.
LEMMA ExitFamily ==
    ASSUME FamilyInv, NEW t \in Task, t \in global, exit_task(t),
           UNCHANGED stackVars
    PROVE  Family' /\ ZombieStep
<1>1. t \in alloc /\ state[t] # "ZOMBIE"
  BY StructFacts DEF FamilyInv
<1>2. /\ global' = global \ {t} /\ UNCHANGED <<alloc, parent, children, kpc, child>>
      /\ \A x \in Task : state'[x] = IF x = t THEN "ZOMBIE"
                                     ELSE IF unlocks_parent(t) /\ x = parent[t] THEN "READY"
                                     ELSE state[x]
  BY DEF exit_task, stackVars
<1>3. /\ ChildrenAllocated' /\ FreedHaveNoCall' /\ WaitsForChildren' /\ ChildPointerValid'
  BY <1>2 DEF FamilyInv, Family, ChildrenAllocated, FreedHaveNoCall, WaitsForChildren,
              ChildPointerValid
<1>4. NoLostChildWakeup'
  <2> SUFFICES ASSUME NEW u \in alloc, state'[u] = "INTERRUPTED_CHILD"
               PROVE  \/ /\ kpc[u] = "waitpid"
                         /\ child[u] \in ToSet(children[u])
                         /\ state'[child[u]] # "ZOMBIE"
                      \/ /\ kpc[u] = "waitany"
                         /\ children[u] # <<>>
                         /\ \A c \in ToSet(children[u]) : state'[c] # "ZOMBIE"
    BY <1>2 DEF NoLostChildWakeup
  <2>1. u \in Task /\ u # t /\ state[u] = "INTERRUPTED_CHILD"
    BY <1>2, StructFacts DEF FamilyInv
  <2>2. t \notin ToSet(children[u])
    <3>1. t \in ToSet(children[u]) => parent[t] = u
      BY <2>1 DEF FamilyInv, Family, ChildrenAllocated
    <3>2. parent[t] = u => state'[u] = "READY"
      BY <1>2, <2>1 DEF unlocks_parent
    <3>3. QED
      BY <3>1, <3>2
  <2>3. \A c \in ToSet(children[u]) : state[c] # "ZOMBIE" => state'[c] # "ZOMBIE"
    BY <1>2, <2>1, <2>2, StructFacts DEF FamilyInv, Family, ChildrenAllocated
  <2>4. QED
    BY <2>1, <2>3 DEF FamilyInv, Family, NoLostChildWakeup
<1>5. ZombieStep
  BY <1>1, <1>2, StructFacts DEF ZombieStep, FamilyInv, unlocks_parent
<1>6. QED
  BY <1>3, <1>4, <1>5 DEF Family

\* The struct of a zombie c is freed, by its parent or because its parent is
\* not there to do it.
LEMMA FreeFamily ==
    ASSUME FamilyInv, NEW c \in Task, state[c] = "ZOMBIE", free_task(c),
           UNCHANGED <<current, global>>,
           kpc'[c] = "user" /\ child'[c] = NULL,
           \A u \in Task \ {c} : \/ kpc'[u] = kpc[u] /\ child'[u] = child[u]
                                 \/ /\ u = current /\ state[u] = "RUNNING"
                                    /\ kpc'[u] = "user" /\ child'[u] = NULL,
           \/ /\ mode = "cpu" /\ parent[c] = current
              /\ kpc'[current] = "user" /\ child'[current] = NULL
           \/ parent[c] \notin global \ {Idle}
    PROVE  Family' /\ ZombieStep
<1>1. c \in alloc /\ c \notin global
  BY StructFacts DEF FamilyInv
<1>2. /\ alloc' = alloc \ {c}
      /\ state' = [state EXCEPT ![c] = "STARTUP"]
      /\ parent' = [parent EXCEPT ![c] = NULL]
      /\ \A u \in Task : children'[u] = IF u = c THEN <<>> ELSE queue_del(children[u], c)
  BY DEF free_task, children_without
<1>3. \A u \in Task : NoDup(children[u]) /\ children[u] \in Seq(Task)
  BY FamilyTypes DEF FamilyInv, Family, ChildrenAllocated
<1>4. ASSUME NEW u \in Task, u # c
      PROVE  NoDup(children'[u]) /\ ToSet(children'[u]) = ToSet(children[u]) \ {c}
  <2>1. children'[u] = queue_del(children[u], c)
    BY <1>2, <1>4
  <2>2. children[u] \in Seq(Task) /\ NoDup(children[u])
    BY <1>3
  <2>3. /\ NoDup(queue_del(children[u], c))
        /\ ToSet(queue_del(children[u], c)) = ToSet(children[u]) \ {c}
    BY <2>2, QueueDel
  <2>4. QED
    BY <2>1, <2>3
<1>5. NoDup(children'[c]) /\ ToSet(children'[c]) = {}
  BY <1>2 DEF NoDup, ToSet
<1>6. ChildrenAllocated'
  <2> SUFFICES ASSUME NEW u \in Task
               PROVE  /\ NoDup(children'[u])
                      /\ \A d \in ToSet(children'[u]) : d \in alloc' /\ parent'[d] = u
    BY DEF ChildrenAllocated
  <2>1. CASE u = c
    BY <1>5, <2>1
  <2>2. CASE u # c
    <3>1. \A d \in ToSet(children[u]) : d \in alloc /\ parent[d] = u
      BY DEF FamilyInv, Family, ChildrenAllocated
    <3>2. ASSUME NEW d \in ToSet(children'[u]) PROVE d \in alloc' /\ parent'[d] = u
      <4>1. d \in ToSet(children[u]) /\ d # c
        BY <1>4, <2>2
      <4>2. QED
        BY <1>2, <3>1, <4>1, FamilyTypes
    <3>3. QED
      BY <1>4, <2>2, <3>2
  <2>3. QED
    BY <2>1, <2>2
<1>7. ASSUME NEW u \in global
      PROVE  \/ kpc'[u] = kpc[u] /\ child'[u] = child[u]
             \/ kpc'[u] = "user" /\ child'[u] = NULL
  <2>1. u \in Task \ {c}
    BY <1>1, FamilyTypes
  <2>2. QED
    BY <2>1
\* a live process that still points to c in a call does so no longer
<1>8. ASSUME NEW u \in global, u # Idle, parent[c] = u
      PROVE  kpc'[u] = "user" /\ child'[u] = NULL
  BY <1>8
<1>9. ChildPointerValid'
  <2> SUFFICES ASSUME NEW u \in global, u # Idle, child'[u] # NULL
               PROVE  child'[u] \in alloc' /\ parent'[child'[u]] = u
    BY DEF ChildPointerValid
  <2>1. child'[u] = child[u]
    BY <1>7
  <2>2. child[u] \in alloc /\ parent[child[u]] = u
    BY <2>1 DEF FamilyInv, Family, ChildPointerValid
  <2>3. child[u] # c
    BY <1>8, <2>1, <2>2
  <2>4. QED
    BY <1>2, <2>1, <2>2, <2>3
<1>10. FreedHaveNoCall'
  <2> SUFFICES ASSUME NEW u \in Task, u # c, u \notin alloc
               PROVE  kpc'[u] = "user" /\ child'[u] = NULL
    BY <1>2 DEF FreedHaveNoCall
  <2>1. kpc[u] = "user" /\ child[u] = NULL
    BY DEF FamilyInv, Family, FreedHaveNoCall
  <2>2. QED
    BY <2>1
<1>11. kpc[Idle] \in {"user", "start"} /\ Idle \in Task
  BY StructFacts DEF FamilyInv, StructInv, Struct, SuspendedCalls
<1>12. WaitsForChildren'
  <2> SUFFICES ASSUME NEW u \in global
               PROVE  /\ kpc'[u] = "waitany" => children'[u] # <<>>
                      /\ kpc'[u] = "waitpid" => child'[u] \in ToSet(children'[u])
    BY DEF WaitsForChildren
  <2>1. CASE kpc'[u] \in {"waitany", "waitpid"}
    <3>1. u \in Task /\ u # c /\ kpc'[u] = kpc[u] /\ child'[u] = child[u]
      BY <1>1, <2>1, FamilyTypes
    <3>2. u # Idle /\ parent[c] # u
      BY <1>8, <1>11, <2>1, <3>1
    <3>3. ToSet(children'[u]) = ToSet(children[u])
      <4>1. ToSet(children'[u]) = ToSet(children[u]) \ {c}
        BY <1>4, <3>1
      <4>2. \A d \in ToSet(children[u]) : parent[d] = u
        BY <3>1 DEF FamilyInv, Family, ChildrenAllocated
      <4>3. QED
        BY <3>2, <4>1, <4>2
    <3>4. children[u] # <<>> => ToSet(children[u]) # {}
      <4>1. children[u] # <<>> => 1 \in 1..Len(children[u])
        BY <3>1, FamilyTypes, EmptySeq, LenProperties
      <4>2. QED
        BY <4>1, FamilyTypes, <3>1 DEF ToSet
    <3>5. children'[u] = <<>> => ToSet(children'[u]) = {}
      BY DEF ToSet
    <3>6. QED
      BY <3>1, <3>3, <3>4, <3>5 DEF FamilyInv, Family, WaitsForChildren
  <2>2. QED
    BY <2>1
<1>13. NoLostChildWakeup'
  <2> SUFFICES ASSUME NEW u \in alloc', state'[u] = "INTERRUPTED_CHILD"
               PROVE  \/ /\ kpc'[u] = "waitpid"
                         /\ child'[u] \in ToSet(children'[u])
                         /\ state'[child'[u]] # "ZOMBIE"
                      \/ /\ kpc'[u] = "waitany"
                         /\ children'[u] # <<>>
                         /\ \A d \in ToSet(children'[u]) : state'[d] # "ZOMBIE"
    BY DEF NoLostChildWakeup
  <2>1. /\ u \in alloc /\ u \in Task /\ u # c /\ u \in global
        /\ state[u] = "INTERRUPTED_CHILD"
    BY <1>2, StructFacts DEF FamilyInv
  <2>2. kpc'[u] = kpc[u] /\ child'[u] = child[u]
    BY <2>1
  <2>3. ToSet(children'[u]) = ToSet(children[u]) \ {c}
    BY <1>4, <2>1
  <2>4. \A d \in ToSet(children[u]) \ {c} : state'[d] = state[d]
    BY <1>2, <2>1, StructFacts DEF FamilyInv, Family, ChildrenAllocated
  <2>5. CASE kpc[u] = "waitpid"
    BY <2>1, <2>2, <2>3, <2>4, <2>5 DEF FamilyInv, Family, NoLostChildWakeup
  <2>6. CASE kpc[u] = "waitany"
    <3>1. children'[u] # <<>>
      BY <1>12, <2>1, <2>2, <2>6 DEF WaitsForChildren
    <3>2. QED
      BY <2>1, <2>2, <2>3, <2>4, <2>6, <3>1 DEF FamilyInv, Family, NoLostChildWakeup
  <2>7. QED
    BY <2>1, <2>5, <2>6 DEF FamilyInv, Family, NoLostChildWakeup
<1>14. ZombieStep
  BY <1>1, <1>2, StructFacts, FamilyTypes DEF ZombieStep, FamilyInv
<1>15. QED
  BY <1>6, <1>9, <1>10, <1>12, <1>13, <1>14 DEF Family

\* The least index in a set of indices.
LEMMA MinIndex ==
    ASSUME NEW I, I \subseteq Nat, I # {}
    PROVE  Min(I) \in I
<1>1. \E x \in I : \A y \in I : x <= y
  BY LeastNat
<1>2. QED
  BY <1>1 DEF Min

\* What the searches through the children list of the caller find.
LEMMA FoundChild ==
    ASSUME FamilyInv
    PROVE  /\ first_zombie # 0 =>
                 /\ children[current][first_zombie] \in ToSet(children[current])
                 /\ state[children[current][first_zombie]] = "ZOMBIE"
           /\ first_zombie = 0 => \A c \in ToSet(children[current]) : state[c] # "ZOMBIE"
           /\ \A p : first_named(p) # 0 =>
                 children[current][first_named(p)] \in ToSet(children[current])
<1> DEFINE l == children[current]
           Z == {i \in 1..Len(l) : state[l[i]] = "ZOMBIE"}
           N(p) == {i \in 1..Len(l) : pid[l[i]] = p}
<1>1. ToSet(l) = {l[i] : i \in 1..Len(l)}
  BY FamilyTypes, StructFacts, LenProperties DEF FamilyInv, ToSet
<1>2. first_zombie = IF Z # {} THEN Min(Z) ELSE 0
  BY DEF first_zombie, SelectInSeq
<1>3. \A p : first_named(p) = IF N(p) # {} THEN Min(N(p)) ELSE 0
  BY DEF first_named, SelectInSeq
<1>4. Z \subseteq Nat /\ \A p : N(p) \subseteq Nat
  OBVIOUS
<1>5. Z # {} => Min(Z) \in Z
  <2> HIDE DEF Z
  <2> QED BY <1>4, MinIndex
<1>6. \A p : N(p) # {} => Min(N(p)) \in N(p)
  <2> HIDE DEF N
  <2> QED BY <1>4, MinIndex
<1>7. 0 \notin Z
  OBVIOUS
<1>8. first_zombie # 0 => first_zombie \in Z
  <2> HIDE DEF Z
  <2> QED BY <1>2, <1>5
<1>9. first_zombie = 0 => Z = {}
  <2> HIDE DEF Z
  <2> QED BY <1>2, <1>5, <1>7
<1>10. \A p : first_named(p) # 0 => first_named(p) \in N(p)
  <2> HIDE DEF N
  <2> QED BY <1>3, <1>6
<1>11. QED
  BY <1>1, <1>8, <1>9, <1>10

\* A task goes to sleep until a child exits.
LEMMA BlockFamily ==
    ASSUME FamilyInv, state[current] = "RUNNING", NEW call, NEW c,
           block_for_child(call, c),
           \/ /\ call = "waitany" /\ c = NULL /\ children[current] # <<>>
              /\ \A d \in ToSet(children[current]) : state[d] # "ZOMBIE"
           \/ /\ call = "waitpid" /\ c \in ToSet(children[current])
              /\ state[c] # "ZOMBIE"
    PROVE  Family' /\ ZombieStep
<1>1. current \in alloc /\ current \in Task /\ current \in global
  BY StructFacts DEF FamilyInv
<1>2. /\ UNCHANGED <<alloc, parent, children, global>>
      /\ state' = [state EXCEPT ![current] = "INTERRUPTED_CHILD"]
      /\ kpc' = [kpc EXCEPT ![current] = call]
      /\ child' = [child EXCEPT ![current] = c]
  BY DEF block_for_child, nameVars
<1>3. \A u \in Task : /\ u # current => /\ kpc'[u] = kpc[u] /\ child'[u] = child[u]
                                         /\ state'[u] = state[u]
                      /\ u = current => /\ kpc'[u] = call /\ child'[u] = c
                                        /\ state'[u] = "INTERRUPTED_CHILD"
  BY <1>2, FamilyTypes, StructFacts DEF FamilyInv
<1>4. \A u \in Task : \A d \in ToSet(children[u]) : d \in alloc /\ parent[d] = u /\ d \in Task
  BY StructFacts DEF FamilyInv, Family, ChildrenAllocated
<1>5. \A d \in Task : state[d] # "ZOMBIE" => state'[d] # "ZOMBIE"
  BY <1>3
<1>6. ChildrenAllocated'
  BY <1>2 DEF FamilyInv, Family, ChildrenAllocated
<1>7. ChildPointerValid'
  <2> SUFFICES ASSUME NEW u \in global, u # Idle, child'[u] # NULL
               PROVE  child'[u] \in alloc /\ parent[child'[u]] = u
    BY <1>2 DEF ChildPointerValid
  <2>1. CASE u = current
    BY <1>1, <1>3, <1>4, <2>1
  <2>2. CASE u # current
    BY <1>3, <2>2, FamilyTypes DEF FamilyInv, Family, ChildPointerValid
  <2>3. QED
    BY <2>1, <2>2
<1>8. FreedHaveNoCall'
  BY <1>1, <1>2, <1>3 DEF FamilyInv, Family, FreedHaveNoCall
<1>9. WaitsForChildren'
  BY <1>2, <1>3, FamilyTypes DEF FamilyInv, Family, WaitsForChildren
<1>10. NoLostChildWakeup'
  <2> SUFFICES ASSUME NEW u \in alloc, state'[u] = "INTERRUPTED_CHILD"
               PROVE  \/ /\ kpc'[u] = "waitpid"
                         /\ child'[u] \in ToSet(children[u])
                         /\ state'[child'[u]] # "ZOMBIE"
                      \/ /\ kpc'[u] = "waitany"
                         /\ children[u] # <<>>
                         /\ \A d \in ToSet(children[u]) : state'[d] # "ZOMBIE"
    BY <1>2 DEF NoLostChildWakeup
  <2>1. u \in Task
    BY StructFacts DEF FamilyInv
  <2>2. CASE u = current
    BY <1>3, <1>4, <1>5, <2>1, <2>2
  <2>3. CASE u # current
    BY <1>3, <1>4, <1>5, <2>1, <2>3 DEF FamilyInv, Family, NoLostChildWakeup
  <2>4. QED
    BY <2>2, <2>3
<1>11. ZombieStep
  BY <1>2, <1>3, StructFacts DEF ZombieStep, FamilyInv
<1>12. QED
  BY <1>6, <1>7, <1>8, <1>9, <1>10, <1>11 DEF Family

\* The caller of waitpid reaps one of its own children.
LEMMA CollectFamily ==
    ASSUME FamilyInv, mode = "cpu", NEW c \in ToSet(children[current]),
           state[c] = "ZOMBIE", collect(c)
    PROVE  Family' /\ ZombieStep
<1>1. current \in Task /\ state[current] = "RUNNING"
  BY StructFacts DEF FamilyInv
<1>2. c \in Task /\ parent[c] = current /\ c # current
  BY <1>1, StructFacts DEF FamilyInv, Family, ChildrenAllocated
<1>3. /\ free_task(c) /\ UNCHANGED <<current, global>>
      /\ kpc' = [kpc EXCEPT ![current] = "user", ![c] = "user"]
      /\ child' = [child EXCEPT ![current] = NULL, ![c] = NULL]
  BY DEF collect, cpuVars, nameVars
<1>4. /\ kpc'[c] = "user" /\ child'[c] = NULL
      /\ kpc'[current] = "user" /\ child'[current] = NULL
      /\ \A u \in Task \ {c, current} : kpc'[u] = kpc[u] /\ child'[u] = child[u]
  BY <1>1, <1>2, <1>3, FamilyTypes
<1>5. QED
  BY <1>1, <1>2, <1>3, <1>4, FreeFamily

LEMMA WaitAnyFamily ==
    ASSUME FamilyInv, mode = "cpu", children[current] # <<>>, wait_any
    PROVE  Family' /\ ZombieStep
<1>1. state[current] = "RUNNING"
  BY StructFacts DEF FamilyInv
<1>2. CASE first_zombie # 0
  BY <1>2, FoundChild, CollectFamily DEF wait_any
<1>3. CASE first_zombie = 0
  BY <1>1, <1>3, FoundChild, BlockFamily DEF wait_any
<1>4. QED
  BY <1>2, <1>3

LEMMA WaitSpecificFamily ==
    ASSUME FamilyInv, mode = "cpu", NEW c \in ToSet(children[current]), wait_specific(c)
    PROVE  Family' /\ ZombieStep
<1>1. state[current] = "RUNNING"
  BY StructFacts DEF FamilyInv
<1>2. CASE state[c] = "ZOMBIE"
  BY <1>2, CollectFamily DEF wait_specific
<1>3. CASE state[c] # "ZOMBIE"
  BY <1>1, <1>3, BlockFamily DEF wait_specific
<1>4. QED
  BY <1>2, <1>3

\* reap_zombies frees a zombie whose parent cannot reap it.
LEMMA ReapFamily ==
    ASSUME FamilyInv, NEW i \in zombies, Reap(i)
    PROVE  Family' /\ ZombieStep
<1> DEFINE z == zombie_at(i)
<1>1. z \in Task /\ state[z] = "ZOMBIE" /\ z \in alloc
  <2>1. queue["ZOMBIE"] \in Seq(Task) /\ "ZOMBIE" \in QState
    BY DEF FamilyInv, StructInv, TypeOK, QState
  <2>2. z \in ToSet(queue["ZOMBIE"])
    BY <2>1, LenProperties DEF zombies, zombie_at, ToSet
  <2>3. QED
    BY <2>1, <2>2, StructFacts DEF FamilyInv, Match
<1>2. parent[z] \notin global \ {Idle}
  BY StructFacts, <1>1, FamilyTypes DEF Reap, must_reap, may_reap, dangling, FamilyInv
<1>3. /\ free_task(z) /\ UNCHANGED <<current, global>>
      /\ kpc' = [kpc EXCEPT ![z] = "user"] /\ child' = [child EXCEPT ![z] = NULL]
  BY DEF Reap, cpuVars, nameVars
<1> HIDE DEF z
<1>4. /\ kpc'[z] = "user" /\ child'[z] = NULL
      /\ \A u \in Task \ {z} : kpc'[u] = kpc[u] /\ child'[u] = child[u]
  BY <1>1, <1>3, FamilyTypes
<1>5. QED
  BY <1>1, <1>2, <1>3, <1>4, FreeFamily

-----------------------------------------------------------------------------
LEMMA NextFamily == FamilyInv /\ [Next]_vars => Family' /\ ZombieStep
<1> SUFFICES ASSUME FamilyInv, [Next]_vars PROVE Family' /\ ZombieStep
  OBVIOUS
<1>a. /\ mode = "cpu" => state[current] = "RUNNING"
      /\ current \in Task /\ current \in alloc
      /\ state \in [Task -> State]
      /\ InUser => mode = "cpu"
  BY StructFacts DEF InUser, FamilyInv
<1>1. ASSUME NEW prio \in StartPrio, NEW t \in Task, Start(prio, t)
      PROVE  Family' /\ ZombieStep
  BY <1>1, StartFamily
<1>2. CASE StartNoMemory
  BY <1>2, SameFamily DEF StartNoMemory, structVars, stackVars
<1>3. CASE Exit
  <2>1. current \in global
    BY <1>3, <1>a, StructFacts DEF Exit, InProcess, FamilyInv
  <2>2. QED
    BY <1>3, <1>a, <2>1, ExitFamily DEF Exit
<1>4. ASSUME NEW p \in Pid, Kill(p) PROVE Family' /\ ZombieStep
  <2> DEFINE t == pid_to_task(p)
  <2>1. exit_task(t) /\ UNCHANGED stackVars /\ mode = "cpu" /\ t # NULL
    BY <1>4, <1>a DEF Kill, InProcess
  <2>2. t \in Task /\ t \in global
    BY <2>1, PidToLive DEF FamilyInv
  <2> HIDE DEF t
  <2>3. QED
    BY <2>1, <2>2, ExitFamily
<1>5. ASSUME NEW c \in WakeTime, WaitClock(c) PROVE Family' /\ ZombieStep
  <2>1. /\ state' = [state EXCEPT ![current] = "SLEEPING"] /\ mode = "cpu"
        /\ UNCHANGED <<alloc, parent, children, global, kpc, child>>
    BY <1>5, <1>a DEF WaitClock, InProcess, nameVars, stackVars
  <2>2. QED
    BY <1>a, <2>1, SameFamily
<1>6. ASSUME NEW p \in Pid, NEW prio \in ChPrio, Chprio(p, prio)
      PROVE  Family' /\ ZombieStep
  BY <1>6, SameFamily DEF Chprio, nameVars, stackVars
<1>7. CASE WaitAny
  BY <1>7, <1>a, WaitAnyFamily DEF WaitAny, InProcess
<1>8. ASSUME NEW p \in Pid, WaitSpecific(p) PROVE Family' /\ ZombieStep
  <2> DEFINE c == children[current][first_named(p)]
  <2>1. c \in ToSet(children[current]) /\ wait_specific(c) /\ mode = "cpu"
    BY <1>8, <1>a, FoundChild DEF WaitSpecific, InProcess
  <2> HIDE DEF c
  <2>2. QED
    BY <2>1, WaitSpecificFamily
<1>9. CASE Tick
  BY <1>9, SameFamily DEF Tick, structVars, stackVars, nameVars
<1>10. CASE WakeUp
  <2>1. /\ state' = [state EXCEPT ![first_due] = "READY"]
        /\ UNCHANGED <<alloc, parent, children, global, kpc, child>>
    BY <1>10 DEF WakeUp, nameVars, stackVars
  <2>2. first_due \in Task /\ first_due \in ToSet(queue["SLEEPING"])
    BY <1>10, FirstDue DEF WakeUp, FamilyInv, StructInv
  <2>3. state[first_due] = "SLEEPING"
    BY <2>2, StructFacts DEF FamilyInv, Match, QState
  <2>4. QED
    BY <1>a, <2>1, <2>2, <2>3, SameFamily
<1>11. CASE WakeUpCurrent
  BY <1>11, SameFamily DEF WakeUpCurrent, nameVars, stackVars
<1>12. ASSUME NEW i \in zombies, Reap(i) PROVE Family' /\ ZombieStep
  BY <1>12, ReapFamily
<1>13. CASE Keep
  BY <1>13, SameFamily DEF Keep, structVars, stackVars, nameVars
<1>14. CASE Switch
  <2> DEFINE new == queue_top(queue["READY"])
  <2>1. new \in Task /\ state[new] = "READY"
    <3>1. new \in Task /\ new \in ToSet(queue["READY"])
      BY <1>14, QueueTop DEF Switch, FamilyInv, StructInv
    <3>2. QED
      BY <3>1, StructFacts DEF FamilyInv, Match, QState
  <2>2. /\ \/ state' = [state EXCEPT ![new] = "RUNNING"]
           \/ /\ state[current] = "RUNNING"
              /\ state' = [state EXCEPT ![current] = "READY", ![new] = "RUNNING"]
        /\ UNCHANGED <<alloc, parent, children, global, kpc, child>>
    BY <1>14 DEF Switch, nameVars, stackVars
  <2> HIDE DEF new
  <2>3. QED
    BY <1>a, <2>1, <2>2, SameFamily
<1>15. CASE ReturnFromStart
  <2>1. /\ kpc' = [kpc EXCEPT ![current] = "user"] /\ child' = [child EXCEPT ![current] = NULL]
        /\ UNCHANGED <<state, alloc, parent, children, global>>
        /\ kpc[current] = "start" /\ mode = "cpu"
    BY <1>15 DEF ReturnFromStart, Resumes, structVars, nameVars
  <2>2. \A u \in Task : /\ u # current => kpc'[u] = kpc[u] /\ child'[u] = child[u]
                        /\ u = current => kpc'[u] = "user" /\ child'[u] = NULL
    BY <2>1, FamilyTypes
  <2>3. QED
    BY <1>a, <2>1, <2>2, SameFamily
<1>16. CASE ResumeWaitAny
  <2>1. mode = "cpu" /\ kpc[current] = "waitany" /\ wait_any
    BY <1>16 DEF ResumeWaitAny, Resumes
  <2>2. children[current] # <<>>
    BY <1>a, <2>1, StructFacts DEF FamilyInv, Family, WaitsForChildren
  <2>3. QED
    BY <2>1, <2>2, WaitAnyFamily
<1>17. CASE ResumeWaitSpecific
  <2>1. mode = "cpu" /\ kpc[current] = "waitpid" /\ wait_specific(child[current])
    BY <1>17 DEF ResumeWaitSpecific, Resumes
  <2>2. child[current] \in ToSet(children[current])
    BY <1>a, <2>1, StructFacts DEF FamilyInv, Family, WaitsForChildren
  <2>3. QED
    BY <2>1, <2>2, WaitSpecificFamily
<1>18. CASE PageFault
  <2>1. CASE state[current] = "ZOMBIE"
    BY <1>18, <2>1, SameFamily DEF PageFault, structVars, stackVars, nameVars
  <2>2. CASE state[current] # "ZOMBIE"
    <3>1. current \in global
      BY <1>a, <2>2, StructFacts DEF FamilyInv
    <3>2. QED
      BY <1>18, <1>a, <2>2, <3>1, ExitFamily DEF PageFault
  <2>3. QED
    BY <2>1, <2>2
<1>19. CASE UNCHANGED vars
  BY <1>19, SameFamily DEF vars, structVars, stackVars, nameVars
<1>20. QED
  BY <1>1, <1>2, <1>3, <1>4, <1>5, <1>6, <1>7, <1>8, <1>9, <1>10, <1>11, <1>12, <1>13,
     <1>14, <1>15, <1>16, <1>17, <1>18, <1>19
     DEF Next, SystemCall, Schedule, Resume, Panicked

LEMMA FamilyInvariant == Spec => []FamilyInv
<1>1. FamilyInv /\ [Next]_vars => FamilyInv'
  BY NextTypeOK, NextStruct, NextFamily DEF FamilyInv, StructInv
<1>2. QED
  BY InitFamily, <1>1, PTL DEF Spec

\* No process sleeps in waitpid while a child it waits for is already dead: the
\* exit of the child and the sleep of the parent cannot miss each other,
\* whatever else is started, killed and reaped in between.
THEOREM ParentsWoken == Spec => []NoLostChildWakeup
<1>1. FamilyInv => NoLostChildWakeup
  BY DEF FamilyInv, Family
<1>2. QED
  BY FamilyInvariant, <1>1, PTL

\* The children lists, and the child pointers that start() and waitpid() keep on
\* kernel stacks across schedule(), never lead to a struct that was freed or
\* was given to another parent.
THEOREM ChildrenCorrect == Spec => []ChildrenConsistent
<1>1. FamilyInv => ChildrenConsistent
  BY DEF FamilyInv, Family, ChildrenConsistent
<1>2. QED
  BY FamilyInvariant, <1>1, PTL

\* No step revives a zombie, and no step but its parent's own waitpid takes it
\* away while the parent lives.
THEOREM ZombiesCorrect == Spec => ZombiesKept
<1>1. FamilyInv /\ [Next]_vars => [ZombieStep]_vars
  BY NextFamily
<1>2. Spec => [][ZombieStep]_vars
  BY FamilyInvariant, <1>1, PTL DEF Spec
<1>3. QED
  BY <1>2 DEF ZombiesKept, ZombieStep

-----------------------------------------------------------------------------
(***************************************************************************)
(* The order in which tasks run: the lists schedule() and wake-ups read    *)
(* are sorted, nobody oversleeps, and the most urgent task goes on.        *)
(*                                                                         *)
(* The inductive invariant.  The priority of a task changes while it is in *)
(* a list, so what keeps a list sorted is that the task is found there and *)
(* taken out first: StructInv, which says which list each task is on.      *)
(***************************************************************************)
Order == ListsSorted /\ NoOverdueSleeper

OrderInv == StructInv /\ Order

\* One step of MostUrgentGoesOn.
UrgentStep ==
    /\ mode = "schedule" => PriorityRespected'
    /\ priority' # priority /\ alloc' = alloc /\ global' = global /\ PriorityRespected
           => PriorityRespected'

-----------------------------------------------------------------------------
(* Sorted lists *)

\* The lists that ListsSorted is about.
InOrder(q, prio) == Sorted(q["READY"], prio) /\ Sorted(q["SLEEPING"], prio)

LEMMA InOrderDef ==
    /\ ListsSorted <=> InOrder(queue, priority)
    /\ ListsSorted' <=> InOrder(queue', priority')
  BY DEF ListsSorted, InOrder

\* Only the priorities of the tasks on a list matter to its order.
LEMMA SortedSame ==
    ASSUME NEW q \in Seq(Task), NEW prio, NEW prio2, Sorted(q, prio),
           \A u \in ToSet(q) : prio2[u] = prio[u]
    PROVE  Sorted(q, prio2)
<1>1. \A i \in 1..Len(q) : q[i] \in ToSet(q)
  BY LenProperties DEF ToSet
<1>2. QED
  BY <1>1 DEF Sorted

LEMMA InOrderSame ==
    ASSUME NEW q \in Lists, NEW prio, NEW prio2, InOrder(q, prio), NEW t,
           \A u \in Task \ {t} : prio2[u] = prio[u],
           \A s \in QState : t \notin ToSet(q[s])
    PROVE  InOrder(q, prio2)
<1>1. ASSUME NEW s \in QState, Sorted(q[s], prio) PROVE Sorted(q[s], prio2)
  <2>1. q[s] \in Seq(Task)
    BY DEF Lists
  <2>2. \A u \in ToSet(q[s]) : u \in Task /\ u # t
    BY <2>1, LenProperties, ElementOfSeq DEF ToSet
  <2>3. QED
    BY <1>1, <2>1, <2>2, SortedSame
<1>2. QED
  BY <1>1 DEF InOrder, QState

LEMMA LinkInOrder ==
    ASSUME NEW q \in Lists, NEW s \in QState, NEW t \in Task, NEW prio \in [Task -> Int],
           InOrder(q, prio)
    PROVE  InOrder(link(q, s, t, prio), prio)
<1>1. \A r \in QState :
         link(q, s, t, prio)[r] = IF r = s THEN queue_add(q[s], t, prio) ELSE q[r]
  BY DEF link, Lists
<1>2. q[s] \in Seq(Task)
  BY DEF Lists
<1>3. Sorted(q[s], prio) => Sorted(queue_add(q[s], t, prio), prio)
  BY <1>2, QueueAdd
<1>4. QED
  BY <1>1, <1>3 DEF InOrder, QState

LEMMA UnlinkInOrder ==
    ASSUME NEW q \in Lists, NEW t, NEW prio, InOrder(q, prio)
    PROVE  InOrder(unlink(q, t), prio)
<1>1. \A r \in QState : unlink(q, t)[r] = queue_del(q[r], t)
  BY DEF unlink
<1>2. ASSUME NEW r \in QState, Sorted(q[r], prio) PROVE Sorted(queue_del(q[r], t), prio)
  <2>1. q[r] \in Seq(Task)
    BY DEF Lists
  <2>2. QED
    BY <1>2, <2>1, QueueDel
<1>3. QED
  BY <1>1, <1>2 DEF InOrder, QState

\* A task taken out of its list may get any priority.
LEMMA UnlinkedInOrder ==
    ASSUME NEW q \in Lists, NoDups(q), NEW t, NEW prio, NEW prio2, InOrder(q, prio),
           \A u \in Task \ {t} : prio2[u] = prio[u]
    PROVE  InOrder(unlink(q, t), prio2)
<1> DEFINE r == unlink(q, t)
<1>1. InOrder(r, prio)
  BY UnlinkInOrder
<1>2. r \in Lists /\ \A s \in QState : t \notin ToSet(r[s])
  BY Unlink
<1> HIDE DEF r
<1>3. InOrder(r, prio2)
  BY <1>1, <1>2, InOrderSame
<1>4. QED
  BY <1>3 DEF r

LEMMA MoveInOrder ==
    ASSUME NEW q \in Lists, NoDups(q), NEW t \in Task, NEW s \in QState,
           NEW prio, NEW prio2 \in [Task -> Int], InOrder(q, prio),
           \A u \in Task \ {t} : prio2[u] = prio[u]
    PROVE  InOrder(move(q, s, t, prio2), prio2)
<1> DEFINE r == unlink(q, t)
<1>1. r \in Lists /\ InOrder(r, prio2)
  BY UnlinkedInOrder, Unlink
<1>2. move(q, s, t, prio2) = link(r, s, t, prio2)
  BY DEF move
<1> HIDE DEF r
<1>3. QED
  BY <1>1, <1>2, LinkInOrder

\* The top of a sorted list is the greatest.
LEMMA TopIsGreatest ==
    ASSUME NEW q \in Seq(Task), NEW prio \in [Task -> Int], Sorted(q, prio), q # <<>>
    PROVE  /\ queue_top(q) \in Task
           /\ \A u \in ToSet(q) : prio[u] <= prio[queue_top(q)]
<1>1. Len(q) \in Nat /\ Len(q) \in 1..Len(q) /\ ToSet(q) = {q[i] : i \in 1..Len(q)}
  BY EmptySeq, LenProperties DEF ToSet
<1>2. ASSUME NEW i \in 1..Len(q) PROVE prio[q[i]] <= prio[q[Len(q)]]
  <2>1. CASE i = Len(q)
    <3>1. prio[q[i]] \in Int
      BY ElementOfSeq
    <3>2. QED
      BY <2>1, <3>1
  <2>2. CASE i < Len(q)
    BY <1>1, <2>2 DEF Sorted
  <2>3. QED
    BY <1>1, <2>1, <2>2
<1>3. q[Len(q)] \in Task
  BY <1>1, ElementOfSeq
<1>4. QED
  BY <1>1, <1>2, <1>3 DEF queue_top

\* What the invariant says of the lists.
LEMMA OrderFacts ==
    ASSUME OrderInv
    PROVE  /\ queue \in Lists /\ NoDups(queue) /\ InOrder(queue, priority)
           /\ priority \in [Task -> Int] /\ current \in Task
           /\ \A s \in QState : ToSet(queue[s]) = {u \in alloc : state[u] = s}
           /\ alloc \subseteq Task
  BY StructFacts, InOrderDef DEF OrderInv, Order, Match

-----------------------------------------------------------------------------
(* The ready list of a choice of schedule() *)

\* No ready task is more urgent than the top of the ready list.
LEMMA ReadyBelowTop ==
    ASSUME OrderInv, NEW u \in alloc, state[u] = "READY"
    PROVE  /\ queue["READY"] # <<>> /\ queue_top(queue["READY"]) \in Task
           /\ priority[u] <= priority[queue_top(queue["READY"])]
<1>1. queue["READY"] \in Seq(Task) /\ u \in ToSet(queue["READY"])
  BY OrderFacts DEF Lists, QState
<1>2. queue["READY"] # <<>>
  <2>1. ToSet(<<>>) = {}
    BY DEF ToSet
  <2>2. QED
    BY <1>1, <2>1
<1>3. QED
  BY <1>1, <1>2, OrderFacts, TopIsGreatest DEF InOrder

\* When schedule() chooses, nobody oversleeps.
LEMMA NoneDue ==
    ASSUME OrderInv, due = {}, NEW u \in alloc, state[u] = "SLEEPING"
    PROVE  total_ticks < wake_time[u]
<1>1. queue["SLEEPING"] \in Seq(Task) /\ u \in ToSet(queue["SLEEPING"])
  BY OrderFacts DEF Lists, QState
<1>2. PICK i \in 1..Len(queue["SLEEPING"]) : queue["SLEEPING"][i] = u
  BY <1>1, LenProperties DEF ToSet
<1>3. i \notin due
  OBVIOUS
<1>4. ~(total_ticks >= wake_time[u])
  BY <1>2, <1>3 DEF due
<1>5. total_ticks \in Int /\ wake_time[u] \in Int
  BY OrderFacts, ParamAssumption DEF OrderInv, StructInv, TypeOK, Clock
<1>6. QED
  BY <1>4, <1>5

-----------------------------------------------------------------------------
(* What the steps have in common *)

\* While the CPU stays in user mode nobody falls asleep.
LEMMA SameSleepers ==
    ASSUME OrderInv, mode' = "cpu" => mode = "cpu", UNCHANGED total_ticks,
           \A u \in alloc' : state'[u] = "SLEEPING" =>
               u \in alloc /\ state[u] = "SLEEPING" /\ wake_time'[u] = wake_time[u]
    PROVE  NoOverdueSleeper'
  BY DEF OrderInv, Order, NoOverdueSleeper

\* __exit_task changes the priority of the new zombie, and sorts it into the
\* zombie list, when it is in no other list.
LEMMA ExitOrder ==
    ASSUME OrderInv, NEW t \in Task, t \in global, exit_task(t), UNCHANGED total_ticks,
           mode' = "cpu" => mode = "cpu"
    PROVE  Order'
<1> DEFINE prio == [priority EXCEPT ![t] = zombie_priority]
           q == move(queue, "ZOMBIE", t, prio)
           p == parent[t]
<1>1. /\ priority' = prio
      /\ queue' = IF unlocks_parent(t) THEN move(q, "READY", p, prio) ELSE q
      /\ UNCHANGED <<alloc, wake_time>>
      /\ \A x \in Task : state'[x] = IF x = t THEN "ZOMBIE"
                                     ELSE IF unlocks_parent(t) /\ x = p THEN "READY"
                                     ELSE state[x]
  BY DEF exit_task
<1>2. "READY" \in QState /\ "ZOMBIE" \in QState
  BY DEF QState
<1>3. prio \in [Task -> Int] /\ \A u \in Task \ {t} : prio[u] = priority[u]
  BY OrderFacts, ZombiePriority, ExceptType DEF OrderInv, StructInv
<1>4. unlocks_parent(t) => p \in Task
  BY OrderFacts DEF unlocks_parent, unlocks_waitany
<1> HIDE DEF prio, p
<1>5. q \in Lists /\ NoDups(q) /\ InOrder(q, prio)
  BY <1>2, <1>3, OrderFacts, Move, MoveInOrder
<1> HIDE DEF q
<1>6. unlocks_parent(t) => InOrder(move(q, "READY", p, prio), prio)
  BY <1>2, <1>3, <1>4, <1>5, MoveInOrder
<1>7. ListsSorted'
  BY <1>1, <1>5, <1>6, InOrderDef
<1>8. NoOverdueSleeper'
  <2>1. \A u \in alloc : state'[u] = "SLEEPING" => state[u] = "SLEEPING"
    BY <1>1, OrderFacts
  <2>2. QED
    BY <1>1, <2>1, SameSleepers
<1>9. QED
  BY <1>7, <1>8 DEF Order

LEMMA FreeOrder ==
    ASSUME OrderInv, NEW c \in Task, free_task(c), UNCHANGED <<total_ticks, mode>>
    PROVE  Order'
<1>1. /\ queue' = unlink(queue, c) /\ alloc' = alloc \ {c}
      /\ state' = [state EXCEPT ![c] = "STARTUP"]
      /\ priority' = [priority EXCEPT ![c] = 0]
      /\ wake_time' = [wake_time EXCEPT ![c] = 0]
  BY DEF free_task
<1>2. wake_time \in [Task -> Clock] /\ state \in [Task -> State]
  BY DEF OrderInv, StructInv, TypeOK
<1>3. \A u \in Task \ {c} : /\ priority'[u] = priority[u]
                            /\ wake_time'[u] = wake_time[u]
                            /\ state'[u] = state[u]
  BY <1>1, <1>2, OrderFacts
<1>4. ListsSorted'
  BY ZenonT(40), <1>1, <1>3, OrderFacts, UnlinkedInOrder, InOrderDef
<1>5. NoOverdueSleeper'
  BY <1>1, <1>3, OrderFacts, SameSleepers
<1>6. QED
  BY <1>4, <1>5 DEF Order

\* A task that goes to sleep does so inside schedule().
LEMMA BlockOrder ==
    ASSUME OrderInv, NEW s \in QState, queue' = link(queue, s, current, priority),
           UNCHANGED priority, mode' = "schedule"
    PROVE  Order'
<1>1. ListsSorted'
  BY OrderFacts, LinkInOrder, InOrderDef
<1>2. QED
  BY <1>1 DEF Order, NoOverdueSleeper

LEMMA CollectOrder ==
    ASSUME OrderInv, NEW c \in Task, collect(c)
    PROVE  Order'
  BY FreeOrder DEF collect, cpuVars

LEMMA WaitOrder ==
    ASSUME OrderInv
    PROVE  /\ wait_any => Order'
           /\ \A c \in Task : wait_specific(c) => Order'
<1>1. ASSUME NEW call, NEW c, block_for_child(call, c) PROVE Order'
  <2>1. "INTERRUPTED_CHILD" \in QState
    BY DEF QState
  <2>2. QED
    BY <1>1, <2>1, BlockOrder DEF block_for_child
<1>2. ASSUME wait_any PROVE Order'
  BY <1>1, <1>2, FirstZombie, CollectOrder DEF wait_any, OrderInv, StructInv
<1>3. ASSUME NEW c \in Task, wait_specific(c) PROVE Order'
  BY <1>1, <1>3, CollectOrder DEF wait_specific
<1>4. QED
  BY <1>2, <1>3

LEMMA StartOrder ==
    ASSUME OrderInv, NEW prio \in StartPrio, NEW t \in Task, Start(prio, t)
    PROVE  Order'
<1> DEFINE prios == [priority EXCEPT ![t] = prio]
<1>1. /\ t \notin alloc /\ mode = "cpu" /\ alloc' = alloc \cup {t}
      /\ priority' = prios /\ queue' = link(queue, "READY", t, prios)
      /\ state' = [state EXCEPT ![t] = "READY"]
      /\ UNCHANGED <<total_ticks, wake_time>>
  BY DEF Start, InUser
<1>2. prios \in [Task -> Int] /\ \A u \in Task \ {t} : prios[u] = priority[u]
  BY OrderFacts, InputAssumption, ParamAssumption
<1> HIDE DEF prios
<1>3. "READY" \in QState /\ \A s \in QState : t \notin ToSet(queue[s])
  BY <1>1, OrderFacts DEF QState
<1>4. InOrder(queue, prios)
  BY <1>2, <1>3, OrderFacts, InOrderSame
<1>5. ListsSorted'
  BY <1>1, <1>2, <1>3, <1>4, OrderFacts, LinkInOrder, InOrderDef
<1>6. NoOverdueSleeper'
  <2>1. \A u \in alloc' : state'[u] = "SLEEPING" => u \in alloc /\ state[u] = "SLEEPING"
    BY <1>1, StructFacts DEF OrderInv
  <2>2. QED
    BY <1>1, <2>1, SameSleepers
<1>7. QED
  BY <1>5, <1>6 DEF Order

LEMMA ChprioOrder ==
    ASSUME OrderInv, NEW p, NEW prio \in ChPrio, Chprio(p, prio)
    PROVE  Order'
<1> DEFINE t == pid_to_task(p)
           prios == [priority EXCEPT ![t] = prio]
<1>1. /\ mode = "cpu" /\ t # NULL /\ priority' = prios /\ queue' = requeue(t, prios)
      /\ UNCHANGED <<total_ticks, alloc, state, wake_time>>
  BY DEF Chprio, InProcess, InUser
<1>2. t \in Task
  BY <1>1, PidToTask DEF OrderInv, StructInv
<1>3. prios \in [Task -> Int] /\ \A u \in Task \ {t} : prios[u] = priority[u]
  BY <1>2, OrderFacts, InputAssumption, ParamAssumption
<1> HIDE DEF prios, t
<1>4. ASSUME state[t] \in QState PROVE ListsSorted'
  <2>1. queue' = move(queue, state[t], t, prios)
    BY <1>1, <1>4 DEF requeue
  <2>2. InOrder(move(queue, state[t], t, prios), prios)
    BY <1>2, <1>3, <1>4, OrderFacts, MoveInOrder
  <2>3. QED
    BY <1>1, <2>1, <2>2, InOrderDef
<1>5. ASSUME state[t] \notin QState PROVE ListsSorted'
  <2>1. \A s \in QState : t \notin ToSet(queue[s])
    BY <1>5, OrderFacts
  <2>2. queue' = queue
    BY <1>1, <1>5 DEF requeue
  <2>3. InOrder(queue, prios)
    BY <1>3, <2>1, OrderFacts, InOrderSame
  <2>4. QED
    BY <1>1, <2>2, <2>3, InOrderDef
<1>6. ListsSorted'
  BY <1>4, <1>5
<1>7. NoOverdueSleeper'
  BY <1>1, SameSleepers
<1>8. QED
  BY <1>6, <1>7 DEF Order

\* schedule() lets nobody out while a sleeper is due.
LEMMA SwitchOrder ==
    ASSUME OrderInv, Switch
    PROVE  Order'
<1> DEFINE new == queue_top(queue["READY"])
           q == IF state[current] = "RUNNING" THEN link(queue, "READY", current, priority)
                                              ELSE queue
<1>1. /\ due = {} /\ queue' = unlink(q, new)
      /\ UNCHANGED <<total_ticks, alloc, priority, wake_time>>
      /\ \/ state' = [state EXCEPT ![new] = "RUNNING"]
         \/ state' = [state EXCEPT ![current] = "READY", ![new] = "RUNNING"]
  BY DEF Switch, choosing
<1>2. "READY" \in QState
  BY DEF QState
<1>3. q \in Lists /\ InOrder(q, priority)
  BY <1>2, OrderFacts, LinkInOrder, Link
<1> HIDE DEF q
<1>4. ListsSorted'
  BY <1>1, <1>3, UnlinkInOrder, InOrderDef
<1>5. NoOverdueSleeper'
  <2>1. \A u \in alloc : state'[u] = "SLEEPING" => state[u] = "SLEEPING"
    BY <1>1, StructFacts DEF OrderInv
  <2>2. QED
    BY <1>1, <2>1, NoneDue DEF NoOverdueSleeper
<1>6. QED
  BY <1>4, <1>5 DEF Order

-----------------------------------------------------------------------------
LEMMA InitOrder == Init => OrderInv
<1> SUFFICES ASSUME Init PROVE OrderInv
  OBVIOUS
<1>1. StructInv
  BY InitStruct
<1>2. ListsSorted /\ NoOverdueSleeper
  BY TaskAssumption DEF Init, ListsSorted, NoOverdueSleeper, Sorted, QState
<1>3. QED
  BY <1>1, <1>2 DEF OrderInv, Order

\* Nothing changes that the order of the lists or the sleepers depend on.
LEMMA SameOrder ==
    ASSUME OrderInv, UNCHANGED <<total_ticks, alloc, state, priority, wake_time, queue>>,
           mode' = "cpu" => mode = "cpu" \/ due = {}
    PROVE  Order'
<1>1. ListsSorted'
  BY InOrderDef, OrderFacts
<1>2. NoOverdueSleeper'
  <2>1. CASE mode' # "cpu"
    BY <2>1 DEF NoOverdueSleeper
  <2>2. CASE mode = "cpu"
    BY <2>2, SameSleepers
  <2>3. CASE due = {}
    BY <2>3, NoneDue DEF NoOverdueSleeper
  <2>4. QED
    BY <2>1, <2>2, <2>3
<1>3. QED
  BY <1>1, <1>2 DEF Order

LEMMA NextOrder == OrderInv /\ [Next]_vars => Order'
<1> SUFFICES ASSUME OrderInv, [Next]_vars PROVE Order'
  OBVIOUS
<1>a. current \in Task /\ TypeOK /\ StructInv
  BY OrderFacts DEF OrderInv, StructInv
<1>1. ASSUME NEW prio \in StartPrio, NEW t \in Task, Start(prio, t) PROVE Order'
  BY <1>1, StartOrder
<1>2. CASE StartNoMemory
  BY <1>2, SameOrder DEF StartNoMemory, cpuVars, structVars
<1>3. CASE Exit
  <2>1. current \in global /\ mode' # "cpu"
    BY <1>3, <1>a, StructFacts DEF Exit, InProcess, InUser, after_exit
  <2>2. QED
    BY <1>3, <1>a, <2>1, ExitOrder DEF Exit
<1>4. ASSUME NEW p \in Pid, Kill(p) PROVE Order'
  <2> DEFINE t == pid_to_task(p)
  <2>1. exit_task(t) /\ mode = "cpu" /\ t # NULL /\ UNCHANGED total_ticks
    BY <1>4 DEF Kill, InProcess, InUser
  <2>2. t \in Task /\ t \in global
    BY <1>a, <2>1, PidToLive
  <2> HIDE DEF t
  <2>3. QED
    BY <2>1, <2>2, ExitOrder
<1>5. ASSUME NEW c \in WakeTime, WaitClock(c) PROVE Order'
  <2>1. "SLEEPING" \in QState
    BY DEF QState
  <2>2. QED
    BY <1>5, <2>1, BlockOrder DEF WaitClock
<1>6. ASSUME NEW p \in Pid, NEW prio \in ChPrio, Chprio(p, prio) PROVE Order'
  BY <1>6, ChprioOrder
<1>7. CASE WaitAny
  BY <1>7, WaitOrder DEF WaitAny
<1>8. ASSUME NEW p \in Pid, WaitSpecific(p) PROVE Order'
  BY <1>8, <1>a, FirstNamed, WaitOrder DEF WaitSpecific
<1>9. CASE Tick
  <2>1. UNCHANGED <<queue, priority>> /\ mode' = "schedule"
    BY <1>9 DEF Tick, structVars
  <2>2. QED
    BY <2>1, OrderFacts, InOrderDef DEF Order, NoOverdueSleeper
<1>10. CASE WakeUp
  <2>1. /\ queue' = move(queue, "READY", first_due, priority)
        /\ UNCHANGED priority /\ mode = "schedule" /\ mode' = mode
        /\ "READY" \in QState
    BY <1>10 DEF WakeUp, cpuVars, QState
  <2>2. first_due \in Task
    BY <1>10, <1>a, FirstDue DEF WakeUp
  <2>3. ListsSorted'
    BY <2>1, <2>2, OrderFacts, MoveInOrder, InOrderDef
  <2>4. QED
    BY <2>1, <2>3 DEF Order, NoOverdueSleeper
<1>11. CASE WakeUpCurrent
  <2>1. UNCHANGED <<queue, priority>> /\ mode' = "panic"
    BY <1>11 DEF WakeUpCurrent
  <2>2. QED
    BY <2>1, OrderFacts, InOrderDef DEF Order, NoOverdueSleeper
<1>12. ASSUME NEW i \in zombies, Reap(i) PROVE Order'
  <2>1. queue["ZOMBIE"] \in Seq(Task)
    BY OrderFacts DEF Lists, QState
  <2>2. zombie_at(i) \in Task
    BY <2>1, ElementOfSeq DEF zombies, zombie_at
  <2>3. QED
    BY <1>12, <2>2, FreeOrder DEF Reap, cpuVars
<1>13. CASE Keep
  BY <1>13, SameOrder DEF Keep, choosing, structVars
<1>14. CASE Switch
  BY <1>14, SwitchOrder
<1>15. CASE ReturnFromStart
  BY <1>15, SameOrder DEF ReturnFromStart, cpuVars, structVars
<1>16. CASE ResumeWaitAny
  BY <1>16, WaitOrder DEF ResumeWaitAny
<1>17. CASE ResumeWaitSpecific
  <2>1. child[current] \in Task
    BY <1>17, <1>a DEF ResumeWaitSpecific, Resumes, StructInv, Struct, SuspendedCalls
  <2>2. QED
    BY <1>17, <2>1, WaitOrder DEF ResumeWaitSpecific
<1>18. CASE PageFault
  <2>1. CASE state[current] = "ZOMBIE"
    BY <1>18, <2>1, SameOrder DEF PageFault, structVars
  <2>2. CASE state[current] # "ZOMBIE"
    <3>1. current \in global
      BY <1>a, <2>2, StructFacts
    <3>2. mode' # "cpu" /\ exit_task(current) /\ UNCHANGED total_ticks
      BY <1>18, <2>2 DEF PageFault, after_exit
    <3>3. QED
      BY <1>a, <3>1, <3>2, ExitOrder
  <2>3. QED
    BY <2>1, <2>2
<1>19. CASE UNCHANGED vars
  BY <1>19, SameOrder DEF vars, cpuVars, structVars
<1>20. QED
  BY <1>1, <1>2, <1>3, <1>4, <1>5, <1>6, <1>7, <1>8, <1>9, <1>10, <1>11, <1>12, <1>13,
     <1>14, <1>15, <1>16, <1>17, <1>18, <1>19
     DEF Next, SystemCall, Schedule, Resume, Panicked

-----------------------------------------------------------------------------
(* What schedule() and chprio() leave running *)

LEMMA KeepUrgent ==
    ASSUME OrderInv, Keep
    PROVE  PriorityRespected'
<1>1. UNCHANGED <<current, alloc, state, priority>> /\ keeps_cpu
  BY DEF Keep, structVars
<1>2. ASSUME NEW u \in alloc, state[u] = "READY" PROVE priority[u] <= priority[current]
  <2> DEFINE top == priority[queue_top(queue["READY"])]
  <2>1. queue["READY"] # <<>> /\ priority[u] <= top
    BY <1>2, ReadyBelowTop
  <2>2. priority[current] > top
    BY <1>1, <2>1 DEF keeps_cpu
  <2>3. priority[u] \in Int /\ priority[current] \in Int /\ top \in Int
    <3>1. queue_top(queue["READY"]) \in Task
      BY <1>2, ReadyBelowTop
    <3>2. QED
      BY <3>1, OrderFacts
  <2> HIDE DEF top
  <2>4. QED
    BY <2>1, <2>2, <2>3
<1>3. QED
  BY <1>1, <1>2 DEF PriorityRespected

LEMMA SwitchUrgent ==
    ASSUME OrderInv, Switch
    PROVE  PriorityRespected'
<1> DEFINE new == queue_top(queue["READY"])
<1>1. /\ current' = new /\ UNCHANGED <<alloc, priority>> /\ ~keeps_cpu
      /\ state' = IF state[current] = "RUNNING"
                  THEN [state EXCEPT ![current] = "READY", ![new] = "RUNNING"]
                  ELSE [state EXCEPT ![new] = "RUNNING"]
  BY DEF Switch
<1>2. new \in Task
  BY <1>1, QueueTop DEF keeps_cpu, OrderInv, StructInv
<1>3. state[current] = "RUNNING" => priority[current] <= priority[new]
  BY <1>1, <1>2, OrderFacts DEF keeps_cpu
<1>4. \A u \in alloc : state[u] = "READY" => priority[u] <= priority[new]
  BY ReadyBelowTop
<1> HIDE DEF new
<1>5. \A u \in alloc : state'[u] = "READY" =>
          state[u] = "READY" \/ (u = current /\ state[current] = "RUNNING")
  <2>1. alloc \subseteq Task /\ state \in [Task -> State]
    BY StructFacts DEF OrderInv
  <2>2. CASE state[current] = "RUNNING"
    BY <1>1, <2>1, <2>2
  <2>3. CASE state[current] # "RUNNING"
    <3>1. state' = [state EXCEPT ![new] = "RUNNING"]
      BY <1>1, <2>3
    <3>2. QED
      BY <2>1, <3>1
  <2>4. QED
    BY <2>2, <2>3
<1>6. QED
  BY <1>1, <1>3, <1>4, <1>5 DEF PriorityRespected

\* chprio calls schedule() itself when it breaks the rule.
LEMMA ChprioUrgent ==
    ASSUME OrderInv, NEW p, NEW prio \in ChPrio, Chprio(p, prio), PriorityRespected
    PROVE  PriorityRespected'
<1> DEFINE t == pid_to_task(p)
<1>1. /\ mode = "cpu" /\ t # NULL /\ priority' = [priority EXCEPT ![t] = prio]
      /\ UNCHANGED <<current, alloc, state>>
      /\ mode' = "cpu" => ~chprio_yields(t, prio)
  BY DEF Chprio, InProcess, InUser
<1>2. t \in Task
  BY <1>1, PidToTask DEF OrderInv, StructInv
<1>3. prio \in Int /\ priority \in [Task -> Int] /\ current \in Task /\ alloc \subseteq Task
  BY OrderFacts, InputAssumption, ParamAssumption
<1> HIDE DEF t
<1>4. \A u \in Task : priority'[u] = IF u = t THEN prio ELSE priority[u]
  BY <1>1, <1>3
<1>5. ASSUME mode' = "cpu", NEW u \in alloc, state[u] = "READY"
      PROVE  priority'[u] <= priority'[current]
  <2>1. priority[u] <= priority[current] /\ u \in Task /\ u # current
    BY <1>1, <1>3, <1>5, StructFacts DEF PriorityRespected, OrderInv
  <2>2. CASE t = current
    <3>1. /\ priority[u] <= priority[queue_top(queue["READY"])]
          /\ queue_top(queue["READY"]) \in Task
      BY <1>5, ReadyBelowTop
    <3>2. ~(priority[queue_top(queue["READY"])] > prio)
      BY <1>1, <1>5, <2>2 DEF chprio_yields
    <3>3. priority[queue_top(queue["READY"])] \in Int
      BY <1>3, <3>1
    <3>4. priority[u] <= prio
      BY <1>3, <2>1, <3>1, <3>2, <3>3
    <3>5. QED
      BY <1>3, <1>4, <2>1, <2>2, <3>4
  <2>3. CASE t # current
    <3>1. t = u => ~(prio > priority[current])
      BY <1>1, <1>5, <2>3 DEF chprio_yields
    <3>2. QED
      BY <1>3, <1>4, <2>1, <2>3, <3>1
  <2>4. QED
    BY <2>2, <2>3
<1>6. QED
  BY <1>1, <1>5 DEF PriorityRespected

\* A process that starts, ends or is freed changes alloc or global as well.
LEMMA NextUrgent == OrderInv /\ [Next]_vars => [UrgentStep]_vars
<1> SUFFICES ASSUME OrderInv, Next PROVE UrgentStep \/ UNCHANGED vars
  OBVIOUS
<1>a. current \in Task /\ TypeOK /\ StructInv
  BY OrderFacts DEF OrderInv, StructInv
<1>b. (mode = "schedule" => mode' # "cpu") /\ (priority' = priority \/ alloc' # alloc \/ global' # global)
         => UrgentStep
  BY DEF UrgentStep, PriorityRespected
<1>c. ASSUME NEW t, exit_task(t), t \in global PROVE global' # global
  BY <1>c DEF exit_task
<1>d. ASSUME NEW t, free_task(t), t \in alloc PROVE alloc' # alloc
  BY <1>d DEF free_task
<1>1. ASSUME NEW prio \in StartPrio, NEW t \in Task, Start(prio, t) PROVE UrgentStep
  <2>1. mode = "cpu" /\ alloc' # alloc
    BY <1>1 DEF Start, InUser
  <2>2. QED
    BY <1>b, <2>1
<1>2. CASE StartNoMemory
  BY <1>2, <1>b DEF StartNoMemory, InUser, structVars
<1>3. CASE Exit
  <2>1. current \in global
    BY <1>3, <1>a, StructFacts DEF Exit, InProcess, InUser
  <2>2. QED
    BY <1>3, <1>b, <1>c, <2>1 DEF Exit, InProcess, InUser
<1>4. ASSUME NEW p \in Pid, Kill(p) PROVE UrgentStep
  <2>1. mode = "cpu" /\ exit_task(pid_to_task(p)) /\ pid_to_task(p) # NULL
    BY <1>4 DEF Kill, InProcess, InUser
  <2>2. QED
    BY <1>a, <1>b, <1>c, <2>1, PidToLive
<1>5. ASSUME NEW c \in WakeTime, WaitClock(c) PROVE UrgentStep
  BY <1>5, <1>b DEF WaitClock, InProcess, InUser
<1>6. ASSUME NEW p \in Pid, NEW prio \in ChPrio, Chprio(p, prio) PROVE UrgentStep
  <2>1. mode = "cpu"
    BY <1>6 DEF Chprio, InProcess, InUser
  <2>2. QED
    BY <1>6, <2>1, ChprioUrgent DEF UrgentStep
<1>e. ASSUME wait_any, mode = "cpu" PROVE UrgentStep
  <2>1. CASE first_zombie # 0
    <3>1. /\ free_task(children[current][first_zombie])
          /\ children[current][first_zombie] \in alloc
      BY <1>a, <1>e, <2>1, FirstZombie, StructFacts DEF wait_any, collect
    <3>2. QED
      BY <1>b, <1>d, <1>e, <3>1
  <2>2. CASE first_zombie = 0
    BY <1>b, <1>e, <2>2 DEF wait_any, block_for_child
  <2>3. QED
    BY <2>1, <2>2
<1>f. ASSUME NEW c \in Task, wait_specific(c), mode = "cpu" PROVE UrgentStep
  <2>1. CASE state[c] = "ZOMBIE"
    <3>1. free_task(c) /\ c \in alloc
      BY <1>a, <1>f, <2>1, StructFacts DEF wait_specific, collect
    <3>2. QED
      BY <1>b, <1>d, <1>f, <3>1
  <2>2. CASE state[c] # "ZOMBIE"
    BY <1>b, <1>f, <2>2 DEF wait_specific, block_for_child
  <2>3. QED
    BY <2>1, <2>2
<1>7. CASE WaitAny
  BY <1>7, <1>e DEF WaitAny, InProcess, InUser
<1>8. ASSUME NEW p \in Pid, WaitSpecific(p) PROVE UrgentStep
  BY <1>8, <1>a, <1>f, FirstNamed DEF WaitSpecific, InProcess, InUser
<1>9. CASE Tick
  BY <1>9, <1>b DEF Tick, InUser, structVars
<1>10. CASE WakeUp
  BY <1>10, <1>b DEF WakeUp, cpuVars
<1>11. CASE WakeUpCurrent
  BY <1>11, <1>b DEF WakeUpCurrent
<1>12. ASSUME NEW i \in zombies, Reap(i) PROVE UrgentStep
  <2>1. queue["ZOMBIE"] \in Seq(Task) /\ "ZOMBIE" \in QState
    BY OrderFacts DEF Lists, QState
  <2>2. zombie_at(i) \in ToSet(queue["ZOMBIE"])
    BY <2>1, LenProperties DEF zombies, zombie_at, ToSet
  <2>3. zombie_at(i) \in alloc
    BY <2>1, <2>2, OrderFacts
  <2>4. free_task(zombie_at(i)) /\ UNCHANGED mode
    BY <1>12 DEF Reap, cpuVars
  <2>5. mode = "schedule"
    BY <1>12 DEF Reap
  <2>6. QED
    BY <1>b, <1>d, <2>3, <2>4, <2>5
<1>13. CASE Keep
  BY <1>13, KeepUrgent DEF UrgentStep
<1>14. CASE Switch
  BY <1>14, SwitchUrgent DEF UrgentStep
<1>15. CASE ReturnFromStart
  BY <1>15, <1>b DEF ReturnFromStart, Resumes, structVars
<1>16. CASE ResumeWaitAny
  BY <1>16, <1>e DEF ResumeWaitAny, Resumes
<1>17. CASE ResumeWaitSpecific
  <2>1. child[current] \in Task
    BY <1>17, <1>a DEF ResumeWaitSpecific, Resumes, StructInv, Struct, SuspendedCalls
  <2>2. QED
    BY <1>17, <1>f, <2>1 DEF ResumeWaitSpecific, Resumes
<1>18. CASE PageFault
  <2>1. CASE state[current] = "ZOMBIE"
    BY <1>18, <1>b, <2>1 DEF PageFault, structVars
  <2>2. CASE state[current] # "ZOMBIE"
    BY <1>18, <1>a, <1>b, <1>c, <2>2, StructFacts DEF PageFault
  <2>3. QED
    BY <2>1, <2>2
<1>19. QED
  BY <1>1, <1>2, <1>3, <1>4, <1>5, <1>6, <1>7, <1>8, <1>9, <1>10, <1>11, <1>12, <1>13,
     <1>14, <1>15, <1>16, <1>17, <1>18
     DEF Next, SystemCall, Schedule, Resume, Panicked

LEMMA OrderInvariant == Spec => []OrderInv
<1>1. OrderInv /\ [Next]_vars => OrderInv'
  BY NextTypeOK, NextStruct, NextOrder DEF OrderInv, StructInv
<1>2. QED
  BY InitOrder, <1>1, PTL DEF Spec

\* queue_top of the ready list is a task of highest priority, and sleepers are
\* found in order, although chprio, wake-ups, exit and the reuse of structs
\* change priorities at any time.
THEOREM ListsInOrder == Spec => []ListsSorted
<1>1. OrderInv => ListsSorted
  BY DEF OrderInv, Order
<1>2. QED
  BY OrderInvariant, <1>1, PTL

\* No process is asleep past its wake-up time while user code runs, wherever the
\* clock stands and although it wraps around.
THEOREM NobodyOversleeps == Spec => []NoOverdueSleeper
<1>1. OrderInv => NoOverdueSleeper
  BY DEF OrderInv, Order
<1>2. QED
  BY OrderInvariant, <1>1, PTL

\* schedule() always goes on with a task as urgent as any that is ready, and
\* chprio never leaves a more urgent one waiting.
THEOREM SchedulesMostUrgent == Spec => MostUrgentGoesOn
<1>1. Spec => [][UrgentStep]_vars
  BY OrderInvariant, NextUrgent, PTL DEF Spec
<1>2. QED
  BY <1>1 DEF MostUrgentGoesOn, UrgentStep

=============================================================================
