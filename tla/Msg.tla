-------------------------------- MODULE Msg --------------------------------
(***************************************************************************)
(* Message queues, kernel/msg.c, on top of the processes of module Tasks.  *)
(*                                                                         *)
(* A process that cannot go on is linked into a waiting list of the queue  *)
(* (senders and receivers of Tasks) and loops around schedule(): kpc is    *)
(* "psend" or "preceive" and call holds its local variables.  pdelete and  *)
(* preset unblock the waiting processes one at a time, without             *)
(* interruption (mode = "msg").                                            *)
(*                                                                         *)
(* Identifiers are valid ones: mqueues is indexed without a bound check.   *)
(* mem_alloc is assumed to succeed.                                        *)
(***************************************************************************)
EXTENDS Tasks

CONSTANTS
    Message,    \* messages programs send, integers
    Size,       \* capacities programs pass to pcreate
    DeleteFid,  \* identifiers programs pass to pdelete
    ResetFid,   \* identifiers programs pass to preset
    MaxReset    \* bound on cpt_rst

ASSUME MsgAssumption ==
    /\ Fid \subseteq Nat
    /\ Message \subseteq Int
    /\ Size \subseteq Nat \ {0}
    /\ DeleteFid \subseteq Fid /\ ResetFid \subseteq Fid
    /\ MaxReset \in Nat

VARIABLES
    mqueues,    \* the struct mqueue of each identifier, or Unused
    cpt_rst,    \* pdelete and preset calls so far, of all queues together
    call,       \* locals of the psend or preceive a task is suspended in
    dropped     \* locals of the pdelete or preset under way

msgVars == <<mqueues, cpt_rst, call, dropped>>
allVars == <<vars, msgVars>>

\* The lists hold tasks, a mqueue its capacity and its messages, oldest first.
Unused == [size |-> -1, msgs |-> <<>>]
NoCall == [id |-> NULL, rst |-> 0]
NoDrop == [id |-> NULL, size |-> -1]

-----------------------------------------------------------------------------
used(f) == mqueues[f] # Unused
count(f) == Len(mqueues[f].msgs)
MQUEUE_EMPTY(f) == count(f) = 0
MQUEUE_FULL(f) == count(f) = mqueues[f].size

\* first_available_queue
available == {f \in Fid : ~used(f)}
first_available_queue == CHOOSE f \in available : \A g \in available : f <= g

with_msgs(f, s) == [mqueues EXCEPT ![f].msgs = s]

\* Locals of the calls that tasks are still in.
live_calls == [t \in Task |-> IF kpc'[t] \in {"psend", "preceive"} THEN call[t] ELSE NoCall]

\* set_task_ready_or_running: t was taken off a waiting list.
ready_or_running(t) ==
    /\ state' = [state EXCEPT ![t] = "READY"]
    /\ queue' = link(queue, "READY", t, priority)
    /\ mode' = IF priority[t] > priority[current] THEN "schedule" ELSE "cpu"

\* The current task stays in the CPU, or goes back to user mode.
returns ==
    /\ mode' = "cpu"
    /\ UNCHANGED <<state, queue>>

\* A task leaves call c with its locals (or returns to user mode).
in_call(c, locals) ==
    /\ kpc' = [kpc EXCEPT ![current] = c]
    /\ call' = [call EXCEPT ![current] = locals]

\* What no call of this module touches.
taskFrame == <<current, total_ticks, alloc, priority, pid, parent, children, wake_time,
               child, nameVars>>

-----------------------------------------------------------------------------
Pcreate(n) ==
    /\ InProcess
    /\ available # {}
    /\ mqueues' = [mqueues EXCEPT ![first_available_queue] = [size |-> n, msgs |-> <<>>]]
    /\ UNCHANGED <<vars, cpt_rst, call, dropped>>

\* The body of both waiting loops: queue_add, set_task_interrupted_msg.
block_sender(f) ==
    /\ senders' = [senders EXCEPT ![f] = queue_add(@, current, priority)]
    /\ UNCHANGED receivers
    /\ state' = [state EXCEPT ![current] = "INTERRUPTED_MSG"]
    /\ mode' = "schedule"
    /\ UNCHANGED queue
block_receiver(f) ==
    /\ receivers' = [receivers EXCEPT ![f] = queue_add(@, current, priority)]
    /\ UNCHANGED senders
    /\ state' = [state EXCEPT ![current] = "INTERRUPTED_MSG"]
    /\ mode' = "schedule"
    /\ UNCHANGED queue

\* psend() when a receiver waits: it gets the message directly.
hand_over(f, m) ==
    LET last == queue_top(receivers[f])
    IN  /\ receivers' = [receivers EXCEPT ![f] = queue_out_rest(@)]
        /\ msg_val' = [msg_val EXCEPT ![last] = m]
        /\ ready_or_running(last)
        /\ UNCHANGED <<mqueues, senders, kpc, call>>

\* The end of psend(): msg_val -1 stands for a message already taken.  No
\* receiver can be waiting here: see ServedOrReset and WaitersHaveAReason.
finish_send(f, m) ==
    /\ mqueues' = IF m = -1 THEN mqueues
                            ELSE with_msgs(f, Append(mqueues[f].msgs, m))
    /\ returns
    /\ UNCHANGED msgLists

Psend(f, m) ==
    /\ InProcess
    /\ used(f)
    /\ IF receivers[f] # <<>>
       THEN hand_over(f, m)
       ELSE /\ msg_val' = [msg_val EXCEPT ![current] = m]
            /\ IF MQUEUE_FULL(f) /\ m # -1
               THEN /\ block_sender(f)
                    /\ in_call("psend", [id |-> f, rst |-> cpt_rst])
                    /\ UNCHANGED mqueues
               ELSE finish_send(f, m) /\ UNCHANGED <<kpc, call>>
    /\ UNCHANGED <<taskFrame, cpt_rst, dropped>>

\* The loop condition dereferences a null mqueue after pdelete.
null_mqueue ==
    /\ mode' = "fault"
    /\ UNCHANGED <<state, queue, msgLists, msg_val, kpc, call, mqueues>>

\* Back from schedule() in psend().
ResumePsend ==
    LET f == call[current].id
        m == msg_val[current]
    IN  /\ Resumes("psend")
        /\ IF ~used(f) THEN null_mqueue
           ELSE IF MQUEUE_FULL(f) /\ m # -1
           THEN block_sender(f) /\ UNCHANGED <<msg_val, kpc, call, mqueues>>
           ELSE /\ in_call("user", NoCall)
                /\ IF call[current].rst < cpt_rst
                   THEN returns /\ UNCHANGED <<mqueues, msgLists>>
                   ELSE finish_send(f, m)
                /\ UNCHANGED msg_val
        /\ UNCHANGED <<taskFrame, cpt_rst, dropped>>

-----------------------------------------------------------------------------
\* Mutated form: the sender's message overtakes the ones in the queue.
refill_front(f, m) == <<m>> \o Tail(mqueues[f].msgs)
\* Mutated form: the sender's message is lost.
refill_nothing(f, m) == Tail(mqueues[f].msgs)
\* __pop_msg, then __add_msg of the message of a waiting sender.
refill(f, m) == Append(Tail(mqueues[f].msgs), m)

\* The end of preceive() when the queue is not empty: take the first message
\* and let the most urgent sender put its own in.
take(f, vals) ==
    LET last == queue_top(senders[f])
        refills == MQUEUE_FULL(f) /\ vals[last] # -1
    IN  IF senders[f] # <<>>
        THEN /\ senders' = [senders EXCEPT ![f] = queue_out_rest(@)]
             /\ mqueues' = with_msgs(f, IF refills THEN refill(f, vals[last])
                                                   ELSE Tail(mqueues[f].msgs))
             /\ msg_val' = IF refills THEN [vals EXCEPT ![last] = -1] ELSE vals
             /\ ready_or_running(last)
             /\ UNCHANGED receivers
        ELSE /\ mqueues' = with_msgs(f, Tail(mqueues[f].msgs))
             /\ msg_val' = vals
             /\ returns
             /\ UNCHANGED msgLists

Preceive(f) ==
    LET vals == [msg_val EXCEPT ![current] = -1]
    IN  /\ InProcess
        /\ used(f)
        /\ IF MQUEUE_EMPTY(f)
           THEN /\ msg_val' = vals
                /\ block_receiver(f)
                /\ in_call("preceive", [id |-> f, rst |-> cpt_rst])
                /\ UNCHANGED mqueues
           ELSE take(f, vals) /\ UNCHANGED <<kpc, call>>
        /\ UNCHANGED <<taskFrame, cpt_rst, dropped>>

\* Back from schedule() in preceive().
ResumePreceive ==
    LET f == call[current].id
    IN  /\ Resumes("preceive")
        /\ IF ~used(f) THEN null_mqueue
           ELSE IF MQUEUE_EMPTY(f) /\ msg_val[current] = -1
           THEN block_receiver(f) /\ UNCHANGED <<msg_val, kpc, call, mqueues>>
           ELSE /\ in_call("user", NoCall)
                /\ IF call[current].rst < cpt_rst
                   THEN returns /\ UNCHANGED <<msg_val, mqueues, msgLists>>
                   ELSE IF msg_val[current] # -1
                   THEN /\ msg_val' = [msg_val EXCEPT ![current] = -1]
                        /\ returns
                        /\ UNCHANGED <<mqueues, msgLists>>
                   ELSE take(f, msg_val)
        /\ UNCHANGED <<taskFrame, cpt_rst, dropped>>

-----------------------------------------------------------------------------
\* Mutated form: pdelete is not counted.
PdeleteUncounted(f) ==
    /\ InProcess
    /\ used(f)
    /\ dropped' = [id |-> f, size |-> -1]
    /\ mode' = "msg"
    /\ UNCHANGED <<current, total_ticks, structVars, stackVars, queue, msgLists, nameVars,
                   mqueues, call, cpt_rst>>
Pdelete(f) ==
    /\ InProcess
    /\ used(f)
    /\ cpt_rst + 1 <= MaxReset
    /\ cpt_rst' = cpt_rst + 1
    /\ dropped' = [id |-> f, size |-> -1]
    /\ mode' = "msg"
    /\ UNCHANGED <<current, total_ticks, structVars, stackVars, queue, msgLists, nameVars,
                   mqueues, call>>

\* preset() counts itself and the pdelete() it calls, and will create a queue
\* as large as the number of messages in the old one.
Preset(f) ==
    /\ InProcess
    /\ used(f)
    /\ cpt_rst + 2 <= MaxReset
    /\ cpt_rst' = cpt_rst + 2
    /\ dropped' = [id |-> f, size |-> count(f)]
    /\ mode' = "msg"
    /\ UNCHANGED <<current, total_ticks, structVars, stackVars, queue, msgLists, nameVars,
                   mqueues, call>>

\* set_task_ready of a task in state INTERRUPTED_MSG.
unblock(t) ==
    /\ state' = [state EXCEPT ![t] = "READY"]
    /\ queue' = link(queue, "READY", t, priority)

DropSender ==
    LET f == dropped.id
    IN  /\ mode = "msg"
        /\ senders[f] # <<>>
        /\ unblock(queue_top(senders[f]))
        /\ senders' = [senders EXCEPT ![f] = queue_out_rest(@)]
        /\ UNCHANGED <<taskFrame, mode, msg_val, kpc, receivers, msgVars>>

DropReceiver ==
    LET f == dropped.id
    IN  /\ mode = "msg"
        /\ senders[f] = <<>>
        /\ receivers[f] # <<>>
        /\ unblock(queue_top(receivers[f]))
        /\ receivers' = [receivers EXCEPT ![f] = queue_out_rest(@)]
        /\ UNCHANGED <<taskFrame, mode, msg_val, kpc, senders, msgVars>>

\* free_mqueue, and preset()'s alloc_mqueue.
FreeMqueue ==
    LET f == dropped.id
    IN  /\ mode = "msg"
        /\ senders[f] = <<>>
        /\ receivers[f] = <<>>
        /\ mqueues' = [mqueues EXCEPT ![f] = [size |-> dropped.size, msgs |-> <<>>]]
        /\ mode' = "cpu"
        /\ dropped' = NoDrop
        /\ UNCHANGED <<current, total_ticks, structVars, stackVars, queue, msgLists, nameVars,
                       cpt_rst, call>>

-----------------------------------------------------------------------------
MsgInit ==
    /\ Init
    /\ mqueues = [f \in Fid |-> Unused]
    /\ cpt_rst = 0
    /\ call = [t \in Task |-> NoCall]
    /\ dropped = NoDrop

\* A step of Tasks; the locals of a freed task go with its kernel stack.
TaskStep == Next /\ call' = live_calls /\ UNCHANGED <<mqueues, cpt_rst, dropped>>

MsgCall ==
    \/ \E n \in Size : Pcreate(n)
    \/ \E f \in Fid, m \in Message : Psend(f, m)
    \/ \E f \in Fid : Preceive(f)
    \/ \E f \in DeleteFid : Pdelete(f)
    \/ \E f \in ResetFid : Preset(f)

MsgNext ==
    \/ TaskStep
    \/ MsgCall
    \/ ResumePsend
    \/ ResumePreceive
    \/ DropSender
    \/ DropReceiver
    \/ FreeMqueue

MsgSpec == MsgInit /\ [][MsgNext]_allVars

-----------------------------------------------------------------------------
(* Properties *)

\* Every queue is unused or holds at most its capacity of messages, and the
\* locals of suspended calls are those of calls on some queue.
MsgTypeOK ==
    /\ mode \in {"cpu", "schedule", "msg", "fault", "panic"}
    /\ DOMAIN mqueues = Fid
    /\ \A f \in Fid :
           \/ mqueues[f] = Unused
           \/ /\ mqueues[f].size \in Nat
              /\ mqueues[f].msgs \in Seq(Int)
              /\ count(f) <= mqueues[f].size
    /\ cpt_rst \in 0..MaxReset
    /\ \A t \in Task :
           call[t] = NoCall \/ (call[t].id \in Fid /\ call[t].rst \in 0..cpt_rst)
    /\ mode = "msg" => dropped.id \in Fid /\ used(dropped.id)

\* The processes in state INTERRUPTED_MSG are those on the waiting lists, each on
\* one list, once, of the queue its own call names: kill, chprio and pdelete
\* find it there, and nobody is left waiting on a queue that is gone.
WaitersMatchState ==
    LET lists == {senders[f] : f \in Fid} \cup {receivers[f] : f \in Fid}
    IN  /\ \A q \in lists : NoDup(q)
        /\ {t \in alloc : state[t] = "INTERRUPTED_MSG"} = UNION {ToSet(q) : q \in lists}
        /\ \A f \in Fid :
               /\ \A t \in ToSet(senders[f]) : kpc[t] = "psend" /\ call[t].id = f
               /\ \A t \in ToSet(receivers[f]) : kpc[t] = "preceive" /\ call[t].id = f
               /\ ~used(f) => senders[f] = <<>> /\ receivers[f] = <<>>

\* The waiting lists stay sorted by the current priorities, so that the most
\* urgent sender and receiver is served first (primitive.h:77, 106), whatever
\* chprio did to them while they waited.
WaitersSorted ==
    \A f \in Fid : Sorted(senders[f], priority) /\ Sorted(receivers[f], priority)

\* Queues, waiting lists and the states of processes agree, and the lists are in
\* the order the processes are to be served in.
WaitersConsistent == MsgTypeOK /\ WaitersMatchState /\ WaitersSorted

\* Nobody waits without a reason: senders wait on a full queue, with a message to
\* deliver, and receivers on an empty one.  No wake-up is lost, and the last
\* branches of psend() and preceive() are dead code.
WaitersHaveAReason ==
    \A f \in Fid :
        /\ senders[f] # <<>> => MQUEUE_FULL(f)
        /\ receivers[f] # <<>> => MQUEUE_EMPTY(f)
        /\ \A t \in ToSet(senders[f]) : msg_val[t] # -1

\* A sender that gets out of the waiting list has been served or its queue is
\* gone: it never stores its message a second time, or in another queue that
\* was given the same identifier while it waited.
ServedOrReset ==
    \A t \in global : kpc[t] = "psend" /\ state[t] \in {"READY", "RUNNING"} =>
        msg_val[t] = -1 \/ call[t].rst < cpt_rst

\* Mutated form: only the messages in the queue are counted.
pcount_messages(f) == IF MQUEUE_EMPTY(f) THEN -Len(receivers[f]) ELSE count(f)
\* What pcount() stores.
pcount(f) == IF MQUEUE_EMPTY(f) THEN -Len(receivers[f]) ELSE count(f) + Len(senders[f])

\* One number tells the whole story: messages that can be received, or, negated,
\* receivers that wait.  Only the queue of capacity 0 that preset makes of an
\* empty one has both senders and receivers waiting.
PcountExact ==
    \A f \in Fid : mqueues[f].size > 0 =>
        pcount(f) = count(f) + Len(senders[f]) - Len(receivers[f])

\* The messages on their way through f: the stored ones, then those of waiting
\* senders, the most urgent and oldest sender first.
Pending(f) ==
    mqueues[f].msgs \o [i \in 1..Len(senders[f]) |-> msg_val[Reverse(senders[f])[i]]]

\* FIFO: a receive takes the first pending message and leaves the others in
\* order, although it moves one of them from a sender into the queue.
ReceiveInOrder ==
    [][\A f \in Fid : used(f) /\ ~MQUEUE_EMPTY(f) /\ Preceive(f) =>
          Pending(f)' = Tail(Pending(f))]_allVars

-----------------------------------------------------------------------------
(* What the docs say, and the code does not do *)

=============================================================================
