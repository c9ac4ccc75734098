------------------------------ MODULE MsgProofs ------------------------------
(***************************************************************************)
(* Message queues: waiting lists, states and queues agree, nobody waits    *)
(* without a reason, nothing is delivered twice, and receives are in       *)
(* order, for every value of the constants of Msg.  First what message     *)
(* queues add to the invariant of Tasks, and that the steps of Tasks keep  *)
(* it (kill, chprio and the rest reach into the waiting lists of msg.c);   *)
(* then the calls of msg.c.                                                *)
(***************************************************************************)
EXTENDS Msg, TasksProofs

(***************************************************************************)
(* The inductive invariant.  The properties of Msg need each other: a      *)
(* sender finds no waiting receiver at the end of psend() because it has   *)
(* been served (ServedOrReset), which depends on the reasons others wait   *)
(* for.  They also need that no other wake-up, of a sleeper or of a parent,*)
(* reaches a process inside psend(), and that a call which pdelete cuts    *)
(* short began before the reset it counts.                                 *)
(***************************************************************************)

\* MsgTypeOK, with every field typed, and the queue of a suspended call known.
MsgTypes ==
    /\ mqueues \in [Fid -> [size : Nat \cup {-1}, msgs : Seq(Int)]]
    /\ \A f \in Fid : ~used(f) \/ (mqueues[f].size \in Nat /\ count(f) <= mqueues[f].size)
    /\ cpt_rst \in 0..MaxReset
    /\ call \in [Task -> [id : Fid \cup {NULL}, rst : 0..cpt_rst]]
    /\ \A t \in Task : call[t] = NoCall \/ call[t].id \in Fid
    /\ \A t \in Task : kpc[t] \in {"psend", "preceive"} => call[t].id \in Fid
    /\ dropped.size \in Nat \cup {-1}
    /\ mode = "msg" => dropped.id \in Fid /\ used(dropped.id)

\* wait_clock is not called from within the kernel.
SleepersInUser == \A t \in alloc : state[t] = "SLEEPING" => kpc[t] = "user"

\* Every call suspended now began before the pdelete or preset under way.
Resetting == mode = "msg" => \A t \in Task : call[t].rst < cpt_rst

MsgState ==
    /\ MsgTypes
    /\ WaitersMatchState
    /\ WaitersSorted
    /\ WaitersHaveAReason
    /\ ServedOrReset
    /\ SleepersInUser
    /\ Resetting

MsgInv == FamilyInv /\ MsgState

-----------------------------------------------------------------------------
(* Waiting lists *)

\* t waits for a message, or for room to send one.
Waits(t) == t \in alloc /\ state[t] = "INTERRUPTED_MSG"

\* WaitersMatchState, task by task.
Lined ==
    /\ \A f \in Fid : NoDup(senders[f]) /\ NoDup(receivers[f])
    /\ \A f \in Fid : \A t \in ToSet(senders[f]) :
           Waits(t) /\ kpc[t] = "psend" /\ call[t].id = f
    /\ \A f \in Fid : \A t \in ToSet(receivers[f]) :
           Waits(t) /\ kpc[t] = "preceive" /\ call[t].id = f
    /\ \A t \in alloc : Waits(t) =>
           \E f \in Fid : t \in ToSet(senders[f]) \/ t \in ToSet(receivers[f])
    /\ \A f \in Fid : ~used(f) => senders[f] = <<>> /\ receivers[f] = <<>>

LEMMA UnionOfLists ==
    ASSUME NEW snd, NEW rcv, NEW w
    PROVE  w = UNION {ToSet(q) : q \in {snd[f] : f \in Fid} \cup {rcv[f] : f \in Fid}}
           <=> /\ \A f \in Fid : ToSet(snd[f]) \subseteq w /\ ToSet(rcv[f]) \subseteq w
               /\ \A t \in w : \E f \in Fid : t \in ToSet(snd[f]) \/ t \in ToSet(rcv[f])
<1> DEFINE lists == {snd[f] : f \in Fid} \cup {rcv[f] : f \in Fid}
           all == UNION {ToSet(q) : q \in lists}
<1>1. \A f \in Fid : ToSet(snd[f]) \subseteq all /\ ToSet(rcv[f]) \subseteq all
  OBVIOUS
<1>2. \A t \in all : \E f \in Fid : t \in ToSet(snd[f]) \/ t \in ToSet(rcv[f])
  OBVIOUS
<1> HIDE DEF all
<1>3. w = all <=> /\ \A f \in Fid : ToSet(snd[f]) \subseteq w /\ ToSet(rcv[f]) \subseteq w
                  /\ \A t \in w : \E f \in Fid : t \in ToSet(snd[f]) \/ t \in ToSet(rcv[f])
  BY <1>1, <1>2
<1>4. QED
  BY <1>3 DEF all

LEMMA LinedDef ==
    /\ WaitersMatchState <=> Lined
    /\ WaitersMatchState' <=> Lined'
<1> DEFINE lists == {senders[f] : f \in Fid} \cup {receivers[f] : f \in Fid}
           w == {t \in alloc : state[t] = "INTERRUPTED_MSG"}
<1>1. w = UNION {ToSet(q) : q \in lists}
      <=> /\ \A f \in Fid : ToSet(senders[f]) \subseteq w /\ ToSet(receivers[f]) \subseteq w
          /\ \A t \in w : \E f \in Fid : t \in ToSet(senders[f]) \/ t \in ToSet(receivers[f])
  <2> HIDE DEF w
  <2> QED BY UnionOfLists
<1>2. w' = UNION {ToSet(q) : q \in lists'}
      <=> /\ \A f \in Fid : ToSet(senders'[f]) \subseteq w' /\ ToSet(receivers'[f]) \subseteq w'
          /\ \A t \in w' : \E f \in Fid : t \in ToSet(senders'[f]) \/ t \in ToSet(receivers'[f])
  <2> DEFINE v == w'
  <2>1. v = UNION {ToSet(q) : q \in {senders'[f] : f \in Fid} \cup {receivers'[f] : f \in Fid}}
        <=> /\ \A f \in Fid : ToSet(senders'[f]) \subseteq v /\ ToSet(receivers'[f]) \subseteq v
            /\ \A t \in v : \E f \in Fid : t \in ToSet(senders'[f]) \/ t \in ToSet(receivers'[f])
    <3> HIDE DEF v
    <3> QED BY UnionOfLists
  <2>2. QED
    BY <2>1
<1>3. /\ (\A q \in lists : NoDup(q)) <=> \A f \in Fid : NoDup(senders[f]) /\ NoDup(receivers[f])
      /\ (\A q \in lists' : NoDup(q)) <=> \A f \in Fid : NoDup(senders'[f]) /\ NoDup(receivers'[f])
  OBVIOUS
<1>4. /\ WaitersMatchState <=>
             /\ \A q \in lists : NoDup(q)
             /\ w = UNION {ToSet(q) : q \in lists}
             /\ \A f \in Fid :
                   /\ \A t \in ToSet(senders[f]) : kpc[t] = "psend" /\ call[t].id = f
                   /\ \A t \in ToSet(receivers[f]) : kpc[t] = "preceive" /\ call[t].id = f
                   /\ ~used(f) => senders[f] = <<>> /\ receivers[f] = <<>>
      /\ WaitersMatchState' <=>
             /\ \A q \in lists' : NoDup(q)
             /\ w' = UNION {ToSet(q) : q \in lists'}
             /\ \A f \in Fid :
                   /\ \A t \in ToSet(senders'[f]) : kpc'[t] = "psend" /\ call'[t].id = f
                   /\ \A t \in ToSet(receivers'[f]) : kpc'[t] = "preceive" /\ call'[t].id = f
                   /\ ~used(f)' => senders'[f] = <<>> /\ receivers'[f] = <<>>
  BY DEF WaitersMatchState
<1>5. (\A t : t \in w <=> Waits(t)) /\ (\A t : t \in w' <=> Waits(t)')
  BY DEF Waits
<1> HIDE DEF w, lists
<1>6. WaitersMatchState <=> Lined
  BY <1>1, <1>3, <1>4, <1>5 DEF Lined, Waits
<1>7. WaitersMatchState' <=> Lined'
  BY <1>2, <1>3, <1>4, <1>5 DEF Lined, Waits
<1>8. QED
  BY <1>6, <1>7

\* An empty queue has no elements.
LEMMA EmptyToSet ==
    ASSUME NEW S, NEW q \in Seq(S)
    PROVE  q = <<>> <=> ToSet(q) = {}
<1>1. ASSUME q # <<>> PROVE ToSet(q) # {}
  <2>1. Len(q) \in DOMAIN q
    BY <1>1, EmptySeq, LenProperties
  <2>2. QED
    BY <2>1 DEF ToSet
<1>2. ToSet(<<>>) = {}
  BY DEF ToSet
<1>3. QED
  BY <1>1, <1>2

\* The types of what the invariant speaks of.
LEMMA MsgFacts ==
    ASSUME MsgInv
    PROVE  /\ StructInv /\ FamilyInv /\ TypeOK /\ Lined
           /\ senders \in [Fid -> Seq(Task)] /\ receivers \in [Fid -> Seq(Task)]
           /\ priority \in [Task -> Int] /\ msg_val \in [Task -> Int]
           /\ kpc \in [Task -> KernelCall] /\ state \in [Task -> State]
           /\ current \in Task /\ current \in alloc /\ Idle \in Task
           /\ alloc \subseteq Task /\ global \subseteq Task
           /\ \A t \in Task : t \in global <=> t \in alloc /\ state[t] # "ZOMBIE"
           /\ mode \in {"cpu", "msg"} => state[current] = "RUNNING"
           /\ call \in [Task -> [id : Fid \cup {NULL}, rst : 0..cpt_rst]]
  BY StructFacts, LinedDef
     DEF MsgInv, MsgState, MsgTypes, FamilyInv, StructInv, TypeOK

\* A task on a waiting list is a task, waits, and is in the call the list is for.
LEMMA OnList ==
    ASSUME MsgInv, NEW f \in Fid
    PROVE  /\ \A t \in ToSet(senders[f]) : /\ t \in Task /\ Waits(t)
                                           /\ kpc[t] = "psend" /\ call[t].id = f
           /\ \A t \in ToSet(receivers[f]) : /\ t \in Task /\ Waits(t)
                                             /\ kpc[t] = "preceive" /\ call[t].id = f
  BY MsgFacts DEF Lined, Waits

-----------------------------------------------------------------------------
(* The steps of Tasks *)

\* The waiting lists lose the tasks in X, and keep the others in order.
Shrinks(X) ==
    \A f \in Fid :
        /\ NoDup(senders'[f]) /\ NoDup(receivers'[f])
        /\ ToSet(senders'[f]) = ToSet(senders[f]) \ X
        /\ ToSet(receivers'[f]) = ToSet(receivers[f]) \ X
        /\ Sorted(senders'[f], priority') /\ Sorted(receivers'[f], priority')

\* A step kills the tasks in X and leaves the others in the calls they wait in.
Quiet(X) ==
    /\ Shrinks(X)
    /\ \A t \in Task : Waits(t)' <=> Waits(t) /\ t \notin X
    /\ \A t \in X : t \notin global'
    /\ \A t \in Task : Waits(t) => kpc'[t] = kpc[t] /\ msg_val'[t] = msg_val[t]
    /\ \A t \in Task : kpc'[t] \in {"psend", "preceive"} =>
           /\ kpc'[t] = kpc[t]
           /\ t \in global' => t \in global /\ msg_val'[t] = msg_val[t]
    /\ SleepersInUser'

\* No list that was empty gets a task when others lose some.
LEMMA ShrinkEmpty ==
    ASSUME MsgInv, NEW X, Shrinks(X),
           senders' \in [Fid -> Seq(Task)], receivers' \in [Fid -> Seq(Task)]
    PROVE  \A f \in Fid : /\ senders[f] = <<>> => senders'[f] = <<>>
                          /\ receivers[f] = <<>> => receivers'[f] = <<>>
<1>1. \A f \in Fid : /\ senders'[f] \in Seq(Task) /\ senders[f] \in Seq(Task)
                     /\ receivers'[f] \in Seq(Task) /\ receivers[f] \in Seq(Task)
  BY MsgFacts
<1>2. QED
  BY <1>1, EmptyToSet DEF Shrinks

\* The lists match the states of the tasks that are left on them.
LEMMA ShrinkLined ==
    ASSUME MsgInv, TypeOK', NEW X \in SUBSET Task, Shrinks(X),
           \A t \in Task : Waits(t)' <=> Waits(t) /\ t \notin X,
           \A t \in Task : Waits(t) /\ t \notin X => kpc'[t] = kpc[t] /\ call'[t] = call[t],
           \A f \in Fid : ~used(f)' => senders[f] = <<>> /\ receivers[f] = <<>>
    PROVE  Lined' /\ WaitersSorted'
<1>1. \A f \in Fid : /\ senders[f] = <<>> => senders'[f] = <<>>
                     /\ receivers[f] = <<>> => receivers'[f] = <<>>
  BY ShrinkEmpty DEF TypeOK
<1>2. ASSUME NEW f \in Fid, NEW t \in ToSet(senders'[f])
      PROVE  Waits(t)' /\ kpc'[t] = "psend" /\ call'[t].id = f
  <2>1. t \in ToSet(senders[f]) /\ t \notin X
    BY DEF Shrinks
  <2>2. QED
    BY <2>1, OnList
<1>3. ASSUME NEW f \in Fid, NEW t \in ToSet(receivers'[f])
      PROVE  Waits(t)' /\ kpc'[t] = "preceive" /\ call'[t].id = f
  <2>1. t \in ToSet(receivers[f]) /\ t \notin X
    BY DEF Shrinks
  <2>2. QED
    BY <2>1, OnList
<1>4. ASSUME NEW t \in alloc', Waits(t)'
      PROVE  \E f \in Fid : t \in ToSet(senders'[f]) \/ t \in ToSet(receivers'[f])
  <2>1. Waits(t) /\ t \notin X
    BY <1>4 DEF TypeOK
  <2>2. PICK f \in Fid : t \in ToSet(senders[f]) \/ t \in ToSet(receivers[f])
    BY <2>1, MsgFacts DEF Lined, Waits
  <2>3. QED
    BY <2>1, <2>2 DEF Shrinks
<1>5. Lined'
  BY <1>1, <1>2, <1>3, <1>4 DEF Lined, Shrinks
<1>6. WaitersSorted'
  BY DEF WaitersSorted, Shrinks
<1>7. QED
  BY <1>5, <1>6

\* Such a step keeps the invariant of the queues.
LEMMA QuietMsg ==
    ASSUME MsgInv, TypeOK', NEW X \in SUBSET Task, Quiet(X),
           call' = live_calls, UNCHANGED <<mqueues, cpt_rst, dropped>>, mode' # "msg"
    PROVE  MsgState'
<1>1. \A t \in Task : call'[t] = IF kpc'[t] \in {"psend", "preceive"} THEN call[t] ELSE NoCall
  BY DEF live_calls
<1>2. cpt_rst \in Nat /\ 0 \in 0..cpt_rst
  BY MsgAssumption DEF MsgInv, MsgState, MsgTypes
<1>3. MsgTypes'
  <2>1. call' \in [Task -> [id : Fid \cup {NULL}, rst : 0..cpt_rst]]
    <3>1. NoCall \in [id : Fid \cup {NULL}, rst : 0..cpt_rst]
      BY <1>2 DEF NoCall
    <3>2. QED
      BY <3>1, MsgFacts DEF live_calls
  <2>2. \A t \in Task : call'[t] = NoCall \/ call'[t].id \in Fid
    BY <1>1 DEF MsgInv, MsgState, MsgTypes
  <2>3. \A t \in Task : kpc'[t] \in {"psend", "preceive"} => call'[t].id \in Fid
    BY <1>1 DEF MsgInv, MsgState, MsgTypes, Quiet
  <2>4. QED
    BY <2>1, <2>2, <2>3 DEF MsgInv, MsgState, MsgTypes, used, count
<1>4. Lined' /\ WaitersSorted'
  <2>1. ASSUME NEW t \in Task, Waits(t) PROVE kpc'[t] = kpc[t] /\ call'[t] = call[t]
    <3>1. PICK f \in Fid : t \in ToSet(senders[f]) \/ t \in ToSet(receivers[f])
      BY <2>1, MsgFacts DEF Lined, Waits
    <3>2. kpc[t] \in {"psend", "preceive"}
      BY <3>1, OnList
    <3>3. kpc'[t] = kpc[t]
      BY <2>1 DEF Quiet
    <3>4. QED
      BY <1>1, <3>2, <3>3
  <2>2. \A f \in Fid : ~used(f)' => senders[f] = <<>> /\ receivers[f] = <<>>
    BY MsgFacts DEF Lined, used
  <2>3. QED
    BY <2>1, <2>2, ShrinkLined DEF Quiet
<1>5. WaitersHaveAReason'
  <2>1. ASSUME NEW f \in Fid
        PROVE  /\ senders'[f] # <<>> => MQUEUE_FULL(f)'
               /\ receivers'[f] # <<>> => MQUEUE_EMPTY(f)'
    <3>1. /\ senders'[f] # <<>> => senders[f] # <<>>
          /\ receivers'[f] # <<>> => receivers[f] # <<>>
      BY ShrinkEmpty DEF Quiet, TypeOK
    <3>2. (MQUEUE_FULL(f)' <=> MQUEUE_FULL(f)) /\ (MQUEUE_EMPTY(f)' <=> MQUEUE_EMPTY(f))
      BY DEF MQUEUE_FULL, MQUEUE_EMPTY, count
    <3>3. QED
      BY <3>1, <3>2 DEF MsgInv, MsgState, WaitersHaveAReason
  <2>2. ASSUME NEW f \in Fid, NEW t \in ToSet(senders'[f]) PROVE msg_val'[t] # -1
    <3>1. t \in ToSet(senders[f])
      BY DEF Quiet, Shrinks
    <3>2. msg_val'[t] = msg_val[t]
      BY <3>1, OnList DEF Quiet
    <3>3. QED
      BY <3>1, <3>2 DEF MsgInv, MsgState, WaitersHaveAReason
  <2>3. QED
    BY <2>1, <2>2 DEF WaitersHaveAReason
<1>6. ServedOrReset'
  <2> SUFFICES ASSUME NEW t \in global', kpc'[t] = "psend", state'[t] \in {"READY", "RUNNING"}
               PROVE  msg_val'[t] = -1 \/ call'[t].rst < cpt_rst
    BY DEF ServedOrReset
  <2>1. t \in Task
    BY DEF TypeOK
  <2>2. /\ kpc[t] = "psend" /\ t \in global /\ msg_val'[t] = msg_val[t]
        /\ call'[t] = call[t]
    BY <1>1, <2>1 DEF Quiet
  <2>3. t \in alloc /\ state[t] \in State /\ state[t] \notin {"ZOMBIE", "STARTUP"}
    BY <2>1, <2>2, MsgFacts, StructFacts
  <2>4. state[t] # "INTERRUPTED_MSG"
    BY <2>1, <2>3 DEF Quiet, Waits
  <2>5. state[t] # "SLEEPING" /\ state[t] # "INTERRUPTED_CHILD"
    BY <2>2, <2>3 DEF MsgInv, MsgState, SleepersInUser, FamilyInv, Family, NoLostChildWakeup
  <2>6. state[t] \in {"READY", "RUNNING"}
    BY <2>3, <2>4, <2>5 DEF State, QState
  <2>7. QED
    BY <2>2, <2>6 DEF MsgInv, MsgState, ServedOrReset
<1>7. QED
  BY <1>3, <1>4, <1>5, <1>6, LinedDef DEF MsgState, Quiet, Resetting

\* A step that leaves the waiting lists and all tasks but those in D alone, and
\* none of D waits before or after it.
LEMMA Elsewhere ==
    ASSUME MsgInv, UNCHANGED msgLists, NEW D \in SUBSET Task,
           \A t \in Task \ D :
               /\ t \in alloc' <=> t \in alloc
               /\ t \in global' <=> t \in global
               /\ state'[t] = state[t] /\ priority'[t] = priority[t]
               /\ kpc'[t] = kpc[t] /\ msg_val'[t] = msg_val[t],
           \A t \in D :
               /\ ~Waits(t) /\ ~Waits(t)'
               /\ t \in alloc' /\ state'[t] = "SLEEPING" => kpc'[t] = "user"
               /\ \/ kpc'[t] \notin {"psend", "preceive"}
                  \/ /\ kpc'[t] = kpc[t] /\ msg_val'[t] = msg_val[t]
                     /\ t \in global' => t \in global,
           TypeOK'
    PROVE  Quiet({})
<1>1. \A t \in Task : Waits(t)' <=> Waits(t)
  BY DEF Waits
<1>2. \A t \in Task : Waits(t) => t \notin D
  OBVIOUS
<1>3. Shrinks({})
  <2> SUFFICES ASSUME NEW f \in Fid
               PROVE  /\ NoDup(senders[f]) /\ NoDup(receivers[f])
                      /\ Sorted(senders[f], priority') /\ Sorted(receivers[f], priority')
    BY DEF Shrinks, msgLists
  <2>1. \A t \in ToSet(senders[f]) \cup ToSet(receivers[f]) : priority'[t] = priority[t]
    BY <1>2, OnList
  <2>2. Sorted(senders[f], priority) /\ Sorted(receivers[f], priority)
    BY DEF MsgInv, MsgState, WaitersSorted
  <2>3. senders[f] \in Seq(Task) /\ receivers[f] \in Seq(Task)
    BY MsgFacts
  <2>4. Sorted(senders[f], priority') /\ Sorted(receivers[f], priority')
    BY <2>1, <2>2, <2>3, SortedSame
  <2>5. QED
    BY <2>4, MsgFacts DEF Lined
<1>4. SleepersInUser'
  <2> SUFFICES ASSUME NEW t \in alloc', state'[t] = "SLEEPING" PROVE kpc'[t] = "user"
    BY DEF SleepersInUser
  <2>1. t \in Task
    BY DEF TypeOK
  <2>2. QED
    BY <2>1 DEF MsgInv, MsgState, SleepersInUser
<1>5. QED
  BY <1>1, <1>2, <1>3, <1>4 DEF Quiet

\* __exit_task takes a waiting process out of the list it is on.
LEMMA ExitQuiet ==
    ASSUME MsgInv, NEW t \in Task, t \in global, exit_task(t), UNCHANGED stackVars
    PROVE  Quiet({t})
<1>1. /\ priority' = [priority EXCEPT ![t] = zombie_priority]
      /\ IF on_msg_queue(pid[t])
         THEN /\ senders' = [f \in Fid |-> queue_del(senders[f], t)]
              /\ receivers' = [f \in Fid |-> queue_del(receivers[f], t)]
         ELSE UNCHANGED msgLists
      /\ global' = global \ {t}
      /\ \A x \in Task : state'[x] = IF x = t THEN "ZOMBIE"
                                     ELSE IF unlocks_parent(t) /\ x = parent[t] THEN "READY"
                                     ELSE state[x]
      /\ UNCHANGED <<alloc, msg_val, kpc, child>>
  BY DEF exit_task, stackVars
<1>2. \A x \in Task : Waits(x)' <=> Waits(x) /\ x # t
  BY <1>1, MsgFacts DEF Waits, unlocks_parent
<1>3. \A x \in Task \ {t} : priority'[x] = priority[x]
  BY <1>1, MsgFacts
<1>4. ASSUME NEW q \in Seq(Task), NoDup(q), Sorted(q, priority)
      PROVE  /\ NoDup(queue_del(q, t)) /\ ToSet(queue_del(q, t)) = ToSet(q) \ {t}
             /\ Sorted(queue_del(q, t), priority')
  <2>1. /\ queue_del(q, t) \in Seq(Task)
        /\ NoDup(queue_del(q, t)) /\ ToSet(queue_del(q, t)) = ToSet(q) \ {t}
        /\ Sorted(queue_del(q, t), priority)
    BY <1>4, QueueDel
  <2>2. \A x \in ToSet(q) : x \in Task
    BY LenProperties, ElementOfSeq DEF ToSet
  <2>3. \A x \in ToSet(queue_del(q, t)) : priority'[x] = priority[x]
    BY <1>3, <2>1, <2>2
  <2>4. QED
    BY <2>1, <2>3, SortedSame
<1>5. \A f \in Fid : /\ senders[f] \in Seq(Task) /\ NoDup(senders[f])
                     /\ receivers[f] \in Seq(Task) /\ NoDup(receivers[f])
                     /\ Sorted(senders[f], priority) /\ Sorted(receivers[f], priority)
  BY MsgFacts DEF Lined, MsgInv, MsgState, WaitersSorted
<1>6. ASSUME ~on_msg_queue(pid[t]), NEW f \in Fid
      PROVE  queue_del(senders[f], t) = senders[f] /\ queue_del(receivers[f], t) = receivers[f]
  BY <1>6 DEF on_msg_queue, queue_del
<1>7. \A f \in Fid : /\ senders'[f] = queue_del(senders[f], t)
                     /\ receivers'[f] = queue_del(receivers[f], t)
  BY <1>1, <1>6 DEF msgLists
<1>8. Shrinks({t})
  BY <1>4, <1>5, <1>7 DEF Shrinks
<1>9. SleepersInUser'
  BY <1>1, MsgFacts DEF MsgInv, MsgState, SleepersInUser
<1>10. QED
  BY <1>1, <1>2, <1>8, <1>9 DEF Quiet

\* chprio takes a waiting process out of its list and puts it back in its place.
LEMMA ChprioQuiet ==
    ASSUME MsgInv, NEW p, NEW prio \in ChPrio, Chprio(p, prio)
    PROVE  Quiet({})
<1> DEFINE t == pid_to_task(p)
           prios == [priority EXCEPT ![t] = prio]
<1>1. /\ t # NULL /\ priority' = prios
      /\ IF state[t] = "INTERRUPTED_MSG"
         THEN /\ senders' = msg_reinsert(senders, t, prios)
              /\ receivers' = msg_reinsert(receivers, t, prios)
         ELSE UNCHANGED msgLists
      /\ UNCHANGED <<alloc, state, msg_val, kpc, global>>
  BY DEF Chprio, stackVars, nameVars
<1>2. t \in Task
  BY <1>1, PidToTask, MsgFacts
<1>3. prios \in [Task -> Int] /\ \A x \in Task \ {t} : prios[x] = priority[x]
  BY <1>2, MsgFacts, InputAssumption, ParamAssumption
<1> HIDE DEF t, prios
<1>4. ASSUME NEW q \in Seq(Task), NoDup(q), Sorted(q, priority), t \notin ToSet(q)
      PROVE  Sorted(q, prios)
  <2>1. \A x \in ToSet(q) : x \in Task
    BY LenProperties, ElementOfSeq DEF ToSet
  <2>2. QED
    BY <1>3, <1>4, <2>1, SortedSame
<1>5. ASSUME NEW q \in Seq(Task), NoDup(q), Sorted(q, priority), t \in ToSet(q)
      PROVE  /\ NoDup(queue_update(q, t, prios)) /\ ToSet(queue_update(q, t, prios)) = ToSet(q)
             /\ Sorted(queue_update(q, t, prios), prios)
  <2> DEFINE r == queue_del(q, t)
  <2>1. /\ r \in Seq(Task) /\ NoDup(r) /\ ToSet(r) = ToSet(q) \ {t}
        /\ Sorted(r, priority)
    BY <1>5, QueueDel
  <2> HIDE DEF r
  <2>2. Sorted(r, prios)
    BY <1>4, <2>1
  <2>3. /\ NoDup(queue_add(r, t, prios)) /\ ToSet(queue_add(r, t, prios)) = ToSet(r) \cup {t}
        /\ Sorted(queue_add(r, t, prios), prios)
    BY <1>2, <1>3, <2>1, <2>2, QueueAdd
  <2>4. QED
    BY <1>5, <2>1, <2>3 DEF queue_update, r
<1>6. \A f \in Fid : /\ senders[f] \in Seq(Task) /\ NoDup(senders[f])
                     /\ receivers[f] \in Seq(Task) /\ NoDup(receivers[f])
                     /\ Sorted(senders[f], priority) /\ Sorted(receivers[f], priority)
  BY MsgFacts DEF Lined, MsgInv, MsgState, WaitersSorted
<1>7. Shrinks({})
  <2> SUFFICES ASSUME NEW f \in Fid
               PROVE  /\ NoDup(senders'[f]) /\ NoDup(receivers'[f])
                      /\ ToSet(senders'[f]) = ToSet(senders[f])
                      /\ ToSet(receivers'[f]) = ToSet(receivers[f])
                      /\ Sorted(senders'[f], prios) /\ Sorted(receivers'[f], prios)
    BY <1>1 DEF Shrinks
  <2>1. CASE state[t] = "INTERRUPTED_MSG"
    <3>1. /\ senders'[f] = IF t \in ToSet(senders[f])
                           THEN queue_update(senders[f], t, prios) ELSE senders[f]
          /\ receivers'[f] = IF t \in ToSet(receivers[f])
                             THEN queue_update(receivers[f], t, prios) ELSE receivers[f]
      BY <1>1, <2>1 DEF msg_reinsert
    <3>2. QED
      BY <1>4, <1>5, <1>6, <3>1
  <2>2. CASE state[t] # "INTERRUPTED_MSG"
    <3>1. t \notin ToSet(senders[f]) /\ t \notin ToSet(receivers[f])
      BY <2>2, OnList DEF Waits
    <3>2. senders' = senders /\ receivers' = receivers
      BY <1>1, <2>2 DEF msgLists
    <3>3. QED
      BY <1>4, <1>6, <3>1, <3>2
  <2>3. QED
    BY <2>1, <2>2
<1>8. QED
  BY <1>1, <1>7 DEF Quiet, Waits, MsgInv, MsgState, SleepersInUser

\* waitpid touches the caller and a zombie; neither waits on a message queue.
LEMMA WaitQuiet ==
    ASSUME MsgInv, mode = "cpu", TypeOK'
    PROVE  /\ wait_any => Quiet({})
           /\ \A c \in Task : wait_specific(c) => Quiet({})
<1>1. current \in Task /\ state[current] = "RUNNING" /\ current \in alloc
  BY MsgFacts
<1>2. ASSUME NEW c \in Task, state[c] = "ZOMBIE", collect(c) PROVE Quiet({})
  <2> DEFINE D == {c, current}
  <2>1. /\ alloc' = alloc \ {c} /\ UNCHANGED <<global, msgLists>>
        /\ state' = [state EXCEPT ![c] = "STARTUP"]
        /\ priority' = [priority EXCEPT ![c] = 0]
        /\ msg_val' = [msg_val EXCEPT ![c] = 0]
        /\ kpc' = [kpc EXCEPT ![current] = "user", ![c] = "user"]
    BY <1>2 DEF collect, free_task, nameVars
  <2>2. D \in SUBSET Task
    BY <1>1
  <2>3. \A t \in Task \ D :
           /\ t \in alloc' <=> t \in alloc
           /\ t \in global' <=> t \in global
           /\ state'[t] = state[t] /\ priority'[t] = priority[t]
           /\ kpc'[t] = kpc[t] /\ msg_val'[t] = msg_val[t]
    BY <2>1, MsgFacts
  <2>4. \A t \in D :
           /\ ~Waits(t) /\ ~Waits(t)'
           /\ t \in alloc' /\ state'[t] = "SLEEPING" => kpc'[t] = "user"
           /\ kpc'[t] \notin {"psend", "preceive"}
    <3>1. kpc'[c] = "user" /\ kpc'[current] = "user"
      BY <1>1, <2>1, MsgFacts
    <3>2. state'[c] = "STARTUP" /\ (current # c => state'[current] = "RUNNING")
      BY <1>1, <2>1, MsgFacts
    <3>3. QED
      BY <1>1, <1>2, <3>1, <3>2 DEF Waits
  <2> HIDE DEF D
  <2>5. QED
    BY <2>1, <2>2, <2>3, <2>4, Elsewhere
<1>3. ASSUME NEW c, NEW w \in {"waitany", "waitpid"}, block_for_child(w, c) PROVE Quiet({})
  <2> DEFINE D == {current}
  <2>1. /\ UNCHANGED <<alloc, priority, msg_val, global, msgLists>>
        /\ state' = [state EXCEPT ![current] = "INTERRUPTED_CHILD"]
        /\ kpc' = [kpc EXCEPT ![current] = w]
    BY <1>3 DEF block_for_child, nameVars
  <2>2. D \in SUBSET Task
    BY <1>1
  <2>3. \A t \in Task \ D :
           /\ t \in alloc' <=> t \in alloc
           /\ t \in global' <=> t \in global
           /\ state'[t] = state[t] /\ priority'[t] = priority[t]
           /\ kpc'[t] = kpc[t] /\ msg_val'[t] = msg_val[t]
    BY <2>1, MsgFacts
  <2>4. \A t \in D :
           /\ ~Waits(t) /\ ~Waits(t)'
           /\ t \in alloc' /\ state'[t] = "SLEEPING" => kpc'[t] = "user"
           /\ kpc'[t] \notin {"psend", "preceive"}
    BY <1>1, <2>1, MsgFacts DEF Waits
  <2> HIDE DEF D
  <2>5. QED
    BY <2>1, <2>2, <2>3, <2>4, Elsewhere
<1>4. ASSUME wait_any PROVE Quiet({})
  BY <1>2, <1>3, <1>4, FirstZombie, MsgFacts DEF wait_any
<1>5. ASSUME NEW c \in Task, wait_specific(c) PROVE Quiet({})
  BY <1>2, <1>3, <1>5 DEF wait_specific
<1>6. QED
  BY <1>4, <1>5

\* Nothing that waiting depends on changes.
LEMMA StillQuiet ==
    ASSUME MsgInv, TypeOK', UNCHANGED <<msgLists, alloc, global, state, priority, kpc, msg_val>>
    PROVE  Quiet({})
  BY Elsewhere

LEMMA NextQuiet ==
    ASSUME MsgInv, Next
    PROVE  mode' # "msg" /\ \E X \in SUBSET Task : Quiet(X)
<1>a. TypeOK'
  BY NextTypeOK, MsgFacts
<1>b. /\ TypeOK /\ StructInv /\ current \in Task /\ current \in alloc
      /\ mode = "cpu" => state[current] = "RUNNING"
      /\ InUser => mode = "cpu" /\ kpc[current] = "user"
  BY MsgFacts DEF InUser
<1>c. ASSUME Quiet({}) PROVE \E X \in SUBSET Task : Quiet(X)
  BY <1>c
<1>d. ASSUME NEW t \in Task, t \in global, exit_task(t), UNCHANGED stackVars
      PROVE  \E X \in SUBSET Task : Quiet(X)
  BY <1>d, ExitQuiet
<1> DEFINE Goal == mode' # "msg" /\ \E X \in SUBSET Task : Quiet(X)
<1> HIDE DEF Goal
<1>e. mode' # "msg" /\ Quiet({}) => Goal
  BY <1>c DEF Goal
<1>1. ASSUME NEW prio \in StartPrio, NEW t \in Task, Start(prio, t) PROVE Goal
  <2> DEFINE D == {t, current}
  <2>1. /\ t \notin alloc /\ alloc' = alloc \cup {t} /\ global' = global \cup {t}
        /\ state' = [state EXCEPT ![t] = "READY"]
        /\ priority' = [priority EXCEPT ![t] = prio]
        /\ msg_val' = [msg_val EXCEPT ![t] = -1]
        /\ \/ kpc' = [kpc EXCEPT ![current] = "start"]
           \/ kpc' = [kpc EXCEPT ![current] = "user"]
        /\ UNCHANGED msgLists /\ mode = "cpu" /\ mode' # "msg"
    BY <1>1 DEF Start, InUser
  <2>2. D \in SUBSET Task /\ t # current /\ kpc[t] = "user"
    BY <1>b, <2>1 DEF MsgInv, FamilyInv, Family, FreedHaveNoCall
  <2>3. \A u \in Task \ D :
           /\ u \in alloc' <=> u \in alloc
           /\ u \in global' <=> u \in global
           /\ state'[u] = state[u] /\ priority'[u] = priority[u]
           /\ kpc'[u] = kpc[u] /\ msg_val'[u] = msg_val[u]
    BY <2>1, MsgFacts
  <2>4. \A u \in D :
           /\ ~Waits(u) /\ ~Waits(u)'
           /\ u \in alloc' /\ state'[u] = "SLEEPING" => kpc'[u] = "user"
           /\ kpc'[u] \notin {"psend", "preceive"}
    <3>1. kpc'[t] = "user" /\ kpc'[current] \in {"start", "user"}
      BY <1>b, <2>1, <2>2, MsgFacts
    <3>2. state'[t] = "READY" /\ state'[current] = "RUNNING" /\ state[current] = "RUNNING"
      BY <1>b, <2>1, <2>2, MsgFacts
    <3>3. QED
      BY <2>1, <3>1, <3>2 DEF Waits
  <2> HIDE DEF D
  <2>5. QED
    BY <1>a, <1>e, <2>1, <2>2, <2>3, <2>4, Elsewhere
<1>2. ASSUME StartNoMemory PROVE Goal
  BY <1>2, <1>a, <1>b, <1>e, StillQuiet DEF StartNoMemory, cpuVars, structVars, stackVars
<1>3. ASSUME Exit PROVE Goal
  <2>1. current \in global /\ mode' # "msg"
    BY <1>3, <1>b, MsgFacts DEF Exit, InProcess, after_exit
  <2>2. QED
    BY <1>3, <1>b, <1>d, <2>1 DEF Exit, Goal
<1>4. ASSUME NEW p \in Pid, Kill(p) PROVE Goal
  <2> DEFINE t == pid_to_task(p)
  <2>1. /\ exit_task(t) /\ mode = "cpu" /\ t # NULL /\ UNCHANGED stackVars
        /\ mode' # "msg"
    BY <1>4 DEF Kill, InProcess, InUser, after_exit
  <2>2. t \in Task /\ t \in global
    BY <1>b, <2>1, PidToLive
  <2> HIDE DEF t
  <2>3. QED
    BY <1>d, <2>1, <2>2 DEF Goal
<1>5. ASSUME NEW c \in WakeTime, WaitClock(c) PROVE Goal
  <2> DEFINE D == {current}
  <2>1. /\ UNCHANGED <<alloc, priority, msg_val, global, msgLists, kpc>>
        /\ state' = [state EXCEPT ![current] = "SLEEPING"]
        /\ mode' = "schedule" /\ kpc[current] = "user" /\ state[current] = "RUNNING"
    BY <1>5, <1>b DEF WaitClock, InProcess, nameVars, stackVars
  <2>2. D \in SUBSET Task
    BY <1>b
  <2>3. \A u \in Task \ D :
           /\ u \in alloc' <=> u \in alloc
           /\ u \in global' <=> u \in global
           /\ state'[u] = state[u] /\ priority'[u] = priority[u]
           /\ kpc'[u] = kpc[u] /\ msg_val'[u] = msg_val[u]
    BY <2>1, MsgFacts
  <2>4. \A u \in D :
           /\ ~Waits(u) /\ ~Waits(u)'
           /\ u \in alloc' /\ state'[u] = "SLEEPING" => kpc'[u] = "user"
           /\ kpc'[u] \notin {"psend", "preceive"}
    BY <1>b, <2>1, MsgFacts DEF Waits
  <2> HIDE DEF D
  <2>5. QED
    BY <1>a, <1>e, <2>1, <2>2, <2>3, <2>4, Elsewhere
<1>6. ASSUME NEW p \in Pid, NEW prio \in ChPrio, Chprio(p, prio) PROVE Goal
  <2>1. mode' # "msg"
    BY <1>6 DEF Chprio
  <2>2. QED
    BY <1>6, <1>e, <2>1, ChprioQuiet
<1>f. mode = "cpu" => /\ wait_any => Goal
                      /\ \A c \in Task : wait_specific(c) => Goal
  <2>1. wait_any /\ mode = "cpu" => mode' # "msg"
    BY DEF wait_any, collect, block_for_child, cpuVars
  <2>2. \A c \in Task : wait_specific(c) /\ mode = "cpu" => mode' # "msg"
    BY DEF wait_specific, collect, block_for_child, cpuVars
  <2>3. QED
    BY <1>a, <1>e, <2>1, <2>2, WaitQuiet
<1>7. ASSUME WaitAny PROVE Goal
  BY <1>7, <1>b, <1>f DEF WaitAny, InProcess
<1>8. ASSUME NEW p \in Pid, WaitSpecific(p) PROVE Goal
  BY <1>8, <1>b, <1>f, FirstNamed DEF WaitSpecific, InProcess
<1>9. ASSUME Tick PROVE Goal
  BY <1>9, <1>a, <1>e, StillQuiet DEF Tick, structVars, stackVars, nameVars
<1>10. ASSUME WakeUp PROVE Goal
  <2> DEFINE D == {first_due}
  <2>1. /\ UNCHANGED <<alloc, priority, msg_val, global, msgLists, kpc>>
        /\ state' = [state EXCEPT ![first_due] = "READY"] /\ mode' # "msg"
    BY <1>10 DEF WakeUp, nameVars, stackVars, cpuVars
  <2>2. first_due \in Task /\ first_due \in ToSet(queue["SLEEPING"])
    BY <1>10, <1>b, FirstDue DEF WakeUp
  <2>3. state[first_due] = "SLEEPING" /\ first_due \in alloc
    BY <1>b, <2>2, StructFacts DEF Match, QState
  <2>4. kpc[first_due] = "user"
    BY <2>3 DEF MsgInv, MsgState, SleepersInUser
  <2>5. D \in SUBSET Task
    BY <2>2
  <2>6. \A u \in Task \ D :
           /\ u \in alloc' <=> u \in alloc
           /\ u \in global' <=> u \in global
           /\ state'[u] = state[u] /\ priority'[u] = priority[u]
           /\ kpc'[u] = kpc[u] /\ msg_val'[u] = msg_val[u]
    BY <2>1, MsgFacts
  <2>7. \A u \in D :
           /\ ~Waits(u) /\ ~Waits(u)'
           /\ u \in alloc' /\ state'[u] = "SLEEPING" => kpc'[u] = "user"
           /\ kpc'[u] \notin {"psend", "preceive"}
    BY <2>1, <2>2, <2>3, <2>4, MsgFacts DEF Waits
  <2> HIDE DEF D
  <2>8. QED
    BY <1>a, <1>e, <2>1, <2>5, <2>6, <2>7, Elsewhere
<1>11. ASSUME WakeUpCurrent PROVE Goal
  BY <1>11, <1>a, <1>e, StillQuiet DEF WakeUpCurrent, nameVars, stackVars
<1>12. ASSUME NEW i \in zombies, Reap(i) PROVE Goal
  <2> DEFINE z == zombie_at(i)
             D == {z}
  <2>1. z \in Task /\ state[z] = "ZOMBIE"
    <3>1. queue["ZOMBIE"] \in Seq(Task) /\ "ZOMBIE" \in QState
      BY <1>b DEF TypeOK, QState
    <3>2. z \in ToSet(queue["ZOMBIE"])
      BY <3>1, LenProperties DEF zombies, zombie_at, ToSet
    <3>3. QED
      BY <1>b, <3>1, <3>2, StructFacts DEF Match
  <2>2. /\ alloc' = alloc \ {z} /\ UNCHANGED <<global, msgLists>> /\ mode' # "msg"
        /\ state' = [state EXCEPT ![z] = "STARTUP"]
        /\ priority' = [priority EXCEPT ![z] = 0]
        /\ msg_val' = [msg_val EXCEPT ![z] = 0]
        /\ kpc' = [kpc EXCEPT ![z] = "user"]
    BY <1>12 DEF Reap, free_task, nameVars, cpuVars
  <2> HIDE DEF z
  <2>3. D \in SUBSET Task
    BY <2>1
  <2>4. \A u \in Task \ D :
           /\ u \in alloc' <=> u \in alloc
           /\ u \in global' <=> u \in global
           /\ state'[u] = state[u] /\ priority'[u] = priority[u]
           /\ kpc'[u] = kpc[u] /\ msg_val'[u] = msg_val[u]
    BY <2>2, MsgFacts
  <2>5. \A u \in D :
           /\ ~Waits(u) /\ ~Waits(u)'
           /\ u \in alloc' /\ state'[u] = "SLEEPING" => kpc'[u] = "user"
           /\ kpc'[u] \notin {"psend", "preceive"}
    BY <2>1, <2>2, MsgFacts DEF Waits
  <2> HIDE DEF D
  <2>6. QED
    BY <1>a, <1>e, <2>2, <2>3, <2>4, <2>5, Elsewhere
<1>13. ASSUME Keep PROVE Goal
  BY <1>13, <1>a, <1>e, StillQuiet DEF Keep, structVars, stackVars, nameVars
<1>14. ASSUME Switch PROVE Goal
  <2> DEFINE new == queue_top(queue["READY"])
             D == IF state[current] = "RUNNING" THEN {current, new} ELSE {new}
  <2>1. new \in Task /\ state[new] = "READY" /\ new \in alloc
    <3>1. new \in Task /\ new \in ToSet(queue["READY"])
      BY <1>14, <1>b, QueueTop DEF Switch
    <3>2. QED
      BY <1>b, <3>1, StructFacts DEF Match, QState
  <2>2. /\ \/ state' = [state EXCEPT ![new] = "RUNNING"]
           \/ /\ state[current] = "RUNNING"
              /\ state' = [state EXCEPT ![current] = "READY", ![new] = "RUNNING"]
        /\ UNCHANGED <<alloc, priority, msg_val, global, msgLists, kpc>> /\ mode' # "msg"
    BY <1>14 DEF Switch, nameVars, stackVars
  <2> HIDE DEF new
  <2>3. D \in SUBSET Task
    BY <1>b, <2>1
  <2>4. \A u \in Task \ D :
           /\ u \in alloc' <=> u \in alloc
           /\ u \in global' <=> u \in global
           /\ state'[u] = state[u] /\ priority'[u] = priority[u]
           /\ kpc'[u] = kpc[u] /\ msg_val'[u] = msg_val[u]
    BY <2>2, MsgFacts
  <2>5. \A u \in D :
           /\ ~Waits(u) /\ ~Waits(u)'
           /\ u \in alloc' /\ state'[u] = "SLEEPING" => kpc'[u] = "user"
           /\ kpc'[u] = kpc[u] /\ msg_val'[u] = msg_val[u]
           /\ u \in global' => u \in global
    <3>1. state'[new] = "RUNNING"
      BY <2>1, <2>2, MsgFacts
    <3>2. state[current] = "RUNNING" => state'[current] \in {"READY", "RUNNING"}
      BY <1>b, <2>1, <2>2, MsgFacts
    <3>3. \A u \in D : /\ state[u] \in {"READY", "RUNNING"}
                       /\ state'[u] \in {"READY", "RUNNING"}
      BY <2>1, <3>1, <3>2
    <3>4. QED
      BY <2>2, <3>3 DEF Waits
  <2> HIDE DEF D
  <2>6. QED
    BY <1>a, <1>e, <2>2, <2>3, <2>4, <2>5, Elsewhere
<1>15. ASSUME ReturnFromStart PROVE Goal
  <2> DEFINE D == {current}
  <2>1. /\ UNCHANGED <<alloc, state, priority, msg_val, global, msgLists>>
        /\ kpc' = [kpc EXCEPT ![current] = "user"]
        /\ mode' = "cpu" /\ state[current] = "RUNNING"
    BY <1>15, <1>b DEF ReturnFromStart, Resumes, structVars, nameVars, cpuVars
  <2>2. D \in SUBSET Task
    BY <1>b
  <2>3. \A u \in Task \ D :
           /\ u \in alloc' <=> u \in alloc
           /\ u \in global' <=> u \in global
           /\ state'[u] = state[u] /\ priority'[u] = priority[u]
           /\ kpc'[u] = kpc[u] /\ msg_val'[u] = msg_val[u]
    BY <2>1, MsgFacts
  <2>4. \A u \in D :
           /\ ~Waits(u) /\ ~Waits(u)'
           /\ u \in alloc' /\ state'[u] = "SLEEPING" => kpc'[u] = "user"
           /\ kpc'[u] \notin {"psend", "preceive"}
    BY <1>b, <2>1, MsgFacts DEF Waits
  <2> HIDE DEF D
  <2>5. QED
    BY <1>a, <1>e, <2>1, <2>2, <2>3, <2>4, Elsewhere
<1>16. ASSUME ResumeWaitAny PROVE Goal
  BY <1>16, <1>f DEF ResumeWaitAny, Resumes
<1>17. ASSUME ResumeWaitSpecific PROVE Goal
  <2>1. child[current] \in Task
    BY <1>17, <1>b DEF ResumeWaitSpecific, Resumes, StructInv, Struct, SuspendedCalls
  <2>2. QED
    BY <1>17, <1>f, <2>1 DEF ResumeWaitSpecific, Resumes
<1>18. ASSUME PageFault PROVE Goal
  <2>1. CASE state[current] = "ZOMBIE"
    BY <1>18, <1>a, <1>e, <2>1, StillQuiet DEF PageFault, structVars, stackVars, nameVars
  <2>2. CASE state[current] # "ZOMBIE"
    <3>1. current \in global
      BY <1>b, <2>2, MsgFacts
    <3>2. mode' # "msg" /\ exit_task(current) /\ UNCHANGED stackVars
      BY <1>18, <2>2 DEF PageFault, after_exit
    <3>3. QED
      BY <1>b, <1>d, <3>1, <3>2 DEF Goal
  <2>3. QED
    BY <2>1, <2>2
<1>19. ASSUME Panicked PROVE Goal
  BY <1>19, <1>a, <1>e, StillQuiet
     DEF Panicked, vars, cpuVars, structVars, stackVars, nameVars
<1>20. Goal
  BY <1>1, <1>2, <1>3, <1>4, <1>5, <1>6, <1>7, <1>8, <1>9, <1>10, <1>11, <1>12, <1>13,
     <1>14, <1>15, <1>16, <1>17, <1>18, <1>19
     DEF Next, SystemCall, Schedule, Resume
<1>21. QED
  BY <1>20 DEF Goal

\* The steps of Tasks keep the invariant of the message queues.
LEMMA TaskStepMsg == MsgInv /\ TaskStep => MsgInv'
<1> SUFFICES ASSUME MsgInv, TaskStep PROVE MsgInv'
  OBVIOUS
<1>1. /\ Next /\ call' = live_calls /\ UNCHANGED <<mqueues, cpt_rst, dropped>>
  BY DEF TaskStep
<1>2. TypeOK' /\ FamilyInv'
  BY <1>1, NextTypeOK, NextStruct, NextFamily, MsgFacts DEF FamilyInv, StructInv
<1>3. PICK X \in SUBSET Task : Quiet(X)
  BY <1>1, NextQuiet
<1>4. MsgState'
  BY <1>1, <1>2, <1>3, NextQuiet, QuietMsg
<1>5. QED
  BY <1>2, <1>4 DEF MsgInv

-----------------------------------------------------------------------------
(* What the calls of Msg do to the processes *)

\* The current task goes on (or faults), and nobody is woken.
Stays == mode' \in {"cpu", "msg", "fault"} /\ UNCHANGED <<state, queue>>

\* The current task is about to wait.
Blocks ==
    /\ state' = [state EXCEPT ![current] = "INTERRUPTED_MSG"]
    /\ mode' = "schedule"
    /\ UNCHANGED queue

\* t is taken out of a waiting list.
Serves(t) ==
    /\ state' = [state EXCEPT ![t] = "READY"]
    /\ queue' = link(queue, "READY", t, priority)
    /\ mode' \in {"cpu", "schedule", "msg"}

StateStep == Stays \/ Blocks \/ \E t \in Task : Waits(t) /\ Serves(t)

\* The current task enters or leaves a call of this module.
CallStep ==
    \/ UNCHANGED <<kpc, call>>
    \/ in_call("user", NoCall)
    \/ \E f \in Fid, c \in {"psend", "preceive"} : in_call(c, [id |-> f, rst |-> cpt_rst])

\* The idle task is current only during steps of a pdelete that began before.
NotIdle == current = Idle => UNCHANGED kpc /\ mode' \in {"cpu", "msg"}

\* A call of this module keeps the invariant of the processes.
LEMMA CallFamily ==
    ASSUME MsgInv, mode \in {"cpu", "msg"}, UNCHANGED taskFrame, StateStep, CallStep, NotIdle,
           senders' \in [Fid -> Seq(Task)], receivers' \in [Fid -> Seq(Task)],
           msg_val' \in [Task -> Int]
    PROVE  FamilyInv' /\ SleepersInUser'
<1>1. /\ UNCHANGED <<current, total_ticks, alloc, priority, pid, parent, children,
                     wake_time, child, global, pidmap>>
      /\ state[current] = "RUNNING" /\ current \in Task /\ current \in alloc
      /\ state \in [Task -> State] /\ kpc \in [Task -> KernelCall] /\ queue \in Lists
      /\ priority \in [Task -> Int] /\ Match(queue, alloc, state) /\ alloc \subseteq Task
  BY MsgFacts, StructFacts DEF taskFrame, nameVars
<1>2. "READY" \in QState /\ "INTERRUPTED_MSG" \in State \ QState /\ "READY" \in State
  BY DEF State, QState
<1>3. /\ state' \in [Task -> State]
      /\ \A t \in Task : t # current => \/ state'[t] = state[t]
                                        \/ Waits(t) /\ state'[t] = "READY"
      /\ state'[current] \in {"RUNNING", "INTERRUPTED_MSG"}
      /\ mode' \in {"cpu", "msg", "fault"} => state'[current] = "RUNNING"
  <2>1. CASE Stays
    BY <1>1, <2>1 DEF Stays
  <2>2. CASE Blocks
    BY <1>1, <1>2, <2>2 DEF Blocks
  <2>3. ASSUME NEW u \in Task, Waits(u), Serves(u)
        PROVE  /\ state' \in [Task -> State]
               /\ \A t \in Task : t # current => \/ state'[t] = state[t]
                                                 \/ Waits(t) /\ state'[t] = "READY"
               /\ state'[current] = "RUNNING"
    BY <1>1, <1>2, <2>3 DEF Serves, Waits
  <2>4. QED
    BY <2>1, <2>2, <2>3 DEF StateStep
<1>4. Match(queue', alloc', state') /\ queue' \in Lists
  <2>1. CASE Stays
    BY <1>1, <2>1 DEF Stays
  <2>2. CASE Blocks
    <3>1. \A s \in QState : \A t \in alloc : state'[t] = s <=> state[t] = s
      BY <1>1, <1>2, <2>2 DEF Blocks, QState
    <3>2. QED
      BY <1>1, <2>2, <3>1 DEF Match, Blocks
  <2>3. ASSUME NEW u \in Task, Waits(u), Serves(u)
        PROVE  Match(queue', alloc', state') /\ queue' \in Lists
    <3>1. u \in alloc /\ state[u] \notin QState /\ alloc \cup {u} = alloc
      BY <1>1, <1>2, <2>3 DEF Waits
    <3>2. Match(link(queue, "READY", u, priority), alloc \cup {u}, [state EXCEPT ![u] = "READY"])
      BY <1>1, <1>2, <3>1, LinkMatch
    <3>3. link(queue, "READY", u, priority) \in Lists
      BY <1>1, <1>2, Link
    <3>4. QED
      BY <1>1, <2>3, <3>1, <3>2, <3>3 DEF Serves
  <2>4. QED
    BY <2>1, <2>2, <2>3 DEF StateStep
<1>5. /\ kpc' \in [Task -> KernelCall]
      /\ \A t \in Task : t # current => kpc'[t] = kpc[t]
      /\ kpc'[current] = kpc[current] \/ kpc'[current] \in {"user", "psend", "preceive"}
      /\ kpc'[Idle] = kpc[Idle]
  <2>1. CASE UNCHANGED kpc
    BY <1>1, <2>1
  <2>2. ASSUME NEW c \in {"user", "psend", "preceive"}, kpc' = [kpc EXCEPT ![current] = c],
               kpc' # kpc
        PROVE  /\ kpc' \in [Task -> KernelCall]
               /\ \A t \in Task : t # current => kpc'[t] = kpc[t]
               /\ kpc'[current] = kpc[current] \/ kpc'[current] \in {"user", "psend", "preceive"}
               /\ kpc'[Idle] = kpc[Idle]
    <3>1. c \in KernelCall
      BY DEF KernelCall
    <3>2. current # Idle
      BY <2>2 DEF NotIdle
    <3>3. QED
      BY <1>1, <2>2, <3>1, <3>2, TaskAssumption
  <2>3. QED
    BY <2>1, <2>2 DEF CallStep, in_call
<1>6. mode' \in {"cpu", "schedule", "msg", "fault"}
  BY DEF StateStep, Stays, Blocks, Serves
<1>7. TypeOK'
  BY <1>1, <1>3, <1>4, <1>5, <1>6, MsgFacts DEF TypeOK, Lists
<1>8. Struct'
  <2>1. QueueMatchesState'
    BY <1>4, MatchDef
  <2>2. OnlyCurrentRuns'
    <3>1. state'[Idle] \in {"RUNNING", "READY"}
      <4>1. state[Idle] \in {"RUNNING", "READY"}
        BY MsgFacts DEF StructInv, Struct, OnlyCurrentRuns
      <4>2. CASE current = Idle
        BY <1>3, <4>2 DEF NotIdle
      <4>3. CASE current # Idle
        BY <1>3, <4>1, <4>3, TaskAssumption DEF Waits
      <4>4. QED
        BY <4>2, <4>3
    <3>2. \A t \in Task \ {current} : state'[t] # "RUNNING"
      BY <1>3, MsgFacts DEF StructInv, Struct, OnlyCurrentRuns
    <3>3. QED
      BY <1>1, <1>3, <3>1, <3>2 DEF OnlyCurrentRuns
  <2>3. \A t \in Task : /\ state'[t] = "ZOMBIE" <=> state[t] = "ZOMBIE"
                        /\ state'[t] = "STARTUP" <=> state[t] = "STARTUP"
    BY <1>1, <1>3 DEF Waits
  <2>4. PidsUnique' /\ FreedAreStartup' /\ NotOwnParent'
    BY <1>1, <2>3, MsgFacts DEF StructInv, Struct, PidsUnique, FreedAreStartup, NotOwnParent
  <2>5. CurrentState'
    BY <1>1, <1>3, <1>6 DEF CurrentState, NotIdle
  <2>6. SuspendedCalls'
    BY <1>1, <1>5, MsgFacts DEF SuspendedCalls, StructInv, Struct
  <2>7. QED
    BY <2>1, <2>2, <2>4, <2>5, <2>6 DEF Struct
<1>9. Family'
  <2>1. \A t \in Task : \/ kpc'[t] = kpc[t] /\ child'[t] = child[t]
                        \/ /\ kpc'[t] \notin {"waitany", "waitpid"} /\ t \in alloc
                           /\ child'[t] \in {NULL, child[t]}
    BY <1>1, <1>5
  <2>2. \A t \in Task : state'[t] = "INTERRUPTED_CHILD" =>
                           /\ state[t] = "INTERRUPTED_CHILD"
                           /\ kpc'[t] = kpc[t] /\ child'[t] = child[t]
    BY <1>1, <1>3, <1>5
  <2>3. \A t \in Task : state'[t] = "ZOMBIE" <=> state[t] = "ZOMBIE"
    BY <1>1, <1>3 DEF Waits
  <2>4. QED
    BY <1>1, <2>1, <2>2, <2>3, MsgFacts, SameFamily
<1>10. SleepersInUser'
  BY <1>1, <1>3, <1>5 DEF MsgInv, MsgState, SleepersInUser
<1>11. QED
  BY <1>7, <1>8, <1>9, <1>10 DEF FamilyInv, StructInv

-----------------------------------------------------------------------------
(* What they do to the waiting lists *)

\* The waiting lists stay as they are.
LEMMA SameLists ==
    ASSUME MsgInv, UNCHANGED <<msgLists, priority>>
    PROVE  Shrinks({})
  BY MsgFacts DEF Shrinks, Lined, msgLists, MsgInv, MsgState, WaitersSorted

\* queue_out on the senders of f takes out a task that waits there, and that
\* is on no other list.
LEMMA PopSender ==
    ASSUME MsgInv, NEW f \in Fid, senders[f] # <<>>, NEW t, t = queue_top(senders[f]),
           senders' = [senders EXCEPT ![f] = queue_out_rest(@)],
           UNCHANGED <<receivers, priority>>
    PROVE  /\ t \in Task /\ t \in ToSet(senders[f]) /\ Waits(t)
           /\ Shrinks({t})
           /\ senders' \in [Fid -> Seq(Task)]
<1> DEFINE rest == queue_out_rest(senders[f])
<1>1. senders[f] \in Seq(Task) /\ NoDup(senders[f]) /\ Sorted(senders[f], priority)
  BY MsgFacts DEF Lined, MsgInv, MsgState, WaitersSorted
<1>2. /\ t \in Task /\ t \in ToSet(senders[f]) /\ rest \in Seq(Task)
      /\ NoDup(rest) /\ ToSet(rest) = ToSet(senders[f]) \ {t} /\ Sorted(rest, priority)
  BY <1>1, QueueOut
<1>3. Waits(t) /\ kpc[t] = "psend" /\ call[t].id = f
  BY <1>2, OnList
<1>4. \A g \in Fid : senders'[g] = IF g = f THEN rest ELSE senders[g]
  BY MsgFacts
<1>5. \A g \in Fid : g # f => t \notin ToSet(senders[g])
  BY <1>3, OnList
<1>6. \A g \in Fid : t \notin ToSet(receivers[g])
  BY <1>3, OnList
<1> HIDE DEF rest
<1>7. ASSUME NEW g \in Fid
      PROVE  /\ NoDup(senders'[g]) /\ ToSet(senders'[g]) = ToSet(senders[g]) \ {t}
             /\ Sorted(senders'[g], priority')
  <2>1. CASE g = f
    BY <1>2, <1>4, <2>1
  <2>2. CASE g # f
    <3>1. senders'[g] = senders[g] /\ t \notin ToSet(senders[g])
      BY <1>4, <1>5, <2>2
    <3>2. NoDup(senders[g]) /\ Sorted(senders[g], priority)
      BY MsgFacts DEF Lined, MsgInv, MsgState, WaitersSorted
    <3>3. QED
      BY <3>1, <3>2
  <2>3. QED
    BY <2>1, <2>2
<1>8. ASSUME NEW g \in Fid
      PROVE  /\ NoDup(receivers'[g]) /\ ToSet(receivers'[g]) = ToSet(receivers[g]) \ {t}
             /\ Sorted(receivers'[g], priority')
  BY SMTT(30), <1>6, MsgFacts DEF Lined, MsgInv, MsgState, WaitersSorted
<1>9. Shrinks({t})
  BY <1>7, <1>8 DEF Shrinks
<1>10. senders' \in [Fid -> Seq(Task)]
  BY <1>2, MsgFacts DEF rest
<1>11. QED
  BY <1>2, <1>3, <1>9, <1>10

LEMMA PopReceiver ==
    ASSUME MsgInv, NEW f \in Fid, receivers[f] # <<>>, NEW t, t = queue_top(receivers[f]),
           receivers' = [receivers EXCEPT ![f] = queue_out_rest(@)],
           UNCHANGED <<senders, priority>>
    PROVE  /\ t \in Task /\ t \in ToSet(receivers[f]) /\ Waits(t)
           /\ Shrinks({t})
           /\ receivers' \in [Fid -> Seq(Task)]
<1> DEFINE rest == queue_out_rest(receivers[f])
<1>1. receivers[f] \in Seq(Task) /\ NoDup(receivers[f]) /\ Sorted(receivers[f], priority)
  BY MsgFacts DEF Lined, MsgInv, MsgState, WaitersSorted
<1>2. /\ t \in Task /\ t \in ToSet(receivers[f]) /\ rest \in Seq(Task)
      /\ NoDup(rest) /\ ToSet(rest) = ToSet(receivers[f]) \ {t} /\ Sorted(rest, priority)
  BY <1>1, QueueOut
<1>3. Waits(t) /\ kpc[t] = "preceive" /\ call[t].id = f
  BY <1>2, OnList
<1>4. \A g \in Fid : receivers'[g] = IF g = f THEN rest ELSE receivers[g]
  BY MsgFacts
<1>5. \A g \in Fid : g # f => t \notin ToSet(receivers[g])
  BY <1>3, OnList
<1>6. \A g \in Fid : t \notin ToSet(senders[g])
  BY <1>3, OnList
<1> HIDE DEF rest
<1>7. ASSUME NEW g \in Fid
      PROVE  /\ NoDup(receivers'[g]) /\ ToSet(receivers'[g]) = ToSet(receivers[g]) \ {t}
             /\ Sorted(receivers'[g], priority')
  <2>1. CASE g = f
    BY <1>2, <1>4, <2>1
  <2>2. CASE g # f
    <3>1. receivers'[g] = receivers[g] /\ t \notin ToSet(receivers[g])
      BY <1>4, <1>5, <2>2
    <3>2. NoDup(receivers[g]) /\ Sorted(receivers[g], priority)
      BY MsgFacts DEF Lined, MsgInv, MsgState, WaitersSorted
    <3>3. QED
      BY <3>1, <3>2
  <2>3. QED
    BY <2>1, <2>2
<1>8. ASSUME NEW g \in Fid
      PROVE  /\ NoDup(senders'[g]) /\ ToSet(senders'[g]) = ToSet(senders[g]) \ {t}
             /\ Sorted(senders'[g], priority')
  BY SMTT(30), <1>6, MsgFacts DEF Lined, MsgInv, MsgState, WaitersSorted
<1>9. Shrinks({t})
  BY <1>7, <1>8 DEF Shrinks
<1>10. receivers' \in [Fid -> Seq(Task)]
  BY <1>2, MsgFacts DEF rest
<1>11. QED
  BY <1>2, <1>3, <1>9, <1>10

\* The current task joins a waiting list.
LEMMA BlockLined ==
    ASSUME MsgInv, state[current] = "RUNNING", NEW f \in Fid,
           \/ block_sender(f) /\ kpc'[current] = "psend"
           \/ block_receiver(f) /\ kpc'[current] = "preceive",
           call'[current].id = f, UNCHANGED <<alloc, priority>>,
           \A t \in Task : t # current => kpc'[t] = kpc[t] /\ call'[t] = call[t],
           used(f), \A g \in Fid : used(g)' <=> used(g)
    PROVE  /\ Lined' /\ WaitersSorted'
           /\ senders' \in [Fid -> Seq(Task)] /\ receivers' \in [Fid -> Seq(Task)]
           /\ \/ /\ \A g \in Fid : ToSet(senders'[g]) =
                       IF g = f THEN ToSet(senders[g]) \cup {current} ELSE ToSet(senders[g])
                 /\ UNCHANGED receivers /\ block_sender(f)
              \/ /\ \A g \in Fid : ToSet(receivers'[g]) =
                       IF g = f THEN ToSet(receivers[g]) \cup {current} ELSE ToSet(receivers[g])
                 /\ UNCHANGED senders /\ block_receiver(f)
<1> DEFINE Grown(l) == [l EXCEPT ![f] = queue_add(@, current, priority)]
<1>1. /\ current \in Task /\ current \in alloc /\ priority \in [Task -> Int]
      /\ ~Waits(current) /\ alloc \subseteq Task
  BY MsgFacts DEF Waits
<1>2. ASSUME NEW l \in [Fid -> Seq(Task)],
             \A g \in Fid : NoDup(l[g]) /\ Sorted(l[g], priority) /\ current \notin ToSet(l[g])
      PROVE  /\ Grown(l) \in [Fid -> Seq(Task)]
             /\ \A g \in Fid :
                   /\ NoDup(Grown(l)[g]) /\ Sorted(Grown(l)[g], priority)
                   /\ ToSet(Grown(l)[g]) = IF g = f THEN ToSet(l[g]) \cup {current}
                                                    ELSE ToSet(l[g])
                   /\ g # f => Grown(l)[g] = l[g]
  <2> DEFINE n == queue_add(l[f], current, priority)
  <2>1. /\ n \in Seq(Task) /\ ToSet(n) = ToSet(l[f]) \cup {current}
        /\ NoDup(n) /\ Sorted(n, priority)
    BY <1>1, <1>2, QueueAdd
  <2>2. Grown(l) = [l EXCEPT ![f] = n]
    OBVIOUS
  <2> HIDE DEF n, Grown
  <2>3. QED
    BY <1>2, <2>1, <2>2
<1>3. /\ \A g \in Fid : /\ NoDup(senders[g]) /\ Sorted(senders[g], priority)
                        /\ current \notin ToSet(senders[g])
      /\ \A g \in Fid : /\ NoDup(receivers[g]) /\ Sorted(receivers[g], priority)
                        /\ current \notin ToSet(receivers[g])
  BY <1>1, OnList, MsgFacts DEF Lined, MsgInv, MsgState, WaitersSorted
<1>4. state' = [state EXCEPT ![current] = "INTERRUPTED_MSG"]
  BY DEF block_sender, block_receiver
<1>5. \A t \in Task : Waits(t)' <=> Waits(t) \/ t = current
  BY <1>1, <1>4, MsgFacts DEF Waits
<1> HIDE DEF Grown
<1> DEFINE Changes(l, m) ==
              /\ l' = Grown(l) /\ l' \in [Fid -> Seq(Task)] /\ m' = m
              /\ \A g \in Fid :
                    /\ NoDup(l'[g]) /\ Sorted(l'[g], priority)
                    /\ ToSet(l'[g]) = IF g = f THEN ToSet(l[g]) \cup {current} ELSE ToSet(l[g])
                    /\ g # f => l'[g] = l[g]
<1>6. \/ kpc'[current] = "psend" /\ block_sender(f) /\ Changes(senders, receivers)
      \/ kpc'[current] = "preceive" /\ block_receiver(f) /\ Changes(receivers, senders)
  <2>1. CASE block_sender(f) /\ kpc'[current] = "psend"
    <3>1. senders' = Grown(senders) /\ receivers' = receivers
      BY <2>1 DEF block_sender, Grown
    <3>2. senders \in [Fid -> Seq(Task)]
      BY MsgFacts
    <3>3. /\ Grown(senders) \in [Fid -> Seq(Task)]
          /\ \A g \in Fid :
                /\ NoDup(Grown(senders)[g]) /\ Sorted(Grown(senders)[g], priority)
                /\ ToSet(Grown(senders)[g]) = IF g = f THEN ToSet(senders[g]) \cup {current}
                                                    ELSE ToSet(senders[g])
                /\ g # f => Grown(senders)[g] = senders[g]
      BY <1>2, <1>3, <3>2
    <3>4. Changes(senders, receivers)
      BY <3>1, <3>3
    <3>5. QED
      BY <2>1, <3>4
  <2>2. CASE block_receiver(f) /\ kpc'[current] = "preceive"
    <3>1. receivers' = Grown(receivers) /\ senders' = senders
      BY <2>2 DEF block_receiver, Grown
    <3>2. receivers \in [Fid -> Seq(Task)]
      BY MsgFacts
    <3>3. /\ Grown(receivers) \in [Fid -> Seq(Task)]
          /\ \A g \in Fid :
                /\ NoDup(Grown(receivers)[g]) /\ Sorted(Grown(receivers)[g], priority)
                /\ ToSet(Grown(receivers)[g]) = IF g = f THEN ToSet(receivers[g]) \cup {current}
                                                    ELSE ToSet(receivers[g])
                /\ g # f => Grown(receivers)[g] = receivers[g]
      BY <1>2, <1>3, <3>2
    <3>4. Changes(receivers, senders)
      BY <3>1, <3>3
    <3>5. QED
      BY <2>2, <3>4
  <2>3. QED
    BY <2>1, <2>2
<1>7. /\ \A g \in Fid : NoDup(senders'[g]) /\ NoDup(receivers'[g])
      /\ \A g \in Fid : Sorted(senders'[g], priority) /\ Sorted(receivers'[g], priority)
      /\ \A g \in Fid : g # f => senders'[g] = senders[g] /\ receivers'[g] = receivers[g]
  BY <1>3, <1>6
<1>8. ASSUME NEW g \in Fid, NEW t \in ToSet(senders'[g])
      PROVE  Waits(t)' /\ kpc'[t] = "psend" /\ call'[t].id = g
  <2>1. \/ t \in ToSet(senders[g])
        \/ t = current /\ g = f /\ kpc'[current] = "psend"
    <3>1. CASE Changes(senders, receivers) /\ kpc'[current] = "psend"
      BY <1>8, <3>1
    <3>2. CASE Changes(receivers, senders)
      BY <1>8, <3>2
    <3>3. QED
      BY <1>6, <3>1, <3>2
  <2>2. QED
    BY <1>1, <1>3, <1>5, <2>1, OnList
<1>9. ASSUME NEW g \in Fid, NEW t \in ToSet(receivers'[g])
      PROVE  Waits(t)' /\ kpc'[t] = "preceive" /\ call'[t].id = g
  <2>1. \/ t \in ToSet(receivers[g])
        \/ t = current /\ g = f /\ kpc'[current] = "preceive"
    <3>1. CASE Changes(senders, receivers)
      BY <1>9, <3>1
    <3>2. CASE Changes(receivers, senders) /\ kpc'[current] = "preceive"
      BY <1>9, <3>2
    <3>3. QED
      BY <1>6, <3>1, <3>2
  <2>2. QED
    BY <1>1, <1>3, <1>5, <2>1, OnList
<1>10. ASSUME NEW t \in alloc', Waits(t)'
       PROVE  \E g \in Fid : t \in ToSet(senders'[g]) \/ t \in ToSet(receivers'[g])
  <2>1. CASE t = current
    BY <1>6, <2>1
  <2>2. CASE t # current
    <3>1. Waits(t) /\ t \in alloc
      BY <1>1, <1>5, <1>10, <2>2
    <3>2. PICK g \in Fid : t \in ToSet(senders[g]) \/ t \in ToSet(receivers[g])
      BY <3>1, MsgFacts DEF Lined
    <3>3. QED
      BY <1>6, <3>2
  <2>3. QED
    BY <2>1, <2>2
<1>11. \A g \in Fid : ~used(g)' => senders'[g] = <<>> /\ receivers'[g] = <<>>
  BY <1>7, MsgFacts DEF Lined
<1>12. Lined'
  BY <1>7, <1>8, <1>9, <1>10, <1>11 DEF Lined
<1>13. WaitersSorted'
  BY <1>7 DEF WaitersSorted
<1>14. QED
  BY <1>6, <1>12, <1>13, MsgFacts

-----------------------------------------------------------------------------
(* What they do to calls and queues *)

QueuesTyped ==
    /\ mqueues \in [Fid -> [size : Nat \cup {-1}, msgs : Seq(Int)]]
    /\ \A f \in Fid : ~used(f) \/ (mqueues[f].size \in Nat /\ count(f) <= mqueues[f].size)

\* A struct mqueue that is replaced by one that is unused or holds no more than
\* its capacity.
LEMMA SetQueue ==
    ASSUME MsgInv, NEW f \in Fid,
           NEW n \in Nat \cup {-1}, NEW s \in Seq(Int), n = -1 => s = <<>>, n # -1 => Len(s) <= n,
           mqueues' = [mqueues EXCEPT ![f] = [size |-> n, msgs |-> s]]
    PROVE  /\ QueuesTyped'
           /\ \A g \in Fid : g # f =>
                 /\ mqueues'[g] = mqueues[g] /\ (used(g)' <=> used(g))
                 /\ (MQUEUE_FULL(g)' <=> MQUEUE_FULL(g))
                 /\ (MQUEUE_EMPTY(g)' <=> MQUEUE_EMPTY(g))
           /\ used(f)' <=> n # -1
           /\ mqueues'[f].msgs = s /\ mqueues'[f].size = n
<1> DEFINE m == [size |-> n, msgs |-> s]
<1>1. QueuesTyped
  BY DEF MsgInv, MsgState, MsgTypes, QueuesTyped
<1>2. \A g \in Fid : mqueues'[g] = IF g = f THEN m ELSE mqueues[g]
  BY <1>1 DEF QueuesTyped
<1>3. m \in [size : Nat \cup {-1}, msgs : Seq(Int)] /\ m.size = n /\ m.msgs = s
      /\ (m # Unused <=> n # -1)
  BY DEF Unused
<1> HIDE DEF m
<1>4. /\ mqueues' \in [Fid -> [size : Nat \cup {-1}, msgs : Seq(Int)]]
      /\ used(f)' <=> n # -1
      /\ mqueues'[f].msgs = s /\ mqueues'[f].size = n
  BY <1>1, <1>2, <1>3 DEF QueuesTyped, used, m
<1>5. \A g \in Fid : g # f =>
          /\ mqueues'[g] = mqueues[g] /\ (used(g)' <=> used(g))
          /\ (MQUEUE_FULL(g)' <=> MQUEUE_FULL(g))
          /\ (MQUEUE_EMPTY(g)' <=> MQUEUE_EMPTY(g))
  BY <1>2 DEF used, MQUEUE_FULL, MQUEUE_EMPTY, count
<1>6. ASSUME NEW g \in Fid, used(g)'
      PROVE  mqueues'[g].size \in Nat /\ count(g)' <= mqueues'[g].size
  <2>1. CASE g = f
    BY <1>4, <1>6, <2>1 DEF count
  <2>2. CASE g # f
    BY <1>1, <1>5, <1>6, <2>2 DEF QueuesTyped, count
  <2>3. QED
    BY <2>1, <2>2
<1>7. QED
  BY <1>4, <1>5, <1>6 DEF QueuesTyped

\* The messages of a queue that is in use, and what replaces them.
LEMMA WithMsgs ==
    ASSUME MsgInv, NEW f \in Fid, used(f), NEW s \in Seq(Int), Len(s) <= mqueues[f].size,
           mqueues' = with_msgs(f, s)
    PROVE  /\ QueuesTyped'
           /\ \A g \in Fid : g # f => /\ mqueues'[g] = mqueues[g]
                                      /\ (MQUEUE_FULL(g)' <=> MQUEUE_FULL(g))
                                      /\ (MQUEUE_EMPTY(g)' <=> MQUEUE_EMPTY(g))
           /\ \A g \in Fid : used(g)' <=> used(g)
           /\ mqueues'[f].msgs = s /\ mqueues'[f].size = mqueues[f].size
<1>1. /\ mqueues \in [Fid -> [size : Nat \cup {-1}, msgs : Seq(Int)]]
      /\ mqueues[f].size \in Nat
  BY DEF MsgInv, MsgState, MsgTypes
<1>2. mqueues' = [mqueues EXCEPT ![f] = [size |-> mqueues[f].size, msgs |-> s]]
  <2>1. mqueues[f] \in [size : Nat \cup {-1}, msgs : Seq(Int)]
    BY <1>1
  <2>2. [mqueues[f] EXCEPT !.msgs = s] = [size |-> mqueues[f].size, msgs |-> s]
    BY SMTT(30), <2>1
  <2>3. QED
    BY <1>1, <2>2 DEF with_msgs
<1>3. mqueues[f].size # -1 /\ mqueues[f].size \in Nat \cup {-1}
  BY <1>1
<1> DEFINE n == mqueues[f].size
<1> HIDE DEF n
<1>4. n \in Nat \cup {-1} /\ n # -1 /\ Len(s) <= n
      /\ mqueues' = [mqueues EXCEPT ![f] = [size |-> n, msgs |-> s]]
  BY <1>2, <1>3 DEF n
<1>5. /\ QueuesTyped'
      /\ \A g \in Fid : g # f =>
            /\ mqueues'[g] = mqueues[g] /\ (used(g)' <=> used(g))
            /\ (MQUEUE_FULL(g)' <=> MQUEUE_FULL(g))
            /\ (MQUEUE_EMPTY(g)' <=> MQUEUE_EMPTY(g))
      /\ used(f)' <=> n # -1
      /\ mqueues'[f].msgs = s /\ mqueues'[f].size = n
  BY <1>4, SetQueue
<1>6. QED
  BY <1>4, <1>5 DEF n

LEMMA SameQueues ==
    ASSUME MsgInv, UNCHANGED mqueues
    PROVE  /\ QueuesTyped'
           /\ \A f \in Fid : /\ used(f)' <=> used(f)
                             /\ MQUEUE_FULL(f)' <=> MQUEUE_FULL(f)
                             /\ MQUEUE_EMPTY(f)' <=> MQUEUE_EMPTY(f)
  BY DEF MsgInv, MsgState, MsgTypes, QueuesTyped, used, count, MQUEUE_FULL, MQUEUE_EMPTY

\* The locals of calls are typed, and those of calls suspended when a pdelete
\* or preset begins are older than it.
LEMMA CallTypes ==
    ASSUME MsgInv, CallStep, QueuesTyped', cpt_rst' \in cpt_rst..MaxReset,
           dropped'.size \in Nat \cup {-1},
           mode' = "msg" => /\ dropped'.id \in Fid /\ used(dropped.id)'
                            /\ UNCHANGED call
                            /\ mode = "msg" \/ cpt_rst < cpt_rst'
    PROVE  MsgTypes' /\ Resetting'
<1>1. /\ cpt_rst \in 0..MaxReset /\ cpt_rst' \in 0..MaxReset /\ cpt_rst <= cpt_rst'
      /\ current \in Task /\ kpc \in [Task -> KernelCall]
      /\ call \in [Task -> [id : Fid \cup {NULL}, rst : 0..cpt_rst]]
      /\ \A t \in Task : call[t] = NoCall \/ call[t].id \in Fid
      /\ \A t \in Task : kpc[t] \in {"psend", "preceive"} => call[t].id \in Fid
  BY MsgFacts, MsgAssumption DEF MsgInv, MsgState, MsgTypes
<1> DEFINE L == [id : Fid \cup {NULL}, rst : 0..cpt_rst']
<1>2. call \in [Task -> L]
  BY <1>1
<1>3. /\ call' \in [Task -> L]
      /\ \A t \in Task : call'[t] = NoCall \/ call'[t].id \in Fid
      /\ \A t \in Task : kpc'[t] \in {"psend", "preceive"} => call'[t].id \in Fid
  <2>1. CASE UNCHANGED <<kpc, call>>
    BY <1>1, <1>2, <2>1
  <2>2. CASE in_call("user", NoCall)
    <3>1. NoCall \in L
      BY <1>1 DEF NoCall
    <3>2. QED
      BY <1>1, <1>2, <2>2, <3>1 DEF in_call
  <2>3. ASSUME NEW f \in Fid, NEW c \in {"psend", "preceive"},
               in_call(c, [id |-> f, rst |-> cpt_rst])
        PROVE  /\ call' \in [Task -> L]
               /\ \A t \in Task : call'[t] = NoCall \/ call'[t].id \in Fid
               /\ \A t \in Task : kpc'[t] \in {"psend", "preceive"} => call'[t].id \in Fid
    <3>1. [id |-> f, rst |-> cpt_rst] \in L /\ [id |-> f, rst |-> cpt_rst].id \in Fid
      BY <1>1
    <3>2. QED
      BY <1>1, <1>2, <2>3, <3>1 DEF in_call
  <2>4. QED
    BY <2>1, <2>2, <2>3 DEF CallStep
<1>4. MsgTypes'
  BY <1>1, <1>3 DEF MsgTypes, QueuesTyped
<1>5. Resetting'
  <2> SUFFICES ASSUME mode' = "msg", NEW t \in Task PROVE call'[t].rst < cpt_rst'
    BY DEF Resetting
  <2>1. call'[t] = call[t] /\ call[t].rst \in 0..cpt_rst
    BY <1>1
  <2>2. CASE cpt_rst < cpt_rst'
    BY <1>1, <2>1, <2>2
  <2>3. CASE mode = "msg"
    <3>1. call[t].rst < cpt_rst
      BY <2>3 DEF MsgInv, MsgState, Resetting
    <3>2. QED
      BY <1>1, <2>1, <3>1
  <2>4. QED
    BY <2>2, <2>3
<1>6. QED
  BY <1>4, <1>5

-----------------------------------------------------------------------------
(* The three kinds of steps *)

\* A call that can change only the current task's locals and wakes nobody.
LEMMA StayMsg ==
    ASSUME MsgInv, mode \in {"cpu", "msg"}, UNCHANGED <<taskFrame, msgLists>>, Stays,
           CallStep, NotIdle, msg_val' \in [Task -> Int], MsgTypes', Resetting',
           cpt_rst' >= cpt_rst,
           \A t \in Task : t # current => msg_val'[t] = msg_val[t],
           kpc'[current] = "psend" => UNCHANGED <<kpc, call, msg_val>>,
           \A f \in Fid :
               /\ ~used(f)' => senders[f] = <<>> /\ receivers[f] = <<>>
               /\ senders[f] # <<>> => MQUEUE_FULL(f)'
               /\ receivers[f] # <<>> => MQUEUE_EMPTY(f)'
    PROVE  MsgInv'
<1>1. /\ UNCHANGED <<current, alloc, global, priority, senders, receivers, state>>
      /\ state[current] = "RUNNING" /\ current \in Task
      /\ kpc \in [Task -> KernelCall] /\ call \in [Task -> [id : Fid \cup {NULL}, rst : 0..cpt_rst]]
      /\ senders' \in [Fid -> Seq(Task)] /\ receivers' \in [Fid -> Seq(Task)]
  BY MsgFacts DEF taskFrame, msgLists, nameVars, Stays
<1>2. FamilyInv' /\ SleepersInUser'
  BY <1>1, CallFamily DEF StateStep
<1>3. \A t \in Task : t # current => kpc'[t] = kpc[t] /\ call'[t] = call[t]
  BY <1>1 DEF CallStep, in_call
<1>4. \A t \in Task : Waits(t) => t # current
  BY <1>1 DEF Waits
<1>5. Lined' /\ WaitersSorted'
  <2>1. Shrinks({})
    BY <1>1, SameLists
  <2>2. \A t \in Task : Waits(t)' <=> Waits(t) /\ t \notin {}
    BY <1>1 DEF Waits
  <2>3. TypeOK'
    BY <1>2 DEF FamilyInv, StructInv
  <2>4. \A t \in Task : Waits(t) /\ t \notin {} => kpc'[t] = kpc[t] /\ call'[t] = call[t]
    BY <1>3, <1>4
  <2>5. {} \in SUBSET Task
    OBVIOUS
  <2>6. QED
    BY <2>1, <2>2, <2>3, <2>4, <2>5, ShrinkLined
<1>6. WaitersHaveAReason'
  <2>1. ASSUME NEW f \in Fid, NEW t \in ToSet(senders'[f]) PROVE msg_val'[t] # -1
    <3>1. t \in ToSet(senders[f]) /\ t \in Task /\ Waits(t)
      BY <1>1, <2>1, OnList
    <3>2. msg_val'[t] = msg_val[t]
      BY <1>4, <3>1
    <3>3. QED
      BY <3>1, <3>2 DEF MsgInv, MsgState, WaitersHaveAReason
  <2>2. QED
    BY <1>1, <2>1 DEF WaitersHaveAReason
<1>7. ServedOrReset'
  <2> SUFFICES ASSUME NEW t \in global', kpc'[t] = "psend", state'[t] \in {"READY", "RUNNING"}
               PROVE  msg_val'[t] = -1 \/ call'[t].rst < cpt_rst'
    BY DEF ServedOrReset
  <2>1. t \in Task /\ t \in global
    BY <1>1, MsgFacts
  <2>2. kpc[t] = "psend" /\ call'[t] = call[t] /\ msg_val'[t] = msg_val[t]
    BY <1>3, <2>1
  <2>3. msg_val[t] = -1 \/ call[t].rst < cpt_rst
    BY <1>1, <2>1, <2>2 DEF MsgInv, MsgState, ServedOrReset
  <2>4. call[t].rst \in Int /\ cpt_rst \in Int /\ cpt_rst' \in Int
    BY <1>1, <2>1 DEF MsgInv, MsgState, MsgTypes
  <2>5. QED
    BY <2>2, <2>3, <2>4
<1>8. QED
  BY <1>2, <1>5, <1>6, <1>7, LinedDef DEF MsgInv, MsgState

\* A task is taken off a waiting list and made ready.
LEMMA ServeMsg ==
    ASSUME MsgInv, mode \in {"cpu", "msg"}, UNCHANGED <<taskFrame, cpt_rst>>,
           NEW t \in Task, Waits(t), Serves(t), Shrinks({t}),
           senders' \in [Fid -> Seq(Task)], receivers' \in [Fid -> Seq(Task)],
           CallStep, NotIdle, msg_val' \in [Task -> Int], MsgTypes', Resetting',
           \A u \in Task : u # current /\ u # t => msg_val'[u] = msg_val[u],
           kpc'[current] = "psend" => UNCHANGED <<kpc, call, msg_val>>,
           kpc[t] = "psend" => msg_val'[t] = -1 \/ call[t].rst < cpt_rst,
           \A f \in Fid :
               /\ used(f)' <=> used(f)
               /\ senders'[f] # <<>> => MQUEUE_FULL(f)'
               /\ receivers'[f] # <<>> => MQUEUE_EMPTY(f)'
    PROVE  MsgInv'
<1>1. /\ UNCHANGED <<current, alloc, global, priority>>
      /\ state' = [state EXCEPT ![t] = "READY"] /\ state \in [Task -> State]
      /\ state[current] = "RUNNING" /\ current \in Task /\ t # current
      /\ kpc \in [Task -> KernelCall] /\ call \in [Task -> [id : Fid \cup {NULL}, rst : 0..cpt_rst]]
  BY MsgFacts DEF taskFrame, nameVars, Serves, Waits
<1>2. FamilyInv' /\ SleepersInUser'
  BY <1>1, CallFamily DEF StateStep
<1>3. \A u \in Task : u # current => kpc'[u] = kpc[u] /\ call'[u] = call[u]
  BY <1>1 DEF CallStep, in_call
<1>4. \A u \in Task : Waits(u) => u # current
  BY <1>1 DEF Waits
<1>5. Lined' /\ WaitersSorted'
  <2>1. \A u \in Task : Waits(u)' <=> Waits(u) /\ u \notin {t}
    BY <1>1 DEF Waits
  <2>2. TypeOK'
    BY <1>2 DEF FamilyInv, StructInv
  <2>3. \A u \in Task : Waits(u) /\ u \notin {t} => kpc'[u] = kpc[u] /\ call'[u] = call[u]
    BY <1>3, <1>4
  <2>4. {t} \in SUBSET Task
    OBVIOUS
  <2>5. \A f \in Fid : ~used(f)' => senders[f] = <<>> /\ receivers[f] = <<>>
    BY MsgFacts DEF Lined
  <2>6. QED
    BY <2>1, <2>2, <2>3, <2>4, <2>5, ShrinkLined
<1>6. WaitersHaveAReason'
  <2>1. ASSUME NEW f \in Fid, NEW u \in ToSet(senders'[f]) PROVE msg_val'[u] # -1
    <3>1. u \in ToSet(senders[f]) /\ u # t
      BY <2>1 DEF Shrinks
    <3>2. u \in Task /\ Waits(u)
      BY <3>1, OnList
    <3>3. msg_val'[u] = msg_val[u]
      BY <1>4, <3>1, <3>2
    <3>4. QED
      BY <3>1, <3>3 DEF MsgInv, MsgState, WaitersHaveAReason
  <2>2. QED
    BY <2>1 DEF WaitersHaveAReason
<1>7. ServedOrReset'
  <2> SUFFICES ASSUME NEW u \in global', kpc'[u] = "psend", state'[u] \in {"READY", "RUNNING"}
               PROVE  msg_val'[u] = -1 \/ call'[u].rst < cpt_rst'
    BY DEF ServedOrReset
  <2>1. u \in Task /\ u \in global
    BY <1>1, MsgFacts
  <2>2. kpc[u] = "psend" /\ call'[u] = call[u]
    BY <1>3, <2>1
  <2>3. CASE u = t
    BY <2>2, <2>3
  <2>4. CASE u # t
    <3>1. msg_val'[u] = msg_val[u] /\ state[u] \in {"READY", "RUNNING"}
      BY <1>1, <2>1, <2>4
    <3>2. QED
      BY <2>1, <2>2, <3>1 DEF MsgInv, MsgState, ServedOrReset
  <2>5. QED
    BY <2>3, <2>4
<1>8. QED
  BY <1>2, <1>5, <1>6, <1>7, LinedDef DEF MsgInv, MsgState

\* The current task joins a waiting list, with a reason.
LEMMA BlockMsg ==
    ASSUME MsgInv, mode = "cpu", UNCHANGED <<taskFrame, mqueues, cpt_rst, dropped>>,
           current # Idle, NEW f \in Fid, used(f), CallStep, call'[current].id = f,
           msg_val' \in [Task -> Int],
           \/ /\ block_sender(f) /\ kpc'[current] = "psend"
              /\ MQUEUE_FULL(f) /\ msg_val'[current] # -1
           \/ /\ block_receiver(f) /\ kpc'[current] = "preceive"
              /\ MQUEUE_EMPTY(f),
           \A t \in Task : t # current => msg_val'[t] = msg_val[t]
    PROVE  MsgInv'
<1>1. /\ UNCHANGED <<current, alloc, global, priority>>
      /\ state[current] = "RUNNING" /\ current \in Task /\ state \in [Task -> State]
      /\ state' = [state EXCEPT ![current] = "INTERRUPTED_MSG"]
      /\ kpc \in [Task -> KernelCall] /\ call \in [Task -> [id : Fid \cup {NULL}, rst : 0..cpt_rst]]
      /\ Blocks
  BY MsgFacts DEF taskFrame, nameVars, block_sender, block_receiver, Blocks
<1>2. \A t \in Task : t # current => kpc'[t] = kpc[t] /\ call'[t] = call[t]
  BY <1>1 DEF CallStep, in_call
<1>3. /\ QueuesTyped'
      /\ \A g \in Fid : /\ used(g)' <=> used(g)
                        /\ MQUEUE_FULL(g)' <=> MQUEUE_FULL(g)
                        /\ MQUEUE_EMPTY(g)' <=> MQUEUE_EMPTY(g)
  BY SameQueues
<1>4. /\ Lined' /\ WaitersSorted'
      /\ senders' \in [Fid -> Seq(Task)] /\ receivers' \in [Fid -> Seq(Task)]
      /\ \/ /\ \A g \in Fid : ToSet(senders'[g]) =
                  IF g = f THEN ToSet(senders[g]) \cup {current} ELSE ToSet(senders[g])
            /\ UNCHANGED receivers /\ block_sender(f)
         \/ /\ \A g \in Fid : ToSet(receivers'[g]) =
                  IF g = f THEN ToSet(receivers[g]) \cup {current} ELSE ToSet(receivers[g])
            /\ UNCHANGED senders /\ block_receiver(f)
  BY <1>1, <1>2, <1>3, BlockLined
<1>5. FamilyInv' /\ SleepersInUser'
  <2>1. NotIdle
    BY DEF NotIdle
  <2>2. QED
    BY <1>1, <1>4, <2>1, CallFamily DEF StateStep
<1>6. MsgTypes' /\ Resetting'
  <2>1. cpt_rst' \in cpt_rst..MaxReset /\ dropped'.size \in Nat \cup {-1}
    BY MsgAssumption DEF MsgInv, MsgState, MsgTypes
  <2>2. mode' # "msg"
    BY <1>1 DEF Blocks
  <2>3. QED
    BY <1>3, <2>1, <2>2, CallTypes
<1>7. WaitersHaveAReason'
  <2>1. ASSUME NEW g \in Fid
        PROVE  /\ senders'[g] # <<>> => MQUEUE_FULL(g)'
               /\ receivers'[g] # <<>> => MQUEUE_EMPTY(g)'
               /\ \A t \in ToSet(senders'[g]) : msg_val'[t] # -1
    <3>1. /\ senders[g] # <<>> => MQUEUE_FULL(g)
          /\ receivers[g] # <<>> => MQUEUE_EMPTY(g)
          /\ \A t \in ToSet(senders[g]) : msg_val[t] # -1
      BY DEF MsgInv, MsgState, WaitersHaveAReason
    <3>2. \A t \in ToSet(senders[g]) : msg_val'[t] # -1
      <4>1. \A t \in ToSet(senders[g]) : t \in Task /\ t # current
        BY <1>1, OnList DEF Waits
      <4>2. QED
        BY <3>1, <4>1
    <3>3. CASE block_sender(f) /\ MQUEUE_FULL(f) /\ msg_val'[current] # -1
      <4>1. receivers' = receivers /\ (g # f => senders'[g] = senders[g])
        BY <3>3, MsgFacts DEF block_sender
      <4>2. CASE \A h \in Fid : ToSet(senders'[h]) =
                    IF h = f THEN ToSet(senders[h]) \cup {current} ELSE ToSet(senders[h])
        BY <1>3, <3>1, <3>2, <3>3, <4>1, <4>2
      <4>3. CASE block_receiver(f) /\ UNCHANGED senders
        BY <1>3, <3>1, <3>2, <4>1, <4>3
      <4>4. QED
        BY <1>4, <4>2, <4>3
    <3>4. CASE block_receiver(f) /\ MQUEUE_EMPTY(f)
      <4>1. senders' = senders /\ (g # f => receivers'[g] = receivers[g])
        BY <3>4, MsgFacts DEF block_receiver
      <4>2. QED
        BY <1>3, <3>1, <3>2, <3>4, <4>1
    <3>5. QED
      BY <3>3, <3>4
  <2>2. QED
    BY <2>1 DEF WaitersHaveAReason
<1>8. ServedOrReset'
  <2> SUFFICES ASSUME NEW t \in global', kpc'[t] = "psend", state'[t] \in {"READY", "RUNNING"}
               PROVE  msg_val'[t] = -1 \/ call'[t].rst < cpt_rst'
    BY DEF ServedOrReset
  <2>1. t \in Task /\ t \in global /\ t # current
    BY <1>1, MsgFacts
  <2>2. kpc[t] = "psend" /\ call'[t] = call[t] /\ msg_val'[t] = msg_val[t] /\ state'[t] = state[t]
    BY <1>1, <1>2, <2>1
  <2>3. QED
    BY <2>1, <2>2 DEF MsgInv, MsgState, ServedOrReset
<1>9. QED
  BY <1>4, <1>5, <1>6, <1>7, <1>8, LinedDef DEF MsgInv, MsgState

-----------------------------------------------------------------------------
(* One lemma per call *)

LEMMA PcreateMsg ==
    ASSUME MsgInv, NEW n \in Size, Pcreate(n)
    PROVE  MsgInv'
<1>1. PICK f \in Fid : f = first_available_queue /\ ~used(f)
  <2>1. available \subseteq Nat /\ available # {}
    BY MsgAssumption DEF Pcreate, available
  <2>2. first_available_queue \in available
    BY <2>1, LeastNat DEF first_available_queue
  <2>3. QED
    BY <2>2 DEF available
<1>2. /\ mode = "cpu" /\ current # Idle
      /\ mqueues' = [mqueues EXCEPT ![f] = [size |-> n, msgs |-> <<>>]]
      /\ UNCHANGED <<vars, cpt_rst, call, dropped>>
  BY <1>1 DEF Pcreate, InProcess, InUser
<1>3. n \in Nat /\ n # -1 /\ <<>> \in Seq(Int) /\ Len(<<>>) <= n
  BY MsgAssumption
<1>4. /\ QueuesTyped'
      /\ \A g \in Fid : g # f =>
            /\ mqueues'[g] = mqueues[g] /\ (used(g)' <=> used(g))
            /\ (MQUEUE_FULL(g)' <=> MQUEUE_FULL(g))
            /\ (MQUEUE_EMPTY(g)' <=> MQUEUE_EMPTY(g))
      /\ used(f)'
  BY <1>1, <1>2, <1>3, SetQueue
<1>5. /\ UNCHANGED <<taskFrame, msgLists, state, queue, kpc, msg_val, mode, current>>
  BY <1>2 DEF vars, cpuVars, structVars, stackVars, nameVars, taskFrame, msgLists
<1>6. MsgTypes' /\ Resetting'
  <2>1. cpt_rst' \in cpt_rst..MaxReset /\ dropped'.size \in Nat \cup {-1}
    BY <1>2, MsgAssumption DEF MsgInv, MsgState, MsgTypes
  <2>2. QED
    BY <1>2, <1>4, <1>5, <2>1, CallTypes DEF CallStep
<1>7. \A g \in Fid :
          /\ ~used(g)' => senders[g] = <<>> /\ receivers[g] = <<>>
          /\ senders[g] # <<>> => MQUEUE_FULL(g)'
          /\ receivers[g] # <<>> => MQUEUE_EMPTY(g)'
  <2>1. senders[f] = <<>> /\ receivers[f] = <<>>
    BY <1>1, MsgFacts DEF Lined
  <2>2. QED
    BY <1>4, <2>1, MsgFacts DEF Lined, MsgInv, MsgState, WaitersHaveAReason
<1>8. Stays /\ NotIdle /\ CallStep /\ msg_val' \in [Task -> Int] /\ cpt_rst' >= cpt_rst
  BY <1>2, <1>5, MsgFacts DEF Stays, NotIdle, CallStep, MsgInv, MsgState, MsgTypes
<1>9. QED
  BY <1>2, <1>5, <1>6, <1>7, <1>8, StayMsg

LEMMA PdeleteMsg ==
    ASSUME MsgInv, NEW f \in Fid, Pdelete(f)
    PROVE  MsgInv'
<1>1. /\ mode = "cpu" /\ current # Idle /\ used(f) /\ mode' = "msg"
      /\ UNCHANGED <<taskFrame, msgLists, state, queue, kpc, msg_val, mqueues, call>>
      /\ cpt_rst' = cpt_rst + 1 /\ cpt_rst + 1 <= MaxReset
      /\ dropped' = [id |-> f, size |-> -1]
  BY DEF Pdelete, InProcess, InUser, taskFrame, structVars, stackVars, nameVars, msgLists
<1>2. /\ QueuesTyped'
      /\ \A g \in Fid : /\ used(g)' <=> used(g)
                        /\ MQUEUE_FULL(g)' <=> MQUEUE_FULL(g)
                        /\ MQUEUE_EMPTY(g)' <=> MQUEUE_EMPTY(g)
  BY <1>1, SameQueues
<1>3. cpt_rst \in Nat /\ MaxReset \in Nat /\ -1 \in Nat \cup {-1}
  BY MsgAssumption DEF MsgInv, MsgState, MsgTypes
<1>4. MsgTypes' /\ Resetting'
  <2>1. dropped'.size \in Nat \cup {-1} /\ dropped'.id \in Fid
    BY <1>1, <1>3
  <2>2. used(dropped.id)'
    BY <1>1 DEF used
  <2>3. cpt_rst' \in cpt_rst..MaxReset /\ cpt_rst < cpt_rst'
    BY <1>1, <1>3
  <2>4. QED
    BY <1>1, <1>2, <2>1, <2>2, <2>3, CallTypes DEF CallStep
<1>5. \A g \in Fid :
          /\ ~used(g)' => senders[g] = <<>> /\ receivers[g] = <<>>
          /\ senders[g] # <<>> => MQUEUE_FULL(g)'
          /\ receivers[g] # <<>> => MQUEUE_EMPTY(g)'
  BY <1>2, MsgFacts DEF Lined, MsgInv, MsgState, WaitersHaveAReason
<1>6. cpt_rst' >= cpt_rst /\ Stays /\ NotIdle /\ CallStep /\ msg_val' \in [Task -> Int]
  BY <1>1, <1>3, MsgFacts DEF Stays, NotIdle, CallStep
<1>7. QED
  BY <1>1, <1>4, <1>5, <1>6, StayMsg

LEMMA PresetMsg ==
    ASSUME MsgInv, NEW f \in Fid, Preset(f)
    PROVE  MsgInv'
<1>1. /\ mode = "cpu" /\ current # Idle /\ used(f) /\ mode' = "msg"
      /\ UNCHANGED <<taskFrame, msgLists, state, queue, kpc, msg_val, mqueues, call>>
      /\ cpt_rst' = cpt_rst + 2 /\ cpt_rst + 2 <= MaxReset
      /\ dropped' = [id |-> f, size |-> count(f)]
  BY DEF Preset, InProcess, InUser, taskFrame, structVars, stackVars, nameVars, msgLists
<1>2. /\ QueuesTyped'
      /\ \A g \in Fid : /\ used(g)' <=> used(g)
                        /\ MQUEUE_FULL(g)' <=> MQUEUE_FULL(g)
                        /\ MQUEUE_EMPTY(g)' <=> MQUEUE_EMPTY(g)
  BY <1>1, SameQueues
<1>3. cpt_rst \in Nat /\ MaxReset \in Nat /\ count(f) \in Nat \cup {-1}
  BY MsgAssumption, LenProperties DEF MsgInv, MsgState, MsgTypes, count
<1>4. MsgTypes' /\ Resetting'
  <2>1. dropped'.size \in Nat \cup {-1} /\ dropped'.id \in Fid
    BY <1>1, <1>3
  <2>2. used(dropped.id)'
    BY <1>1 DEF used
  <2>3. cpt_rst' \in cpt_rst..MaxReset /\ cpt_rst < cpt_rst'
    BY <1>1, <1>3
  <2>4. QED
    BY <1>1, <1>2, <2>1, <2>2, <2>3, CallTypes DEF CallStep
<1>5. \A g \in Fid :
          /\ ~used(g)' => senders[g] = <<>> /\ receivers[g] = <<>>
          /\ senders[g] # <<>> => MQUEUE_FULL(g)'
          /\ receivers[g] # <<>> => MQUEUE_EMPTY(g)'
  BY <1>2, MsgFacts DEF Lined, MsgInv, MsgState, WaitersHaveAReason
<1>6. cpt_rst' >= cpt_rst /\ Stays /\ NotIdle /\ CallStep /\ msg_val' \in [Task -> Int]
  BY <1>1, <1>3, MsgFacts DEF Stays, NotIdle, CallStep
<1>7. QED
  BY <1>1, <1>4, <1>5, <1>6, StayMsg

\* free_mqueue comes when nobody waits on the queue any more.
LEMMA FreeMqueueMsg ==
    ASSUME MsgInv, FreeMqueue
    PROVE  MsgInv'
<1>1. PICK f \in Fid, n \in Nat \cup {-1} :
         f = dropped.id /\ n = dropped.size /\ senders[f] = <<>> /\ receivers[f] = <<>>
  BY DEF MsgInv, MsgState, MsgTypes, FreeMqueue
<1>a. mode = "msg" /\ <<>> \in Seq(Int) /\ (n # -1 => Len(<<>>) <= n)
  BY DEF FreeMqueue
<1>2. /\ mqueues' = [mqueues EXCEPT ![f] = [size |-> n, msgs |-> <<>>]]
      /\ mode' = "cpu" /\ dropped' = NoDrop
      /\ UNCHANGED <<taskFrame, msgLists, state, queue, kpc, msg_val, cpt_rst, call>>
  BY <1>1 DEF FreeMqueue, taskFrame, structVars, stackVars, nameVars, msgLists
<1>3. /\ QueuesTyped'
      /\ \A g \in Fid : g # f =>
            /\ mqueues'[g] = mqueues[g] /\ (used(g)' <=> used(g))
            /\ (MQUEUE_FULL(g)' <=> MQUEUE_FULL(g))
            /\ (MQUEUE_EMPTY(g)' <=> MQUEUE_EMPTY(g))
  BY <1>a, <1>2, SetQueue
<1>4. MsgTypes' /\ Resetting'
  <2>1. cpt_rst' \in cpt_rst..MaxReset /\ dropped'.size \in Nat \cup {-1}
    BY <1>2, MsgAssumption DEF MsgInv, MsgState, MsgTypes, NoDrop
  <2>2. QED
    BY <1>2, <1>3, <2>1, CallTypes DEF CallStep
<1>5. \A g \in Fid :
          /\ ~used(g)' => senders[g] = <<>> /\ receivers[g] = <<>>
          /\ senders[g] # <<>> => MQUEUE_FULL(g)'
          /\ receivers[g] # <<>> => MQUEUE_EMPTY(g)'
  BY <1>1, <1>3, MsgFacts DEF Lined, MsgInv, MsgState, WaitersHaveAReason
<1>6. Stays /\ NotIdle /\ CallStep /\ msg_val' \in [Task -> Int] /\ cpt_rst' >= cpt_rst
  BY SMTT(30), <1>2, MsgFacts DEF Stays, NotIdle, CallStep, MsgInv, MsgState, MsgTypes
<1>7. QED
  BY <1>a, <1>2, <1>4, <1>5, <1>6, StayMsg

\* pdelete and preset unblock those who wait, who then find that a reset was
\* counted after their call began.
LEMMA DropSenderMsg ==
    ASSUME MsgInv, DropSender
    PROVE  MsgInv'
<1>1. PICK f \in Fid : f = dropped.id
  BY DEF MsgInv, MsgState, MsgTypes, DropSender
<1>2. PICK t : t = queue_top(senders[f])
  OBVIOUS
<1>3. /\ mode = "msg" /\ senders[f] # <<>>
      /\ senders' = [senders EXCEPT ![f] = queue_out_rest(@)]
      /\ UNCHANGED <<taskFrame, receivers, mode, msg_val, kpc, msgVars>>
      /\ state' = [state EXCEPT ![t] = "READY"]
      /\ queue' = link(queue, "READY", t, priority)
  BY <1>1, <1>2 DEF DropSender, unblock
<1>4. UNCHANGED <<priority, mqueues, cpt_rst, call, dropped>>
  BY <1>3 DEF taskFrame, msgVars
<1>5. /\ t \in Task /\ t \in ToSet(senders[f]) /\ Waits(t)
      /\ Shrinks({t})
      /\ senders' \in [Fid -> Seq(Task)]
  BY <1>2, <1>3, <1>4, PopSender
<1>6. senders' \in [Fid -> Seq(Task)] /\ receivers' \in [Fid -> Seq(Task)]
  BY <1>3, <1>5, MsgFacts
<1>7. /\ QueuesTyped'
      /\ \A g \in Fid : /\ used(g)' <=> used(g)
                        /\ MQUEUE_FULL(g)' <=> MQUEUE_FULL(g)
                        /\ MQUEUE_EMPTY(g)' <=> MQUEUE_EMPTY(g)
  BY <1>4, SameQueues
<1>8. MsgTypes' /\ Resetting'
  <2>1. cpt_rst' \in cpt_rst..MaxReset /\ dropped'.size \in Nat \cup {-1}
    BY <1>4, MsgAssumption DEF MsgInv, MsgState, MsgTypes
  <2>2. dropped'.id \in Fid /\ used(dropped.id)' /\ UNCHANGED call
    BY <1>3, <1>4 DEF MsgInv, MsgState, MsgTypes, used
  <2>3. QED
    BY <1>3, <1>4, <1>7, <2>1, <2>2, CallTypes DEF CallStep
<1>9. \A g \in Fid :
          /\ used(g)' <=> used(g)
          /\ senders'[g] # <<>> => MQUEUE_FULL(g)'
          /\ receivers'[g] # <<>> => MQUEUE_EMPTY(g)'
  BY <1>5, <1>6, <1>7, ShrinkEmpty DEF MsgInv, MsgState, WaitersHaveAReason
<1>10. call[t].rst < cpt_rst
  BY <1>3, <1>5 DEF MsgInv, MsgState, Resetting
<1>11. Serves(t) /\ NotIdle /\ CallStep /\ msg_val' \in [Task -> Int]
  BY <1>3, <1>4, MsgFacts DEF Serves, NotIdle, CallStep
<1>12. QED
  BY <1>3, <1>4, <1>5, <1>6, <1>8, <1>9, <1>10, <1>11, ServeMsg

LEMMA DropReceiverMsg ==
    ASSUME MsgInv, DropReceiver
    PROVE  MsgInv'
<1>1. PICK f \in Fid : f = dropped.id
  BY DEF MsgInv, MsgState, MsgTypes, DropReceiver
<1>2. PICK t : t = queue_top(receivers[f])
  OBVIOUS
<1>3. /\ mode = "msg" /\ receivers[f] # <<>>
      /\ receivers' = [receivers EXCEPT ![f] = queue_out_rest(@)]
      /\ UNCHANGED <<taskFrame, senders, mode, msg_val, kpc, msgVars>>
      /\ state' = [state EXCEPT ![t] = "READY"]
      /\ queue' = link(queue, "READY", t, priority)
  BY <1>1, <1>2 DEF DropReceiver, unblock
<1>4. UNCHANGED <<priority, mqueues, cpt_rst, call, dropped>>
  BY <1>3 DEF taskFrame, msgVars
<1>5. /\ t \in Task /\ t \in ToSet(receivers[f]) /\ Waits(t)
      /\ Shrinks({t})
      /\ receivers' \in [Fid -> Seq(Task)]
  BY <1>2, <1>3, <1>4, PopReceiver
<1>6. senders' \in [Fid -> Seq(Task)] /\ receivers' \in [Fid -> Seq(Task)]
  BY <1>3, <1>5, MsgFacts
<1>7. /\ QueuesTyped'
      /\ \A g \in Fid : /\ used(g)' <=> used(g)
                        /\ MQUEUE_FULL(g)' <=> MQUEUE_FULL(g)
                        /\ MQUEUE_EMPTY(g)' <=> MQUEUE_EMPTY(g)
  BY <1>4, SameQueues
<1>8. MsgTypes' /\ Resetting'
  <2>1. cpt_rst' \in cpt_rst..MaxReset /\ dropped'.size \in Nat \cup {-1}
    BY <1>4, MsgAssumption DEF MsgInv, MsgState, MsgTypes
  <2>2. dropped'.id \in Fid /\ used(dropped.id)' /\ UNCHANGED call
    BY <1>3, <1>4 DEF MsgInv, MsgState, MsgTypes, used
  <2>3. QED
    BY <1>3, <1>4, <1>7, <2>1, <2>2, CallTypes DEF CallStep
<1>9. \A g \in Fid :
          /\ used(g)' <=> used(g)
          /\ senders'[g] # <<>> => MQUEUE_FULL(g)'
          /\ receivers'[g] # <<>> => MQUEUE_EMPTY(g)'
  BY <1>5, <1>6, <1>7, ShrinkEmpty DEF MsgInv, MsgState, WaitersHaveAReason
<1>10. call[t].rst < cpt_rst
  BY <1>3, <1>5 DEF MsgInv, MsgState, Resetting
<1>11. Serves(t) /\ NotIdle /\ CallStep /\ msg_val' \in [Task -> Int]
  BY <1>3, <1>4, MsgFacts DEF Serves, NotIdle, CallStep
<1>12. QED
  BY <1>3, <1>4, <1>5, <1>6, <1>8, <1>9, <1>10, <1>11, ServeMsg

\* What psend() and preceive() know of the processes, and of queue f.
LEMMA InCall ==
    ASSUME MsgInv, mode = "cpu", NEW f \in Fid, used(f)
    PROVE  /\ state[current] = "RUNNING" /\ current \in Task /\ current \in global
           /\ mqueues \in [Fid -> [size : Nat \cup {-1}, msgs : Seq(Int)]]
           /\ mqueues[f].msgs \in Seq(Int) /\ mqueues[f].size \in Nat
           /\ count(f) \in Nat /\ count(f) <= mqueues[f].size
           /\ cpt_rst \in Nat /\ cpt_rst \in cpt_rst..MaxReset
           /\ dropped.size \in Nat \cup {-1}
           /\ \A g \in Fid : senders[g] # <<>> \/ receivers[g] # <<>> => used(g)
<1>1. /\ mqueues \in [Fid -> [size : Nat \cup {-1}, msgs : Seq(Int)]]
      /\ mqueues[f].size \in Nat /\ count(f) <= mqueues[f].size
      /\ cpt_rst \in 0..MaxReset /\ dropped.size \in Nat \cup {-1}
  BY DEF MsgInv, MsgState, MsgTypes
<1>2. mqueues[f].msgs \in Seq(Int)
  BY <1>1
<1>3. count(f) \in Nat
  BY <1>2, LenProperties DEF count
<1>4. QED
  BY SMTT(30), <1>1, <1>2, <1>3, MsgFacts, MsgAssumption DEF Lined

\* The end of psend() stores a message only where nobody waits.
LEMMA FinishSend ==
    ASSUME MsgInv, mode = "cpu", current # Idle, NEW f \in Fid, used(f),
           NEW m \in Int, ~(MQUEUE_FULL(f) /\ m # -1), m # -1 => receivers[f] = <<>>,
           finish_send(f, m), UNCHANGED <<taskFrame, cpt_rst, dropped>>,
           CallStep, kpc'[current] # "psend", msg_val' \in [Task -> Int],
           \A t \in Task : t # current => msg_val'[t] = msg_val[t]
    PROVE  MsgInv'
<1>1. Stays /\ UNCHANGED msgLists /\ mode' = "cpu"
  BY DEF finish_send, returns, Stays
<1>2. /\ QueuesTyped'
      /\ \A g \in Fid : /\ used(g)' <=> used(g)
                        /\ senders[g] # <<>> => MQUEUE_FULL(g)'
                        /\ receivers[g] # <<>> => MQUEUE_EMPTY(g)'
  <2>1. CASE m = -1
    <3>1. UNCHANGED mqueues
      BY <2>1 DEF finish_send
    <3>2. QED
      BY <3>1, SameQueues DEF MsgInv, MsgState, WaitersHaveAReason
  <2>2. CASE m # -1
    <3> DEFINE s == Append(mqueues[f].msgs, m)
    <3>1. s \in Seq(Int) /\ Len(s) = count(f) + 1
      BY InCall DEF count
    <3>2. count(f) # mqueues[f].size
      BY <2>2 DEF MQUEUE_FULL
    <3>3. Len(s) <= mqueues[f].size
      <4> HIDE DEF s
      <4> QED BY <3>1, <3>2, InCall
    <3>4. mqueues' = with_msgs(f, s)
      BY <2>2 DEF finish_send
    <3> HIDE DEF s
    <3>5. /\ QueuesTyped'
          /\ \A g \in Fid : g # f => /\ mqueues'[g] = mqueues[g]
                                     /\ (MQUEUE_FULL(g)' <=> MQUEUE_FULL(g))
                                     /\ (MQUEUE_EMPTY(g)' <=> MQUEUE_EMPTY(g))
          /\ \A g \in Fid : used(g)' <=> used(g)
      BY <3>1, <3>3, <3>4, WithMsgs
    <3>6. senders[f] = <<>> /\ receivers[f] = <<>>
      BY <2>2 DEF MsgInv, MsgState, WaitersHaveAReason
    <3>7. QED
      BY <3>5, <3>6 DEF MsgInv, MsgState, WaitersHaveAReason
  <2>3. QED
    BY <2>1, <2>2
<1>3. cpt_rst' \in cpt_rst..MaxReset /\ dropped'.size \in Nat \cup {-1} /\ cpt_rst' >= cpt_rst
  BY InCall
<1>4. MsgTypes' /\ Resetting'
  BY <1>1, <1>2, <1>3, CallTypes
<1>5. NotIdle
  BY DEF NotIdle
<1>6. \A g \in Fid : ~used(g)' => senders[g] = <<>> /\ receivers[g] = <<>>
  BY <1>2, InCall
<1>7. QED
  BY <1>1, <1>2, <1>3, <1>4, <1>5, <1>6, StayMsg

\* Taking a message makes room for that of the sender that is served, if any.
LEMMA TakeMsg ==
    ASSUME MsgInv, mode = "cpu", current # Idle, NEW f \in Fid, used(f), ~MQUEUE_EMPTY(f),
           NEW vals \in [Task -> Int], \A t \in Task : t # current => vals[t] = msg_val[t],
           take(f, vals), UNCHANGED <<taskFrame, cpt_rst, dropped>>,
           CallStep, kpc'[current] # "psend"
    PROVE  MsgInv'
<1>1. receivers[f] = <<>>
  BY DEF MsgInv, MsgState, WaitersHaveAReason
<1> DEFINE msgs == mqueues[f].msgs
<1>2. Tail(msgs) \in Seq(Int) /\ Len(Tail(msgs)) = count(f) - 1
  <2>1. msgs \in Seq(Int) /\ Len(msgs) # 0
    BY InCall DEF MQUEUE_EMPTY, count
  <2>2. msgs # <<>>
    BY <2>1, EmptySeq
  <2>3. QED
    BY <2>1, <2>2, HeadTailProperties DEF count
<1>3. /\ cpt_rst' \in cpt_rst..MaxReset /\ dropped'.size \in Nat \cup {-1}
      /\ cpt_rst' >= cpt_rst /\ NotIdle
  BY InCall DEF NotIdle
<1>4. CASE senders[f] = <<>>
  <2>1. /\ mqueues' = with_msgs(f, Tail(msgs)) /\ msg_val' = vals
        /\ Stays /\ UNCHANGED msgLists /\ mode' = "cpu"
    BY <1>4 DEF take, returns, Stays
  <2>2. Len(Tail(msgs)) <= mqueues[f].size
    BY <1>2, InCall
  <2>3. /\ QueuesTyped'
        /\ \A g \in Fid : g # f => /\ mqueues'[g] = mqueues[g]
                                   /\ (MQUEUE_FULL(g)' <=> MQUEUE_FULL(g))
                                   /\ (MQUEUE_EMPTY(g)' <=> MQUEUE_EMPTY(g))
        /\ \A g \in Fid : used(g)' <=> used(g)
    BY <1>2, <2>1, <2>2, WithMsgs
  <2>4. MsgTypes' /\ Resetting'
    BY <1>3, <2>1, <2>3, CallTypes
  <2>5. \A g \in Fid :
            /\ ~used(g)' => senders[g] = <<>> /\ receivers[g] = <<>>
            /\ senders[g] # <<>> => MQUEUE_FULL(g)'
            /\ receivers[g] # <<>> => MQUEUE_EMPTY(g)'
    BY <1>1, <1>4, <2>3, InCall DEF MsgInv, MsgState, WaitersHaveAReason
  <2>6. QED
    BY <1>3, <2>1, <2>4, <2>5, StayMsg
<1>5. CASE senders[f] # <<>>
  <2>1. PICK t : t = queue_top(senders[f])
    OBVIOUS
  <2>2. /\ senders' = [senders EXCEPT ![f] = queue_out_rest(@)] /\ UNCHANGED receivers
        /\ ready_or_running(t)
        /\ MQUEUE_FULL(f) /\ vals[t] # -1 =>
              /\ mqueues' = with_msgs(f, refill(f, vals[t]))
              /\ msg_val' = [vals EXCEPT ![t] = -1]
    BY <1>5, <2>1 DEF take
  <2>3. UNCHANGED <<receivers, priority>>
    BY <2>2 DEF taskFrame
  <2>4. /\ t \in Task /\ t \in ToSet(senders[f]) /\ Waits(t)
        /\ Shrinks({t})
        /\ senders' \in [Fid -> Seq(Task)]
    BY <1>5, <2>1, <2>2, <2>3, PopSender
  <2>5. MQUEUE_FULL(f) /\ vals[t] # -1 /\ t # current /\ vals[t] \in Int
    <3>1. t # current
      BY <2>4, InCall DEF Waits
    <3>2. QED
      BY <1>5, <2>4, <3>1 DEF MsgInv, MsgState, WaitersHaveAReason
  <2>6. /\ mqueues' = with_msgs(f, refill(f, vals[t]))
        /\ msg_val' = [vals EXCEPT ![t] = -1]
    BY <2>2, <2>5
  <2>7. refill(f, vals[t]) \in Seq(Int) /\ Len(refill(f, vals[t])) = mqueues[f].size
    <3>1. Len(Append(Tail(msgs), vals[t])) = Len(Tail(msgs)) + 1
          /\ Append(Tail(msgs), vals[t]) \in Seq(Int)
      <4> HIDE DEF msgs
      <4> QED BY <1>2, <2>5
    <3>2. QED
      BY <1>2, <2>5, <3>1, InCall DEF refill, MQUEUE_FULL
  <2> DEFINE s == refill(f, vals[t])
  <2> HIDE DEF s
  <2>8. /\ QueuesTyped'
        /\ \A g \in Fid : g # f => /\ mqueues'[g] = mqueues[g]
                                   /\ (MQUEUE_FULL(g)' <=> MQUEUE_FULL(g))
                                   /\ (MQUEUE_EMPTY(g)' <=> MQUEUE_EMPTY(g))
        /\ \A g \in Fid : used(g)' <=> used(g)
        /\ mqueues'[f].msgs = s /\ mqueues'[f].size = mqueues[f].size
    <3>1. s \in Seq(Int) /\ Len(s) <= mqueues[f].size /\ mqueues' = with_msgs(f, s)
      BY <2>6, <2>7, InCall DEF s
    <3>2. QED
      BY <3>1, WithMsgs
  <2>9. MQUEUE_FULL(f)'
    BY <2>7, <2>8 DEF MQUEUE_FULL, count, s
  <2>10. mode' \in {"cpu", "schedule"} /\ Serves(t)
    BY <2>2 DEF ready_or_running, Serves
  <2>11. MsgTypes' /\ Resetting'
    BY <1>3, <2>8, <2>10, CallTypes
  <2>12. receivers' \in [Fid -> Seq(Task)]
    BY <2>2, MsgFacts
  <2>13. \A g \in Fid :
             /\ used(g)' <=> used(g)
             /\ senders'[g] # <<>> => MQUEUE_FULL(g)'
             /\ receivers'[g] # <<>> => MQUEUE_EMPTY(g)'
    <3>1. \A g \in Fid : /\ senders'[g] # <<>> => senders[g] # <<>>
                         /\ receivers'[g] # <<>> => receivers[g] # <<>>
      BY <2>4, <2>12, ShrinkEmpty
    <3>2. QED
      BY <1>1, <2>8, <2>9, <3>1 DEF MsgInv, MsgState, WaitersHaveAReason
  <2>14. /\ msg_val' \in [Task -> Int] /\ msg_val'[t] = -1
         /\ \A u \in Task : u # current /\ u # t => msg_val'[u] = msg_val[u]
    BY <2>4, <2>6
  <2>15. QED
    BY <1>3, <2>4, <2>10, <2>11, <2>12, <2>13, <2>14, ServeMsg
<1>6. QED
  BY <1>4, <1>5

\* A waiting receiver gets the message of a psend() directly.
LEMMA HandOverMsg ==
    ASSUME MsgInv, mode = "cpu", current # Idle, NEW f \in Fid, used(f), NEW m \in Int,
           receivers[f] # <<>>, hand_over(f, m), UNCHANGED <<taskFrame, cpt_rst, dropped>>,
           kpc[current] # "psend"
    PROVE  MsgInv'
<1>1. PICK t : t = queue_top(receivers[f])
  OBVIOUS
<1>2. /\ receivers' = [receivers EXCEPT ![f] = queue_out_rest(@)]
      /\ msg_val' = [msg_val EXCEPT ![t] = m]
      /\ ready_or_running(t)
      /\ UNCHANGED <<mqueues, senders, kpc, call, priority>>
  BY <1>1 DEF hand_over, taskFrame
<1>3. /\ t \in Task /\ t \in ToSet(receivers[f]) /\ Waits(t)
      /\ Shrinks({t})
      /\ receivers' \in [Fid -> Seq(Task)]
  BY <1>1, <1>2, PopReceiver
<1>4. kpc[t] = "preceive"
  BY <1>3, OnList
<1>5. /\ QueuesTyped'
      /\ \A g \in Fid : /\ used(g)' <=> used(g)
                        /\ MQUEUE_FULL(g)' <=> MQUEUE_FULL(g)
                        /\ MQUEUE_EMPTY(g)' <=> MQUEUE_EMPTY(g)
  BY <1>2, SameQueues
<1>6. /\ mode' \in {"cpu", "schedule"} /\ Serves(t) /\ CallStep /\ NotIdle
  BY <1>2 DEF ready_or_running, Serves, CallStep, NotIdle
<1>7. MsgTypes' /\ Resetting'
  <2>1. cpt_rst' \in cpt_rst..MaxReset /\ dropped'.size \in Nat \cup {-1}
    BY InCall
  <2>2. QED
    BY <1>5, <1>6, <2>1, CallTypes
<1>8. senders' \in [Fid -> Seq(Task)] /\ msg_val' \in [Task -> Int]
  BY <1>2, <1>3, MsgFacts
<1>9. \A g \in Fid :
          /\ used(g)' <=> used(g)
          /\ senders'[g] # <<>> => MQUEUE_FULL(g)'
          /\ receivers'[g] # <<>> => MQUEUE_EMPTY(g)'
  BY <1>3, <1>5, <1>8, ShrinkEmpty DEF MsgInv, MsgState, WaitersHaveAReason
<1>10. \A u \in Task : u # current /\ u # t => msg_val'[u] = msg_val[u]
  BY <1>2, MsgFacts
<1>11. kpc'[current] # "psend" /\ kpc[t] # "psend"
  BY <1>2, <1>4
<1>12. QED
  BY <1>3, <1>6, <1>7, <1>8, <1>9, <1>10, <1>11, ServeMsg

LEMMA PsendMsg ==
    ASSUME MsgInv, NEW f \in Fid, NEW m \in Message, Psend(f, m)
    PROVE  MsgInv'
<1>1. /\ mode = "cpu" /\ current # Idle /\ kpc[current] = "user" /\ used(f)
      /\ UNCHANGED <<taskFrame, cpt_rst, dropped>>
  BY DEF Psend, InProcess, InUser
<1>2. m \in Int /\ current \in Task
  BY MsgAssumption, MsgFacts
<1>3. CASE receivers[f] # <<>>
  <2>1. hand_over(f, m)
    BY <1>3 DEF Psend
  <2>2. QED
    BY <1>1, <1>2, <1>3, <2>1, HandOverMsg
<1>4. ASSUME receivers[f] = <<>>
      PROVE  /\ msg_val' = [msg_val EXCEPT ![current] = m]
             /\ msg_val' \in [Task -> Int] /\ msg_val'[current] = m
             /\ \A t \in Task : t # current => msg_val'[t] = msg_val[t]
  BY <1>2, <1>4, MsgFacts DEF Psend
<1>5. CASE receivers[f] = <<>> /\ MQUEUE_FULL(f) /\ m # -1
  <2>1. /\ block_sender(f) /\ in_call("psend", [id |-> f, rst |-> cpt_rst])
        /\ UNCHANGED mqueues
    BY <1>5 DEF Psend
  <2>2. kpc'[current] = "psend" /\ call'[current].id = f
    BY <1>2, <2>1, MsgFacts DEF in_call
  <2>3. CallStep
    BY <2>1 DEF CallStep
  <2>4. QED
    BY <1>1, <1>4, <1>5, <2>1, <2>2, <2>3, BlockMsg
<1>6. CASE receivers[f] = <<>> /\ ~(MQUEUE_FULL(f) /\ m # -1)
  <2>1. finish_send(f, m) /\ UNCHANGED <<kpc, call>>
    BY <1>6 DEF Psend
  <2>2. kpc'[current] # "psend" /\ CallStep
    BY <1>1, <2>1 DEF CallStep
  <2>3. QED
    BY <1>1, <1>2, <1>4, <1>6, <2>1, <2>2, FinishSend
<1>7. QED
  BY <1>3, <1>5, <1>6

\* A call that ends early, or faults, leaves everything else alone.
LEMMA ReturnMsg ==
    ASSUME MsgInv, mode = "cpu", current # Idle, mode' \in {"cpu", "fault"},
           UNCHANGED <<taskFrame, state, queue, msgLists, mqueues, cpt_rst, dropped>>,
           CallStep, msg_val' \in [Task -> Int],
           \A t \in Task : t # current => msg_val'[t] = msg_val[t],
           kpc'[current] = "psend" => UNCHANGED <<kpc, call, msg_val>>
    PROVE  MsgInv'
<1>1. /\ QueuesTyped'
      /\ \A g \in Fid : /\ used(g)' <=> used(g)
                        /\ MQUEUE_FULL(g)' <=> MQUEUE_FULL(g)
                        /\ MQUEUE_EMPTY(g)' <=> MQUEUE_EMPTY(g)
  BY SameQueues
<1>2. cpt_rst' \in cpt_rst..MaxReset /\ dropped'.size \in Nat \cup {-1} /\ cpt_rst' >= cpt_rst
  BY MsgAssumption DEF MsgInv, MsgState, MsgTypes
<1>3. MsgTypes' /\ Resetting'
  BY <1>1, <1>2, CallTypes
<1>4. \A g \in Fid :
          /\ ~used(g)' => senders[g] = <<>> /\ receivers[g] = <<>>
          /\ senders[g] # <<>> => MQUEUE_FULL(g)'
          /\ receivers[g] # <<>> => MQUEUE_EMPTY(g)'
  BY <1>1, MsgFacts DEF Lined, MsgInv, MsgState, WaitersHaveAReason
<1>5. Stays /\ NotIdle
  BY DEF Stays, NotIdle
<1>6. QED
  BY <1>2, <1>3, <1>4, <1>5, StayMsg

\* The call of the current task is not one of the idle task, and its queue is
\* a valid one.
LEMMA ResumedCall ==
    ASSUME MsgInv, Resumes("psend") \/ Resumes("preceive")
    PROVE  mode = "cpu" /\ current # Idle /\ call[current].id \in Fid
  BY MsgFacts
     DEF Resumes, StructInv, Struct, SuspendedCalls, MsgInv, MsgState, MsgTypes

LEMMA ResumePsendMsg ==
    ASSUME MsgInv, ResumePsend
    PROVE  MsgInv'
<1>1. /\ mode = "cpu" /\ current # Idle /\ kpc[current] = "psend"
      /\ UNCHANGED <<taskFrame, cpt_rst, dropped>>
  BY ResumedCall DEF ResumePsend, Resumes
<1>2. PICK f \in Fid, m \in Int : f = call[current].id /\ m = msg_val[current]
  BY ResumedCall, MsgFacts DEF ResumePsend
<1>3. CASE ~used(f)
  <2>1. mode' = "fault" /\ UNCHANGED <<state, queue, msgLists, msg_val, kpc, call, mqueues>>
    BY <1>2, <1>3 DEF ResumePsend, null_mqueue
  <2>2. CallStep /\ msg_val' \in [Task -> Int]
    BY <2>1, MsgFacts DEF CallStep
  <2>3. QED
    BY <1>1, <2>1, <2>2, ReturnMsg
<1>4. CASE used(f) /\ MQUEUE_FULL(f) /\ m # -1
  <2>1. block_sender(f) /\ UNCHANGED <<msg_val, kpc, call, mqueues>>
    BY <1>2, <1>4 DEF ResumePsend
  <2>2. CallStep /\ msg_val' \in [Task -> Int] /\ msg_val'[current] # -1
    BY <1>2, <1>4, <2>1, MsgFacts DEF CallStep
  <2>3. kpc'[current] = "psend" /\ call'[current].id = f
    BY <1>1, <1>2, <2>1
  <2>4. QED
    BY <1>1, <1>4, <2>1, <2>2, <2>3, BlockMsg
<1>5. CASE used(f) /\ ~(MQUEUE_FULL(f) /\ m # -1)
  <2>1. /\ in_call("user", NoCall) /\ UNCHANGED msg_val
        /\ IF call[current].rst < cpt_rst THEN returns /\ UNCHANGED <<mqueues, msgLists>>
                                          ELSE finish_send(f, m)
    BY <1>2, <1>5 DEF ResumePsend
  <2>2. CallStep /\ kpc'[current] = "user" /\ msg_val' \in [Task -> Int]
    BY <2>1, MsgFacts DEF CallStep, in_call
  <2>3. CASE call[current].rst < cpt_rst
    BY <1>1, <2>1, <2>2, <2>3, ReturnMsg DEF returns
  <2>4. CASE ~(call[current].rst < cpt_rst)
    <3>1. m = -1
      BY <1>1, <1>2, <1>5, <2>4, InCall DEF MsgInv, MsgState, ServedOrReset
    <3>2. finish_send(f, m)
      BY <2>1, <2>4
    <3>3. QED
      BY <1>1, <1>5, <2>1, <2>2, <3>1, <3>2, FinishSend
  <2>5. QED
    BY <2>3, <2>4
<1>6. QED
  BY <1>3, <1>4, <1>5

LEMMA PreceiveMsg ==
    ASSUME MsgInv, NEW f \in Fid, Preceive(f)
    PROVE  MsgInv'
<1>1. /\ mode = "cpu" /\ current # Idle /\ kpc[current] = "user" /\ used(f)
      /\ UNCHANGED <<taskFrame, cpt_rst, dropped>>
  BY DEF Preceive, InProcess, InUser
<1>2. PICK vals \in [Task -> Int] :
          /\ vals = [msg_val EXCEPT ![current] = -1]
          /\ \A t \in Task : t # current => vals[t] = msg_val[t]
  <2>1. [msg_val EXCEPT ![current] = -1] \in [Task -> Int]
    BY MsgFacts
  <2>2. QED
    BY <2>1, MsgFacts
<1>3. CASE MQUEUE_EMPTY(f)
  <2>1. /\ msg_val' = vals /\ block_receiver(f) /\ UNCHANGED mqueues
        /\ in_call("preceive", [id |-> f, rst |-> cpt_rst])
    BY <1>2, <1>3 DEF Preceive
  <2>2. kpc'[current] = "preceive" /\ call'[current].id = f
    BY <2>1, MsgFacts DEF in_call
  <2>3. CallStep
    BY <2>1 DEF CallStep
  <2>4. QED
    BY <1>1, <1>2, <1>3, <2>1, <2>2, <2>3, BlockMsg
<1>4. CASE ~MQUEUE_EMPTY(f)
  <2>1. take(f, vals) /\ UNCHANGED <<kpc, call>>
    BY <1>2, <1>4 DEF Preceive
  <2>2. CallStep /\ kpc'[current] # "psend"
    BY <1>1, <2>1 DEF CallStep
  <2>3. QED
    BY <1>1, <1>2, <1>4, <2>1, <2>2, TakeMsg
<1>5. QED
  BY <1>3, <1>4

LEMMA ResumePreceiveMsg ==
    ASSUME MsgInv, ResumePreceive
    PROVE  MsgInv'
<1>1. /\ mode = "cpu" /\ current # Idle /\ kpc[current] = "preceive"
      /\ UNCHANGED <<taskFrame, cpt_rst, dropped>>
  BY ResumedCall DEF ResumePreceive, Resumes
<1>2. PICK f \in Fid : f = call[current].id
  BY ResumedCall DEF ResumePreceive
<1>3. CASE ~used(f)
  <2>1. mode' = "fault" /\ UNCHANGED <<state, queue, msgLists, msg_val, kpc, call, mqueues>>
    BY <1>2, <1>3 DEF ResumePreceive, null_mqueue
  <2>2. CallStep /\ msg_val' \in [Task -> Int]
    BY <2>1, MsgFacts DEF CallStep
  <2>3. QED
    BY <1>1, <2>1, <2>2, ReturnMsg
<1>4. CASE used(f) /\ MQUEUE_EMPTY(f) /\ msg_val[current] = -1
  <2>1. block_receiver(f) /\ UNCHANGED <<msg_val, kpc, call, mqueues>>
    BY <1>2, <1>4 DEF ResumePreceive
  <2>2. CallStep /\ msg_val' \in [Task -> Int]
    BY <2>1, MsgFacts DEF CallStep
  <2>3. kpc'[current] = "preceive" /\ call'[current].id = f
    BY <1>1, <1>2, <2>1
  <2>4. QED
    BY <1>1, <1>4, <2>1, <2>2, <2>3, BlockMsg
<1>5. CASE used(f) /\ ~(MQUEUE_EMPTY(f) /\ msg_val[current] = -1)
  <2>1. /\ in_call("user", NoCall)
        /\ IF call[current].rst < cpt_rst
           THEN returns /\ UNCHANGED <<msg_val, mqueues, msgLists>>
           ELSE IF msg_val[current] # -1
           THEN /\ msg_val' = [msg_val EXCEPT ![current] = -1]
                /\ returns
                /\ UNCHANGED <<mqueues, msgLists>>
           ELSE take(f, msg_val)
    BY <1>2, <1>5 DEF ResumePreceive
  <2>2. CallStep /\ kpc'[current] # "psend"
    BY <2>1, MsgFacts DEF CallStep, in_call
  <2>3. CASE call[current].rst < cpt_rst \/ msg_val[current] # -1
    <3>1. returns /\ UNCHANGED <<mqueues, msgLists>>
      BY <2>1, <2>3
    <3>2. /\ msg_val' \in [Task -> Int]
          /\ \A t \in Task : t # current => msg_val'[t] = msg_val[t]
      BY <2>1, <2>3, MsgFacts
    <3>3. QED
      BY <1>1, <2>2, <3>1, <3>2, ReturnMsg DEF returns
  <2>4. CASE ~(call[current].rst < cpt_rst) /\ msg_val[current] = -1
    <3>1. PICK vals \in [Task -> Int] : vals = msg_val
      BY MsgFacts
    <3>2. take(f, vals) /\ ~MQUEUE_EMPTY(f)
      BY <1>5, <2>1, <2>4, <3>1
    <3>3. QED
      BY <1>1, <1>5, <2>2, <3>1, <3>2, TakeMsg
  <2>5. QED
    BY <2>3, <2>4
<1>6. QED
  BY <1>3, <1>4, <1>5

-----------------------------------------------------------------------------
(* The invariant *)

LEMMA InitMsg == MsgInit => MsgInv
<1> SUFFICES ASSUME MsgInit PROVE MsgInv
  OBVIOUS
<1>1. Init /\ FamilyInv
  BY InitFamily DEF MsgInit
<1>2. MsgTypes
  <2>1. Unused \in [size : Nat \cup {-1}, msgs : Seq(Int)]
    BY DEF Unused
  <2>2. cpt_rst = 0 /\ 0 \in 0..MaxReset
    BY MsgAssumption DEF MsgInit
  <2>3. NoCall \in [id : Fid \cup {NULL}, rst : 0..cpt_rst]
    BY <2>2 DEF NoCall
  <2>4. QED
    BY <2>1, <2>2, <2>3 DEF MsgInit, Init, MsgTypes, used, NoDrop
<1>3. /\ \A f \in Fid : senders[f] = <<>> /\ receivers[f] = <<>>
      /\ alloc = {Idle} /\ global = {Idle} /\ Idle \in Task
      /\ state[Idle] = "RUNNING" /\ kpc[Idle] = "user" /\ mode = "cpu"
  BY <1>1, TaskAssumption DEF Init
<1>4. NoDup(<<>>) /\ ToSet(<<>>) = {} /\ Sorted(<<>>, priority)
  BY DEF NoDup, ToSet, Sorted
<1>5. Lined
  BY <1>3, <1>4 DEF Lined, Waits
<1>6. WaitersSorted /\ WaitersHaveAReason
  BY <1>3, <1>4 DEF WaitersSorted, WaitersHaveAReason
<1>7. ServedOrReset /\ SleepersInUser /\ Resetting
  BY <1>3 DEF ServedOrReset, SleepersInUser, Resetting
<1>8. QED
  BY <1>1, <1>2, <1>5, <1>6, <1>7, LinedDef DEF MsgInv, MsgState

LEMMA SameMsg ==
    ASSUME MsgInv, UNCHANGED allVars
    PROVE  MsgInv'
<1>1. UNCHANGED vars /\ UNCHANGED msgVars
  BY DEF allVars
<1>2. TypeOK' /\ Struct' /\ Family'
  BY <1>1, NextTypeOK, NextStruct, NextFamily, MsgFacts DEF FamilyInv, StructInv
<1>3. UNCHANGED <<current, mode, alloc, state, priority, msg_val, kpc, senders, receivers, global,
                  mqueues, cpt_rst, call, dropped>>
  BY <1>1 DEF vars, cpuVars, structVars, stackVars, msgLists, nameVars, msgVars
<1>4. MsgTypes' /\ SleepersInUser' /\ Resetting'
  BY <1>3 DEF MsgInv, MsgState, MsgTypes, SleepersInUser, Resetting, used, count
<1>5. Lined'
  BY <1>3, MsgFacts DEF Lined, Waits, used
<1>6. WaitersSorted' /\ WaitersHaveAReason' /\ ServedOrReset'
  BY <1>3 DEF MsgInv, MsgState, WaitersSorted, WaitersHaveAReason, ServedOrReset,
              MQUEUE_FULL, MQUEUE_EMPTY, count
<1>7. QED
  BY <1>2, <1>4, <1>5, <1>6, LinedDef DEF MsgInv, MsgState, FamilyInv, StructInv

LEMMA NextMsg == MsgInv /\ [MsgNext]_allVars => MsgInv'
<1> SUFFICES ASSUME MsgInv, [MsgNext]_allVars PROVE MsgInv'
  OBVIOUS
<1>1. CASE TaskStep
  BY <1>1, TaskStepMsg
<1>2. CASE MsgCall
  BY <1>2, MsgAssumption, PcreateMsg, PsendMsg, PreceiveMsg, PdeleteMsg, PresetMsg DEF MsgCall
<1>3. CASE ResumePsend
  BY <1>3, ResumePsendMsg
<1>4. CASE ResumePreceive
  BY <1>4, ResumePreceiveMsg
<1>5. CASE DropSender
  BY <1>5, DropSenderMsg
<1>6. CASE DropReceiver
  BY <1>6, DropReceiverMsg
<1>7. CASE FreeMqueue
  BY <1>7, FreeMqueueMsg
<1>8. CASE UNCHANGED allVars
  BY <1>8, SameMsg
<1>9. QED
  BY <1>1, <1>2, <1>3, <1>4, <1>5, <1>6, <1>7, <1>8 DEF MsgNext

LEMMA MsgInvariant == MsgSpec => []MsgInv
<1>1. QED
  BY InitMsg, NextMsg, PTL DEF MsgSpec

-----------------------------------------------------------------------------
(* Results *)

(***************************************************************************)
(* A blocked process is on the waiting list of its own queue, once, and    *)
(* the lists are in the order they are to be served in, whatever psend,    *)
(* preceive, pdelete, preset (msg.c), kill and chprio do.                  *)
(***************************************************************************)
THEOREM QueuesCorrect == MsgSpec => []WaitersConsistent
<1>1. MsgInv => WaitersConsistent
  <2> SUFFICES ASSUME MsgInv PROVE WaitersConsistent
    OBVIOUS
  <2>1. MsgTypes /\ TypeOK
    BY MsgFacts DEF MsgInv, MsgState
  <2>2. MsgTypeOK
    <3>1. \A f \in Fid : \/ mqueues[f] = Unused
                         \/ /\ mqueues[f].size \in Nat
                            /\ mqueues[f].msgs \in Seq(Int)
                            /\ count(f) <= mqueues[f].size
      BY <2>1 DEF MsgTypes, used
    <3>2. QED
      BY <2>1, <3>1 DEF MsgTypes, MsgTypeOK, TypeOK
  <2>3. QED
    BY <2>2 DEF WaitersConsistent, MsgInv, MsgState
<1>2. QED
  BY <1>1, MsgInvariant, PTL

(***************************************************************************)
(* Senders wait on full queues only and receivers on empty ones: no        *)
(* wake-up of msg.c is lost.                                               *)
(***************************************************************************)
THEOREM NoLostMessageWakeup == MsgSpec => []WaitersHaveAReason
<1>1. MsgInv => WaitersHaveAReason
  BY DEF MsgInv, MsgState
<1>2. QED
  BY <1>1, MsgInvariant, PTL

(***************************************************************************)
(* A sender woken in psend() (msg.c) has been served, or its queue was     *)
(* reset: no message is stored twice.                                      *)
(***************************************************************************)
THEOREM SentOnce == MsgSpec => []ServedOrReset
<1>1. MsgInv => ServedOrReset
  BY DEF MsgInv, MsgState
<1>2. QED
  BY <1>1, MsgInvariant, PTL

(***************************************************************************)
(* The one number that pcount() stores determines messages and receivers.  *)
(***************************************************************************)
THEOREM PcountCorrect == MsgSpec => []PcountExact
<1>1. MsgInv => PcountExact
  <2> SUFFICES ASSUME MsgInv, NEW f \in Fid, mqueues[f].size > 0
               PROVE  pcount(f) = count(f) + Len(senders[f]) - Len(receivers[f])
    BY DEF PcountExact
  <2>1. /\ senders[f] # <<>> => MQUEUE_FULL(f)
        /\ receivers[f] # <<>> => MQUEUE_EMPTY(f)
    BY DEF MsgInv, MsgState, WaitersHaveAReason
  <2>2. /\ Len(senders[f]) \in Nat /\ Len(receivers[f]) \in Nat /\ count(f) \in Nat
        /\ mqueues[f].size \in Nat \cup {-1} /\ Len(<<>>) = 0
    <3>1. senders[f] \in Seq(Task) /\ receivers[f] \in Seq(Task)
      BY MsgFacts
    <3>2. mqueues[f].msgs \in Seq(Int) /\ mqueues[f].size \in Nat \cup {-1}
      BY DEF MsgInv, MsgState, MsgTypes
    <3>3. QED
      BY <3>1, <3>2, LenProperties DEF count
  <2>3. CASE MQUEUE_EMPTY(f)
    <3>1. count(f) = 0 /\ ~MQUEUE_FULL(f)
      BY <2>2, <2>3 DEF MQUEUE_EMPTY, MQUEUE_FULL
    <3>2. Len(senders[f]) = 0
      BY <2>1, <2>2, <3>1
    <3>3. QED
      BY <2>2, <2>3, <3>1, <3>2 DEF pcount
  <2>4. CASE ~MQUEUE_EMPTY(f)
    <3>1. Len(receivers[f]) = 0
      BY <2>1, <2>2, <2>4
    <3>2. pcount(f) = count(f) + Len(senders[f])
      BY <2>4 DEF pcount
    <3>3. QED
      BY <2>2, <3>1, <3>2
  <2>5. QED
    BY <2>3, <2>4
<1>2. QED
  BY <1>1, MsgInvariant, PTL

\* Appending the first element of s to what is left of q moves it over.
LEMMA MoveOver ==
    ASSUME NEW S, NEW q \in Seq(S), q # <<>>, NEW s \in Seq(S), s # <<>>
    PROVE  Append(Tail(q), s[1]) \o Tail(s) = Tail(q \o s)
<1> DEFINE n == Len(q)
           k == Len(s)
           l == Append(Tail(q), s[1]) \o Tail(s)
           r == Tail(q \o s)
<1>1. n \in Nat /\ n > 0 /\ k \in Nat /\ k > 0
  BY EmptySeq, LenProperties
<1>2. /\ Tail(q) \in Seq(S) /\ Len(Tail(q)) = n - 1
      /\ \A i \in 1..(n - 1) : Tail(q)[i] = q[i + 1]
  BY HeadTailProperties
<1>3. /\ Tail(s) \in Seq(S) /\ Len(Tail(s)) = k - 1
      /\ \A i \in 1..(k - 1) : Tail(s)[i] = s[i + 1]
  BY HeadTailProperties
<1>4. s[1] \in S
  BY <1>1, ElementOfSeq
<1>5. /\ Append(Tail(q), s[1]) \in Seq(S) /\ Len(Append(Tail(q), s[1])) = n
      /\ \A i \in 1..(n - 1) : Append(Tail(q), s[1])[i] = q[i + 1]
      /\ Append(Tail(q), s[1])[n] = s[1]
  BY <1>1, <1>2, <1>4, AppendProperties
<1>6. /\ l \in Seq(S) /\ Len(l) = n + k - 1
      /\ \A i \in 1..(n + k - 1) : l[i] = IF i < n THEN q[i + 1] ELSE s[i - n + 1]
  <2> DEFINE a == Append(Tail(q), s[1])
             b == Tail(s)
  <2>1. /\ a \in Seq(S) /\ Len(a) = n /\ b \in Seq(S) /\ Len(b) = k - 1
        /\ \A i \in 1..(n - 1) : a[i] = q[i + 1]
        /\ a[n] = s[1]
        /\ \A i \in 1..(k - 1) : b[i] = s[i + 1]
    BY <1>3, <1>5
  <2> HIDE DEF a, b, n, k
  <2>2. /\ a \o b \in Seq(S) /\ Len(a \o b) = n + (k - 1)
        /\ \A i \in 1..(n + (k - 1)) : (a \o b)[i] = IF i <= n THEN a[i] ELSE b[i - n]
    <3>1. /\ a \o b \in Seq(S) /\ Len(a \o b) = Len(a) + Len(b)
          /\ \A i \in 1..Len(a) + Len(b) :
                (a \o b)[i] = IF i <= Len(a) THEN a[i] ELSE b[i - Len(a)]
      BY <2>1, ConcatProperties
    <3>2. QED
      BY <2>1, <3>1
  <2>3. \A i \in 1..(n + k - 1) : (a \o b)[i] = IF i < n THEN q[i + 1] ELSE s[i - n + 1]
    BY <1>1, <2>1, <2>2
  <2>4. QED
    BY <1>1, <2>2, <2>3 DEF a, b
<1>7. /\ r \in Seq(S) /\ Len(r) = n + k - 1
      /\ \A i \in 1..(n + k - 1) : r[i] = IF i < n THEN q[i + 1] ELSE s[i - n + 1]
  <2> DEFINE c == q \o s
  <2>1. /\ c \in Seq(S) /\ Len(c) = n + k
        /\ \A i \in 1..(n + k) : c[i] = IF i <= n THEN q[i] ELSE s[i - n]
    BY ConcatProperties
  <2> HIDE DEF c, n, k
  <2>2. c # <<>>
    BY <1>1, <2>1, EmptySeq
  <2>3. /\ Tail(c) \in Seq(S) /\ Len(Tail(c)) = Len(c) - 1
        /\ \A i \in 1..(Len(c) - 1) : Tail(c)[i] = c[i + 1]
    BY <2>1, <2>2, HeadTailProperties
  <2>4. \A i \in 1..(n + k - 1) : Tail(c)[i] = IF i < n THEN q[i + 1] ELSE s[i - n + 1]
    BY <1>1, <2>1, <2>3
  <2>5. QED
    BY <1>1, <2>1, <2>3, <2>4 DEF c
<1> HIDE DEF l, r, n, k
<1>8. l = r
  BY <1>6, <1>7, SeqEqual
<1>9. QED
  BY <1>8 DEF l, r

\* The messages of the waiting senders, the first to be served first.
InTurn(q, vals) == [i \in 1..Len(q) |-> vals[Reverse(q)[i]]]

LEMMA Waiting ==
    ASSUME NEW q \in Seq(Task), NEW vals \in [Task -> Int]
    PROVE  /\ InTurn(q, vals) \in Seq(Int)
           /\ Len(InTurn(q, vals)) = Len(q)
           /\ \A i \in 1..Len(q) : InTurn(q, vals)[i] = vals[q[Len(q) - i + 1]]
<1> DEFINE n == Len(q)
           w == [i \in 1..n |-> vals[Reverse(q)[i]]]
<1>1. n \in Nat
  BY LenProperties
<1>2. \A i \in 1..n : Reverse(q)[i] = q[(n - i) + 1] /\ q[(n - i) + 1] \in Task
  <2>1. Reverse(q) = [i \in 1..n |-> q[(n - i) + 1]]
    BY DEF Reverse
  <2>2. \A i \in 1..n : (n - i) + 1 \in 1..n
    BY <1>1
  <2>3. \A i \in 1..n : q[i] \in Task
    BY ElementOfSeq
  <2>4. QED
    BY <2>1, <2>2, <2>3
<1> HIDE DEF n
<1>3. \A i \in 1..n : w[i] = vals[q[n - i + 1]] /\ w[i] \in Int
  BY <1>2
<1>4. w \in Seq(Int) /\ Len(w) = n
  <2>1. w \in [1..n -> Int]
    BY <1>3
  <2>2. QED
    BY <1>1, <2>1, IsASeq, LenProperties
<1>5. QED
  BY <1>3, <1>4 DEF n, InTurn

LEMMA ReceiveStep ==
    ASSUME MsgInv, NEW f \in Fid, used(f), ~MQUEUE_EMPTY(f), Preceive(f)
    PROVE  Pending(f)' = Tail(Pending(f))
<1> DEFINE msgs == mqueues[f].msgs
           q == senders[f]
           n == Len(q)
           w == InTurn(q, msg_val)
           vals == [msg_val EXCEPT ![current] = -1]
<1>1. /\ mode = "cpu" /\ kpc[current] = "user" /\ take(f, vals)
  BY DEF Preceive, InProcess, InUser
<1>2. q \in Seq(Task) /\ msg_val \in [Task -> Int] /\ vals \in [Task -> Int]
      /\ NoDup(q) /\ n \in Nat
  BY MsgFacts, LenProperties DEF Lined
<1>3. msgs \in Seq(Int) /\ msgs # <<>>
  <2>1. msgs \in Seq(Int) /\ Len(msgs) # 0
    BY <1>1, InCall DEF MQUEUE_EMPTY, count
  <2>2. QED
    BY <2>1, EmptySeq
<1>4. /\ w \in Seq(Int) /\ Len(w) = n
      /\ \A i \in 1..n : w[i] = msg_val[q[n - i + 1]]
  <2> HIDE DEF q
  <2> QED BY <1>2, Waiting
<1>5. Pending(f) = msgs \o w
  BY DEF Pending, InTurn
<1>6. Pending(f)' = mqueues'[f].msgs \o InTurn(senders'[f], msg_val')
  BY DEF Pending, InTurn
<1>7. CASE q = <<>>
  <2>1. /\ mqueues' = with_msgs(f, Tail(msgs)) /\ senders' = senders
        /\ msg_val' = vals
    BY <1>1, <1>7 DEF take, msgLists
  <2>2. mqueues'[f].msgs = Tail(msgs)
    BY <2>1, <1>1, InCall DEF with_msgs
  <2>3. n = 0
    BY <1>7
  <2>4. w = <<>>
    <3> HIDE DEF w
    <3> QED BY <1>4, <2>3, EmptySeq
  <2> DEFINE w2 == InTurn(q, vals)
  <2>5. w2 \in Seq(Int) /\ Len(w2) = n
    <3> HIDE DEF q, vals
    <3> QED BY <1>2, Waiting
  <2>6. w2 = <<>>
    <3> HIDE DEF w2
    <3> QED BY <2>3, <2>5, EmptySeq
  <2>7. Pending(f)' = Tail(msgs) \o w2
    BY <1>6, <2>1, <2>2
  <2>8. Tail(msgs) \in Seq(Int)
    BY <1>3, HeadTailProperties
  <2> HIDE DEF w, w2, msgs
  <2>9. Pending(f)' = Tail(msgs) /\ Pending(f) = msgs
    BY <1>3, <1>5, <2>4, <2>6, <2>7, <2>8, ConcatEmptySeq
  <2>10. QED
    BY <2>9
<1>8. CASE q # <<>>
  <2> DEFINE last == queue_top(q)
             rest == queue_out_rest(q)
             left == [vals EXCEPT ![last] = -1]
             w2 == InTurn(rest, left)
  <2>1. n > 0 /\ last = q[n]
    BY <1>2, <1>8, EmptySeq DEF queue_top
  <2>2. /\ last \in Task /\ last \in ToSet(q) /\ rest \in Seq(Task) /\ Len(rest) = n - 1
        /\ \A j \in 1..(n - 1) : rest[j] = q[j]
    BY <1>2, <1>8, QueueOut
  <2>3. \A t \in ToSet(q) : t \in Task /\ t # current /\ vals[t] = msg_val[t] /\ vals[t] # -1
    <3>1. \A t \in ToSet(q) : t \in Task /\ kpc[t] = "psend" /\ msg_val[t] # -1
      BY OnList DEF MsgInv, MsgState, WaitersHaveAReason
    <3>2. QED
      BY <1>1, <1>2, <3>1
  <2>4. MQUEUE_FULL(f)
    BY <1>8 DEF MsgInv, MsgState, WaitersHaveAReason
  <2>5. /\ senders' = [senders EXCEPT ![f] = rest]
        /\ mqueues' = with_msgs(f, refill(f, vals[last]))
        /\ msg_val' = left
    BY <1>1, <1>8, <2>2, <2>3, <2>4 DEF take
  <2>6. senders'[f] = rest /\ mqueues'[f].msgs = Append(Tail(msgs), w[1])
    <3>1. w[1] = vals[last]
      <4> HIDE DEF w, last, vals
      <4>0. 1 \in 1..n /\ n - 1 + 1 = n
        BY <1>2, <2>1
      <4>1. w[1] = msg_val[last]
        BY <1>4, <2>1, <4>0
      <4>2. QED
        BY <2>2, <2>3, <4>1
    <3>2. senders'[f] = rest
      BY <2>5, MsgFacts
    <3>3. mqueues'[f].msgs = refill(f, vals[last])
      BY <2>5, <1>1, InCall DEF with_msgs
    <3>4. QED
      BY <3>1, <3>2, <3>3 DEF refill
  <2>7. left \in [Task -> Int]
    BY <1>2, <2>2
  <2>8. /\ w2 \in Seq(Int) /\ Len(w2) = n - 1
        /\ \A i \in 1..(n - 1) : w2[i] = left[rest[n - i]]
    <3>1. /\ w2 \in Seq(Int) /\ Len(w2) = Len(rest)
          /\ \A i \in 1..Len(rest) : w2[i] = left[rest[Len(rest) - i + 1]]
      <4> HIDE DEF rest, left
      <4> QED BY <2>2, <2>7, Waiting
    <3> HIDE DEF w2, rest, left
    <3>2. \A i \in 1..(n - 1) : Len(rest) - i + 1 = n - i
      BY <1>2, <2>2
    <3>3. QED
      BY <2>2, <3>1, <3>2
  <2>9. \A j \in 1..(n - 1) : left[q[j]] = msg_val[q[j]]
    <3>1. \A j \in 1..(n - 1) : j \in DOMAIN q /\ q[j] \in ToSet(q) /\ q[j] # q[n]
      BY SMTT(30), <1>2, <2>1, LenProperties DEF NoDup, ToSet
    <3>2. QED
      BY <1>2, <2>1, <2>3, <3>1
  <2>10. w # <<>> /\ Tail(w) \in Seq(Int) /\ Len(Tail(w)) = n - 1
         /\ \A i \in 1..(n - 1) : Tail(w)[i] = w[i + 1]
    <3> HIDE DEF w, n
    <3>1. w # <<>>
      BY <1>4, <2>1, EmptySeq
    <3>2. QED
      BY <1>4, <3>1, HeadTailProperties
  <2>11. w2 = Tail(w)
    <3> HIDE DEF w, w2, rest, left, q, n
    <3>1. ASSUME NEW i \in 1..(n - 1) PROVE w2[i] = Tail(w)[i]
      <4>1. n - i \in 1..(n - 1) /\ i + 1 \in 1..n /\ n - (i + 1) + 1 = n - i
        BY <1>2
      <4>2. w2[i] = left[q[n - i]]
        BY <2>2, <2>8, <4>1
      <4>3. Tail(w)[i] = msg_val[q[n - i]]
        BY <1>4, <2>10, <4>1
      <4>4. QED
        BY <2>9, <4>1, <4>2, <4>3
    <3>2. QED
      BY <2>8, <2>10, <3>1, SeqEqual
  <2>12. Pending(f)' = Append(Tail(msgs), w[1]) \o w2
    BY <1>6, <2>5, <2>6
  <2> HIDE DEF w, w2, msgs
  <2>13. Append(Tail(msgs), w[1]) \o Tail(w) = Tail(msgs \o w)
    BY <1>3, <1>4, <2>10, MoveOver
  <2>14. QED
    BY <1>5, <2>11, <2>12, <2>13
<1>9. QED
  BY <1>7, <1>8

(***************************************************************************)
(* A receive takes the first pending message and keeps the order of the    *)
(* others, the one that moves from a sender into the queue included.       *)
(***************************************************************************)
THEOREM FirstInFirstOut == MsgSpec => ReceiveInOrder
<1>1. MsgInv => \A f \in Fid : used(f) /\ ~MQUEUE_EMPTY(f) /\ Preceive(f) =>
                                   Pending(f)' = Tail(Pending(f))
  BY ReceiveStep
<1>2. QED
  BY <1>1, MsgInvariant, PTL DEF ReceiveInOrder

=============================================================================
