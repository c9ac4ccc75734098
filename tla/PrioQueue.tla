----------------------------- MODULE PrioQueue -----------------------------
(***************************************************************************)
(* The priority queues of shared/queue.h as operators on sequences.        *)
(*                                                                         *)
(* A queue is a circular doubly linked list threaded through a link field  *)
(* of its elements.  It is modelled by the sequence of its elements from   *)
(* head->next to head->prev: the element at index 1 is the least urgent    *)
(* one, the last element is the one queue_top and queue_out return.  prio  *)
(* is the field the queue is sorted by, a function from elements to        *)
(* integers.                                                               *)
(***************************************************************************)
EXTENDS Integers, Sequences, SequencesExt

\* The place queue_add stops at: walking from head->next, the first element
\* whose priority is not below e's, or the head itself.  Among equals the
\* newcomer is put nearest to head->next, so it leaves after them.
add_index(q, e, prio) ==
    CHOOSE i \in 1..(Len(q) + 1) :
        /\ \A j \in 1..(i - 1) : prio[q[j]] < prio[e]
        /\ i <= Len(q) => prio[q[i]] >= prio[e]

queue_add(q, e, prio) == InsertAt(q, add_index(q, e, prio), e)

\* queue_del unlinks e from the list it is on; a list without e is untouched.
queue_del(q, e) ==
    IF e \in ToSet(q)
    THEN RemoveAt(q, CHOOSE i \in 1..Len(q) : q[i] = e)
    ELSE q

\* queue_update: queue_del, then queue_add with the new priority.
queue_update(q, e, prio) == queue_add(queue_del(q, e), e, prio)

\* The element of highest priority, the oldest of them; q is not empty.
queue_top(q) == q[Len(q)]

\* What queue_out leaves in the list when it takes queue_top(q) out.
queue_out_rest(q) == SubSeq(q, 1, Len(q) - 1)

\* The list is sorted the way queue_add keeps it.
Sorted(q, prio) == \A i, j \in 1..Len(q) : i < j => prio[q[i]] <= prio[q[j]]

\* No element is linked twice.
NoDup(q) == \A i, j \in 1..Len(q) : q[i] = q[j] => i = j
=============================================================================
