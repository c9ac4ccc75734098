----------------------------- MODULE PageFrames -----------------------------
(***************************************************************************)
(* What callers rely on from the page allocator: a request is answered     *)
(* with pages of managed memory that nobody else holds, all of them, until *)
(* they are given back.                                                    *)
(***************************************************************************)
EXTENDS Integers

CONSTANTS
    Memory,   \* the page numbers that are managed
    NbPages   \* the sizes that are requested

VARIABLE used \* the requests that were answered: <<first page, number of pages>>

Pages(b) == b[1]..(b[1] + b[2] - 1)

Init == used = {}

Alloc(n) ==
    \E a \in Memory :
        /\ used' = used \cup {<<a, n>>}
        /\ Pages(<<a, n>>) \subseteq Memory
        /\ \A b \in used : Pages(<<a, n>>) \cap Pages(b) = {}

Free(b) == used' = used \ {b}

Next == (\E n \in NbPages : Alloc(n)) \/ (\E b \in used : Free(b))

Spec == Init /\ [][Next]_used
=============================================================================
