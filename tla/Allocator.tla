----------------------------- MODULE Allocator -----------------------------
(***************************************************************************)
(* What a heap promises its callers, whatever it does inside: the blocks   *)
(* it has handed out lie in the memory it was given, are aligned, do not   *)
(* meet one another, and stay where they are until their owner frees or    *)
(* resizes them.                                                           *)
(***************************************************************************)
EXTENDS Integers

CONSTANTS Low, High, Alignment

VARIABLE live     \* the blocks in use: address -> bytes its owner may write

Fits(b, a) ==
    /\ a % Alignment = 0
    /\ a >= Low /\ a + b[a] <= High
    /\ \A c \in DOMAIN b \ {a} : a + b[a] <= c \/ c + b[c] <= a

Same(a) == \A c \in (DOMAIN live \cup DOMAIN live') \ {a} :
               c \in DOMAIN live /\ c \in DOMAIN live' /\ live'[c] = live[c]

(* One call may hand out several blocks. *)
Alloc ==
    /\ \A a \in DOMAIN live : a \in DOMAIN live' /\ live'[a] = live[a]
    /\ \A a \in DOMAIN live' \ DOMAIN live : Fits(live', a)

Free(a) == a \in DOMAIN live /\ a \notin DOMAIN live' /\ Same(a)

Resize(a) == a \in DOMAIN live /\ a \in DOMAIN live' /\ Same(a) /\ Fits(live', a)

(* A resized block may move: the old one goes, the new one comes at once.  *)
Move(a, c) ==
    /\ a \in DOMAIN live \ DOMAIN live' /\ c \in DOMAIN live' \ DOMAIN live
    /\ Fits(live', c)
    /\ \A d \in (DOMAIN live \cup DOMAIN live') \ {a, c} :
           d \in DOMAIN live /\ d \in DOMAIN live' /\ live'[d] = live[d]

(* It may have handed out blocks before it is looked at. *)
Init == \A a \in DOMAIN live : Fits(live, a)

Next == \/ Alloc
        \/ \E a \in DOMAIN live : Free(a) \/ Resize(a)
        \/ \E a \in DOMAIN live, c \in DOMAIN live' : Move(a, c)

Spec == Init /\ [][Next]_live
=============================================================================
