------------------------------- MODULE KeyMap -------------------------------
(***************************************************************************)
(* What hash.h promises: a map from keys to values, None where a key is    *)
(* not present.                                                            *)
(***************************************************************************)
CONSTANTS Key, Value, None

VARIABLE contents

Init == contents = [k \in Key |-> None]

Put(k, v) == contents' = [contents EXCEPT ![k] = v]

Remove(k) == contents' = [contents EXCEPT ![k] = None]

Next == \E k \in Key : Remove(k) \/ \E v \in Value : Put(k, v)

Spec == Init /\ [][Next]_contents
=============================================================================
