------------------------------- MODULE MCHeap -------------------------------
(* Instances of Heap for TLC.  A behaviour starts with the empty heap, or   *)
(* where a program stands after it has asked for some blocks in a row: two  *)
(* large blocks of one bin, each followed by a small one; or all the memory *)
(* there is but for 24 bytes, the last block small enough for a fast list.  *)
EXTENDS Heap

CONSTANT WarmCalls      \* the number of calls counted for that program

MCArrays == {<<4, 25>>}
MCBatches == {<<36, 44>>}
MCAligned == {<<64, 8>>}

TwoOfABin == <<140000, 8, 136000, 8>>
AlmostAll == <<205488, 205488, 124, 34>>

WarmUp(asked) ==
    FoldLeft(LAMBDA s, bytes :
                LET r == mALLOc(s.av, bytes)
                IN  [av |-> r.m,
                     blocks |-> (r.mem :> [bytes |-> bytes, length |-> 0]) @@ s.blocks],
             [av |-> malloc_state, blocks |-> << >>], asked)

MCInit ==
    \/ Init
    \/ \E asked \in {TwoOfABin, AlmostAll} :
           LET warm == WarmUp(asked)
           IN  av = warm.av /\ blocks = warm.blocks /\ foreign = 0 /\ calls = WarmCalls

MCSpec == MCInit /\ [][Next]_vars
=============================================================================
