------------------------------- MODULE MCMsg -------------------------------
(* Model checking of Msg: the structs other than idle's are interchangeable. *)
EXTENDS Msg, TLC

Symmetry == Permutations(Task \ {Idle})
=============================================================================
