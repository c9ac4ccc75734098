------------------------------ MODULE MCTasks ------------------------------
EXTENDS Tasks, TLC
Symmetry == Permutations(Task \ {Idle})
=============================================================================
