----------------------------- MODULE MCTaskList -----------------------------
EXTENDS TaskList, TLC
CONSTANTS w1, w2, w3, l1, l2, d1
OwnNames == [w \in Workers |-> w]
OneName == [w \in Workers |-> w1]
Symmetry == Permutations(Workers)
=============================================================================
