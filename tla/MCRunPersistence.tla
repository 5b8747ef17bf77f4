---------------------------- MODULE MCRunPersistence ----------------------------
(* TLC instances of RunPersistence. *)
EXTENDS RunPersistence, TLC

Symmetry == Permutations(RunIds)
================================================================================
