--------------------------- MODULE MCWorkflowService ---------------------------
(* TLC instances of WorkflowService. *)
EXTENDS WorkflowService, TLC

Symmetry == Permutations(Execs)
================================================================================
