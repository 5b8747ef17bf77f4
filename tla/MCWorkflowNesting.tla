--------------------------- MODULE MCWorkflowNesting ---------------------------
(* TLC instances of WorkflowNesting. *)
EXTENDS WorkflowNesting, TLC

Symmetry == Permutations(Callers)
================================================================================
