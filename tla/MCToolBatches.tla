----------------------------- MODULE MCToolBatches -----------------------------
(* TLC instances of ToolBatches. *)
EXTENDS ToolBatches

\* SOPHIA_MAX_TOOL_USE_CONCURRENCY=-1
NegativeCap == -1
================================================================================
