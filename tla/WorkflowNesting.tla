---------------------------- MODULE WorkflowNesting ----------------------------
(***************************************************************************)
(* workflow(): a script that runs another script (hooks.ts, runWorkflow.ts *)
(* runSubWorkflow).  A caller is a fiber of the main script, or, once its  *)
(* sub-workflow executes, the script of that sub-workflow.                 *)
(***************************************************************************)
EXTENDS Integers, FiniteSets

CONSTANTS Callers,   \* the fibers of the main script that call workflow()
          MaxCalls   \* bound: calls of each

ASSUME NestingAssumption == IsFiniteSet(Callers) /\ MaxCalls \in Nat

VARIABLES
  depth,    \* ctx.resources.depth
  at,       \* at[c]: "main", "resolving" the sub-script, "sub" while it executes,
            \* "resolving2" and "sub2" for a workflow() call made by the sub-workflow
            \* (a third level is left out)
  saved,    \* saved[c][level]: prevDepth of the sub-workflow executing at that level
  calls,    \* calls[c]: workflow() calls made by fiber c
  overlap   \* two calls of workflow() have been under way at once (history)

nestingVars == <<depth, at, saved, calls, overlap>>

Resolving == {"resolving", "resolving2"}

NestingInit ==
  /\ depth = 0
  /\ at = [c \in Callers |-> "main"]
  /\ saved = [c \in Callers |-> <<0, 0>>]
  /\ calls = [c \in Callers |-> 0]
  /\ overlap = FALSE

\* Mutant: the check lets one more level in.
CallTwoLevels(c, from, to) ==
  /\ at[c] = from
  /\ calls[c] < MaxCalls /\ calls' = [calls EXCEPT ![c] = @ + 1]
  /\ at' = [at EXCEPT ![c] = IF depth >= 2 THEN from ELSE to]
  /\ overlap' = (overlap \/ \E d \in Callers \ {c} : at[d] # "main")
  /\ UNCHANGED <<depth, saved>>

\* workflow(): the depth is checked (a refused call throws and changes nothing), then
\* the sub-script is read, while the depth is still the old one.
Call(c, from, to) ==
  /\ at[c] = from
  /\ calls[c] < MaxCalls /\ calls' = [calls EXCEPT ![c] = @ + 1]
  /\ at' = [at EXCEPT ![c] = IF depth >= 1 THEN from ELSE to]
  /\ overlap' = (overlap \/ \E d \in Callers \ {c} : at[d] # "main")
  /\ UNCHANGED <<depth, saved>>

\* The sub-script was not found or does not parse: workflow() rejects.
Unresolved(c, from, back) ==
  /\ at[c] = from
  /\ at' = [at EXCEPT ![c] = back]
  /\ UNCHANGED <<depth, saved, calls, overlap>>

\* The sub-script is there: prevDepth is read and the depth raised.
Enter(c, from, to, level) ==
  /\ at[c] = from
  /\ saved' = [saved EXCEPT ![c][level] = depth]
  /\ depth' = depth + 1
  /\ at' = [at EXCEPT ![c] = to]
  /\ UNCHANGED <<calls, overlap>>

\* The sub-workflow is over, whatever its outcome: the depth read before is restored.
Leave(c, from, back, level) ==
  /\ at[c] = from
  /\ depth' = saved[c][level]
  /\ at' = [at EXCEPT ![c] = back]
  /\ UNCHANGED <<saved, calls, overlap>>

NestingNext == \E c \in Callers :
  \/ Call(c, "main", "resolving")  \/ Call(c, "sub", "resolving2")
  \/ Unresolved(c, "resolving", "main") \/ Unresolved(c, "resolving2", "sub")
  \/ Enter(c, "resolving", "sub", 1) \/ Enter(c, "resolving2", "sub2", 2)
  \/ Leave(c, "sub", "main", 1) \/ Leave(c, "sub2", "sub", 2)

NestingSpec == NestingInit /\ [][NestingNext]_nestingVars

--------------------------------------------------------------------------------

Executing == {c \in Callers : at[c] \in {"sub", "sub2", "resolving2"}}

\* The variables have their types.
NestingTypeOK ==
  /\ depth \in Nat
  /\ at \in [Callers -> {"main", "sub", "sub2"} \cup Resolving]
  /\ saved \in [Callers -> Nat \X Nat]
  /\ calls \in [Callers -> 0 .. MaxCalls]
  /\ overlap \in BOOLEAN

\* "workflow() nesting allows only one level" (hooks.ts:286).
OneLevel == \A c \in Callers : at[c] \notin {"resolving2", "sub2"}

\* "depth is temporarily +1 while executing a sub-workflow" (context.ts:8): once no
\* sub-workflow executes the depth is back at 0, and workflow() can be called again.
DepthRestored == Executing = {} => depth = 0

\* Both hold as long as the script never has two workflow() calls under way at once.
SerialNesting == ~ overlap => OneLevel /\ DepthRestored
================================================================================
