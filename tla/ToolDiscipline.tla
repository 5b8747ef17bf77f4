----------------------------- MODULE ToolDiscipline -----------------------------
(***************************************************************************)
(* What both tool runners of a turn promise about the tool calls of one    *)
(* assistant turn: they start in the order they were received, a tool that *)
(* is not concurrency safe runs alone, and none runs twice.                *)
(***************************************************************************)
EXTENDS Integers

CONSTANT N  \* number of calls

Tools == 1 .. N

Kinds    == {"read", "command", "shell", "edit", "unknown"}
SafeKind == {"read", "command"}   \* isConcurrencySafe(input)

VARIABLES
  kind,   \* kind[t]: what the call asks for; "unknown" is no tool of ours
  state   \* state[t]: waiting, running or finished

vars == <<kind, state>>

Running == {t \in Tools : state[t] = "running"}

Init == /\ kind \in [Tools -> Kinds]
        /\ state = [t \in Tools |-> "waiting"]

InTurn(t) == \A u \in 1 .. t - 1 : state[u] = "waiting" => kind[u] = "unknown"

Start(t) ==
  /\ state[t] = "waiting" /\ InTurn(t)
  /\ Running # {} => kind[t] \in SafeKind /\ \A u \in Running : kind[u] \in SafeKind
  /\ state' = [state EXCEPT ![t] = "running"]
  /\ UNCHANGED kind

Finish(t) ==
  /\ state[t] = "running"
  /\ state' = [state EXCEPT ![t] = "finished"]
  /\ UNCHANGED kind

\* The call is answered without running: cancelled, or not a tool at all.
Refuse(t) ==
  /\ state[t] = "waiting" /\ (InTurn(t) \/ kind[t] = "unknown")
  /\ state' = [state EXCEPT ![t] = "finished"]
  /\ UNCHANGED kind

Next == \E t \in Tools : Start(t) \/ Finish(t) \/ Refuse(t)

Spec == Init /\ [][Next]_vars

--------------------------------------------------------------------------------

TypeOK == /\ kind \in [Tools -> Kinds]
          /\ state \in [Tools -> {"waiting", "running", "finished"}]

\* "Non-concurrent tools must execute alone (exclusive access)"
\* (StreamingToolExecutor.ts:39).
Exclusive == \A t, u \in Running : t # u => kind[t] \in SafeKind
================================================================================
