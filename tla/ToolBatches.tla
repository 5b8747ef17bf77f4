------------------------------ MODULE ToolBatches ------------------------------
(***************************************************************************)
(* runTools() of toolOrchestration.ts, the default runner of the tool      *)
(* calls of a turn once the response is complete: consecutive concurrency  *)
(* safe calls form a batch that all() of generators.ts runs together,      *)
(* every other call is a batch of its own.                                 *)
(*                                                                         *)
(* Tools and consumer are generators: a tool stops at each message until   *)
(* it is asked for the next one, and runTools() until the consumer is back.*)
(* runToolUse() is taken to yield any progress and then exactly one result,*)
(* also for an unknown, failed or aborted call.                            *)
(***************************************************************************)
EXTENDS Integers, Sequences, FiniteSets

CONSTANTS
  N,          \* number of tool_use blocks
  KindsUsed,  \* the kinds of tools the model asks for
  Cap         \* getMaxToolUseConcurrency(): any integer but 0

Tools    == 1 .. N
Kinds    == {"read", "command", "shell", "edit", "unknown"}
SafeKind == {"read", "command"}   \* isConcurrencySafe(input)

ASSUME BatchAssumption == N \in Nat /\ KindsUsed \subseteq Kinds /\ Cap \in Int \ {0}

VARIABLES
  kind,      \* kind[t]: the kind of call t
  modifies,  \* calls whose result carries a contextModifier
  first,     \* first call of the batch
  tool,      \* tool[t]: what its generator is doing
  answers,   \* answers[t]: results of t the consumer was given
  queued,    \* queuedContextModifiers of the batch
  context,   \* currentContext: the modifiers applied, in order
  loop       \* what runTools() is doing

vars == <<kind, modifies, first, tool, answers, queued, context, loop>>

Init ==
  /\ kind \in [Tools -> KindsUsed] /\ modifies \in SUBSET Tools
  /\ first = 1 /\ tool = [t \in Tools |-> "waiting"]
  /\ answers = [t \in Tools |-> 0]
  /\ queued = {} /\ context = <<>> /\ loop = "batch"

Concurrent == kind[first] \in SafeKind

\* partitionToolCalls(): the batch that begins at "first".
Batch ==
  IF Concurrent THEN {t \in first .. N : \A u \in first .. t : kind[u] \in SafeKind}
                ELSE {first}

Active    == {t \in Tools : tool[t] \notin {"waiting", "finished"}}
Waiting   == {t \in Batch : tool[t] = "waiting"}
Next1(t)  == t \in Waiting /\ \A u \in Waiting : t <= u

\* The calls of S in the order they were received: each at the place its rank gives it.
InOrder(S) ==
  LET rank(t) == Cardinality({u \in S : u <= t})
  IN  [n \in 1 .. Cardinality(S) |-> CHOOSE t \in S : rank(t) = n]

--------------------------------------------------------------------------------

StartBatch ==
  /\ loop = "batch" /\ first <= N
  /\ loop' = "fill" /\ queued' = {}
  /\ UNCHANGED <<kind, modifies, first, tool, answers, context>>

\* Mutant: all() forgets its cap.
RoomUncapped == TRUE

\* promises.size < concurrencyCap; a batch of one is run without all().
Room == Concurrent => Cardinality(Active) < Cap

\* Mutant: all() starts the call it received last.
FillNewest ==
  /\ loop = "fill" /\ Room
  /\ \E t \in Waiting :
       /\ \A u \in Waiting : u <= t
       /\ tool' = [tool EXCEPT ![t] = "running"]
  /\ UNCHANGED <<kind, modifies, first, answers, queued, context, loop>>

\* Start the next call of the batch, while there is room.
Fill ==
  /\ loop = "fill" /\ Room
  /\ \E t \in Waiting : Next1(t) /\ tool' = [tool EXCEPT ![t] = "running"]
  /\ UNCHANGED <<kind, modifies, first, answers, queued, context, loop>>

\* while (promises.size > 0): race, or the batch is over.
Filled ==
  /\ loop = "fill" /\ (Waiting = {} \/ ~ Room)
  /\ loop' = IF Active = {} THEN "apply" ELSE "race"
  /\ UNCHANGED <<kind, modifies, first, tool, answers, queued, context>>

\* The generator of a tool arrives at its next message, or at its end.
Reports(t, what) ==
  /\ tool[t] = "running"
  /\ \/ what = "progress"
     \/ what = "result" /\ answers[t] = 0
     \/ what = "end" /\ answers[t] = 1
  /\ tool' = [tool EXCEPT ![t] = what]
  /\ UNCHANGED <<kind, modifies, first, answers, queued, context, loop>>

\* Mutant: the modifier of a concurrent call is applied at once.
TakeUnordered(t) ==
  /\ loop = "race" /\ tool[t] \in {"progress", "result"}
  /\ tool' = [tool EXCEPT ![t] = IF Concurrent THEN "running" ELSE "held"]
  /\ answers' = [answers EXCEPT ![t] = IF tool[t] = "result" THEN @ + 1 ELSE @]
  /\ context' = IF tool[t] = "result" /\ t \in modifies THEN Append(context, t) ELSE context
  /\ loop' = "given"
  /\ UNCHANGED <<kind, modifies, first, queued>>

\* A message is yielded to the consumer.  all() resumes the tool before that, a
\* tool on its own waits for the consumer.  The context modifier of a concurrent
\* call is put aside, that of a call on its own is applied.
Take(t) ==
  /\ loop = "race" /\ tool[t] \in {"progress", "result"}
  /\ tool' = [tool EXCEPT ![t] = IF Concurrent THEN "running" ELSE "held"]
  /\ answers' = [answers EXCEPT ![t] = IF tool[t] = "result" THEN @ + 1 ELSE @]
  /\ LET modified == tool[t] = "result" /\ t \in modifies
     IN /\ queued' = IF Concurrent /\ modified THEN queued \cup {t} ELSE queued
        /\ context' = IF ~ Concurrent /\ modified THEN Append(context, t) ELSE context
  /\ loop' = "given"
  /\ UNCHANGED <<kind, modifies, first>>

\* Mutant: a tool on its own is not asked for its next message.
ConsumerBackOnly ==
  /\ loop = "given" /\ loop' = "race"
  /\ UNCHANGED <<kind, modifies, first, tool, answers, queued, context>>

\* The consumer asks for more, and so is a tool on its own.
ConsumerBack ==
  /\ loop = "given" /\ loop' = "race"
  /\ tool' = [t \in Tools |-> IF tool[t] = "held" THEN "running" ELSE tool[t]]
  /\ UNCHANGED <<kind, modifies, first, answers, queued, context>>

\* A generator is done: its place goes to one that waits.
TakeEnd(t) ==
  /\ loop = "race" /\ tool[t] = "end"
  /\ tool' = [tool EXCEPT ![t] = "finished"]
  /\ loop' = "fill"
  /\ UNCHANGED <<kind, modifies, first, answers, queued, context>>

\* The modifiers put aside are applied in the order of the calls.
EndBatch ==
  /\ loop = "apply"
  /\ context' = context \o InOrder(queued)
  /\ queued' = {} /\ loop' = "batch"
  /\ first' = first + Cardinality(Batch)
  /\ UNCHANGED <<kind, modifies, tool, answers>>

RunTools ==
  \/ StartBatch \/ Fill \/ Filled \/ ConsumerBack \/ EndBatch
  \/ \E t \in Tools : Take(t) \/ TakeEnd(t)

Next == RunTools \/ \E t \in Tools, what \in {"progress", "result", "end"} : Reports(t, what)

Spec == Init /\ [][Next]_vars

\* runTools() goes on, the consumer comes back, and every tool gets to its result
\* and its end, however much progress it reports.  A promise that has resolved wins
\* the race in the end: all() puts every new promise behind it in its set.
FairSpec ==
  /\ Spec /\ WF_vars(RunTools)
  /\ \A t \in Tools : /\ SF_vars(Reports(t, "result") \/ Reports(t, "end"))
                      /\ SF_vars(TakeEnd(t) \/ (Take(t) /\ tool[t] = "result"))

--------------------------------------------------------------------------------

\* The variables have their types.
TypeOK ==
  /\ kind \in [Tools -> Kinds] /\ modifies \subseteq Tools
  /\ first \in 1 .. N + 1 /\ queued \subseteq Tools /\ context \in Seq(Tools)
  /\ tool \in [Tools -> {"waiting", "running", "progress", "result", "held", "end", "finished"}]
  /\ answers \in [Tools -> Nat]
  /\ loop \in {"batch", "fill", "race", "given", "apply"}

\* "yielding values ... up to a concurrency cap" (generators.ts:33): however the
\* ends of the tools interleave, no more than the cap of them are on their way.
CapRespected == Cardinality(Active) <= (IF Cap > 1 THEN Cap ELSE 1)

\* A call runs in the context that the batches before its own leave behind, whatever
\* order their tools ended in, and the turn ends with all modifiers in order.
ContextInOrder ==
  LET before == InOrder({t \in modifies : t < first})
  IN /\ \A t \in Active : answers[t] = 0 => context = before
     /\ loop = "batch" => context = before

\* Each call has one result for the model when runTools() returns ("Run all
\* generators", generators.ts:33).
AnsweredOnce ==
  /\ \A t \in Tools : answers[t] <= 1
  /\ loop = "batch" => \A t \in 1 .. first - 1 : answers[t] = 1

\* The calls start in order, an unsafe one alone, and none twice.
Discipline ==
  INSTANCE ToolDiscipline WITH
    state <- [t \in Tools |-> IF tool[t] \in {"waiting", "finished"} THEN tool[t]
                              ELSE "running"]

ImplementsDiscipline == Discipline!Spec

\* "contextModifier is only honored for tools that aren't concurrency safe"
\* (Tool.ts:312).
OnlyUnsafeModify == \A i \in DOMAIN context : kind[context[i]] \notin SafeKind

\* All batches are run: no call is left in the queue of all() (generators.ts:38-72),
\* and each has one result for the model.
BatchesEnd == <>(loop = "batch" /\ first > N /\ AnsweredOnce)
================================================================================
