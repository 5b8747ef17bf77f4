--------------------------- MODULE StreamingExecutor ---------------------------
(***************************************************************************)
(* StreamingToolExecutor.ts under the query loop of query.ts: the tool     *)
(* calls of one assistant turn are started while the response still        *)
(* streams in, and their results are handed out on the way and drained at  *)
(* the end.                                                                *)
(*                                                                         *)
(* JavaScript runs all microtasks before it turns to an event (a chunk of  *)
(* the response, a tool's I/O, the user): Busy says that one is due.  A    *)
(* yield of the query loop waits for the consumer, and events may come in  *)
(* between.  No tool of the repository has an interruptBehavior, so every  *)
(* abort cancels; discard() has no caller outside its tests and is left    *)
(* out, like the context modifiers.                                        *)
(***************************************************************************)
EXTENDS Integers, Sequences

CONSTANTS
  N,            \* number of tool_use blocks of the turn
  KindsUsed,    \* the kinds of tools the model asks for
  Faults        \* subset of {"abort", "fail", "stream"}

Tools    == 1 .. N
Kinds    == {"read", "command", "shell", "edit", "unknown"}
SafeKind == {"read", "command"}   \* isConcurrencySafe(input)
Bash     == {"command", "shell"}  \* an error of these cancels the siblings

ASSUME ExecutorAssumption ==
  N \in Nat /\ KindsUsed \subseteq Kinds /\ Faults \subseteq {"abort", "fail", "stream"}

VARIABLES
  kind,      \* kind[t]
  status,    \* status[t]: "absent" before it is streamed, "skipped" if it never
             \* reached the executor, else TrackedTool.status
  progress,  \* tools with a pending progress message
  errored,   \* hasErrored
  aborted,   \* the signal of the query
  due,       \* a processQueue() has something left to look at
  loop,      \* what the query loop is doing
  pos,       \* where getCompletedResults() is
  draining,  \* in getRemainingResults()
  answers,   \* answers[t]: tool_result messages yielded for t
  emitted    \* the order of the results

vars == <<kind, status, progress, errored, aborted, due, loop, pos, draining,
          answers, emitted>>

Init ==
  /\ kind \in [Tools -> KindsUsed] /\ status = [t \in Tools |-> "absent"]
  /\ progress = {} /\ errored = FALSE /\ aborted = FALSE /\ due = FALSE
  /\ loop = "await" /\ pos = 1 /\ draining = FALSE
  /\ answers = [t \in Tools |-> 0] /\ emitted = <<>>

In(S)     == {t \in Tools : status[t] \in S}
Executing == In({"executing"})
First(S, t) == t \in S /\ \A u \in S : t <= u
Tracked   == Tools \ In({"absent", "skipped"})
Busy      == due \/ loop \in {"collect", "check", "process", "decide"}
Over      == loop \in {"over", "failed"}

--------------------------------------------------------------------------------

\* A block arrives: its message is yielded before anything else is done with it.
Receive ==
  /\ loop = "await" /\ ~ Busy /\ In({"absent"}) # {}
  /\ loop' = "shown"
  /\ UNCHANGED <<kind, status, progress, errored, aborted, due, pos, draining, answers, emitted>>

\* A message that brings no block: its handler hands out results all the same.
Message ==
  /\ loop = "await" /\ ~ Busy /\ ~ aborted
  /\ loop' = "collect" /\ pos' = 1
  /\ UNCHANGED <<kind, status, progress, errored, aborted, due, draining, answers, emitted>>

\* addTool(), which a query aborted by now does not call.
AddTool ==
  \E t \in Tools :
      /\ loop = "shown" /\ First(In({"absent"}), t)
      /\ status' = [status EXCEPT ![t] = IF aborted THEN "skipped"
                                         ELSE IF kind[t] = "unknown" THEN "completed"
                                         ELSE "queued"]
      /\ due' = (due \/ (~ aborted /\ kind[t] # "unknown"))
      /\ loop' = IF aborted THEN "await" ELSE "collect"
      /\ pos' = 1
      /\ UNCHANGED <<kind, progress, errored, aborted, draining, answers, emitted>>

\* Mutant: a safe tool may join whatever is executing.
CanExecuteJoin(t) == Executing = {} \/ kind[t] \in SafeKind

CanExecute(t) ==
  Executing = {} \/ (kind[t] \in SafeKind /\ \A u \in Executing : kind[u] \in SafeKind)

\* processQueue() goes through the tools in order and stops at an unsafe one that
\* cannot execute; a safe one that cannot is followed by none that can.
NextTool(t) == First(In({"queued"}), t)

\* executeTool(): an aborted or errored executor answers at once, without running it.
StartTool ==
  /\ due
  /\ \E t \in Tools :
       /\ NextTool(t) /\ CanExecute(t)
       /\ status' = [status EXCEPT ![t] = IF aborted \/ errored THEN "completed"
                                          ELSE "executing"]
  /\ UNCHANGED <<kind, progress, errored, aborted, due, loop, pos, draining, answers, emitted>>

QueueDone ==
  /\ due /\ ~ \E t \in Tools : NextTool(t) /\ CanExecute(t)
  /\ due' = FALSE
  /\ UNCHANGED <<kind, status, progress, errored, aborted, loop, pos, draining, answers, emitted>>

\* What getRemainingResults() waits for has come: a promise it races, or progress.
Awake == loop' = IF loop = "wait" THEN "check" ELSE loop

\* Mutant: the promise of the tool is not among those raced.
CompleteSilent(t, own) ==
  /\ status[t] = "executing"
  /\ status' = [status EXCEPT ![t] = "completed"]
  /\ errored' = (errored \/ (own = "error" /\ kind[t] \in Bash /\ ~ aborted))
  /\ due' = TRUE
  /\ UNCHANGED <<kind, progress, aborted, loop, pos, draining, answers, emitted>>

\* The tool ends, with its own result or, once aborted or errored, a synthetic error;
\* its own error cancels the siblings if it is Bash.
Complete(t, own) ==
  /\ status[t] = "executing"
  /\ status' = [status EXCEPT ![t] = "completed"]
  /\ errored' = (errored \/ (own = "error" /\ kind[t] \in Bash /\ ~ aborted))
  /\ due' = TRUE /\ Awake
  /\ UNCHANGED <<kind, progress, aborted, pos, draining, answers, emitted>>

\* Most tools end with an event; one whose input is invalid takes microtasks only.
ToolEnds(t)    == ~ Busy /\ ~ Over /\ Complete(t, "ok")
ToolFails(t)   == "fail" \in Faults /\ ~ Over /\ ~ Busy /\ Complete(t, "error")
ToolInvalid(t) == "fail" \in Faults /\ ~ Over /\ Complete(t, "error")

\* The error result of a Bash tool cancels the siblings when it comes, a while
\* before the tool is done.
ToolErrs(t) ==
  /\ "fail" \in Faults /\ ~ Over /\ status[t] = "executing" /\ kind[t] \in Bash /\ ~ aborted
  /\ errored' = TRUE
  /\ UNCHANGED <<kind, status, progress, aborted, due, loop, pos, draining, answers, emitted>>

Progress(t) ==
  /\ ~ Busy /\ ~ Over /\ status[t] = "executing" /\ ~ aborted /\ ~ errored
  /\ progress' = progress \cup {t} /\ Awake
  /\ UNCHANGED <<kind, status, errored, aborted, due, pos, draining, answers, emitted>>

\* The user's abort, or a permission dialog that aborts the whole query.
Abort ==
  /\ "abort" \in Faults /\ ~ Busy /\ ~ Over /\ ~ aborted
  /\ aborted' = TRUE
  /\ UNCHANGED <<kind, status, progress, errored, due, loop, pos, draining, answers, emitted>>

--------------------------------------------------------------------------------

\* Where getCompletedResults() stops: at a message to yield, or an unsafe tool.
Yields(t) == t \in progress \/ status[t] = "completed"
Blocks(t) == status[t] = "executing" /\ kind[t] \notin SafeKind
Stops     == {t \in Tools : t >= pos /\ (Yields(t) \/ Blocks(t))}

\* The result of a completed tool is yielded to the consumer.
YieldResult ==
  \E t \in Tools :
      /\ loop = "collect" /\ First(Stops, t) /\ t \notin progress /\ status[t] = "completed"
      /\ status' = [status EXCEPT ![t] = "yielded"]
      /\ answers' = [answers EXCEPT ![t] = @ + 1] /\ emitted' = Append(emitted, t)
      /\ pos' = t + 1 /\ loop' = "given"
      /\ UNCHANGED <<kind, progress, errored, aborted, due, draining>>

YieldProgress ==
  \E t \in Tools :
      /\ loop = "collect" /\ First(Stops, t) /\ t \in progress
      /\ progress' = progress \ {t}
      /\ pos' = t /\ loop' = "given"
      /\ UNCHANGED <<kind, status, errored, aborted, due, draining, answers, emitted>>

\* The consumer comes back for more.
ConsumerBack ==
  /\ loop = "given" /\ loop' = "collect"
  /\ UNCHANGED <<kind, status, progress, errored, aborted, due, pos, draining, answers, emitted>>

CollectEnds ==
  /\ loop = "collect" /\ ~ \E t \in Tools : First(Stops, t) /\ Yields(t)
  /\ loop' = IF draining THEN "decide" ELSE "await"
  /\ pos' = 1
  /\ UNCHANGED <<kind, status, progress, errored, aborted, due, draining, answers, emitted>>

\* The response is complete, or cut off by the abort: getRemainingResults().
EndStream ==
  /\ loop = "await" /\ ~ Busy /\ (aborted \/ In({"absent"}) = {})
  /\ draining' = TRUE /\ loop' = "check"
  /\ UNCHANGED <<kind, status, progress, errored, aborted, due, pos, answers, emitted>>

\* The stream throws: every tool_use block gets an error result and the query returns.
StreamFails ==
  /\ "stream" \in Faults /\ loop = "await" /\ ~ Busy
  /\ answers' = [t \in Tools |-> IF status[t] = "absent" THEN 0 ELSE answers[t] + 1]
  /\ loop' = "failed"
  /\ UNCHANGED <<kind, status, progress, errored, aborted, due, pos, draining, emitted>>

\* An image the API refuses: the query returns, and the blocks stay as they are.
ImageFails ==
  /\ "stream" \in Faults /\ loop = "await" /\ ~ Busy
  /\ loop' = "failed"
  /\ UNCHANGED <<kind, status, progress, errored, aborted, due, pos, draining, answers, emitted>>

\* while (hasUnfinishedTools()) await processQueue()
DrainCheck ==
  /\ loop = "check"
  /\ IF In({"queued", "executing", "completed"}) = {}
       THEN loop' = "over" /\ UNCHANGED due
       ELSE loop' = "process" /\ due' = TRUE
  /\ UNCHANGED <<kind, status, progress, errored, aborted, pos, draining, answers, emitted>>

DrainCollect ==
  /\ loop = "process" /\ ~ due
  /\ loop' = "collect" /\ pos' = 1
  /\ UNCHANGED <<kind, status, progress, errored, aborted, due, draining, answers, emitted>>

\* With nothing to hand out, wait for a tool that executes; else go round again.
DrainDecide ==
  /\ loop = "decide"
  /\ loop' = IF Executing # {} /\ In({"completed"}) = {} /\ progress = {}
               THEN "wait" ELSE "check"
  /\ UNCHANGED <<kind, status, progress, errored, aborted, due, pos, draining, answers, emitted>>

Executor == StartTool \/ QueueDone
Query ==
  \/ AddTool \/ YieldResult \/ YieldProgress \/ ConsumerBack \/ CollectEnds \/ EndStream
  \/ DrainCheck \/ DrainCollect \/ DrainDecide

Next ==
  \/ Executor \/ Query \/ Receive \/ Message \/ Abort \/ StreamFails \/ ImageFails
  \/ \E t \in Tools : ToolEnds(t) \/ ToolFails(t) \/ ToolInvalid(t) \/ ToolErrs(t) \/ Progress(t)

Spec == Init /\ [][Next]_vars

\* The event loop runs what is due, the consumer keeps reading, the response comes to
\* an end, and so does every tool, however much progress it reports.
FairSpec ==
  /\ Spec
  /\ WF_vars(Executor) /\ WF_vars(Query) /\ WF_vars(Receive)
  /\ \A t \in Tools : SF_vars(ToolEnds(t))

--------------------------------------------------------------------------------

\* The variables have their types.
TypeOK ==
  /\ kind \in [Tools -> Kinds]
  /\ status \in [Tools -> {"absent", "skipped", "queued", "executing", "completed", "yielded"}]
  /\ progress \subseteq Tracked
  /\ {errored, aborted, due, draining} \subseteq BOOLEAN
  /\ loop \in {"await", "shown", "collect", "given", "check", "process", "decide",
               "wait", "over", "failed"}
  /\ pos \in 1 .. N + 1 /\ answers \in [Tools -> Nat] /\ emitted \in Seq(Tools)

\* What the discipline sees of a tool.
Progressed == [t \in Tools |-> IF status[t] = "executing" THEN "running"
                               ELSE IF status[t] \in {"completed", "yielded"} THEN "finished"
                               ELSE "waiting"]

\* The tools start in order, an unsafe one alone, and none twice.
Discipline == INSTANCE ToolDiscipline WITH state <- Progressed

ImplementsDiscipline == Discipline!Spec

\* The model has one result for each call the executor was given, cancelled ones
\* included, and nothing of the turn still runs.
AnsweredOnce ==
  /\ Executing = {}
  /\ \A t \in Tools : answers[t] = IF t \in Tracked THEN 1 ELSE 0

\* The result of an unsafe tool came before those of the tools behind it.
BarrierOrder ==
  \A i, j \in DOMAIN emitted :
    i < j => kind[emitted[j]] \in SafeKind \/ emitted[i] <= emitted[j]

\* "Results are buffered and emitted in the order tools were received"
\* (StreamingToolExecutor.ts:40).
ReceivedOrder == \A i, j \in DOMAIN emitted : i < j => emitted[i] < emitted[j]

\* "executor generates synthetic tool_results for aborted tools" (query.ts:1116):
\* without them "tool_use blocks would lack matching tool_result blocks".
EveryBlockAnswered ==
  loop = "over" => \A t \in Tools : status[t] # "absent" => answers[t] > 0

\* The drain comes to an end, if the tools do: no wake-up is lost.  And then each
\* call has its one result, in an order that respects the unsafe tools, though the
\* consumer may have dawdled in the middle of getCompletedResults()
\* (StreamingToolExecutor.ts:441-513).
DrainEnds == draining ~> Over /\ AnsweredOnce /\ BarrierOrder
================================================================================
