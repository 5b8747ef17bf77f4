---------------------------- MODULE WorkflowService ----------------------------
(***************************************************************************)
(* The host side of workflow runs: the task registrar (src/workflow/       *)
(* ports.ts), the service (service.ts), the tasks in the app state         *)
(* (LocalWorkflowTask.ts), the progress store and the notifications.       *)
(* An execution is one register() and the runWorkflow() it starts; its     *)
(* task has its name.  A new run takes the id of its task; a resume        *)
(* registers a new task under the id of an earlier run.  What the engine   *)
(* does inside a run is WorkflowRun; here it ends with any status it can.  *)
(***************************************************************************)
EXTENDS Integers, FiniteSets

CONSTANTS
  Execs,      \* the executions
  OldRuns,    \* runs of earlier processes, known from their state.json
  None        \* no execution, no run, no status

Runs     == Execs \cup OldRuns
Terminal == {"completed", "failed", "killed"}

ASSUME ServiceAssumption ==
  IsFiniteSet(Execs) /\ None \notin Runs \cup Terminal \cup {"running", "evicted"}

VARIABLES
  phase,    \* phase[e]: "new", "starting", "running", "done" (run_done emitted), "over"
  result,   \* result[e]: the status runWorkflow() returns
  runOf,    \* runOf[e]: its run
  aborted,  \* the executions whose signal has aborted
  task,     \* task[e]: status of its task in the app state, "evicted" when removed
  binding,  \* bindings of the registrar: binding[r] is the execution kill() reaches
  store,    \* store[r]: status in the progress store
  prev,     \* prev[r]: prevStatus of the notification bridge
  notices,  \* notices[r]: notifications sent for run r
  shut,     \* shutdown() has run; bounds it to one call
  doubled,  \* runs resumed while an execution of them was not over (history)
  stopped   \* executions whose task was stopped by TaskStop (history)

vars == <<phase, result, runOf, aborted, task, binding, store, prev, notices, shut,
          doubled, stopped>>
app  == <<aborted, task, binding>>
view == <<store, prev, notices>>
hist == <<doubled, stopped>>

Init ==
  /\ phase = [e \in Execs |-> "new"] /\ result = [e \in Execs |-> None]
  /\ runOf = [e \in Execs |-> None] /\ aborted = {}
  /\ task = [e \in Execs |-> None] /\ binding = [r \in Runs |-> None]
  /\ store = [r \in Runs |-> None] /\ prev = [r \in Runs |-> None]
  /\ notices = [r \in Runs |-> 0] /\ shut = FALSE
  /\ doubled = {} /\ stopped = {}

Live == {e \in Execs : phase[e] \in {"starting", "running"}}

--------------------------------------------------------------------------------

\* register(): a task for e, and a binding that replaces the one the run had.
Register(e, r) ==
  /\ phase[e] = "new"
  /\ phase' = [phase EXCEPT ![e] = "starting"]
  /\ runOf' = [runOf EXCEPT ![e] = r]
  /\ task' = [task EXCEPT ![e] = "running"]
  /\ binding' = [binding EXCEPT ![r] = e]
  /\ doubled' = IF \E d \in Execs : runOf[d] = r /\ phase[d] # "over"
                  THEN doubled \cup {r} ELSE doubled
  /\ UNCHANGED <<result, aborted, shut, stopped, view>>

Launch(e) == Register(e, e)

\* resumeFromRunId: nothing asks whether the run is still going on.
ResumeRun(e, r) ==
  /\ r \in OldRuns \/ \E d \in Execs : runOf[d] = r
  /\ Register(e, r)

\* The store makes an entry for the run, if it has none, and applies the status.
Shown(r, status) == store' = [store EXCEPT ![r] = status]

\* Mutant: a run that ended before the bridge was there is notified as well.
ReportFirstSight(r, status) ==
  /\ store' = [store EXCEPT ![r] = status]
  /\ prev' = [prev EXCEPT ![r] = status]
  /\ notices' = IF prev[r] # status /\ status \in Terminal
                  THEN [notices EXCEPT ![r] = @ + 1] ELSE notices

\* Every change of the store reaches the bridge, which notifies when a run it has seen
\* before enters a terminal status.
Report(r, status) ==
  /\ Shown(r, status)
  /\ prev' = [prev EXCEPT ![r] = status]
  /\ notices' = IF prev[r] \notin {None, status} /\ status \in Terminal
                  THEN [notices EXCEPT ![r] = @ + 1] ELSE notices

\* The inline script is saved, the journal is read: run_started.
Begin(e) ==
  /\ phase[e] = "starting"
  /\ phase' = [phase EXCEPT ![e] = "running"]
  /\ Report(runOf[e], "running")
  /\ UNCHANGED <<result, runOf, shut, app, hist>>

\* run_done, with any status whatever became of the signal: a killed run may complete
\* or fail, and the abort of a single agent may end a run as killed.
Finish(e, status) ==
  /\ phase[e] = "running"
  /\ phase' = [phase EXCEPT ![e] = "done"]
  /\ result' = [result EXCEPT ![e] = status]
  /\ Report(runOf[e], status)
  /\ UNCHANGED <<runOf, shut, app, hist>>

\* killWorkflowTask(): only a running task is aborted and marked.
Killed(es) ==
  LET running == {e \in es : task[e] = "running"}
  IN  /\ aborted' = aborted \cup running
      /\ task' = [e \in Execs |-> IF e \in running THEN "killed" ELSE task[e]]

\* completeWorkflowTask(), failWorkflowTask(): they do not look at the status.
Marked(e, status) ==
  /\ task' = [task EXCEPT ![e] = IF @ = "evicted" THEN @ ELSE status]
  /\ UNCHANGED aborted

\* Mutant: kill() does not delete the binding.
KillRunKeepsBinding(r) ==
  /\ binding[r] # None
  /\ Killed({binding[r]})
  /\ UNCHANGED <<phase, result, runOf, shut, binding, view, hist>>

\* Mutant: the controller that is aborted is not the one of the execution.
KillRunNoAbort(r) ==
  /\ binding[r] # None
  /\ task' = [task EXCEPT ![binding[r]] = IF @ = "running" THEN "killed" ELSE @]
  /\ binding' = [binding EXCEPT ![r] = None]
  /\ UNCHANGED <<phase, result, runOf, shut, aborted, view, hist>>

\* registrar.kill(), by the service, the panel or shutdown.
KillRun(r) ==
  /\ binding[r] # None
  /\ Killed({binding[r]})
  /\ binding' = [binding EXCEPT ![r] = None]
  /\ UNCHANGED <<phase, result, runOf, shut, view, hist>>

\* Mutant: a run that was not killed is completed.
SettleCompleted(e) ==
  LET b == binding[runOf[e]]
  IN  /\ phase[e] = "done"
      /\ phase' = [phase EXCEPT ![e] = "over"]
      /\ task' = [d \in Execs |-> IF d = b /\ task[d] = "running" THEN "completed" ELSE task[d]]
      /\ binding' = [binding EXCEPT ![runOf[e]] = None]
      /\ UNCHANGED <<result, runOf, shut, aborted, view, hist>>

\* Mutant: fail() deletes the binding first and then does not find the task.
SettleUnmarked(e) ==
  LET b == IF result[e] = "failed" THEN None ELSE binding[runOf[e]]
  IN  /\ phase[e] = "done"
      /\ phase' = [phase EXCEPT ![e] = "over"]
      /\ task' = [d \in Execs |-> IF d = b /\ task[d] = "running" THEN result[e] ELSE task[d]]
      /\ binding' = [binding EXCEPT ![runOf[e]] = None]
      /\ UNCHANGED <<result, runOf, shut, aborted, view, hist>>

\* Mutant: fail() forgets to delete the binding.
SettleLeaks(e) ==
  LET b == binding[runOf[e]]
  IN  /\ phase[e] = "done"
      /\ phase' = [phase EXCEPT ![e] = "over"]
      /\ task' = [d \in Execs |-> IF d = b /\ task[d] # "evicted" THEN result[e] ELSE task[d]]
      /\ binding' = IF result[e] = "failed" THEN binding
                    ELSE [binding EXCEPT ![runOf[e]] = None]
      /\ UNCHANGED <<result, runOf, shut, aborted, view, hist>>

\* The run's promise resolves: complete(), fail() or kill() on whatever the run is
\* bound to now.
Settle(e) ==
  LET b == binding[runOf[e]]
  IN  /\ phase[e] = "done"
      /\ phase' = [phase EXCEPT ![e] = "over"]
      /\ IF b = None THEN UNCHANGED app
         ELSE /\ binding' = [binding EXCEPT ![runOf[e]] = None]
              /\ IF result[e] = "killed" THEN Killed({b}) ELSE Marked(b, result[e])
      /\ UNCHANGED <<result, runOf, shut, view, hist>>

\* TaskStop or the tasks dialog: the task is killed behind the registrar's back.
StopTask(e) ==
  /\ task[e] = "running"
  /\ Killed({e}) /\ stopped' = stopped \cup {e}
  /\ UNCHANGED <<phase, result, runOf, shut, binding, doubled, view>>

\* The task framework removes a task that is terminal and notified, as these are.
Evict(e) ==
  /\ task[e] \in Terminal
  /\ task' = [task EXCEPT ![e] = "evicted"]
  /\ UNCHANGED <<phase, result, runOf, shut, aborted, binding, view, hist>>

\* loadPersistedRuns(): a run the store does not know is shown as it was saved.
Hydrate(r) ==
  /\ r \in OldRuns /\ store[r] = None
  /\ \E status \in Terminal : Report(r, status)
  /\ UNCHANGED <<phase, result, runOf, shut, app, hist>>

\* shutdown(): kills what the store lists as running.
Shutdown ==
  LET rs == {r \in Runs : store[r] = "running"}
  IN  /\ ~ shut /\ shut' = TRUE
      /\ Killed({binding[r] : r \in rs} \ {None})
      /\ binding' = [r \in Runs |-> IF r \in rs THEN None ELSE binding[r]]
      /\ UNCHANGED <<phase, result, runOf, view, hist>>

Next ==
  \/ \E e \in Execs : \/ Launch(e) \/ Begin(e) \/ Settle(e) \/ StopTask(e) \/ Evict(e)
                      \/ \E r \in Runs : ResumeRun(e, r)
                      \/ \E status \in Terminal : Finish(e, status)
  \/ \E r \in Runs : KillRun(r) \/ Hydrate(r)
  \/ Shutdown

Spec == Init /\ [][Next]_vars

--------------------------------------------------------------------------------

\* The variables have their types.
TypeOK ==
  /\ phase \in [Execs -> {"new", "starting", "running", "done", "over"}]
  /\ result \in [Execs -> Terminal \cup {None}]
  /\ \A e \in Execs : result[e] # None <=> phase[e] \in {"done", "over"}
  /\ runOf \in [Execs -> Runs \cup {None}] /\ {aborted, stopped} \subseteq SUBSET Execs
  /\ task \in [Execs -> Terminal \cup {"running", "evicted", None}]
  /\ binding \in [Runs -> Execs \cup {None}]
  /\ {store, prev} \subseteq [Runs -> Terminal \cup {"running", None}]
  /\ notices \in [Runs -> Nat] /\ shut \in BOOLEAN /\ doubled \subseteq Runs

\* A binding never outlives its execution: every way a run can end takes its entry out
\* of the map, even when another execution of the run has replaced or removed it.
NoBindingLeak == \A r \in Runs : binding[r] # None =>
                   runOf[binding[r]] = r /\ phase[binding[r]] # "over"

\* The executions that never shared their run with another one.
Alone == {e \in Execs : runOf[e] \notin doubled}

\* An execution whose signal has not aborted can be killed through its run (ports.ts:
\* kill() finds it by its binding), if the run was not resumed meanwhile.
Killable == \A e \in Live \cap Alone : e \notin aborted => binding[runOf[e]] = e

\* No task is left running once its execution is over, if the run was not resumed
\* meanwhile (service.ts: every settled promise completes, fails or kills its task).
NoZombieTask == \A e \in Alone : phase[e] = "over" => task[e] # "running"

\* The end of an execution marks its own task, and only with its own result, if the run
\* was not resumed meanwhile (LocalWorkflowTask.ts, called by run id from service.ts).
OwnResultOnly ==
  [][\A e \in Alone : task[e] = "running" /\ task'[e] \in {"completed", "failed"} =>
       phase[e] = "done" /\ result[e] = task'[e]]_vars

\* "You will also be notified on completion" (WorkflowTool.ts:167): each execution that
\* ends has sent one notification for its run, and no more than one.
NotifiedOncePerEnd ==
  \A r \in Runs : notices[r] = Cardinality({e \in Execs : runOf[e] = r /\ result[e] # None})

\* ... which holds for the runs that were not resumed while they were going on.
NotifiedUnlessDoubled ==
  \A r \in Runs \ doubled :
    notices[r] = Cardinality({e \in Execs : runOf[e] = r /\ result[e] # None})

\* "True when a task is in a terminal state and will not transition further"
\* (Task.ts:20): a terminal status never gives way to another one.
TerminalTaskStable ==
  [][\A e \in Execs : task[e] \in Terminal => task'[e] \in {task[e], "evicted"}]_vars

\* ... which holds for the tasks TaskStop has not touched.
TerminalUnlessStopped ==
  [][\A e \in Execs \ stopped : task[e] \in Terminal => task'[e] \in {task[e], "evicted"}]_vars

\* "kill all running runs to avoid orphan tasks" (service.ts:79).
ShutdownKillsAll == [][shut' /\ ~ shut => Live \subseteq aborted']_vars
================================================================================
