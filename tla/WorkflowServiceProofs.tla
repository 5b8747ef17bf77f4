-------------------------- MODULE WorkflowServiceProofs --------------------------
(***************************************************************************)
(* Proofs about WorkflowService, for any number of executions and runs,    *)
(* and about the directories its runs leave behind (RunPersistence).       *)
(***************************************************************************)
EXTENDS WorkflowService, RunPersistence, FiniteSetTheorems, TLAPS

\* An execution has a run, and a task, from its register() on.
Registered ==
  \A e \in Execs : /\ phase[e] = "new" <=> runOf[e] = None
                   /\ phase[e] = "new" => e \notin aborted /\ task[e] = None

\* A run that was never resumed too early has one execution under way at most.
Solo ==
  \A d, e \in Execs :
    d # e /\ runOf[d] = runOf[e] /\ runOf[d] # None /\ runOf[d] \notin doubled =>
      phase[d] = "over" \/ phase[e] = "over"

\* An execution that is under way, alone and not aborted is bound to its run.
InTouch ==
  \A e \in Alone : phase[e] \in {"starting", "running", "done"} /\ e \notin aborted =>
    binding[runOf[e]] = e /\ task[e] = "running"

\* An abort is marked on the task.
AbortMarked == \A e \in aborted : task[e] # "running"

\* A bound task is running, unless TaskStop has killed it.
BoundRunning ==
  \A r \in Runs : binding[r] # None => task[binding[r]] = "running" \/ binding[r] \in stopped

IInv == /\ TypeOK /\ Registered /\ Solo /\ NoBindingLeak
        /\ InTouch /\ AbortMarked /\ BoundRunning /\ NoZombieTask

--------------------------------------------------------------------------------

\* At the start no execution, task or binding exists.
LEMMA InitIInv == Init => IInv
<1> SUFFICES ASSUME Init PROVE IInv
  OBVIOUS
<1>1. TypeOK
  BY ServiceAssumption DEF Init, TypeOK, Terminal, Runs
<1>2. \A e \in Execs : phase[e] = "new" /\ runOf[e] = None /\ task[e] = None
  BY DEF Init
<1>3. \A r \in Runs : binding[r] = None
  BY DEF Init
<1>4. aborted = {}
  BY DEF Init
<1>5. Registered /\ Solo
  BY <1>2, <1>4 DEF Registered, Solo
<1>6. NoBindingLeak /\ BoundRunning
  BY <1>3 DEF NoBindingLeak, BoundRunning
<1>7. InTouch /\ AbortMarked /\ NoZombieTask
  BY <1>2, <1>4 DEF InTouch, AbortMarked, NoZombieTask, Alone
<1> QED
  BY <1>1, <1>5, <1>6, <1>7 DEF IInv

--------------------------------------------------------------------------------

\* What Killed does to the tasks it is given: the running ones are aborted and marked.
LEMMA KilledMarks ==
  ASSUME TypeOK, NEW es \in SUBSET Execs, Killed(es)
  PROVE  /\ task' \in [Execs -> Terminal \cup {"running", "evicted", None}]
         /\ aborted' \in SUBSET Execs /\ aborted \subseteq aborted'
         /\ \A e \in Execs : e \in aborted' <=> e \in aborted \/ (e \in es /\ task[e] = "running")
         /\ \A e \in Execs :
              task'[e] = IF e \in es /\ task[e] = "running" THEN "killed" ELSE task[e]
BY DEF Killed, TypeOK, Terminal

\* Every step keeps the types: whoever has a phase beyond "new" has a run in Runs, so that
\* the maps by run are only changed where they are defined.
LEMMA TypeStep ==
  ASSUME TypeOK, Registered, [Next]_vars
  PROVE  TypeOK'
<1>1. ASSUME NEW e \in Execs, NEW r \in Runs, Register(e, r) PROVE TypeOK'
  <2>1. /\ phase' \in [Execs -> {"new", "starting", "running", "done", "over"}]
        /\ runOf' \in [Execs -> Runs \cup {None}]
        /\ task' \in [Execs -> Terminal \cup {"running", "evicted", None}]
    BY <1>1 DEF Register, TypeOK
  <2>2. binding' \in [Runs -> Execs \cup {None}] /\ doubled' \subseteq Runs
    BY <1>1 DEF Register, TypeOK
  <2>3. UNCHANGED <<result, aborted, stopped, store, prev, notices, shut>>
    BY <1>1 DEF Register, view
  <2>4. \A d \in Execs : result'[d] # None <=> phase'[d] \in {"done", "over"}
    BY <1>1, <2>3 DEF Register, TypeOK
  <2> QED
    BY <2>1, <2>2, <2>3, <2>4 DEF TypeOK
<1>2. ASSUME NEW r \in Runs, NEW status \in Terminal \cup {"running"}, Report(r, status)
      PROVE  /\ {store', prev'} \subseteq [Runs -> Terminal \cup {"running", None}]
             /\ notices' \in [Runs -> Nat]
  BY <1>2 DEF Report, Shown, TypeOK
<1>3. ASSUME NEW e \in Execs, Begin(e) PROVE TypeOK'
  <2>1. runOf[e] \in Runs
    BY <1>3 DEF Begin, Registered, TypeOK
  <2>2. /\ {store', prev'} \subseteq [Runs -> Terminal \cup {"running", None}]
        /\ notices' \in [Runs -> Nat]
    BY <1>2, <1>3, <2>1 DEF Begin
  <2> QED
    BY <1>3, <2>2 DEF Begin, TypeOK, app, hist
<1>4. ASSUME NEW e \in Execs, NEW status \in Terminal, Finish(e, status) PROVE TypeOK'
  <2>1. runOf[e] \in Runs
    BY <1>4 DEF Finish, Registered, TypeOK
  <2>2. /\ {store', prev'} \subseteq [Runs -> Terminal \cup {"running", None}]
        /\ notices' \in [Runs -> Nat]
    BY <1>2, <1>4, <2>1 DEF Finish
  <2>3. status # None
    BY ServiceAssumption
  <2> QED
    BY <1>4, <2>2, <2>3 DEF Finish, TypeOK, app, hist
<1>5. ASSUME NEW r \in Runs, KillRun(r) PROVE TypeOK'
  <2>1. {binding[r]} \in SUBSET Execs
    BY <1>5 DEF KillRun, TypeOK
  <2> QED
    BY <1>5, <2>1, KilledMarks DEF KillRun, TypeOK, view, hist
<1>6. ASSUME NEW e \in Execs, Settle(e) PROVE TypeOK'
  <2> DEFINE b == binding[runOf[e]]
  <2>1. runOf[e] \in Runs /\ b \in Execs \cup {None} /\ result[e] \in Terminal
    BY <1>6 DEF Settle, Registered, TypeOK
  <2>2. /\ task' \in [Execs -> Terminal \cup {"running", "evicted", None}]
        /\ aborted' \in SUBSET Execs
        /\ binding' \in [Runs -> Execs \cup {None}]
    <3>1. CASE b = None
      BY <1>6, <3>1 DEF Settle, Marked, TypeOK, app
    <3>2. CASE b # None /\ result[e] = "killed"
      BY <1>6, <2>1, <3>2, KilledMarks DEF Settle, Marked, TypeOK
    <3>3. CASE b # None /\ result[e] # "killed"
      BY <1>6, <2>1, <3>3 DEF Settle, Marked, TypeOK
    <3> QED
      BY <3>1, <3>2, <3>3
  <2>3. phase' = [phase EXCEPT ![e] = "over"] /\ phase[e] = "done"
        /\ UNCHANGED <<result, runOf, stopped, store, prev, notices, shut, doubled>>
    BY <1>6 DEF Settle, view, hist
  <2> QED
    BY <2>2, <2>3 DEF TypeOK
<1>7. ASSUME NEW e \in Execs, StopTask(e) PROVE TypeOK'
  BY <1>7, KilledMarks DEF StopTask, TypeOK, view
<1>8. ASSUME NEW e \in Execs, Evict(e) PROVE TypeOK'
  BY <1>8 DEF Evict, TypeOK, view, hist
<1>9. ASSUME NEW r \in Runs, Hydrate(r) PROVE TypeOK'
  BY <1>2, <1>9 DEF Hydrate, TypeOK, app, hist
<1>10. CASE Shutdown
  <2>1. {binding[r] : r \in {q \in Runs : store[q] = "running"}} \ {None} \in SUBSET Execs
    BY DEF TypeOK
  <2> QED
    BY <1>10, <2>1, KilledMarks DEF Shutdown, TypeOK, view, hist
<1>11. CASE UNCHANGED vars
  BY <1>11 DEF vars, TypeOK
<1> QED
  BY <1>1, <1>3, <1>4, <1>5, <1>6, <1>7, <1>8, <1>9, <1>10, <1>11
  DEF Next, Launch, ResumeRun, Runs

--------------------------------------------------------------------------------

\* What the steps have to keep, besides the types.
Inv == /\ Registered /\ Solo /\ NoBindingLeak /\ InTouch
       /\ AbortMarked /\ BoundRunning /\ NoZombieTask

\* register() gives the run a new binding: an older execution that is not over is no
\* longer alone, and the new one starts in touch.
LEMMA RegisterStep ==
  ASSUME IInv, TypeOK', NEW e \in Execs, NEW r \in Runs, Register(e, r)
  PROVE  Inv'
<1> USE DEF IInv
<1>1. /\ phase[e] = "new" /\ runOf[e] = None /\ e \notin aborted /\ task[e] = None
      /\ r # None /\ e # None /\ e \in Runs
  BY ServiceAssumption DEF Register, Registered, Runs
<1>2. /\ phase'[e] = "starting" /\ runOf'[e] = r /\ task'[e] = "running" /\ binding'[r] = e
      /\ \A d \in Execs \ {e} : phase'[d] = phase[d] /\ runOf'[d] = runOf[d] /\ task'[d] = task[d]
      /\ \A q \in Runs \ {r} : binding'[q] = binding[q]
      /\ UNCHANGED <<aborted, stopped>>
  BY DEF Register, TypeOK, view
<1>3. doubled \subseteq doubled'
      /\ \A d \in Execs : runOf[d] = r /\ phase[d] # "over" => r \in doubled'
  BY DEF Register
<1>4. Registered'
  BY <1>1, <1>2 DEF Registered
<1>5. Solo'
  BY <1>1, <1>2, <1>3 DEF Solo
<1>6. NoBindingLeak'
  <2>1. \A q \in Runs : binding[q] # e
    BY <1>1, ServiceAssumption DEF NoBindingLeak
  <2> QED
    BY <1>2, <2>1 DEF NoBindingLeak, TypeOK
<1>7. InTouch'
  <2> SUFFICES ASSUME NEW d \in Alone', phase'[d] \in {"starting", "running", "done"},
                      d \notin aborted'
               PROVE  binding'[runOf'[d]] = d /\ task'[d] = "running"
    BY DEF InTouch
  <2>1. CASE d = e
    BY <1>2, <2>1
  <2>2. CASE d # e
    <3>1. d \in Alone /\ phase[d] \in {"starting", "running", "done"} /\ d \notin aborted
      BY <1>2, <1>3, <2>2 DEF Alone
    <3>2. runOf[d] # r
      BY <1>2, <1>3, <2>2, <3>1 DEF Alone
    <3>3. runOf[d] \in Runs
      BY <3>1 DEF Registered, TypeOK, Alone
    <3> QED
      BY <1>2, <2>2, <3>1, <3>2, <3>3 DEF InTouch, Alone
  <2> QED
    BY <2>1, <2>2
<1>8. AbortMarked'
  BY <1>1, <1>2 DEF AbortMarked, TypeOK
<1>9. BoundRunning'
  BY <1>1, <1>2 DEF BoundRunning, NoBindingLeak, TypeOK
<1>10. NoZombieTask'
  BY <1>1, <1>2, <1>3 DEF NoZombieTask, Alone
<1> QED
  BY <1>4, <1>5, <1>6, <1>7, <1>8, <1>9, <1>10 DEF Inv

\* kill(), TaskStop and shutdown(): running tasks are marked, and their bindings removed
\* unless it is TaskStop.
LEMMA KillStep ==
  ASSUME IInv, TypeOK', NEW es \in SUBSET Execs, Killed(es),
         UNCHANGED <<phase, runOf, doubled>>, stopped \subseteq stopped',
         \A r \in Runs :
           \/ binding'[r] = binding[r] /\ (binding[r] \in es => binding[r] \in stopped')
           \/ binding'[r] = None /\ (binding[r] # None => binding[r] \in es)
  PROVE  Inv'
<1> USE DEF IInv
<1>1. /\ aborted \subseteq aborted'
      /\ \A e \in Execs : e \in aborted' <=> e \in aborted \/ (e \in es /\ task[e] = "running")
      /\ \A e \in Execs : task'[e] = IF e \in es /\ task[e] = "running" THEN "killed" ELSE task[e]
  BY KilledMarks
<1>2. Registered'
  BY <1>1, ServiceAssumption DEF Registered
<1>3. Solo'
  BY DEF Solo
<1>4. NoBindingLeak'
  BY DEF NoBindingLeak, TypeOK
<1>5. InTouch'
  <2> SUFFICES ASSUME NEW e \in Alone', phase'[e] \in {"starting", "running", "done"},
                      e \notin aborted'
               PROVE  binding'[runOf'[e]] = e /\ task'[e] = "running"
    BY DEF InTouch
  <2>1. e \in Alone /\ e \notin aborted /\ runOf[e] \in Runs /\ e # None
    BY <1>1, ServiceAssumption DEF Alone, Registered, TypeOK, Runs
  <2>2. binding[runOf[e]] = e /\ task[e] = "running"
    BY <2>1 DEF InTouch
  <2>3. e \notin es
    BY <1>1, <2>1, <2>2 DEF Alone
  <2> QED
    BY <1>1, <2>1, <2>2, <2>3 DEF Alone
<1>6. AbortMarked'
  BY <1>1 DEF AbortMarked, TypeOK
<1>7. BoundRunning'
  <2> SUFFICES ASSUME NEW r \in Runs, binding'[r] # None
               PROVE  task'[binding'[r]] = "running" \/ binding'[r] \in stopped'
    BY DEF BoundRunning
  <2>1. binding'[r] = binding[r] /\ (binding[r] \in es => binding[r] \in stopped')
    OBVIOUS
  <2>2. binding[r] \in Execs
    BY <2>1 DEF TypeOK
  <2> QED
    BY <1>1, <2>1, <2>2 DEF BoundRunning
<1>8. NoZombieTask'
  BY <1>1 DEF NoZombieTask, Alone
<1> QED
  BY <1>2, <1>3, <1>4, <1>5, <1>6, <1>7, <1>8 DEF Inv

\* The end of an execution leaves its run without a binding, and marks the task of the
\* execution that was bound to the run: of its own, if it was alone.
LEMMA SettleStep ==
  ASSUME IInv, TypeOK', NEW e \in Execs, Settle(e)
  PROVE  Inv'
<1> USE DEF IInv
<1> DEFINE b == binding[runOf[e]]
<1>1. /\ phase[e] = "done" /\ phase'[e] = "over"
      /\ \A d \in Execs \ {e} : phase'[d] = phase[d]
      /\ UNCHANGED <<runOf, doubled, stopped>>
  BY DEF Settle, Marked, TypeOK, hist
<1>2. runOf[e] \in Runs /\ b \in Execs \cup {None} /\ result[e] \in Terminal
  BY <1>1 DEF Registered, TypeOK
<1>3. /\ binding'[runOf[e]] = None
      /\ \A r \in Runs \ {runOf[e]} : binding'[r] = binding[r]
  BY <1>2 DEF Settle, Marked, TypeOK, app
<1>4. /\ b # None => b \in Execs /\ runOf[b] = runOf[e] /\ phase[b] # "over"
      /\ \A d \in Execs : d # None
  BY <1>2, ServiceAssumption DEF NoBindingLeak, Runs
<1>5. \A d \in Execs : d # b => task'[d] = task[d]
  <2>1. CASE b = None
    BY <2>1 DEF Settle, app
  <2>2. CASE b # None /\ result[e] = "killed"
    BY <1>4, <2>2, KilledMarks DEF Settle
  <2>3. CASE b # None /\ result[e] # "killed"
    BY <1>4, <2>3 DEF Settle, Marked, TypeOK
  <2> QED
    BY <2>1, <2>2, <2>3
<1>6. b # None => task'[b] # "running" /\ (task[b] # None => task'[b] # None)
  <2>1. CASE b # None /\ result[e] = "killed"
    BY <1>4, <2>1, KilledMarks, ServiceAssumption DEF Settle, Terminal
  <2>2. CASE b # None /\ result[e] # "killed"
    BY <1>2, <1>4, <2>2, ServiceAssumption DEF Settle, Marked, TypeOK, Terminal
  <2> QED
    BY <2>1, <2>2
<1>7. /\ aborted \subseteq aborted'
      /\ \A d \in Execs : d \in aborted' => d \in aborted \/ (d = b /\ b # None)
  <2>1. CASE b = None
    BY <2>1 DEF Settle, app
  <2>2. CASE b # None /\ result[e] = "killed"
    BY <1>4, <2>2, KilledMarks DEF Settle
  <2>3. CASE b # None /\ result[e] # "killed"
    BY <2>3 DEF Settle, Marked
  <2> QED
    BY <2>1, <2>2, <2>3
<1>8. Registered'
  <2>1. b # None => phase[b] # "new"
    BY <1>1, <1>2, <1>4 DEF Registered, TypeOK
  <2> QED
    BY <1>1, <1>4, <1>5, <1>7, <2>1 DEF Registered
<1>9. Solo'
  BY <1>1 DEF Solo
<1>10. NoBindingLeak'
  BY <1>1, <1>3 DEF NoBindingLeak, TypeOK
<1>11. InTouch'
  <2> SUFFICES ASSUME NEW d \in Alone', phase'[d] \in {"starting", "running", "done"},
                      d \notin aborted'
               PROVE  binding'[runOf'[d]] = d /\ task'[d] = "running"
    BY DEF InTouch
  <2>1. d \in Alone /\ d # e /\ d \notin aborted /\ phase[d] \in {"starting", "running", "done"}
    BY <1>1, <1>7 DEF Alone
  <2>2. runOf[d] \in Runs /\ binding[runOf[d]] = d /\ task[d] = "running"
    BY <2>1 DEF Registered, TypeOK, Alone, InTouch
  <2>3. runOf[d] # runOf[e]
    BY <1>1, <1>2, <2>1, ServiceAssumption DEF Solo, Alone
  <2> QED
    BY <1>1, <1>3, <1>4, <1>5, <2>1, <2>2, <2>3 DEF Alone
<1>12. AbortMarked'
  BY <1>4, <1>5, <1>6, <1>7 DEF AbortMarked, TypeOK
<1>13. BoundRunning'
  <2> SUFFICES ASSUME NEW r \in Runs, binding'[r] # None
               PROVE  task'[binding'[r]] = "running" \/ binding'[r] \in stopped'
    BY DEF BoundRunning
  <2>1. r # runOf[e] /\ binding'[r] = binding[r] /\ runOf[binding[r]] = r /\ binding[r] \in Execs
    BY <1>3 DEF NoBindingLeak, TypeOK
  <2>2. binding[r] # b
    BY <1>4, <2>1
  <2> QED
    BY <1>1, <1>5, <2>1, <2>2 DEF BoundRunning
<1>14. NoZombieTask'
  <2> SUFFICES ASSUME NEW d \in Alone', phase'[d] = "over" PROVE task'[d] # "running"
    BY DEF NoZombieTask
  <2>1. d \in Alone
    BY <1>1 DEF Alone
  <2>2. CASE d # e
    BY <1>1, <1>4, <1>5, <2>1, <2>2 DEF NoZombieTask, Alone
  <2>3. CASE d = e /\ e \notin aborted
    BY <1>1, <1>6, <2>1, <2>3, ServiceAssumption DEF InTouch, Runs
  <2>4. CASE d = e /\ e \in aborted
    BY <1>5, <1>6, <2>1, <2>4, ServiceAssumption DEF AbortMarked, Runs
  <2> QED
    BY <2>2, <2>3, <2>4
<1> QED
  BY <1>8, <1>9, <1>10, <1>11, <1>12, <1>13, <1>14 DEF Inv

\* run_started and run_done change the phase of an execution that is under way, no more.
LEMMA PhaseStep ==
  ASSUME IInv, NEW e \in Execs, UNCHANGED <<runOf, app, hist>>,
         \/ phase[e] = "starting" /\ phase' = [phase EXCEPT ![e] = "running"]
         \/ phase[e] = "running" /\ phase' = [phase EXCEPT ![e] = "done"]
  PROVE  Inv'
<1> USE DEF IInv
<1>1. /\ phase[e] \in {"starting", "running"} /\ phase'[e] \in {"running", "done"}
      /\ \A d \in Execs \ {e} : phase'[d] = phase[d]
      /\ UNCHANGED <<runOf, aborted, task, binding, doubled, stopped>>
  BY DEF TypeOK, app, hist
<1>2. Registered'
  BY <1>1 DEF Registered
<1>3. Solo'
  BY <1>1 DEF Solo
<1>4. NoBindingLeak'
  BY <1>1 DEF NoBindingLeak, TypeOK
<1>5. InTouch'
  BY <1>1 DEF InTouch, Alone
<1>6. AbortMarked' /\ BoundRunning'
  BY <1>1 DEF AbortMarked, BoundRunning
<1>7. NoZombieTask'
  BY <1>1 DEF NoZombieTask, Alone
<1> QED
  BY <1>2, <1>3, <1>4, <1>5, <1>6, <1>7 DEF Inv

\* Only a terminal task is removed from the app state.
LEMMA EvictStep ==
  ASSUME IInv, NEW e \in Execs, Evict(e)
  PROVE  Inv'
<1> USE DEF IInv
<1>1. /\ task[e] \notin {"running", None} /\ task'[e] = "evicted"
      /\ \A d \in Execs \ {e} : task'[d] = task[d]
      /\ UNCHANGED <<phase, runOf, aborted, binding, doubled, stopped>>
  BY ServiceAssumption DEF Evict, TypeOK, Terminal, hist
<1>2. Registered' /\ Solo'
  BY <1>1, ServiceAssumption DEF Registered, Solo
<1>3. NoBindingLeak'
  BY <1>1 DEF NoBindingLeak
<1>4. InTouch' /\ AbortMarked'
  BY <1>1 DEF InTouch, AbortMarked, Alone, TypeOK
<1>5. BoundRunning'
  BY <1>1 DEF BoundRunning, TypeOK
<1>6. NoZombieTask'
  BY <1>1 DEF NoZombieTask, Alone
<1> QED
  BY <1>2, <1>3, <1>4, <1>5, <1>6 DEF Inv

\* What the steps that leave the executions, the tasks and the bindings alone keep.
LEMMA ViewStep ==
  ASSUME IInv, UNCHANGED <<phase, runOf, aborted, task, binding, doubled, stopped>>
  PROVE  Inv'
BY DEF IInv, Inv, Registered, Solo, NoBindingLeak, InTouch, AbortMarked, BoundRunning,
       NoZombieTask, Alone

\* Every operation of the registrar, the service, the engine and the task framework keeps
\* the invariant.
LEMMA InvStep ==
  ASSUME IInv, [Next]_vars
  PROVE  IInv'
<1> USE DEF IInv
<1>1. TypeOK'
  BY TypeStep
<1>2. ASSUME NEW e \in Execs, NEW r \in Runs, Register(e, r) PROVE Inv'
  BY <1>1, <1>2, RegisterStep
<1>3. ASSUME NEW e \in Execs, Begin(e) PROVE Inv'
  BY <1>3, PhaseStep DEF Begin
<1>4. ASSUME NEW e \in Execs, NEW status \in Terminal, Finish(e, status) PROVE Inv'
  BY <1>4, PhaseStep DEF Finish
<1>5. ASSUME NEW e \in Execs, Settle(e) PROVE Inv'
  BY <1>1, <1>5, SettleStep
<1>6. ASSUME NEW e \in Execs, StopTask(e) PROVE Inv'
  <2>1. /\ {e} \in SUBSET Execs /\ Killed({e}) /\ e \in stopped' /\ stopped \subseteq stopped'
        /\ UNCHANGED <<phase, runOf, doubled, binding>>
    BY <1>6 DEF StopTask
  <2> QED
    BY <1>1, <2>1, KillStep
<1>7. ASSUME NEW e \in Execs, Evict(e) PROVE Inv'
  BY <1>7, EvictStep
<1>8. ASSUME NEW r \in Runs, Hydrate(r) PROVE Inv'
  BY <1>8, ViewStep DEF Hydrate, app, hist
<1>9. ASSUME NEW r \in Runs, KillRun(r) PROVE Inv'
  <2>1. {binding[r]} \in SUBSET Execs /\ Killed({binding[r]})
    BY <1>9 DEF KillRun, TypeOK
  <2>2. UNCHANGED <<phase, runOf, doubled, stopped>>
    BY <1>9 DEF KillRun, hist
  <2>3. /\ binding'[r] = None
        /\ \A q \in Runs \ {r} : binding'[q] = binding[q]
    BY <1>9 DEF KillRun, TypeOK
  <2>4. \A q \in Runs \ {r} : binding[q] # binding[r] \/ binding[q] = None
    BY <1>9 DEF NoBindingLeak, KillRun
  <2>5. \A q \in Runs :
          \/ binding'[q] = binding[q] /\ (binding[q] \in {binding[r]} => binding[q] \in stopped')
          \/ binding'[q] = None /\ (binding[q] # None => binding[q] \in {binding[r]})
    BY <1>9, <2>3, <2>4 DEF KillRun
  <2> QED
    BY <1>1, <2>1, <2>2, <2>5, KillStep
<1>10. ASSUME Shutdown PROVE Inv'
  <2> DEFINE rs == {r \in Runs : store[r] = "running"}
             es == {binding[r] : r \in rs} \ {None}
  <2>1. es \in SUBSET Execs /\ Killed(es)
    BY <1>10 DEF Shutdown, TypeOK
  <2>2. UNCHANGED <<phase, runOf, doubled, stopped>>
    BY <1>10 DEF Shutdown, hist
  <2>3. \A q \in Runs : binding'[q] = IF q \in rs THEN None ELSE binding[q]
    BY <1>10 DEF Shutdown
  <2>4. \A q \in Runs \ rs : binding[q] \notin es
    BY DEF NoBindingLeak
  <2>5. \A q \in Runs :
          \/ binding'[q] = binding[q] /\ (binding[q] \in es => binding[q] \in stopped')
          \/ binding'[q] = None /\ (binding[q] # None => binding[q] \in es)
    BY <2>3, <2>4
  <2> HIDE DEF es
  <2> QED
    BY <1>1, <2>1, <2>2, <2>5, KillStep
<1>11. ASSUME UNCHANGED vars PROVE Inv'
  BY <1>11, ViewStep DEF vars
<1>12. Inv'
  BY <1>2, <1>3, <1>4, <1>5, <1>6, <1>7, <1>8, <1>9, <1>10, <1>11
  DEF Next, Launch, ResumeRun, Runs
<1> QED
  BY <1>1, <1>12 DEF Inv

\* The invariant that the theorems below rest on holds in every reachable state.
THEOREM Invariance == Spec => []IInv
BY InitIInv, InvStep, PTL DEF Spec

\* TypeOK holds in every reachable state.
THEOREM TypeCorrect == Spec => []TypeOK
<1>1. IInv => TypeOK
  BY DEF IInv
<1> QED
  BY <1>1, Invariance, PTL

\* No binding outlives its execution, whichever way the run ends (service.ts, ports.ts).
THEOREM NoLeak == Spec => []NoBindingLeak
<1>1. IInv => NoBindingLeak
  BY DEF IInv
<1> QED
  BY <1>1, Invariance, PTL

\* kill() finds every execution that goes on, if its run was not resumed too early.
THEOREM Reachable == Spec => []Killable
<1>1. IInv => Killable
  BY DEF IInv, InTouch, Killable, Live
<1> QED
  BY <1>1, Invariance, PTL

\* No task is left running when its execution is over, if its run was not resumed too early.
THEOREM NoZombie == Spec => []NoZombieTask
<1>1. IInv => NoZombieTask
  BY DEF IInv
<1> QED
  BY <1>1, Invariance, PTL

--------------------------------------------------------------------------------

\* Which steps can change the status of a task that is not new, and to what.
LEMMA TaskChange ==
  ASSUME IInv, [Next]_vars, NEW d \in Execs, task[d] # None, task'[d] # task[d]
  PROVE  \/ task'[d] = "killed" /\ task[d] = "running"
         \/ task'[d] = "evicted"
         \/ \E e \in Execs : /\ phase[e] = "done" /\ binding[runOf[e]] = d
                             /\ task'[d] = result[e] /\ runOf[e] \in Runs
<1> USE DEF IInv
<1>1. ASSUME NEW es \in SUBSET Execs, Killed(es)
      PROVE  task'[d] = "killed" /\ task[d] = "running"
  BY <1>1, KilledMarks
<1>2. ASSUME NEW e \in Execs, NEW r \in Runs, Register(e, r) PROVE FALSE
  BY <1>2 DEF Register, Registered, TypeOK
<1>3. ASSUME NEW e \in Execs, Begin(e) PROVE FALSE
  BY <1>3 DEF Begin, app
<1>4. ASSUME NEW e \in Execs, NEW status \in Terminal, Finish(e, status) PROVE FALSE
  BY <1>4 DEF Finish, app
<1>5. ASSUME NEW e \in Execs, Settle(e)
      PROVE  \/ task'[d] = "killed" /\ task[d] = "running"
             \/ /\ phase[e] = "done" /\ binding[runOf[e]] = d
                /\ task'[d] = result[e] /\ runOf[e] \in Runs
  <2> DEFINE b == binding[runOf[e]]
  <2>1. phase[e] = "done" /\ runOf[e] \in Runs /\ b \in Execs \cup {None}
    BY <1>5 DEF Settle, Registered, TypeOK
  <2>2. b # None
    BY <1>5 DEF Settle, app
  <2>3. CASE result[e] = "killed"
    BY <1>1, <1>5, <2>1, <2>2, <2>3 DEF Settle
  <2>4. CASE result[e] # "killed"
    BY <1>5, <2>1, <2>2, <2>4 DEF Settle, Marked, TypeOK
  <2> QED
    BY <2>3, <2>4
<1>6. ASSUME NEW e \in Execs, StopTask(e) PROVE task'[d] = "killed" /\ task[d] = "running"
  BY <1>1, <1>6 DEF StopTask
<1>7. ASSUME NEW e \in Execs, Evict(e) PROVE task'[d] = "evicted"
  BY <1>7 DEF Evict, TypeOK
<1>8. ASSUME NEW r \in Runs, Hydrate(r) PROVE FALSE
  BY <1>8 DEF Hydrate, app
<1>9. ASSUME NEW r \in Runs, KillRun(r) PROVE task'[d] = "killed" /\ task[d] = "running"
  BY <1>1, <1>9 DEF KillRun, TypeOK
<1>10. ASSUME Shutdown PROVE task'[d] = "killed" /\ task[d] = "running"
  <2> DEFINE es == {binding[r] : r \in {q \in Runs : store[q] = "running"}} \ {None}
  <2>1. es \in SUBSET Execs /\ Killed(es)
    BY <1>10 DEF Shutdown, TypeOK
  <2> QED
    BY <1>1, <2>1
<1>11. ASSUME UNCHANGED vars PROVE FALSE
  BY <1>11 DEF vars
<1> QED
  BY <1>2, <1>3, <1>4, <1>5, <1>6, <1>7, <1>8, <1>9, <1>10, <1>11
  DEF Next, Launch, ResumeRun, Runs

\* What a step may do to a task that is running, and to one that has ended.
OwnResult ==
  \A e \in Alone : task[e] = "running" /\ task'[e] \in {"completed", "failed"} =>
    phase[e] = "done" /\ result[e] = task'[e]
Ended ==
  \A e \in Execs \ stopped : task[e] \in Terminal => task'[e] \in {task[e], "evicted"}

\* A task is marked completed or failed by the end of its own execution, if its run was not
\* resumed too early: two executions of such a run are never under way together.
THEOREM OwnResults == Spec => OwnResultOnly
<1>1. IInv /\ [Next]_vars => [OwnResult]_vars
  <2> SUFFICES ASSUME IInv, [Next]_vars, NEW d \in Alone,
                      task[d] = "running", task'[d] \in {"completed", "failed"}
               PROVE  phase[d] = "done" /\ result[d] = task'[d]
    BY DEF OwnResult
  <2> USE DEF IInv
  <2>1. d \in Execs /\ task[d] # None
    BY ServiceAssumption DEF Alone
  <2>2. PICK e \in Execs : /\ phase[e] = "done" /\ binding[runOf[e]] = d
                           /\ task'[d] = result[e] /\ runOf[e] \in Runs
    BY <2>1, TaskChange
  <2>3. runOf[d] = runOf[e] /\ phase[d] # "over" /\ runOf[e] # None
    BY <2>1, <2>2, ServiceAssumption DEF NoBindingLeak, Runs
  <2>4. d = e
    BY <2>1, <2>2, <2>3 DEF Solo, Alone
  <2> QED
    BY <2>2, <2>4
<1>2. Spec => [][OwnResult]_vars
  BY <1>1, Invariance, PTL DEF Spec
<1> QED
  BY <1>2 DEF OwnResultOnly, OwnResult

\* A terminal status is final, but for the tasks TaskStop has killed without deleting
\* their binding.
THEOREM Final == Spec => TerminalUnlessStopped
<1>1. IInv /\ [Next]_vars => [Ended]_vars
  <2> SUFFICES ASSUME IInv, [Next]_vars, NEW d \in Execs \ stopped, task[d] \in Terminal,
                      task'[d] # task[d], task'[d] # "evicted"
               PROVE  FALSE
    BY DEF Ended
  <2> USE DEF IInv
  <2>1. task[d] \notin {None, "running"} /\ d # None
    BY ServiceAssumption DEF Terminal, Runs
  <2>2. PICK e \in Execs : binding[runOf[e]] = d /\ runOf[e] \in Runs
    BY <2>1, TaskChange
  <2> QED
    BY <2>1, <2>2 DEF BoundRunning
<1>2. Spec => [][Ended]_vars
  BY <1>1, Invariance, PTL DEF Spec
<1> QED
  BY <1>2 DEF TerminalUnlessStopped, Ended

--------------------------------------------------------------------------------

\* The executions of a run that have ended.
EndedOf(r) == {e \in Execs : runOf[e] = r /\ result[e] # None}

\* The bridge remembers what the store shows; an execution that goes on alone is shown.
Seen ==
  /\ prev = store
  /\ \A e \in Alone : phase[e] = "running" => prev[runOf[e]] = "running"

\* The store and the bridge change together, and a run that goes on is not hydrated.
LEMMA SeenStep ==
  ASSUME IInv, Seen, [Next]_vars
  PROVE  Seen'
<1> USE DEF IInv
<1>1. ASSUME NEW e \in Execs, NEW r \in Runs, Register(e, r) PROVE Seen'
  <2>1. UNCHANGED <<store, prev>> /\ doubled \subseteq doubled'
    BY <1>1 DEF Register, view
  <2>2. \A d \in Execs : phase'[d] = "running" => phase[d] = "running" /\ runOf'[d] = runOf[d]
    BY <1>1 DEF Register, TypeOK
  <2> QED
    BY <2>1, <2>2 DEF Seen, Alone
<1>2. ASSUME NEW e \in Execs, Begin(e) PROVE Seen'
  <2>1. runOf[e] \in Runs
    BY <1>2 DEF Begin, Registered, TypeOK
  <2>2. prev' = store' /\ prev'[runOf[e]] = "running"
        /\ \A r \in Runs \ {runOf[e]} : prev'[r] = prev[r]
    BY <1>2, <2>1 DEF Begin, Report, Shown, Seen, TypeOK
  <2>3. \A d \in Execs : phase'[d] = "running" => d = e \/ phase[d] = "running"
    BY <1>2 DEF Begin, TypeOK
  <2>4. \A d \in Execs : phase[d] = "running" => runOf[d] \in Runs
    BY DEF Registered, TypeOK
  <2>5. UNCHANGED <<runOf, doubled>>
    BY <1>2 DEF Begin, hist
  <2> QED
    BY <2>2, <2>3, <2>4, <2>5 DEF Seen, Alone
<1>3. ASSUME NEW e \in Execs, NEW status \in Terminal, Finish(e, status) PROVE Seen'
  <2>1. runOf[e] \in Runs /\ phase[e] = "running"
    BY <1>3 DEF Finish, Registered, TypeOK
  <2>2. prev' = store' /\ \A r \in Runs \ {runOf[e]} : prev'[r] = prev[r]
    BY <1>3, <2>1 DEF Finish, Report, Shown, Seen, TypeOK
  <2>3. \A d \in Execs : phase'[d] = "running" => d # e /\ phase[d] = "running"
    BY <1>3 DEF Finish, TypeOK
  <2>4. \A d \in Alone \ {e} : phase[d] = "running" => runOf[d] \in Runs /\ runOf[d] # runOf[e]
    BY <2>1, ServiceAssumption DEF Registered, Solo, Alone, TypeOK, Runs
  <2>5. UNCHANGED <<runOf, doubled>>
    BY <1>3 DEF Finish, hist
  <2> QED
    BY <2>2, <2>3, <2>4, <2>5 DEF Seen, Alone
<1>4. ASSUME NEW r \in Runs, Hydrate(r) PROVE Seen'
  <2>1. store[r] = None /\ prev' = store' /\ \A q \in Runs \ {r} : prev'[q] = prev[q]
    BY <1>4 DEF Hydrate, Report, Shown, Seen, TypeOK
  <2>2. \A d \in Alone : phase[d] = "running" => runOf[d] \in Runs /\ runOf[d] # r
    BY <2>1, ServiceAssumption DEF Seen, Registered, TypeOK, Alone
  <2>3. UNCHANGED <<phase, runOf, doubled>>
    BY <1>4 DEF Hydrate, hist
  <2> QED
    BY <2>1, <2>2, <2>3 DEF Seen, Alone
<1>5. ASSUME NEW e \in Execs, Settle(e) PROVE Seen'
  <2>1. UNCHANGED <<runOf, store, prev, doubled>>
        /\ \A d \in Execs : phase'[d] = "running" => phase[d] = "running"
    BY <1>5 DEF Settle, Marked, TypeOK, view, hist
  <2> QED
    BY <2>1 DEF Seen, Alone
<1>6. ASSUME UNCHANGED <<phase, runOf, store, prev, doubled>> PROVE Seen'
  BY <1>6 DEF Seen, Alone
<1>7. ASSUME NEW e \in Execs, StopTask(e) \/ Evict(e) PROVE Seen'
  BY <1>6, <1>7 DEF StopTask, Evict, view, hist
<1>8. ASSUME NEW r \in Runs, KillRun(r) PROVE Seen'
  BY <1>6, <1>8 DEF KillRun, view, hist
<1>9. ASSUME Shutdown \/ UNCHANGED vars PROVE Seen'
  BY <1>6, <1>9 DEF Shutdown, vars, view, hist
<1> QED
  BY <1>1, <1>2, <1>3, <1>4, <1>5, <1>7, <1>8, <1>9 DEF Next, Launch, ResumeRun, Runs

\* A run that is not resumed too early is counted exactly: only run_done ends an execution,
\* and it finds the run shown as running, so that the bridge sees it change.
LEMMA CountStep ==
  ASSUME IInv, Seen, NotifiedUnlessDoubled, [Next]_vars
  PROVE  NotifiedUnlessDoubled'
<1> USE DEF IInv
<1>1. ASSUME UNCHANGED notices, doubled \subseteq doubled',
             \A r \in Runs \ doubled' : EndedOf(r)' = EndedOf(r)
      PROVE  NotifiedUnlessDoubled'
  BY <1>1 DEF NotifiedUnlessDoubled, EndedOf
<1>2. ASSUME UNCHANGED <<runOf, result, notices, doubled>> PROVE NotifiedUnlessDoubled'
  BY <1>2 DEF NotifiedUnlessDoubled
<1>3. ASSUME NEW e \in Execs, NEW r \in Runs, Register(e, r) PROVE NotifiedUnlessDoubled'
  <2>1. UNCHANGED <<result, notices>> /\ doubled \subseteq doubled' /\ result[e] = None
        /\ \A d \in Execs \ {e} : runOf'[d] = runOf[d]
    BY <1>3 DEF Register, TypeOK, view
  <2>2. \A q \in Runs : EndedOf(q)' = EndedOf(q)
    BY <2>1 DEF EndedOf
  <2> QED
    BY <1>1, <2>1, <2>2
<1>4. ASSUME NEW e \in Execs, Begin(e) PROVE NotifiedUnlessDoubled'
  BY <1>2, <1>4 DEF Begin, Report, Shown, Terminal, hist
<1>5. ASSUME NEW e \in Execs, NEW status \in Terminal, Finish(e, status)
      PROVE  NotifiedUnlessDoubled'
  <2> DEFINE r == runOf[e]
  <2>1. /\ r \in Runs /\ phase[e] = "running" /\ result[e] = None /\ status # None
        /\ \A d \in Execs : result'[d] = IF d = e THEN status ELSE result[d]
        /\ UNCHANGED <<runOf, doubled>>
    BY <1>5, ServiceAssumption DEF Finish, Registered, TypeOK, hist
  <2>2. \A q \in Runs \ {r} : notices'[q] = notices[q] /\ EndedOf(q)' = EndedOf(q)
    BY <1>5, <2>1 DEF Finish, Report, Shown, TypeOK, EndedOf
  <2>3. r \notin doubled => notices'[r] = notices[r] + 1
    <3>1. r \notin doubled => prev[r] = "running"
      BY <2>1 DEF Seen, Alone
    <3>2. "running" \notin {None, status}
      BY ServiceAssumption DEF Terminal
    <3> QED
      BY <1>5, <2>1, <3>1, <3>2 DEF Finish, Report, Shown, TypeOK
  <2>4. Cardinality(EndedOf(r)') = Cardinality(EndedOf(r)) + 1
    <3>1. EndedOf(r)' = EndedOf(r) \cup {e} /\ e \notin EndedOf(r)
      BY <2>1 DEF EndedOf
    <3>2. IsFiniteSet(EndedOf(r))
      BY ServiceAssumption, FS_Subset DEF EndedOf
    <3> QED
      BY <3>1, <3>2, FS_AddElement
  <2> QED
    BY <2>1, <2>2, <2>3, <2>4 DEF NotifiedUnlessDoubled, EndedOf
<1>6. ASSUME NEW r \in Runs, Hydrate(r) PROVE NotifiedUnlessDoubled'
  <2>1. prev[r] = None
    BY <1>6 DEF Hydrate, Seen
  <2> QED
    BY <1>2, <1>6, <2>1 DEF Hydrate, Report, Shown, hist
<1>7. ASSUME NEW e \in Execs, Settle(e) \/ StopTask(e) \/ Evict(e) PROVE NotifiedUnlessDoubled'
  BY <1>2, <1>7 DEF Settle, StopTask, Evict, view, hist
<1>8. ASSUME NEW r \in Runs, KillRun(r) PROVE NotifiedUnlessDoubled'
  BY <1>2, <1>8 DEF KillRun, view, hist
<1>9. ASSUME Shutdown \/ UNCHANGED vars PROVE NotifiedUnlessDoubled'
  BY <1>2, <1>9 DEF Shutdown, vars, view, hist
<1> QED
  BY <1>3, <1>4, <1>5, <1>6, <1>7, <1>8, <1>9 DEF Next, Launch, ResumeRun, Runs

\* Each execution that ends has sent one notification, if its run was not resumed too early.
THEOREM NotifiedOnce == Spec => []NotifiedUnlessDoubled
<1>1. Init => Seen /\ NotifiedUnlessDoubled
  <2> SUFFICES ASSUME Init PROVE Seen /\ NotifiedUnlessDoubled
    OBVIOUS
  <2>1. Seen
    BY DEF Init, Seen, Alone
  <2>2. \A r \in Runs : {e \in Execs : runOf[e] = r /\ result[e] # None} = {} /\ notices[r] = 0
    BY DEF Init
  <2> QED
    BY <2>1, <2>2, FS_EmptySet DEF NotifiedUnlessDoubled
<1>2. IInv /\ Seen /\ NotifiedUnlessDoubled /\ [Next]_vars => Seen' /\ NotifiedUnlessDoubled'
  BY SeenStep, CountStep
<1> QED
  BY <1>1, <1>2, Invariance, PTL DEF Spec


--------------------------------------------------------------------------------
(* The run directories.                                                    *)

\* A job has its run until the state of it is written.
DiskInv ==
  /\ DiskTypeOK
  /\ \A i \in Jobs : /\ job[i].pc \in {"mkdir", "write", "rename"} => job[i].run \in RunIds
                     /\ job[i].pc # "remove" => job[i].victims = {}

\* What is on disk for a run, and what a job holds.
Directories == [there : BOOLEAN, tmp : States, state : States]

JobRecords ==
  [pc : {"free", "mkdir", "write", "rename", "readdir", "scan", "remove", "over", "lost"},
   run : RunIds \cup {NoRun}, unread : SUBSET RunIds, listed : SUBSET RunIds,
   at : [RunIds -> Nat], victims : SUBSET RunIds, data : States]

\* What a step of one job leaves alone.
Others(i) == \A j \in Jobs \ {i} : job'[j] = job[j]

\* A step of one job keeps the types when it leaves a job, and a directory at most
\* changes to another one.
LEMMA JobStep ==
  ASSUME DiskInv, NEW i \in Jobs, NEW from, NEW to \in JobRecords, Step(i, from, to),
         to.pc \in {"mkdir", "write", "rename"} => to.run \in RunIds,
         to.pc # "remove" => to.victims = {},
         disk' \in [RunIds -> [there : BOOLEAN, tmp : States, state : States]],
         \A r \in RunIds : ~ disk'[r].there => disk'[r] = Absent,
         progress' \in [RunIds -> States], clock' \in Nat, UNCHANGED <<crashes, overlap>>
  PROVE  DiskInv' /\ job[i].pc = from /\ job'[i] = to /\ Others(i)
<1>1. job \in [Jobs -> JobRecords] /\ job' = [job EXCEPT ![i] = to] /\ job[i].pc = from
  BY DEF DiskInv, DiskTypeOK, JobRecords, Step
<1>2. job' \in [Jobs -> JobRecords] /\ job'[i] = to /\ Others(i)
  BY <1>1 DEF Others
<1>3. DiskTypeOK'
  BY <1>2 DEF DiskInv, DiskTypeOK, JobRecords
<1> QED
  BY <1>1, <1>2, <1>3 DEF DiskInv, Others

\* Types of the constants.
LEMMA DiskTypes ==
  /\ Nothing \in States /\ Nothing.at = 0 /\ Nothing.status = "none" /\ FreeJob \in JobRecords
  /\ Absent \in [there : BOOLEAN, tmp : States, state : States]
  /\ Absent.state.at = 0 /\ ~ Absent.there /\ Absent.tmp = Nothing /\ Absent.state = Nothing
  /\ FreeJob.pc = "free" /\ FreeJob.victims = {}
BY DEF Nothing, States, FreeJob, JobRecords, Absent

\* run_done: the state of the run is now to be written.
LEMMA RunDoneDoes ==
  ASSUME DiskInv, NEW r \in RunIds, NEW i \in Jobs, RunDone(r, i)
  PROVE  /\ DiskInv' /\ Others(i) /\ job[i].pc = "free"
         /\ job'[i].pc = "mkdir" /\ job'[i].run = r /\ job'[i].victims = {}
         /\ progress[r].status = "running"
         /\ progress'[r] = [status |-> "terminal", at |-> clock + 1]
         /\ \A s \in RunIds \ {r} : progress'[s] = progress[s]
         /\ disk' = disk /\ clock' = clock + 1 /\ overlap' = overlap
<1> DEFINE to == [FreeJob EXCEPT !.pc = "mkdir", !.run = r]
           now == [status |-> "terminal", at |-> clock + 1]
<1>1. to \in JobRecords /\ to.pc = "mkdir" /\ to.run = r /\ to.victims = {}
  BY DiskTypes DEF FreeJob, JobRecords
<1>2. /\ Step(i, "free", to) /\ UNCHANGED <<disk, crashes, overlap>> /\ clock' = clock + 1
      /\ progress' = [progress EXCEPT ![r] = now] /\ progress[r].status = "running"
  BY DEF RunDone, Going
<1>3. now \in States /\ clock' \in Nat
  BY <1>2 DEF DiskInv, DiskTypeOK, States
<1> HIDE DEF to, now
<1>4. /\ progress' \in [RunIds -> States] /\ progress'[r] = now
      /\ \A s \in RunIds \ {r} : progress'[s] = progress[s]
  BY <1>2, <1>3 DEF DiskInv, DiskTypeOK
<1>5. DiskInv' /\ job[i].pc = "free" /\ job'[i] = to /\ Others(i)
  BY <1>1, <1>2, <1>3, <1>4, JobStep DEF DiskInv, DiskTypeOK
<1> QED
  BY <1>1, <1>2, <1>4, <1>5 DEF now

\* The directory is there, and the store has been read.
LEMMA MakeDirDoes ==
  ASSUME DiskInv, NEW i \in Jobs, MakeDir(i), NEW r, r = job[i].run
  PROVE  /\ DiskInv' /\ Others(i) /\ r \in RunIds /\ job[i].pc = "mkdir"
         /\ job'[i].pc = "write" /\ job'[i].run = r /\ job'[i].data = progress[r]
         /\ job'[i].victims = {}
         /\ disk'[r].there /\ disk'[r].state = disk[r].state
         /\ \A s \in RunIds \ {r} : disk'[s] = disk[s]
         /\ UNCHANGED <<progress, clock, overlap>>
<1> DEFINE to == [job[i] EXCEPT !.pc = "write", !.data = progress[r]]
<1>1. /\ Step(i, "mkdir", to) /\ disk' = [disk EXCEPT ![r].there = TRUE]
      /\ UNCHANGED <<progress, clock, crashes, overlap>>
  BY DEF MakeDir
<1>2. job[i] \in JobRecords /\ r \in RunIds /\ job[i].victims = {} /\ progress[r] \in States
  BY <1>1 DEF DiskInv, DiskTypeOK, JobRecords, Step
<1>3. /\ to \in JobRecords /\ to.pc = "write" /\ to.run = r /\ to.data = progress[r]
      /\ to.victims = {}
  BY <1>2 DEF JobRecords
<1>4. /\ disk' \in [RunIds -> [there : BOOLEAN, tmp : States, state : States]]
      /\ disk'[r].there /\ disk'[r].state = disk[r].state
      /\ \A s \in RunIds \ {r} : disk'[s] = disk[s]
  <2> DEFINE new == [disk[r] EXCEPT !.there = TRUE]
  <2>1. disk \in [RunIds -> Directories] /\ disk[r] \in Directories
    BY <1>2 DEF DiskInv, DiskTypeOK, Directories
  <2>2. new \in Directories /\ new.there /\ new.state = disk[r].state
    BY <2>1 DEF Directories
  <2>3. disk' = [disk EXCEPT ![r] = new]
    BY <1>1
  <2> HIDE DEF new
  <2> QED
    BY <1>2, <2>1, <2>2, <2>3 DEF Directories
<1>5. \A s \in RunIds : ~ disk'[s].there => disk'[s] = Absent
  BY <1>4 DEF DiskInv, DiskTypeOK
<1> HIDE DEF to
<1>6. progress' \in [RunIds -> States] /\ clock' \in Nat
  BY <1>1 DEF DiskInv, DiskTypeOK
<1>7. DiskInv' /\ job[i].pc = "mkdir" /\ job'[i] = to /\ Others(i)
  BY <1>1, <1>2, <1>3, <1>4, <1>5, <1>6, JobStep
<1> QED
  BY <1>1, <1>2, <1>3, <1>4, <1>7

\* The string is in the temporary file, if the directory is still there.
LEMMA WriteTmpDoes ==
  ASSUME DiskInv, NEW i \in Jobs, WriteTmp(i), NEW r, r = job[i].run
  PROVE  /\ DiskInv' /\ Others(i) /\ r \in RunIds /\ job[i].pc = "write"
         /\ disk[r].there => /\ job'[i].pc = "rename" /\ job'[i].run = r
                             /\ disk'[r].tmp = job[i].data
         /\ ~ disk[r].there => job'[i].pc = "readdir"
         /\ job'[i].victims = {} /\ disk'[r].there = disk[r].there
         /\ disk'[r].state = disk[r].state
         /\ \A s \in RunIds \ {r} : disk'[s] = disk[s]
         /\ UNCHANGED <<progress, clock, overlap>>
<1> DEFINE on == [job[i] EXCEPT !.pc = "rename", !.data = Nothing]
           skip == [FreeJob EXCEPT !.pc = "readdir"]
           to == IF disk[r].there THEN on ELSE skip
           new == [disk[r] EXCEPT !.tmp = job[i].data]
<1>1. /\ Step(i, "write", to)
      /\ disk' = IF disk[r].there THEN [disk EXCEPT ![r].tmp = job[i].data] ELSE disk
      /\ UNCHANGED <<progress, clock, crashes, overlap>>
  BY DEF WriteTmp
<1>2. /\ job[i] \in JobRecords /\ job[i].pc = "write" /\ r \in RunIds
      /\ job[i].victims = {} /\ job[i].data \in States
  BY <1>1 DEF DiskInv, DiskTypeOK, JobRecords, Step
<1>3. /\ disk \in [RunIds -> Directories] /\ disk[r] \in Directories
      /\ \A s \in RunIds : ~ disk[s].there => disk[s] = Absent
      /\ progress' \in [RunIds -> States] /\ clock' \in Nat
  BY <1>1, <1>2 DEF DiskInv, DiskTypeOK, Directories
<1>4. /\ on \in JobRecords /\ on.pc = "rename" /\ on.run = r /\ on.victims = {}
      /\ skip \in JobRecords /\ skip.pc = "readdir" /\ skip.victims = {}
  BY <1>2, DiskTypes DEF JobRecords
<1>5. /\ new \in Directories /\ new.tmp = job[i].data /\ new.state = disk[r].state
      /\ new.there = disk[r].there
  BY <1>2, <1>3 DEF Directories
<1>6. disk' = IF disk[r].there THEN [disk EXCEPT ![r] = new] ELSE disk
  BY <1>1
<1> HIDE DEF on, skip, new
<1>7. /\ disk' \in [RunIds -> Directories]
      /\ \A s \in RunIds : ~ disk'[s].there => disk'[s] = Absent
      /\ disk[r].there => disk'[r] = new
      /\ ~ disk[r].there => disk' = disk
      /\ \A s \in RunIds \ {r} : disk'[s] = disk[s]
  BY <1>2, <1>3, <1>5, <1>6
<1>8. /\ to \in JobRecords /\ to.victims = {}
      /\ to.pc \in {"mkdir", "write", "rename"} => to.run \in RunIds
  BY <1>2, <1>4
<1> HIDE DEF to
<1>9. DiskInv' /\ job'[i] = to /\ Others(i)
  BY <1>1, <1>3, <1>7, <1>8, JobStep DEF Directories
<1> QED
  BY <1>1, <1>2, <1>4, <1>5, <1>7, <1>9 DEF to

\* The temporary file has become state.json, if it is still there.
LEMMA RenameDoes ==
  ASSUME DiskInv, NEW i \in Jobs, Rename(i), NEW r, r = job[i].run
  PROVE  /\ DiskInv' /\ Others(i) /\ r \in RunIds /\ job[i].pc = "rename"
         /\ job'[i].pc = "readdir" /\ job'[i].victims = {}
         /\ disk'[r].there = disk[r].there
         /\ disk[r].tmp # Nothing => disk'[r].state = disk[r].tmp
         /\ \A s \in RunIds \ {r} : disk'[s] = disk[s]
         /\ UNCHANGED <<progress, clock, overlap>>
<1> DEFINE to == [FreeJob EXCEPT !.pc = "readdir"]
           new == [disk[r] EXCEPT !.state = disk[r].tmp, !.tmp = Nothing]
<1>1. /\ Step(i, "rename", to)
      /\ disk' = IF disk[r].tmp = Nothing THEN disk
                 ELSE [disk EXCEPT ![r].state = disk[r].tmp, ![r].tmp = Nothing]
      /\ UNCHANGED <<progress, clock, crashes, overlap>>
  BY DEF Rename
<1>2. job[i] \in JobRecords /\ job[i].pc = "rename" /\ r \in RunIds
  BY <1>1 DEF DiskInv, DiskTypeOK, JobRecords, Step
<1>3. /\ disk \in [RunIds -> Directories] /\ disk[r] \in Directories
      /\ \A s \in RunIds : ~ disk[s].there => disk[s] = Absent
      /\ progress' \in [RunIds -> States] /\ clock' \in Nat
  BY <1>1, <1>2 DEF DiskInv, DiskTypeOK, Directories
<1>4. to \in JobRecords /\ to.pc = "readdir" /\ to.victims = {}
  BY DiskTypes DEF JobRecords
<1>5. /\ new \in Directories /\ new.state = disk[r].tmp /\ new.there = disk[r].there
  BY <1>2, <1>3, DiskTypes DEF Directories
<1>6. disk[r].tmp # Nothing => disk[r].there
  BY <1>2, <1>3, DiskTypes
<1>7. disk' = IF disk[r].tmp = Nothing THEN disk ELSE [disk EXCEPT ![r] = new]
  BY <1>1, <1>2, <1>3
<1> HIDE DEF to, new
<1>8. /\ disk' \in [RunIds -> Directories]
      /\ \A s \in RunIds : ~ disk'[s].there => disk'[s] = Absent
      /\ disk[r].tmp # Nothing => disk'[r] = new
      /\ disk[r].tmp = Nothing => disk' = disk
      /\ \A s \in RunIds \ {r} : disk'[s] = disk[s]
  BY <1>2, <1>3, <1>5, <1>6, <1>7
<1>9. DiskInv' /\ job'[i] = to /\ Others(i)
  BY <1>1, <1>3, <1>4, <1>8, JobStep DEF Directories
<1> QED
  BY <1>1, <1>2, <1>4, <1>5, <1>8, <1>9

\* The directories are listed.
LEMMA ReadDirDoes ==
  ASSUME DiskInv, NEW i \in Jobs, ReadDir(i)
  PROVE  /\ DiskInv' /\ Others(i) /\ job[i].pc = "readdir"
         /\ job'[i].pc = "scan" /\ job'[i].victims = {}
         /\ job'[i].listed = {r \in RunIds : disk[r].there} /\ job'[i].unread = job'[i].listed
         /\ UNCHANGED <<progress, disk, clock, overlap>>
<1> DEFINE names == {r \in RunIds : disk[r].there}
           to == [job[i] EXCEPT !.pc = "scan", !.unread = names, !.listed = names]
<1>1. Step(i, "readdir", to) /\ UNCHANGED <<progress, disk, clock, crashes, overlap>>
  BY DEF ReadDir
<1>2. job[i] \in JobRecords /\ job[i].victims = {}
  BY <1>1 DEF DiskInv, DiskTypeOK, JobRecords, Step
<1>3. /\ to \in JobRecords /\ to.pc = "scan" /\ to.victims = {}
      /\ to.listed = names /\ to.unread = names
  BY <1>2 DEF JobRecords
<1> HIDE DEF to, names
<1>4. DiskInv' /\ job[i].pc = "readdir" /\ job'[i] = to /\ Others(i)
  BY <1>1, <1>3, JobStep DEF DiskInv, DiskTypeOK
<1> QED
  BY <1>1, <1>3, <1>4 DEF names

\* The time of one state is read.
LEMMA ReadStateDoes ==
  ASSUME DiskInv, NEW i \in Jobs, NEW r \in RunIds, ReadState(i, r)
  PROVE  /\ DiskInv' /\ Others(i) /\ job[i].pc = "scan"
         /\ job'[i].pc = "scan" /\ job'[i].victims = {}
         /\ job'[i].listed = job[i].listed /\ job'[i].unread = job[i].unread \ {r}
         /\ job'[i].at[r] = disk[r].state.at
         /\ \A s \in RunIds \ {r} : job'[i].at[s] = job[i].at[s]
         /\ UNCHANGED <<progress, disk, clock, overlap>>
<1> DEFINE times == [job[i].at EXCEPT ![r] = disk[r].state.at]
           to == [job[i] EXCEPT !.unread = job[i].unread \ {r}, !.at = times]
<1>1. job[i] \in JobRecords /\ job[i].at \in [RunIds -> Nat] /\ disk[r].state.at \in Nat
  BY DEF DiskInv, DiskTypeOK, JobRecords, States
<1>2. Step(i, "scan", to) /\ UNCHANGED <<progress, disk, clock, crashes, overlap>>
  BY <1>1 DEF ReadState
<1>3. job[i].victims = {}
  BY <1>2 DEF DiskInv, Step
<1>4. /\ times \in [RunIds -> Nat] /\ times[r] = disk[r].state.at
      /\ \A s \in RunIds \ {r} : times[s] = job[i].at[s]
  BY <1>1
<1> HIDE DEF times
<1>5. /\ to \in JobRecords /\ to.victims = {} /\ to.pc = job[i].pc /\ to.listed = job[i].listed
      /\ to.unread = job[i].unread \ {r} /\ to.at = times
  BY <1>1, <1>3, <1>4 DEF JobRecords
<1>6. job[i].pc = "scan"
  BY <1>2 DEF Step
<1> HIDE DEF to
<1>7. DiskInv' /\ job'[i] = to /\ Others(i)
  BY <1>2, <1>5, <1>6, JobStep DEF DiskInv, DiskTypeOK
<1> QED
  BY <1>2, <1>4, <1>5, <1>6, <1>7

\* The victims of the sweep are chosen.
LEMMA ChooseVictimsDoes ==
  ASSUME DiskInv, NEW i \in Jobs, ChooseVictims(i)
  PROVE  /\ DiskInv' /\ Others(i) /\ job[i].pc = "scan" /\ job[i].unread = {}
         /\ job'[i].pc = "remove" /\ job'[i].victims \in Victims(job[i].listed, job[i].at)
         /\ UNCHANGED <<progress, disk, clock, overlap>>
<1>1. PICK V \in Victims(job[i].listed, job[i].at) :
        Step(i, "scan", [FreeJob EXCEPT !.pc = "remove", !.victims = V])
  BY DEF ChooseVictims
<1> DEFINE to == [FreeJob EXCEPT !.pc = "remove", !.victims = V]
<1>2. V \subseteq RunIds
  BY DEF Victims, DiskInv, DiskTypeOK
<1>3. to \in JobRecords /\ to.pc = "remove" /\ to.victims = V
  BY <1>2, DiskTypes DEF JobRecords
<1>4. /\ Step(i, "scan", to) /\ UNCHANGED <<progress, disk, clock, crashes, overlap>>
      /\ job[i].unread = {}
  BY <1>1 DEF ChooseVictims
<1> HIDE DEF to
<1>5. DiskInv' /\ job[i].pc = "scan" /\ job'[i] = to /\ Others(i)
  BY <1>3, <1>4, JobStep DEF DiskInv, DiskTypeOK
<1> QED
  BY <1>3, <1>4, <1>5

\* One of them is removed.
LEMMA RemoveVictimDoes ==
  ASSUME DiskInv, NEW i \in Jobs, NEW r \in RunIds, RemoveVictim(i, r)
  PROVE  /\ DiskInv' /\ Others(i) /\ job[i].pc = "remove" /\ job'[i].pc = "remove"
         /\ r \in job[i].victims /\ job'[i].victims = job[i].victims \ {r}
         /\ disk'[r] = Absent /\ \A s \in RunIds \ {r} : disk'[s] = disk[s]
         /\ UNCHANGED <<progress, clock, overlap>>
<1> DEFINE to == [job[i] EXCEPT !.victims = job[i].victims \ {r}]
<1>1. /\ Step(i, "remove", to) /\ disk' = [disk EXCEPT ![r] = Absent] /\ r \in job[i].victims
      /\ UNCHANGED <<progress, clock, crashes, overlap>>
  BY DEF RemoveVictim
<1>2. job[i] \in JobRecords /\ job[i].pc = "remove"
  BY <1>1 DEF DiskInv, DiskTypeOK, JobRecords, Step
<1>3. to \in JobRecords /\ to.pc = "remove" /\ to.victims = job[i].victims \ {r}
  BY <1>2 DEF JobRecords
<1> HIDE DEF to
<1>4. /\ disk' \in [RunIds -> Directories] /\ disk'[r] = Absent
      /\ \A s \in RunIds \ {r} : disk'[s] = disk[s]
      /\ \A s \in RunIds : ~ disk'[s].there => disk'[s] = Absent
  BY <1>1, DiskTypes DEF DiskInv, DiskTypeOK, Directories
<1>5. DiskInv' /\ job'[i] = to /\ Others(i)
  BY <1>1, <1>3, <1>4, JobStep DEF DiskInv, DiskTypeOK, Directories
<1> QED
  BY <1>1, <1>2, <1>3, <1>4, <1>5

\* The sweep is over.
LEMMA EndSweepDoes ==
  ASSUME DiskInv, NEW i \in Jobs, EndSweep(i)
  PROVE  /\ DiskInv' /\ Others(i) /\ job[i].pc = "remove" /\ job[i].victims = {}
         /\ job'[i].pc = "over" /\ job'[i].victims = {}
         /\ UNCHANGED <<progress, disk, clock, overlap>>
<1> DEFINE to == [FreeJob EXCEPT !.pc = "over"]
<1>1. /\ Step(i, "remove", to) /\ job[i].victims = {}
      /\ UNCHANGED <<progress, disk, clock, crashes, overlap>>
  BY DEF EndSweep
<1>2. to \in JobRecords /\ to.pc = "over" /\ to.victims = {}
  BY DiskTypes DEF JobRecords
<1> HIDE DEF to
<1>3. DiskInv' /\ job[i].pc = "remove" /\ job'[i] = to /\ Others(i)
  BY <1>1, <1>2, JobStep DEF DiskInv, DiskTypeOK
<1> QED
  BY <1>1, <1>2, <1>3

\* A run starts, or starts again.
LEMMA StartDoes ==
  ASSUME DiskInv, NEW r \in RunIds, Start(r)
  PROVE  /\ DiskInv' /\ progress'[r] = [status |-> "running", at |-> clock + 1]
         /\ \A s \in RunIds \ {r} : progress'[s] = progress[s]
         /\ clock' = clock + 1 /\ UNCHANGED <<disk, job>>
         /\ overlap' = (overlap \/ ~ Idle \/ \E s \in RunIds : Going(s))
<1> DEFINE now == [status |-> "running", at |-> clock + 1]
<1>1. /\ progress' = [progress EXCEPT ![r] = now] /\ clock' = clock + 1
      /\ overlap' = (overlap \/ ~ Idle \/ \E s \in RunIds : Going(s))
      /\ UNCHANGED <<disk, job, crashes>>
  BY DEF Start
<1>2. now \in States /\ clock' \in Nat
  BY <1>1 DEF DiskInv, DiskTypeOK, States
<1>3. overlap' \in BOOLEAN
  BY <1>1
<1> HIDE DEF now
<1>4. /\ progress' \in [RunIds -> States] /\ progress'[r] = now
      /\ \A s \in RunIds \ {r} : progress'[s] = progress[s]
  BY <1>1, <1>2 DEF DiskInv, DiskTypeOK
<1>5. DiskInv'
  BY <1>1, <1>2, <1>3, <1>4 DEF DiskInv, DiskTypeOK
<1> QED
  BY <1>1, <1>4, <1>5 DEF now

\* The directory of a run in progress comes and goes with its journal.
LEMMA JournalDoes ==
  ASSUME DiskInv, NEW r \in RunIds, AppendJournal(r) \/ Truncate(r)
  PROVE  /\ DiskInv' /\ Going(r)
         /\ disk'[r].state = Nothing \/ disk'[r].state = disk[r].state
         /\ AppendJournal(r) => disk'[r].there
         /\ \A s \in RunIds \ {r} : disk'[s] = disk[s]
         /\ UNCHANGED <<progress, job, clock, overlap>>
<1>1. /\ disk \in [RunIds -> Directories] /\ disk[r] \in Directories
      /\ \A s \in RunIds : ~ disk[s].there => disk[s] = Absent
      /\ Going(r) /\ UNCHANGED <<progress, job, clock, crashes, overlap>>
  BY DEF AppendJournal, Truncate, DiskInv, DiskTypeOK, Directories
<1>2. PICK new \in Directories :
        /\ disk' = [disk EXCEPT ![r] = new]
        /\ ~ new.there => new = Absent
        /\ new.state = Nothing \/ new.state = disk[r].state
        /\ AppendJournal(r) => new.there
  <2>1. CASE AppendJournal(r)
    <3> DEFINE new == [disk[r] EXCEPT !.there = TRUE]
    <3>1. new \in Directories /\ new.there /\ new.state = disk[r].state
      BY <1>1 DEF Directories
    <3>2. disk' = [disk EXCEPT ![r] = new]
      BY <2>1 DEF AppendJournal
    <3> HIDE DEF new
    <3> QED
      BY <3>1, <3>2
  <2>2. CASE Truncate(r)
    <3>1. ~ AppendJournal(r) /\ disk' = [disk EXCEPT ![r] = Absent]
      BY <2>2 DEF Truncate, AppendJournal
    <3>2. Absent \in Directories /\ Absent.state = Nothing
      BY DiskTypes DEF Directories
    <3> QED
      BY <3>1, <3>2
  <2> QED
    BY <2>1, <2>2
<1>3. /\ disk' \in [RunIds -> Directories] /\ disk'[r] = new
      /\ \A s \in RunIds \ {r} : disk'[s] = disk[s]
      /\ \A s \in RunIds : ~ disk'[s].there => disk'[s] = Absent
  BY <1>1, <1>2
<1>4. DiskInv'
  BY <1>1, <1>3 DEF DiskInv, DiskTypeOK, Directories
<1> QED
  BY <1>1, <1>2, <1>3, <1>4

\* The process dies: nothing is in progress, and no job goes on.
LEMMA CrashDoes ==
  ASSUME DiskInv, Crash
  PROVE  /\ DiskInv' /\ \A r \in RunIds : progress'[r] = Nothing
         /\ \A i \in Jobs : job'[i].pc \in {"free", "lost"} /\ job'[i].victims = {}
         /\ UNCHANGED <<disk, clock, overlap>>
<1> DEFINE gone == [FreeJob EXCEPT !.pc = "lost"]
<1>1. /\ crashes < MaxCrashes /\ crashes' = crashes + 1 /\ progress' = [r \in RunIds |-> Nothing]
      /\ job' = [i \in Jobs |-> IF job[i].pc = "free" THEN job[i] ELSE gone]
      /\ UNCHANGED <<disk, clock, overlap>>
  BY DEF Crash
<1>2. gone \in JobRecords /\ gone.pc = "lost" /\ gone.victims = {}
  BY DiskTypes DEF JobRecords
<1>3. job \in [Jobs -> JobRecords] /\ crashes \in 0 .. MaxCrashes /\ MaxCrashes \in Nat
  BY PersistenceAssumption DEF DiskInv, DiskTypeOK, JobRecords
<1> HIDE DEF gone
<1>4. /\ job' \in [Jobs -> JobRecords]
      /\ \A i \in Jobs : job'[i] = IF job[i].pc = "free" THEN job[i] ELSE gone
  BY <1>1, <1>2, <1>3
<1>5. crashes' \in 0 .. MaxCrashes /\ progress' \in [RunIds -> States]
  BY <1>1, <1>3, DiskTypes
<1>6. \A i \in Jobs : job'[i].pc \in {"free", "lost"} /\ job'[i].victims = {}
  BY <1>2, <1>4 DEF DiskInv
<1>7. DiskTypeOK'
  BY <1>1, <1>4, <1>5 DEF DiskInv, DiskTypeOK, JobRecords
<1> QED
  BY <1>1, <1>6, <1>7 DEF DiskInv

--------------------------------------------------------------------------------

\* The directories there are, and whether there may come another one.
Names == {r \in RunIds : disk[r].there}
Coming == \/ \E r \in RunIds : Going(r)
          \/ \E i \in Jobs : job[i].pc \in {"mkdir", "write", "rename", "readdir"}

\* The sweep of i has seen, or dealt with, every directory.
Covers(i) ==
  \/ job[i].pc = "scan" /\ Names \subseteq job[i].listed
  \/ job[i].pc = "remove" /\ Cardinality(Names \ job[i].victims) <= KeepMax
  \/ job[i].pc = "over" /\ Cardinality(Names) <= KeepMax

\* When no directory can come any more, the last sweep to read the directory covers all.
SweepInv ==
  \/ Coming
  \/ \A i \in Jobs : job[i].pc \notin {"scan", "remove", "over"}
  \/ \E i \in Jobs : Covers(i)

\* Directories are finitely many; fewer of them are not more.
LEMMA FewerNames ==
  ASSUME NEW A, NEW B \in SUBSET RunIds, A \subseteq B
  PROVE  /\ IsFiniteSet(A) /\ Cardinality(A) \in Nat /\ Cardinality(B) \in Nat
         /\ Cardinality(A) <= Cardinality(B)
<1>1. IsFiniteSet(B)
  BY PersistenceAssumption, FS_Subset
<1> QED
  BY <1>1, FS_Subset, FS_CardinalityType

\* A step that adds no directory, and of the jobs changes i only, keeps what j covers.
LEMMA StillCovers ==
  ASSUME DiskInv, NEW j \in Jobs, Covers(j), Names' \subseteq Names, job'[j] = job[j]
  PROVE  Covers(j)'
<1>1. Names \ job[j].victims \subseteq RunIds /\ Names \subseteq RunIds
  BY DEF Names
<1>2. /\ Cardinality(Names') \in Nat /\ Cardinality(Names) \in Nat
      /\ Cardinality(Names') <= Cardinality(Names)
  BY <1>1, FewerNames
<1>3. /\ Cardinality(Names' \ job[j].victims) \in Nat /\ Cardinality(Names \ job[j].victims) \in Nat
      /\ Cardinality(Names' \ job[j].victims) <= Cardinality(Names \ job[j].victims)
  BY <1>1, FewerNames
<1>4. KeepMax \in Nat
  BY PersistenceAssumption
<1> QED
  BY <1>2, <1>3, <1>4 DEF Covers

\* A sweep that goes on covers what it covered.
LEMMA SweepGoesOn ==
  ASSUME DiskInv, NEW i \in Jobs, Covers(i),
         \/ \E r \in RunIds : ReadState(i, r) \/ RemoveVictim(i, r)
         \/ ChooseVictims(i) \/ EndSweep(i)
  PROVE  Covers(i)'
<1>1. ASSUME NEW r \in RunIds, ReadState(i, r) PROVE Covers(i)'
  BY <1>1, ReadStateDoes DEF Covers, Names
<1>2. CASE ChooseVictims(i)
  <2>1. PICK V : V = job'[i].victims
    OBVIOUS
  <2>2. /\ job'[i].pc = "remove" /\ Names' = Names /\ Names \subseteq job[i].listed
        /\ V \in Victims(job[i].listed, job[i].at)
    BY <1>2, <2>1, ChooseVictimsDoes DEF Covers, Names
  <2>3. /\ job[i].listed \subseteq RunIds /\ Names \ V \subseteq job[i].listed \ V
        /\ job[i].listed \ V \subseteq RunIds
    BY <2>2 DEF DiskInv, DiskTypeOK
  <2>4. /\ Cardinality(Names \ V) \in Nat /\ Cardinality(job[i].listed \ V) \in Nat
        /\ Cardinality(Names \ V) <= Cardinality(job[i].listed \ V)
        /\ Cardinality(job[i].listed) \in Nat /\ KeepMax \in Nat
    BY <2>3, FewerNames, PersistenceAssumption
  <2>5. Cardinality(job[i].listed \ V) =
          IF Cardinality(job[i].listed) > KeepMax THEN KeepMax ELSE Cardinality(job[i].listed)
    BY <2>2 DEF Victims
  <2>6. Cardinality(Names \ V) <= KeepMax
    BY <2>4, <2>5
  <2> QED
    BY <2>1, <2>2, <2>6 DEF Covers
<1>3. ASSUME NEW r \in RunIds, RemoveVictim(i, r) PROVE Covers(i)'
  <2>1. /\ job[i].pc = "remove" /\ job'[i].pc = "remove" /\ job'[i].victims = job[i].victims \ {r}
        /\ ~ disk'[r].there /\ \A s \in RunIds \ {r} : disk'[s] = disk[s]
    BY <1>3, RemoveVictimDoes, DiskTypes
  <2>2. Names' \ job'[i].victims \subseteq Names \ job[i].victims
    BY <2>1 DEF Names
  <2>3. Names \ job[i].victims \subseteq RunIds
    BY DEF Names
  <2>4. /\ Cardinality(Names' \ job'[i].victims) <= Cardinality(Names \ job[i].victims)
        /\ Cardinality(Names' \ job'[i].victims) \in Nat
        /\ Cardinality(Names \ job[i].victims) \in Nat /\ KeepMax \in Nat
    BY <2>2, <2>3, FewerNames, PersistenceAssumption
  <2> QED
    BY <2>1, <2>4 DEF Covers
<1>4. CASE EndSweep(i)
  <2>1. /\ job[i].pc = "remove" /\ job[i].victims = {} /\ job'[i].pc = "over" /\ Names' = Names
    BY <1>4, EndSweepDoes DEF Names
  <2>2. Names \ {} = Names
    OBVIOUS
  <2> QED
    BY <2>1, <2>2 DEF Covers
<1> QED
  BY <1>1, <1>2, <1>3, <1>4

\* Every step keeps the types, and what the last sweep covers.
LEMMA SweepStep ==
  ASSUME DiskInv, SweepInv, [DiskNext]_diskVars
  PROVE  DiskInv' /\ SweepInv'
<1>1. ASSUME NEW r \in RunIds, Start(r) PROVE DiskInv' /\ SweepInv'
  BY <1>1, StartDoes DEF SweepInv, Coming, Going
<1>2. ASSUME NEW r \in RunIds, AppendJournal(r) \/ Truncate(r) PROVE DiskInv' /\ SweepInv'
  <2>1. DiskInv' /\ Going(r) /\ progress' = progress
    BY <1>2, JournalDoes
  <2> QED
    BY <2>1 DEF SweepInv, Coming, Going
<1>3. ASSUME NEW r \in RunIds, NEW i \in Jobs, RunDone(r, i) PROVE DiskInv' /\ SweepInv'
  BY <1>3, RunDoneDoes DEF SweepInv, Coming
<1>4. ASSUME NEW i \in Jobs, MakeDir(i) \/ WriteTmp(i) \/ Rename(i) PROVE DiskInv' /\ SweepInv'
  BY <1>4, MakeDirDoes, WriteTmpDoes, RenameDoes DEF SweepInv, Coming
<1>5. ASSUME NEW i \in Jobs, ReadDir(i) PROVE DiskInv' /\ SweepInv'
  BY <1>5, ReadDirDoes DEF SweepInv, Covers, Names
<1>6. ASSUME NEW i \in Jobs,
             \/ \E r \in RunIds : ReadState(i, r) \/ RemoveVictim(i, r)
             \/ ChooseVictims(i) \/ EndSweep(i)
      PROVE  DiskInv' /\ SweepInv'
  <2>1. /\ DiskInv' /\ Others(i) /\ progress' = progress /\ Names' \subseteq Names
        /\ job[i].pc \in {"scan", "remove"} /\ job'[i].pc \in {"scan", "remove", "over"}
    <3>1. ASSUME NEW r \in RunIds, RemoveVictim(i, r)
          PROVE  /\ DiskInv' /\ Others(i) /\ progress' = progress /\ Names' \subseteq Names
                 /\ job[i].pc = "remove" /\ job'[i].pc = "remove"
      BY <3>1, RemoveVictimDoes, DiskTypes DEF Names
    <3> QED
      BY <1>6, <3>1, ReadStateDoes, ChooseVictimsDoes, EndSweepDoes DEF Names
  <2>2. CASE Coming
    BY <2>1, <2>2 DEF SweepInv, Coming, Going, Others
  <2>3. ASSUME NEW j \in Jobs, Covers(j) PROVE Covers(j)'
    BY <1>6, <2>1, <2>3, StillCovers, SweepGoesOn DEF Others
  <2> QED
    BY <2>1, <2>2, <2>3 DEF SweepInv
<1>7. CASE Crash
  BY <1>7, CrashDoes DEF SweepInv
<1>8. CASE UNCHANGED diskVars
  BY <1>8 DEF diskVars, DiskInv, DiskTypeOK, SweepInv, Coming, Going, Covers, Names
<1> QED
  BY <1>1, <1>2, <1>3, <1>4, <1>5, <1>6, <1>7, <1>8 DEF DiskNext

\* At the start there is no directory.
LEMMA DiskStarts == DiskInit => DiskInv /\ SweepInv
<1> SUFFICES ASSUME DiskInit PROVE DiskInv /\ SweepInv
  OBVIOUS
<1>1. /\ progress \in [RunIds -> States] /\ disk \in [RunIds -> Directories]
      /\ job \in [Jobs -> JobRecords] /\ clock \in Nat /\ crashes \in 0 .. MaxCrashes
      /\ overlap \in BOOLEAN
  <2>1. progress \in [RunIds -> States] /\ disk \in [RunIds -> Directories]
    BY DiskTypes DEF DiskInit, Directories
  <2>2. job \in [Jobs -> JobRecords]
    BY DiskTypes DEF DiskInit
  <2>3. MaxCrashes \in Nat
    BY PersistenceAssumption
  <2>4. clock = 0 /\ crashes = 0 /\ overlap = FALSE
    BY DEF DiskInit
  <2>5. clock \in Nat /\ crashes \in 0 .. MaxCrashes
    BY <2>3, <2>4
  <2> QED
    BY <2>1, <2>2, <2>4, <2>5
<1>2. /\ \A i \in Jobs : job[i].pc = "free" /\ job[i].victims = {}
      /\ \A r \in RunIds : disk[r] = Absent
  BY DiskTypes DEF DiskInit
<1> QED
  BY <1>1, <1>2 DEF DiskInv, DiskTypeOK, Directories, JobRecords, SweepInv

\* What is always true of the run directories.
LEMMA SweepKept == DiskSpec => [](DiskInv /\ SweepInv)
<1>1. DiskInv /\ SweepInv /\ [DiskNext]_diskVars => (DiskInv /\ SweepInv)'
  BY SweepStep
<1> QED
  BY <1>1, DiskStarts, PTL DEF DiskSpec

\* The variables of the run directories have their types.
THEOREM DiskTypesCorrect == DiskSpec => []DiskTypeOK
<1>1. DiskInv => DiskTypeOK
  BY DEF DiskInv
<1> QED
  BY <1>1, SweepKept, PTL

\* For any number of runs, of events and of crashes: however sweeps, writes and journals
\* have interleaved, when nothing goes on any more cleanupOldRuns() has left no more than
\* KEEP_MAX_RUNS directories.
THEOREM DirectoriesBounded == DiskSpec => []SweepBound
<1>1. DiskInv /\ SweepInv => SweepBound
  <2> SUFFICES ASSUME DiskInv, SweepInv, Quiet PROVE Cardinality(Names) <= KeepMax
    BY DEF SweepBound, Names
  <2>1. ~ Coming /\ \E i \in Jobs : job[i].pc = "over"
    BY DEF Quiet, Idle, Coming
  <2>2. PICK i \in Jobs : Covers(i)
    BY <2>1 DEF SweepInv
  <2>3. job[i].pc = "over"
    BY <2>2 DEF Covers, Quiet, Idle
  <2> QED
    BY <2>2, <2>3 DEF Covers
<1> QED
  BY <1>1, SweepKept, PTL

--------------------------------------------------------------------------------

\* The jobs under way; the runs whose state is not in state.json yet; the
\* directories that are to go.
Active     == {i \in Jobs : job[i].pc \notin {"free", "over", "lost"}}
Unsaved(r) == \E i \in Jobs : job[i].pc \in {"mkdir", "write", "rename"} /\ job[i].run = r
Doomed(r)  == \E i \in Jobs : r \in job[i].victims

\* Runs follow one another: one is going on, or one job.
Single ==
  /\ \A r, s \in RunIds : Going(r) /\ Going(s) => r = s
  /\ \A i, j \in Active : i = j
  /\ \A r \in RunIds : Going(r) => Active = {}

\* Nothing is later than now.
Past ==
  \A r \in RunIds : /\ progress[r].at <= clock /\ disk[r].state.at <= clock
                    /\ progress[r].status = "none" => progress[r].at = 0

\* The last event was of r, and no other run and no other state.json has its time.
Latest(r) ==
  /\ progress[r].at = clock /\ clock > 0
  /\ \A s \in RunIds \ {r} : progress[s].at < clock /\ disk[s].state.at < clock

\* The job of the last run has its state in the hand.
Writing(i) ==
  LET r == job[i].run
  IN  /\ Latest(r) /\ progress[r].status = "terminal" /\ disk[r].state.at < clock
      /\ job[i].pc # "mkdir" => disk[r].there
      /\ job[i].pc = "write" => job[i].data = progress[r]
      /\ job[i].pc = "rename" => disk[r].tmp = progress[r]

\* The job of the last run has saved its state, and does not remove it.
Sweeping(i) ==
  /\ \E r \in RunIds : /\ Latest(r) /\ disk[r].state = progress[r]
                       /\ progress[r].status = "terminal"
                       /\ r \in Names /\ r \notin job[i].victims
                       /\ job[i].pc = "scan" => r \in job[i].listed
  /\ job[i].pc = "scan" =>
       /\ job[i].listed = Names
       /\ \A s \in job[i].listed \ job[i].unread : job[i].at[s] = disk[s].state.at

\* A directory of a run that has ended has the state of it.
Same ==
  \A r \in RunIds : progress[r].status = "terminal" /\ disk[r].there /\ ~ Unsaved(r)
                      => disk[r].state = progress[r]

\* No run is removed while an older one stays.
Keeps ==
  \A r, s \in RunIds :
    /\ progress[r].status = "terminal" /\ ~ Unsaved(r) /\ ~ Doomed(s)
    /\ disk[s].state.at > 0 /\ progress[r].at > disk[s].state.at
    => disk[r].there /\ ~ Doomed(r)

\* A run that goes on is the last one; what rests is saved.
GoingLatest == \A r \in RunIds : Going(r) => Latest(r) /\ disk[r].state.at < clock
JobsTrue ==
  \A i \in Jobs : /\ job[i].pc \in {"mkdir", "write", "rename"} => Writing(i)
                  /\ job[i].pc \in {"readdir", "scan", "remove"} => Sweeping(i)
AtRest ==
  Active = {} /\ (\A r \in RunIds : ~ Going(r))
    => \A r \in RunIds : Newest(r) => disk[r].state = progress[r]

\* What is true as long as runs follow one another.
Serial == Single /\ Past /\ Same /\ Keeps /\ GoingLatest /\ JobsTrue /\ AtRest

SerialInv == overlap \/ Serial

\* Types of what is compared.
LEMMA TimesTyped ==
  ASSUME DiskInv
  PROVE  /\ clock \in Nat
         /\ \A r \in RunIds : /\ progress[r] \in States /\ progress[r].at \in Nat
                              /\ disk[r].state \in States /\ disk[r].state.at \in Nat
                              /\ progress[r].status \in {"none", "running", "terminal"}
                              /\ disk[r].state.at > 0 => disk[r].there
         /\ \A i \in Jobs : job[i] \in JobRecords
BY DiskTypes DEF DiskInv, DiskTypeOK, States, JobRecords

\* A job that is under way is the only one, and stays it.
LEMMA OneJob ==
  ASSUME DiskInv, DiskInv', Single, NEW i \in Active, Others(i), progress' = progress
  PROVE  /\ Single' /\ \A r \in RunIds : ~ Going(r) /\ ~ Going(r)'
         /\ \A j \in Jobs \ {i} : /\ job[j].pc \in {"free", "over", "lost"}
                                  /\ job'[j].pc \in {"free", "over", "lost"}
         /\ \A r : Unsaved(r) <=> job[i].pc \in {"mkdir", "write", "rename"} /\ job[i].run = r
         /\ \A r : Unsaved(r)' <=> job'[i].pc \in {"mkdir", "write", "rename"} /\ job'[i].run = r
         /\ \A r : Doomed(r) <=> r \in job[i].victims
         /\ \A r : Doomed(r)' <=> r \in job'[i].victims
<1>1. i \in Jobs /\ \A j \in Jobs \ {i} : job'[j] = job[j]
  BY DEF Active, Others
<1>2. \A j \in Jobs \ {i} : job[j].pc \in {"free", "over", "lost"}
  BY <1>1 DEF Single, Active
<1>3. \A j \in Jobs \ {i} : job[j].victims = {} /\ job'[j].victims = {}
  BY <1>1, <1>2 DEF DiskInv
<1>4. \A r \in RunIds : ~ Going(r) /\ ~ Going(r)'
  BY DEF Single, Going
<1>5. Single'
  BY <1>1, <1>2, <1>4 DEF Single, Active
<1>6. /\ \A r : Unsaved(r) <=> job[i].pc \in {"mkdir", "write", "rename"} /\ job[i].run = r
      /\ \A r : Unsaved(r)' <=> job'[i].pc \in {"mkdir", "write", "rename"} /\ job'[i].run = r
  BY <1>1, <1>2 DEF Unsaved
<1>7. /\ \A r : Doomed(r) <=> r \in job[i].victims
      /\ \A r : Doomed(r)' <=> r \in job'[i].victims
  BY <1>1, <1>3 DEF Doomed
<1> QED
  BY <1>1, <1>2, <1>4, <1>5, <1>6, <1>7

\* A run that starts is the last one.
LEMMA StartSerial ==
  ASSUME DiskInv, SerialInv, NEW r \in RunIds, Start(r)
  PROVE  SerialInv'
<1> SUFFICES ASSUME ~ overlap' PROVE Serial'
  BY DEF SerialInv
<1>1. /\ DiskInv' /\ progress'[r] = [status |-> "running", at |-> clock + 1]
      /\ \A s \in RunIds \ {r} : progress'[s] = progress[s]
      /\ clock' = clock + 1 /\ disk' = disk /\ job' = job
      /\ ~ overlap /\ Idle /\ \A s \in RunIds : ~ Going(s)
  BY StartDoes
<1>2. Serial
  BY <1>1 DEF SerialInv
<1>3. Active = {} /\ Active' = {} /\ \A s : ~ Unsaved(s) /\ ~ Unsaved(s)'
  BY <1>1 DEF Idle, Active, Unsaved
<1>4. progress'[r].status = "running" /\ progress'[r].at = clock + 1
  BY <1>1
<1>5. /\ clock \in Nat
      /\ \A s \in RunIds : /\ progress[s].at \in Nat /\ disk[s].state.at \in Nat
                           /\ progress[s].at <= clock /\ disk[s].state.at <= clock
  BY <1>2, TimesTyped DEF Serial, Past
<1>6. Single'
  BY <1>1, <1>3 DEF Single, Going
<1>7. Past'
  BY <1>1, <1>2, <1>4, <1>5 DEF Serial, Past
<1>8. Same'
  BY <1>1, <1>2, <1>3, <1>4 DEF Serial, Same
<1>9. Keeps'
  <2>1. \A s : Doomed(s)' <=> Doomed(s)
    BY <1>1 DEF Doomed
  <2> QED
    BY <1>1, <1>2, <1>3, <1>4, <2>1 DEF Serial, Keeps
<1>10. GoingLatest'
  BY <1>1, <1>4, <1>5 DEF GoingLatest, Latest, Going
<1>11. JobsTrue'
  BY <1>1 DEF JobsTrue, Idle
<1>12. AtRest'
  BY <1>4 DEF AtRest, Going
<1> QED
  BY <1>6, <1>7, <1>8, <1>9, <1>10, <1>11, <1>12 DEF Serial

\* The journal of the run that goes on.
LEMMA JournalSerial ==
  ASSUME DiskInv, SerialInv, NEW r \in RunIds, AppendJournal(r) \/ Truncate(r)
  PROVE  SerialInv'
<1>1. /\ DiskInv' /\ Going(r)
      /\ disk'[r].state = Nothing \/ disk'[r].state = disk[r].state
      /\ \A s \in RunIds \ {r} : disk'[s] = disk[s]
      /\ progress' = progress /\ job' = job /\ clock' = clock /\ overlap' = overlap
  BY JournalDoes
<1> SUFFICES ASSUME Serial PROVE Serial'
  BY <1>1 DEF SerialInv
<1>2. /\ Active = {} /\ Active' = Active
      /\ \A s : (Unsaved(s)' <=> Unsaved(s)) /\ (Doomed(s)' <=> Doomed(s))
      /\ \A s \in RunIds : Going(s)' <=> Going(s)
  BY <1>1 DEF Serial, Single, Active, Unsaved, Doomed, Going
<1>3. /\ progress[r].status = "running" /\ clock \in Nat
      /\ disk'[r].state.at = 0 \/ disk'[r].state.at = disk[r].state.at
      /\ disk[r].state.at \in Nat
  BY <1>1, TimesTyped, DiskTypes DEF Going
<1>4. Single' /\ AtRest'
  BY <1>1, <1>2 DEF Serial, Single, AtRest
<1>5. Past'
  BY <1>1, <1>3 DEF Serial, Past
<1>6. Same'
  BY <1>1, <1>2, <1>3 DEF Serial, Same
<1>7. Keeps'
  BY <1>1, <1>2, <1>3 DEF Serial, Keeps
<1>8. GoingLatest'
  BY <1>1, <1>2, <1>3 DEF Serial, GoingLatest, Latest, Single
<1>9. JobsTrue'
  BY <1>1, <1>2 DEF JobsTrue, Active
<1> QED
  BY <1>4, <1>5, <1>6, <1>7, <1>8, <1>9 DEF Serial

\* The run that went on is over: its job is the only one.
LEMMA RunDoneSerial ==
  ASSUME DiskInv, SerialInv, NEW r \in RunIds, NEW i \in Jobs, RunDone(r, i)
  PROVE  SerialInv'
<1>1. /\ DiskInv' /\ Others(i) /\ job[i].pc = "free"
      /\ job'[i].pc = "mkdir" /\ job'[i].run = r /\ job'[i].victims = {}
      /\ progress[r].status = "running"
      /\ progress'[r] = [status |-> "terminal", at |-> clock + 1]
      /\ \A s \in RunIds \ {r} : progress'[s] = progress[s]
      /\ disk' = disk /\ clock' = clock + 1 /\ overlap' = overlap
  BY RunDoneDoes
<1> SUFFICES ASSUME Serial PROVE Serial'
  BY <1>1 DEF SerialInv
<1>2. progress'[r].status = "terminal" /\ progress'[r].at = clock + 1
  BY <1>1
<1>3. /\ Active = {} /\ Active' = {i} /\ \A s \in RunIds \ {r} : ~ Going(s)
      /\ \A s \in RunIds : ~ Going(s)'
      /\ \A j \in Jobs \ {i} : job'[j] = job[j] /\ job[j].pc \in {"free", "over", "lost"}
  <2>1. Active = {} /\ \A s \in RunIds \ {r} : ~ Going(s)
    BY <1>1 DEF Serial, Single, Going
  <2>2. \A j \in Jobs \ {i} : job'[j] = job[j] /\ job[j].pc \in {"free", "over", "lost"}
    BY <1>1, <2>1 DEF Others, Active
  <2>3. Active' = {i}
    BY <1>1, <2>2 DEF Active
  <2>4. \A s \in RunIds : ~ Going(s)'
    BY <1>1, <1>2, <2>1 DEF Going
  <2> QED
    BY <2>1, <2>2, <2>3, <2>4
<1>4. /\ clock \in Nat
      /\ \A s \in RunIds : /\ progress[s].at \in Nat /\ disk[s].state.at \in Nat
                           /\ progress[s].at <= clock /\ disk[s].state.at <= clock
  BY TimesTyped DEF Serial, Past
<1>5. /\ \A s : ~ Unsaved(s) /\ (Unsaved(s)' <=> s = r)
      /\ \A s : ~ Doomed(s) /\ ~ Doomed(s)'
  <2>1. \A j \in Jobs : job[j].victims = {} /\ job'[j].victims = {}
    BY <1>1, <1>3 DEF DiskInv
  <2> QED
    BY <1>1, <1>3, <2>1 DEF Unsaved, Doomed
<1>6. Single' /\ AtRest' /\ GoingLatest'
  BY <1>3 DEF Single, AtRest, GoingLatest
<1>7. Past'
  BY <1>1, <1>2, <1>4 DEF Serial, Past
<1>8. Same'
  BY <1>1, <1>5 DEF Serial, Same
<1>9. Keeps'
  BY <1>1, <1>5 DEF Serial, Keeps
<1>10. JobsTrue'
  <2>1. Latest(r)' /\ disk'[r].state.at < clock'
    BY <1>1, <1>2, <1>4 DEF Latest
  <2>2. Writing(i)'
    BY <1>1, <1>2, <2>1 DEF Writing
  <2> QED
    BY <1>1, <1>3, <2>2 DEF JobsTrue
<1> QED
  BY <1>6, <1>7, <1>8, <1>9, <1>10 DEF Serial

\* The job of the last run makes its directory and writes the state.
LEMMA WritingSerial ==
  ASSUME DiskInv, SerialInv, NEW i \in Jobs, MakeDir(i) \/ WriteTmp(i) \/ Rename(i)
  PROVE  SerialInv'
<1>0. PICK r : r = job[i].run
  OBVIOUS
<1>1. /\ DiskInv' /\ Others(i) /\ r \in RunIds
      /\ progress' = progress /\ clock' = clock /\ overlap' = overlap
      /\ \A s \in RunIds \ {r} : disk'[s] = disk[s]
      /\ job[i].pc \in {"mkdir", "write", "rename"} /\ job'[i].victims = {}
  BY <1>0, MakeDirDoes, WriteTmpDoes, RenameDoes
<1> SUFFICES ASSUME Serial PROVE Serial'
  BY <1>1 DEF SerialInv
<1>2. /\ i \in Active /\ Single' /\ \A s \in RunIds : ~ Going(s) /\ ~ Going(s)'
      /\ \A j \in Jobs \ {i} : job'[j].pc \in {"free", "over", "lost"}
      /\ \A s : Unsaved(s) <=> s = r
      /\ \A s : Unsaved(s)' <=> job'[i].pc \in {"mkdir", "write", "rename"} /\ job'[i].run = s
      /\ \A s : ~ Doomed(s) /\ ~ Doomed(s)'
  <2>1. i \in Active /\ job[i].victims = {}
    BY <1>1 DEF Active, DiskInv
  <2> QED
    BY <1>0, <1>1, <2>1, OneJob DEF Serial
<1>3. /\ clock \in Nat
      /\ \A s \in RunIds : /\ progress[s].at \in Nat /\ disk[s].state.at \in Nat
                           /\ progress[s].at <= clock /\ disk[s].state.at <= clock
  BY TimesTyped DEF Serial, Past
<1>4. /\ Latest(r) /\ progress[r].status = "terminal" /\ disk[r].state.at < clock
      /\ job[i].pc # "mkdir" => disk[r].there
      /\ job[i].pc = "write" => job[i].data = progress[r]
      /\ job[i].pc = "rename" => disk[r].tmp = progress[r]
  BY <1>0, <1>1 DEF Serial, JobsTrue, Writing
<1>5. GoingLatest'
  BY <1>2 DEF GoingLatest
<1>6. CASE MakeDir(i) \/ WriteTmp(i)
  <2>1. /\ job'[i].run = r /\ disk'[r].there /\ disk'[r].state = disk[r].state
        /\ \/ job'[i].pc = "write" /\ job'[i].data = progress[r]
           \/ job'[i].pc = "rename" /\ disk'[r].tmp = progress[r]
    <3>1. CASE MakeDir(i)
      <4>1. /\ job'[i].pc = "write" /\ job'[i].run = r /\ job'[i].data = progress[r]
            /\ disk'[r].there /\ disk'[r].state = disk[r].state
        BY <1>0, <3>1, MakeDirDoes
      <4> QED
        BY <4>1
    <3>2. CASE WriteTmp(i)
      BY <1>0, <1>4, <3>2, WriteTmpDoes
    <3> QED
      BY <1>6, <3>1, <3>2
  <2>2. /\ \A s : Unsaved(s)' <=> s = r
        /\ \A s \in RunIds : disk'[s].state = disk[s].state
        /\ i \in Active'
    BY <1>1, <1>2, <2>1 DEF Active
  <2>3. Past'
    BY <1>1, <2>2 DEF Serial, Past
  <2>4. Same'
    BY <1>1, <1>2, <2>2 DEF Serial, Same
  <2>5. Keeps'
    BY <1>1, <1>2, <2>2 DEF Serial, Keeps
  <2>6. Latest(r)'
    BY <1>1, <1>4, <2>2 DEF Latest
  <2>7. Writing(i)'
    BY <1>1, <1>4, <2>1, <2>2, <2>6 DEF Writing
  <2>8. JobsTrue'
    BY <1>2, <2>1, <2>7 DEF JobsTrue
  <2>9. AtRest'
    BY <2>2 DEF AtRest
  <2> QED
    BY <1>2, <1>5, <2>3, <2>4, <2>5, <2>8, <2>9 DEF Serial
<1>7. CASE Rename(i)
  <2>1. /\ job[i].pc = "rename" /\ job'[i].pc = "readdir" /\ disk'[r].there = disk[r].there
        /\ disk[r].tmp # Nothing => disk'[r].state = disk[r].tmp
    BY <1>0, <1>7, RenameDoes
  <2>2. disk'[r].there /\ disk'[r].state = progress[r]
    BY <1>4, <2>1, DiskTypes
  <2>3. /\ \A s : ~ Unsaved(s)' /\ i \in Active'
        /\ disk'[r].state.at = clock /\ progress[r].at = clock
    BY <1>1, <1>2, <1>4, <2>1, <2>2 DEF Active, Latest
  <2>4. Past'
    BY <1>1, <1>3, <2>3 DEF Serial, Past
  <2>5. Same'
    BY <1>1, <1>2, <2>2, <2>3 DEF Serial, Same
  <2>6. Keeps'
    <3> SUFFICES ASSUME NEW s \in RunIds, NEW u \in RunIds, progress[s].status = "terminal",
                        disk'[u].state.at > 0, progress[s].at > disk'[u].state.at
                 PROVE  disk'[s].there
      BY <1>1, <1>2 DEF Keeps
    <3>1. CASE s = r
      BY <2>2, <3>1
    <3>2. CASE u = r
      BY <1>3, <2>3, <3>2
    <3>3. CASE s # r /\ u # r
      BY <1>1, <1>2, <3>3 DEF Serial, Keeps
    <3> QED
      BY <3>1, <3>2, <3>3
  <2>7. Latest(r)'
    BY <1>1, <1>4 DEF Latest
  <2>8. Sweeping(i)'
    BY <1>1, <1>4, <2>1, <2>2, <2>7 DEF Sweeping, Names
  <2>9. JobsTrue'
    BY <1>2, <2>1, <2>8 DEF JobsTrue
  <2>10. AtRest'
    BY <2>3 DEF AtRest
  <2> QED
    BY <1>2, <1>5, <2>4, <2>5, <2>6, <2>9, <2>10 DEF Serial
<1> QED
  BY <1>6, <1>7

\* The directories are listed and their times read.
LEMMA ReadingSerial ==
  ASSUME DiskInv, SerialInv, NEW i \in Jobs, ReadDir(i) \/ \E s \in RunIds : ReadState(i, s)
  PROVE  SerialInv'
<1>1. /\ DiskInv' /\ Others(i) /\ job'[i].victims = {} /\ job'[i].pc = "scan"
      /\ disk' = disk /\ progress' = progress /\ clock' = clock /\ overlap' = overlap
      /\ job[i].pc \in {"readdir", "scan"}
  BY ReadDirDoes, ReadStateDoes
<1> SUFFICES ASSUME Serial PROVE Serial'
  BY <1>1 DEF SerialInv
<1>2. /\ i \in Active' /\ Single' /\ \A s \in RunIds : ~ Going(s) /\ ~ Going(s)'
      /\ \A j \in Jobs \ {i} : job'[j].pc \in {"free", "over", "lost"}
      /\ \A s : ~ Unsaved(s) /\ ~ Unsaved(s)' /\ ~ Doomed(s) /\ ~ Doomed(s)'
  <2>1. i \in Active /\ i \in Active' /\ job[i].victims = {}
    BY <1>1 DEF Active, DiskInv
  <2> QED
    BY <1>1, <2>1, OneJob DEF Serial
<1>3. Past' /\ Same' /\ Keeps'
  BY <1>1, <1>2 DEF Serial, Past, Same, Keeps
<1>4. GoingLatest' /\ AtRest'
  BY <1>2 DEF GoingLatest, AtRest
<1>5. PICK r \in RunIds :
        /\ Latest(r) /\ disk[r].state = progress[r] /\ progress[r].status = "terminal"
        /\ r \in Names
        /\ job[i].pc = "scan" => r \in job[i].listed
  BY <1>1 DEF Serial, JobsTrue, Sweeping
<1>6. /\ job'[i].listed = Names
      /\ \A s \in job'[i].listed \ job'[i].unread : job'[i].at[s] = disk[s].state.at
  <2>1. CASE ReadDir(i)
    BY <2>1, ReadDirDoes DEF Names
  <2>2. ASSUME NEW s \in RunIds, ReadState(i, s)
        PROVE  /\ job'[i].listed = Names
               /\ \A u \in job'[i].listed \ job'[i].unread : job'[i].at[u] = disk[u].state.at
    <3>1. /\ job[i].pc = "scan" /\ job[i].listed = Names
          /\ \A u \in job[i].listed \ job[i].unread : job[i].at[u] = disk[u].state.at
      BY <2>2, ReadStateDoes DEF Serial, JobsTrue, Sweeping
    <3>2. /\ job'[i].listed = Names /\ job'[i].unread = job[i].unread \ {s}
          /\ job'[i].at[s] = disk[s].state.at
          /\ \A u \in RunIds \ {s} : job'[i].at[u] = job[i].at[u]
      BY <2>2, <3>1, ReadStateDoes
    <3>3. Names \subseteq RunIds
      BY DEF Names
    <3> QED
      BY <3>1, <3>2, <3>3
  <2> QED
    BY <2>1, <2>2
<1>7. Latest(r)' /\ Names' = Names
  BY <1>1, <1>5 DEF Latest, Names
<1>8. Sweeping(i)'
  BY <1>1, <1>5, <1>6, <1>7 DEF Sweeping
<1>9. JobsTrue'
  BY <1>1, <1>2, <1>8 DEF JobsTrue
<1> QED
  BY <1>2, <1>3, <1>4, <1>9 DEF Serial

\* The last run is not among the victims, and no victim is newer than what stays.
LEMMA ChooseSerial ==
  ASSUME DiskInv, SerialInv, NEW i \in Jobs, ChooseVictims(i)
  PROVE  SerialInv'
<1>0. PICK V : V = job'[i].victims
  OBVIOUS
<1>1. /\ DiskInv' /\ Others(i) /\ job[i].pc = "scan" /\ job[i].unread = {}
      /\ job'[i].pc = "remove" /\ V \in Victims(job[i].listed, job[i].at)
      /\ disk' = disk /\ progress' = progress /\ clock' = clock /\ overlap' = overlap
  BY <1>0, ChooseVictimsDoes
<1> SUFFICES ASSUME Serial PROVE Serial'
  BY <1>1 DEF SerialInv
<1>2. /\ i \in Active' /\ Single' /\ \A s \in RunIds : ~ Going(s) /\ ~ Going(s)'
      /\ \A j \in Jobs \ {i} : job'[j].pc \in {"free", "over", "lost"}
      /\ \A s : ~ Unsaved(s) /\ ~ Unsaved(s)' /\ ~ Doomed(s)
      /\ \A s : Doomed(s)' <=> s \in V
  <2>1. i \in Active /\ i \in Active' /\ job[i].victims = {}
    BY <1>1 DEF Active, DiskInv
  <2> QED
    BY <1>0, <1>1, <2>1, OneJob DEF Serial
<1>3. Past' /\ Same'
  BY <1>1, <1>2 DEF Serial, Past, Same
<1>4. GoingLatest' /\ AtRest'
  BY <1>2 DEF GoingLatest, AtRest
<1>5. PICK r \in RunIds :
        /\ Latest(r) /\ disk[r].state = progress[r] /\ progress[r].status = "terminal"
        /\ r \in Names
  BY <1>1 DEF Serial, JobsTrue, Sweeping
<1>6. /\ V \subseteq Names
      /\ Cardinality(Names \ V) = IF Cardinality(Names) > KeepMax THEN KeepMax
                                  ELSE Cardinality(Names)
      /\ \A v \in V, k \in Names \ V : disk[v].state.at <= disk[k].state.at
  <2>1. job[i].listed = Names /\ \A s \in Names : job[i].at[s] = disk[s].state.at
    BY <1>1 DEF Serial, JobsTrue, Sweeping
  <2> QED
    BY <1>1, <2>1 DEF Victims
<1>7. Names \subseteq RunIds
  BY DEF Names
<1>8. r \notin V
  <2> SUFFICES ASSUME r \in V PROVE FALSE
    OBVIOUS
  <2>1. Cardinality(Names) # 0 /\ Cardinality(Names) \in Nat /\ KeepMax \in Nat /\ KeepMax > 0
    <3>1. IsFiniteSet(Names) /\ Cardinality(Names) \in Nat
      BY <1>7, FewerNames
    <3> QED
      BY <1>5, <3>1, FS_EmptySet, PersistenceAssumption
  <2>2. Names \ V # {}
    BY <1>6, <2>1, FS_EmptySet
  <2>3. PICK k \in Names \ V : TRUE
    BY <2>2
  <2>4. disk[r].state.at = clock /\ disk[r].state.at <= disk[k].state.at /\ k # r
    BY <1>5, <1>6, <2>3 DEF Latest
  <2>5. disk[k].state.at < clock /\ clock \in Nat /\ disk[k].state.at \in Nat
    BY <1>5, <1>7, <2>3, <2>4, TimesTyped DEF Latest
  <2> QED
    BY <2>4, <2>5
<1>9. Keeps'
  <2> SUFFICES ASSUME NEW s \in RunIds, NEW u \in RunIds, progress[s].status = "terminal",
                      u \notin V, disk[u].state.at > 0, progress[s].at > disk[u].state.at
               PROVE  disk[s].there /\ s \notin V
    BY <1>1, <1>2 DEF Keeps
  <2>1. disk[s].there
    BY <1>2 DEF Serial, Keeps
  <2>2. disk[s].state = progress[s]
    BY <1>2, <2>1 DEF Serial, Same
  <2>3. u \in Names \ V
    BY TimesTyped DEF Names
  <2>4. ASSUME s \in V PROVE FALSE
    <3>1. disk[s].state.at <= disk[u].state.at
      BY <1>6, <2>3, <2>4
    <3>2. disk[s].state.at \in Nat /\ disk[u].state.at \in Nat
      BY TimesTyped
    <3> QED
      BY <2>2, <3>1, <3>2
  <2> QED
    BY <2>1, <2>4
<1>10. Latest(r)' /\ Names' = Names
  BY <1>1, <1>5 DEF Latest, Names
<1>11. Sweeping(i)'
  BY <1>0, <1>1, <1>5, <1>8, <1>10 DEF Sweeping
<1>12. JobsTrue'
  BY <1>1, <1>2, <1>11 DEF JobsTrue
<1> QED
  BY <1>2, <1>3, <1>4, <1>9, <1>12 DEF Serial

\* A victim goes.
LEMMA RemoveSerial ==
  ASSUME DiskInv, SerialInv, NEW i \in Jobs, NEW v \in RunIds, RemoveVictim(i, v)
  PROVE  SerialInv'
<1>1. /\ DiskInv' /\ Others(i) /\ job[i].pc = "remove" /\ job'[i].pc = "remove"
      /\ v \in job[i].victims /\ job'[i].victims = job[i].victims \ {v}
      /\ disk'[v] = Absent /\ \A s \in RunIds \ {v} : disk'[s] = disk[s]
      /\ progress' = progress /\ clock' = clock /\ overlap' = overlap
  BY RemoveVictimDoes
<1> SUFFICES ASSUME Serial PROVE Serial'
  BY <1>1 DEF SerialInv
<1>2. /\ i \in Active' /\ Single' /\ \A s \in RunIds : ~ Going(s) /\ ~ Going(s)'
      /\ \A j \in Jobs \ {i} : job'[j].pc \in {"free", "over", "lost"}
      /\ \A s : ~ Unsaved(s) /\ ~ Unsaved(s)'
      /\ \A s : Doomed(s) <=> s \in job[i].victims
      /\ \A s : Doomed(s)' <=> s \in job[i].victims \ {v}
  <2>1. i \in Active /\ i \in Active'
    BY <1>1 DEF Active
  <2> QED
    BY <1>1, <2>1, OneJob DEF Serial
<1>3. ~ disk'[v].there /\ disk'[v].state.at = 0
  BY <1>1, DiskTypes
<1>4. PICK r \in RunIds :
        /\ Latest(r) /\ disk[r].state = progress[r] /\ progress[r].status = "terminal"
        /\ r \in Names /\ r \notin job[i].victims
  BY <1>1 DEF Serial, JobsTrue, Sweeping
<1>5. clock \in Nat /\ clock > 0 /\ r # v
  BY <1>1, <1>4, TimesTyped DEF Latest
<1>6. Past'
  BY <1>1, <1>3, <1>5 DEF Serial, Past
<1>7. Same'
  BY <1>1, <1>2, <1>3 DEF Serial, Same
<1>8. GoingLatest' /\ AtRest'
  BY <1>2 DEF GoingLatest, AtRest
<1>9. Keeps'
  <2> SUFFICES ASSUME NEW s \in RunIds, NEW u \in RunIds, progress[s].status = "terminal",
                      u \notin job[i].victims \ {v}, disk'[u].state.at > 0,
                      progress[s].at > disk'[u].state.at
               PROVE  disk'[s].there /\ s \notin job[i].victims \ {v}
    BY <1>1, <1>2 DEF Keeps
  <2>1. u # v /\ disk'[u] = disk[u]
    BY <1>1, <1>3
  <2>2. disk[s].there /\ s \notin job[i].victims
    BY <1>2, <2>1 DEF Serial, Keeps
  <2> QED
    BY <1>1, <2>2
<1>10. Latest(r)' /\ r \in Names' /\ disk'[r].state = progress[r]
  BY <1>1, <1>3, <1>4, <1>5 DEF Latest, Names
<1>11. Sweeping(i)'
  BY <1>1, <1>4, <1>10 DEF Sweeping
<1>12. JobsTrue'
  BY <1>1, <1>2, <1>11 DEF JobsTrue
<1> QED
  BY <1>2, <1>6, <1>7, <1>8, <1>9, <1>12 DEF Serial

\* The sweep is over, and the last run is saved.
LEMMA EndSerial ==
  ASSUME DiskInv, SerialInv, NEW i \in Jobs, EndSweep(i)
  PROVE  SerialInv'
<1>1. /\ DiskInv' /\ Others(i) /\ job[i].pc = "remove" /\ job[i].victims = {}
      /\ job'[i].pc = "over" /\ job'[i].victims = {}
      /\ disk' = disk /\ progress' = progress /\ clock' = clock /\ overlap' = overlap
  BY EndSweepDoes
<1> SUFFICES ASSUME Serial PROVE Serial'
  BY <1>1 DEF SerialInv
<1>2. /\ Single' /\ \A s \in RunIds : ~ Going(s) /\ ~ Going(s)'
      /\ \A j \in Jobs : job'[j].pc \in {"free", "over", "lost"}
      /\ \A s : ~ Unsaved(s) /\ ~ Unsaved(s)' /\ ~ Doomed(s) /\ ~ Doomed(s)'
  <2>1. i \in Active
    BY <1>1 DEF Active
  <2> QED
    BY <1>1, <2>1, OneJob DEF Serial
<1>3. Past' /\ Same' /\ Keeps'
  BY <1>1, <1>2 DEF Serial, Past, Same, Keeps
<1>4. GoingLatest' /\ JobsTrue'
  BY <1>2 DEF GoingLatest, JobsTrue
<1>5. PICK r \in RunIds : Latest(r) /\ disk[r].state = progress[r]
  BY <1>1 DEF Serial, JobsTrue, Sweeping
<1>6. AtRest'
  <2> SUFFICES ASSUME NEW s \in RunIds, Newest(s)' PROVE disk'[s].state = progress'[s]
    BY DEF AtRest
  <2>1. progress[r].at = clock /\ clock \in Nat /\ progress[r].at <= progress[s].at
        /\ progress[s].at \in Nat
    BY <1>1, <1>5, TimesTyped DEF Newest, Latest
  <2>2. s = r
    BY <1>5, <2>1 DEF Latest
  <2> QED
    BY <1>1, <1>5, <2>2
<1> QED
  BY <1>2, <1>3, <1>4, <1>6 DEF Serial

\* After a crash nothing is known of the runs before.
LEMMA CrashSerial == ASSUME DiskInv, SerialInv, Crash PROVE SerialInv'
<1>1. /\ DiskInv' /\ disk' = disk /\ clock' = clock /\ overlap' = overlap
      /\ \A r \in RunIds : progress'[r].status = "none" /\ progress'[r].at = 0
      /\ \A i \in Jobs : job'[i].pc \in {"free", "lost"}
  BY CrashDoes, DiskTypes
<1> SUFFICES ASSUME Serial PROVE Serial'
  BY <1>1 DEF SerialInv
<1>2. clock \in Nat
  BY TimesTyped
<1>3. Single' /\ GoingLatest' /\ JobsTrue'
  BY <1>1 DEF Single, Active, Going, GoingLatest, JobsTrue
<1>4. Past'
  BY <1>1, <1>2 DEF Serial, Past
<1>5. Same' /\ Keeps'
  BY <1>1 DEF Same, Keeps
<1>6. AtRest'
  BY <1>1 DEF AtRest, Newest
<1> QED
  BY <1>3, <1>4, <1>5, <1>6 DEF Serial

\* Every step keeps what is true as long as runs follow one another.
LEMMA SerialStep == DiskInv /\ SerialInv /\ [DiskNext]_diskVars => SerialInv'
<1> SUFFICES ASSUME DiskInv, SerialInv, [DiskNext]_diskVars PROVE SerialInv'
  OBVIOUS
<1>1. CASE UNCHANGED diskVars
  BY <1>1 DEF diskVars, SerialInv, Serial, Single, Active, Going, Past, Same, Keeps, Unsaved,
              Doomed, GoingLatest, Latest, JobsTrue, Writing, Sweeping, Names, AtRest, Newest
<1>2. CASE DiskNext
  BY <1>2, StartSerial, JournalSerial, RunDoneSerial, WritingSerial, ReadingSerial, ChooseSerial,
     RemoveSerial, EndSerial, CrashSerial DEF DiskNext
<1> QED
  BY <1>1, <1>2

\* For any number of runs, of events and of crashes: while no run starts beside another or
\* beside a sweep, the state of the run that ended last is in its state.json, and
\* cleanupOldRuns() removes no run while it keeps an older one.
THEOREM SerialRunsKept == DiskSpec => []SerialKept
<1>1. DiskInit => SerialInv
  <2> SUFFICES ASSUME DiskInit PROVE Serial
    BY DEF SerialInv
  <2>1. /\ \A r \in RunIds : /\ progress[r].status = "none" /\ progress[r].at = 0
                             /\ disk[r].state.at = 0
        /\ \A i \in Jobs : job[i].pc = "free"
        /\ clock = 0
    BY DiskTypes DEF DiskInit
  <2> QED
    BY <2>1 DEF Serial, Single, Active, Going, Past, Same, Keeps, GoingLatest, JobsTrue,
                AtRest, Newest
<1>2. DiskInv /\ SerialInv => SerialKept
  <2> SUFFICES ASSUME DiskInv, Serial, Quiet PROVE LastRunKept /\ NewestKept
    BY DEF SerialKept, SerialInv
  <2>1. Active = {} /\ \A r \in RunIds : ~ Going(r) /\ ~ Unsaved(r) /\ ~ Doomed(r)
    BY DEF Quiet, Idle, Active, Unsaved, Doomed, DiskInv
  <2>2. LastRunKept
    BY <2>1 DEF Serial, AtRest, LastRunKept
  <2>3. NewestKept
    <3> SUFFICES ASSUME NEW r \in RunIds, NEW s \in RunIds, disk[s].state.at > 0,
                        progress[r].at > disk[s].state.at
                 PROVE  disk[r].there
      BY DEF NewestKept
    <3>1. progress[r].status = "terminal"
      BY <2>1, TimesTyped DEF Serial, Past, Going
    <3> QED
      BY <2>1, <3>1 DEF Serial, Keeps
  <2> QED
    BY <2>2, <2>3
<1> QED
  BY <1>1, <1>2, SerialStep, SweepKept, PTL DEF DiskSpec
================================================================================
