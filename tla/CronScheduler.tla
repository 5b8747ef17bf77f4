--------------------------- MODULE CronScheduler ---------------------------
(* The scheduler of the durable scheduled tasks: the owner of the lock      *)
(* fires what is due by its own copy of the task file, a watcher brings the *)
(* copies up to date some time after a change of the file, and all changes  *)
(* of the file are unlocked reads followed by writes.                       *)
EXTENDS CronLock, FiniteSets

CONSTANTS
    Tasks,
    MaxClock,    \* bounds the periods
    MaxEdits,    \* bounds the tasks created and deleted by hand
    Absent       \* the anchor of a task that is not in the file

ASSUME ClockAssumption ==
    /\ MaxClock \in Nat
    /\ MaxEdits \in Nat
    /\ Absent \notin Nat

VARIABLES
    clock,       \* the current period
    kind,        \* kind[t]: "once", "recurring", or "aged": a recurring task
                 \* past its greatest age, which fires a last time
    file,        \* file[t]: createdAt, or lastFiredAt, of the tasks on disk
    tasks,       \* tasks[s]: the file as session s has loaded it last
    nextFireAt,  \* nextFireAt[s]: its schedule
    inFlight,    \* inFlight[s]: fired, the change of the file not yet landed
    booting,     \* booting[s]: "acquiring", then "loading" before the first load
    ops,         \* ops[s]: changes of the file under way in session s
    fires,       \* fires[t]: how often t was fired or asked about: in this
                 \* period if it recurs, in all otherwise
    edits,       \* the tasks created and deleted by hand
    upset        \* what has gone wrong: "write" a change was overwritten,
                 \* "exit" a process ended with changes under way, "load" a
                 \* starting session took over tasks of a running one,
                 \* "evict" a task asked about was forgotten too early,
                 \* "stale" a tick fired a task by a copy not up to date

time == <<clock, kind>>
schedVars ==
    <<time, file, tasks, nextFireAt, inFlight, booting, ops, fires, edits, upset>>
vars == <<lockVars, schedVars>>

Never == MaxClock + 10   \* Infinity
None == Absent           \* no entry in nextFireAt

Anchors == 0..MaxClock \cup {Absent}
NoTasks == [t \in Tasks |-> Absent]
In(f) == {t \in Tasks : f[t] # Absent}
\* jitteredNextCronRunMs: the next occurrence is a period after the anchor.
NextRun(anchor) == anchor + 1

Init ==
    /\ LockInit
    /\ clock = 0
    /\ kind \in [Tasks -> {"once", "recurring"}]
    /\ file \in [Tasks -> {0, Absent}]
    /\ tasks = [s \in Sessions |-> NoTasks]
    /\ nextFireAt = [s \in Sessions |-> [t \in Tasks |-> None]]
    /\ inFlight = [s \in Sessions |-> {}]
    /\ booting = [s \in Sessions |-> "no"]
    /\ ops = [s \in Sessions |-> {}]
    /\ fires = [t \in Tasks |-> 0]
    /\ edits = 0
    /\ upset = {}

----------------------------------------------------------------------------
(* Changes of the file: readCronTasks, then writeCronTasks.                 *)

\* "clean" stands for the removal that check() waits for with inFlight,
\* "drop" for one it does not wait for (missed tasks, CronDelete).
Op(k, ids, at) ==
    [kind |-> k, ids |-> ids, at |-> at, read |-> FALSE, copy |-> NoTasks]

Applied(op) ==
    [t \in Tasks |->
        IF t \notin op.ids THEN op.copy[t]
        ELSE IF op.kind \in {"clean", "drop"} THEN Absent
        ELSE IF op.kind = "fired" /\ op.copy[t] = Absent THEN Absent
        ELSE op.at]

ReadTasks(s, op) ==
    /\ op \in ops[s] /\ ~op.read
    /\ ops' = [ops EXCEPT ![s] =
                  (@ \ {op}) \cup {[op EXCEPT !.read = TRUE, !.copy = file]}]
    /\ UNCHANGED <<time, file, tasks, nextFireAt, inFlight, booting, fires, upset, edits>>

\* Nothing is written when nothing changes.
WriteTasks(s, op) ==
    /\ op \in ops[s] /\ op.read
    /\ ops' = [ops EXCEPT ![s] = @ \ {op}]
    /\ IF Applied(op) = op.copy
       THEN UNCHANGED <<file, upset>>
       ELSE /\ file' = Applied(op)
            /\ upset' = IF file = op.copy THEN upset ELSE upset \cup {"write"}
    /\ inFlight' = [inFlight EXCEPT ![s] =
                       IF op.kind \in {"clean", "fired"} THEN @ \ op.ids ELSE @]
    /\ UNCHANGED <<time, tasks, nextFireAt, booting, fires, edits>>

Edit == edits < MaxEdits /\ edits' = edits + 1

(* CronCreate and CronDelete, in any session.                               *)
Add(s, t) ==
    /\ HasProcess(s)
    /\ file[t] = Absent /\ fires[t] = 0 /\ kind[t] # "aged"
    /\ \A u \in Sessions :                                  \* a new id
           tasks[u][t] = Absent /\ \A op \in ops[u] : t \notin op.ids
    /\ Edit
    /\ ops' = [ops EXCEPT ![s] = @ \cup {Op("add", {t}, clock)}]
    /\ UNCHANGED <<time, file, tasks, nextFireAt, inFlight, booting, fires, upset>>

Delete(s, t) ==
    /\ HasProcess(s)
    /\ file[t] # Absent
    /\ Edit
    /\ ops' = [ops EXCEPT ![s] = @ \cup {Op("drop", {t}, 0)}]
    /\ UNCHANGED <<time, file, tasks, nextFireAt, inFlight, booting, fires, upset>>

----------------------------------------------------------------------------
(* check().                                                                 *)
Fired(t) == IF fires[t] < 2 THEN fires[t] + 1 ELSE 2

NextOf(s, t) ==
    IF nextFireAt[s][t] = None THEN NextRun(tasks[s][t]) ELSE nextFireAt[s][t]

\* Mutant: inFlight is not consulted.
DueThoughInFlight(s) == {t \in In(tasks[s]) : clock >= NextOf(s, t)}

DueIn(s) == {t \in In(tasks[s]) \ inFlight[s] : clock >= NextOf(s, t)}

(* One tick of the owner, over its copy of the file.                        *)
Check(s) ==
    /\ life[s] = "on" /\ isOwner[s] /\ booting[s] = "no"
    /\ LET again == {t \in DueIn(s) : kind[t] = "recurring"}
           once == DueIn(s) \ again
       IN  /\ inFlight' = [inFlight EXCEPT ![s] = @ \cup DueIn(s)]
           /\ nextFireAt' = [nextFireAt EXCEPT ![s] =
                [t \in Tasks |->
                    IF t \in again THEN NextRun(clock)
                    ELSE IF t \in once \/ t \notin In(tasks[s]) THEN None
                    ELSE IF t \in inFlight[s] THEN nextFireAt[s][t]
                    ELSE NextOf(s, t)]]
           /\ ops' = [ops EXCEPT ![s] =
                @ \cup {Op("clean", {t}, 0) : t \in once}
                  \cup (IF again = {} THEN {} ELSE {Op("fired", again, clock)})]
    /\ fires' = [t \in Tasks |-> IF t \in DueIn(s) THEN Fired(t) ELSE fires[t]]
    /\ upset' = IF \E t \in DueIn(s) : tasks[s][t] # file[t]
                THEN upset \cup {"stale"} ELSE upset
    /\ UNCHANGED <<time, file, tasks, booting, edits>>

(* load(true), once the first acquisition is over: one-shots that are       *)
(* overdue are asked about and removed, by owners and others alike.         *)
LoadInitial(s) ==
    /\ life[s] = "on" /\ booting[s] = "loading"
    /\ booting' = [booting EXCEPT ![s] = "no"]
    /\ tasks' = [tasks EXCEPT ![s] = file]
    /\ LET missed == {t \in In(file) : kind[t] = "once" /\ NextRun(file[t]) <= clock}
       IN  /\ nextFireAt' = [nextFireAt EXCEPT ![s] =
                [t \in Tasks |-> IF t \in missed THEN Never ELSE nextFireAt[s][t]]]
           /\ ops' = [ops EXCEPT ![s] =
                @ \cup (IF missed = {} THEN {} ELSE {Op("drop", missed, 0)})]
           /\ fires' = [t \in Tasks |-> IF t \in missed THEN Fired(t) ELSE fires[t]]
           /\ upset' = IF missed # {} /\ \E u \in Sessions \ {s} : HasProcess(u)
                       THEN upset \cup {"load"} ELSE upset
    /\ UNCHANGED <<time, file, inFlight, edits>>

(* load(false): the watcher has seen the file change.                       *)
Reload(s) ==
    /\ life[s] = "on" /\ booting[s] = "no"
    /\ tasks[s] # file
    /\ tasks' = [tasks EXCEPT ![s] = file]
    /\ UNCHANGED <<time, file, nextFireAt, inFlight, booting, ops, fires, edits, upset>>

(* A period passes, and recurring tasks may reach their greatest age.       *)
Tick ==
    /\ clock < MaxClock
    /\ clock' = clock + 1
    /\ \E aged \in SUBSET {t \in Tasks : kind[t] = "recurring"} :
           kind' = [t \in Tasks |-> IF t \in aged THEN "aged" ELSE kind[t]]
    /\ fires' = [t \in Tasks |-> IF kind[t] = "recurring" THEN 0 ELSE fires[t]]
    /\ UNCHANGED <<file, tasks, nextFireAt, inFlight, booting, ops, upset, edits>>

(* A tick of a session that is not the owner drops its schedule, the mark   *)
(* of a task that was asked about and is still in the file included.        *)
Evict(s) ==
    /\ life[s] = "on" /\ ~isOwner[s] /\ booting[s] = "no"
    /\ \E t \in Tasks : nextFireAt[s][t] # None
    /\ nextFireAt' = [nextFireAt EXCEPT ![s] = [t \in Tasks |-> None]]
    /\ upset' = IF \E t \in In(file) : nextFireAt[s][t] = Never
                THEN upset \cup {"evict"} ELSE upset
    /\ UNCHANGED <<time, file, tasks, inFlight, booting, ops, fires, edits>>

(* What a step of the lock means for the scheduler: a new process starts    *)
(* with nothing, a process that ends takes its pending changes with it.     *)
Starts(s) == ~HasProcess(s) /\ HasProcess(s)'
SchedFollows ==
    /\ tasks' = [s \in Sessions |-> IF HasProcess(s)' THEN tasks[s] ELSE NoTasks]
    /\ nextFireAt' = [s \in Sessions |->
            IF HasProcess(s)' THEN nextFireAt[s] ELSE [t \in Tasks |-> None]]
    /\ inFlight' = [s \in Sessions |-> IF HasProcess(s)' THEN inFlight[s] ELSE {}]
    /\ ops' = [s \in Sessions |-> IF HasProcess(s)' THEN ops[s] ELSE {}]
    /\ booting' = [s \in Sessions |->
            IF Starts(s) THEN "acquiring"
            ELSE IF ~HasProcess(s)' THEN "no"
            ELSE IF booting[s] = "acquiring" /\ step'[s] = "idle" THEN "loading"
            ELSE booting[s]]
    /\ upset' = IF ops' = ops THEN upset ELSE upset \cup {"exit"}
    /\ UNCHANGED <<time, file, fires, edits>>

----------------------------------------------------------------------------
LockStep(s) ==
    /\ \/ Start(s) \/ Probe(s) \/ Acquire(s)
       \/ Stop(s) \/ Release(s) \/ Crash(s)
    /\ SchedFollows

Change(s) == \E op \in ops[s] : ReadTasks(s, op) \/ WriteTasks(s, op)

SchedStep(s) ==
    \/ Change(s)
    \/ Check(s) \/ LoadInitial(s) \/ Reload(s) \/ Evict(s)
    \/ \E t \in Tasks : Add(s, t) \/ Delete(s, t)

Next ==
    \/ \E s \in Sessions : LockStep(s)
    \/ \E s \in Sessions : SchedStep(s) /\ UNCHANGED lockVars
    \/ Tick /\ UNCHANGED lockVars

Spec == Init /\ [][Next]_vars

(* A process that lives goes on with its calls; its timers fire, its        *)
(* watcher reports a change of the file in the end, and its turns end so    *)
(* that a tick is not always skipped.                                       *)
Fairness ==
    \A s \in Sessions :
        /\ WF_vars((Acquire(s) \/ Release(s)) /\ SchedFollows)
        /\ WF_vars(Probe(s) /\ SchedFollows)
        /\ WF_vars(Change(s) /\ UNCHANGED lockVars)
        /\ WF_vars(LoadInitial(s) /\ UNCHANGED lockVars)
        /\ WF_vars(Reload(s) /\ UNCHANGED lockVars)
        /\ WF_vars(Check(s) /\ UNCHANGED lockVars)

FairSpec == Spec /\ Fairness

----------------------------------------------------------------------------
(* A task fires once: a one-shot once in all, a recurring task once per     *)
(* period, across owners and handoffs, unless an acquisition overlapped a   *)
(* recovery, a change of the file was overwritten by another, a process     *)
(* ended with a change under way, a starting session took over the tasks of *)
(* a running one, the mark of a task asked about was dropped too early, or  *)
(* a tick came between a change of the file and the reload of it.           *)
FiresOnce ==
    ~raced /\ upset = {} => \A t \in Tasks : fires[t] <= 1


(* cronScheduler.ts:347: "The lock exists to stop two Claude sessions in    *)
(* the same cwd from double-firing the same on-disk task."                  *)
LockStopsDoubleFire ==
    ~raced /\ upset \subseteq {"load"} =>
        \A t \in Tasks : kind[t] # "recurring" => fires[t] <= 1

(* A one-shot that is due is fired or asked about, or somebody removes it,  *)
(* as long as one session stays up, whoever else crashes with the lock.     *)
DueIsHandled ==
    \A s \in Sessions, t \in Tasks :
        <>[](life[s] = "on") =>
            ((kind[t] # "recurring" /\ file[t] # Absent /\ clock >= NextRun(file[t]))
                ~> (fires[t] > 0 \/ file[t] = Absent))
=============================================================================
