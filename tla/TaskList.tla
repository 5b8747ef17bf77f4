------------------------------ MODULE TaskList ------------------------------
(* The task list of a team: one file per task, worked on by processes that  *)
(* share nothing else.  Workers look for a free task, claim it, and finish  *)
(* it; leads create, block and delete tasks and take the tasks of a dead    *)
(* worker away; the display of a session clears a list that is done.  A     *)
(* task's file is changed under its lock, but created and deleted without   *)
(* it; a file that is being written does not parse.                         *)
EXTENDS Naturals, FiniteSets, FiniteSetsExt

CONSTANTS
    Workers, Leads,
    Display,     \* the display stores that may clear the list
    AgentId,     \* AgentId[w]: the name worker w claims under
    MaxId,       \* bounds the ids of tasks
    None         \* no owner, no task, no lock holder, no file

Actors == Workers \cup Leads \cup Display
Ids == 1..MaxId

ASSUME ActorsAssumption ==
    /\ MaxId \in Nat
    /\ Workers \cap Leads = {} /\ Display \cap (Workers \cup Leads) = {}
    /\ None \notin Actors \cup Nat

Status == {"pending", "in_progress", "completed"}

\* The content of a file; whole is FALSE between its truncation and its last byte.
Task ==
    [owner : {AgentId[w] : w \in Workers} \cup {None}, status : Status,
     blockedBy : SUBSET Ids, whole : BOOLEAN]

ASSUME NoFileAssumption == None \notin Task

VARIABLES
    file,        \* file[i]: the task on disk, whole unless it is being written
    mark,        \* the high water mark
    taskLock,    \* taskLock[i]: who holds the lock on the file of task i
    listLock,    \* who holds the lock on the list
    op,          \* op[a]: the operation of a that is under way
    dead,        \* the workers whose process has ended
    holds,       \* holds[w]: the task w was told it has claimed
    used,        \* ids handed out so far
    broken       \* what has gone wrong: "overlap" a deletion or a reset
                 \* overlapped with another or with a creation, "reuse" an id
                 \* was handed out twice, "cleared" a task not completed was
                 \* cleared, "jumped" a task was claimed before its blocker

vars == <<file, mark, taskLock, listLock, op, dead, holds, used, broken>>

Idle == [do |-> "idle", at |-> "idle"]

Exists(i) == file[i] # None
Readable(i) == Exists(i) /\ file[i].whole          \* getTask is not null
Listed == {i \in Ids : Readable(i)}                \* listTasks
Unresolved == {i \in Listed : file[i].status # "completed"}

Init ==
    /\ file = [i \in Ids |-> None]
    /\ mark = 0
    /\ taskLock = [i \in Ids |-> None]
    /\ listLock = None
    /\ op = [a \in Actors |-> Idle]
    /\ dead = {}
    /\ holds = [w \in Workers |-> None]
    /\ used = {}
    /\ broken = {}

Set(a, o) == op' = [op EXCEPT ![a] = o]
Goto(a, at) == op' = [op EXCEPT ![a].at = at]
IsIdle(a) == a \notin dead /\ op[a] = Idle

----------------------------------------------------------------------------
(* updateTask and claimTask: lock the file, read it, write it.              *)

\* An update under way; todo holds those that follow it, blockers is the new
\* array of "block" and "unblock", computed before the lock is taken.
Update(do, i, blockers, todo) ==
    [do |-> do, at |-> "lock", id |-> i, blockers |-> blockers,
     todo |-> todo, copy |-> None]

\* What follows an update: the next one of the same kind, or nothing.
Following(o) ==
    IF o.todo = {} THEN {Idle}
    ELSE {Update(o.do, n.id, n.blockers, o.todo \ {n}) : n \in o.todo}

\* What a claim is followed by: the status, or a release when the session does
\* not take the task.
AfterClaim(i) == {Update(do, i, {}, {}) : do \in {"start", "release"}}

\* The file is gone, or looks so.  The lock throws or null is returned, and the
\* caller ends there or goes on; without its task a worker may go on all the same.
Fail(a) ==
    /\ op' \in {[op EXCEPT ![a] = o] : o \in {Idle} \cup Following(op[a])}
    /\ \/ a \in Workers /\ op[a].do # "start" /\ holds' = [holds EXCEPT ![a] = None]
       \/ (a \in Leads \/ op[a].do = "start") /\ UNCHANGED holds
       \/ op[a].do = "start" /\ holds' = [holds EXCEPT ![a] = None]

\* Before the lock, getTask looks whether the task is there: a file that is being
\* written does not parse, and is taken for none.
Lock(a) ==
    /\ op[a].at = "lock"
    /\ \/ /\ Exists(op[a].id) /\ taskLock[op[a].id] = None
          /\ taskLock' = [taskLock EXCEPT ![op[a].id] = a]
          /\ Goto(a, IF op[a].do = "claim" THEN "check" ELSE "read")
          /\ UNCHANGED holds
       \/ ~ Readable(op[a].id) /\ Fail(a) /\ UNCHANGED taskLock
    /\ UNCHANGED <<file, mark, listLock, dead, used, broken>>

Unlock(a) == taskLock' = [taskLock EXCEPT ![op[a].id] = None]

\* Mutant: the owner is not looked at under the lock.
ClaimableFromAnyone(w, i) ==
    /\ Readable(i)
    /\ file[i].status # "completed"
    /\ file[i].blockedBy \cap Unresolved = {}

Claimable(w, i) ==
    /\ Readable(i)
    /\ file[i].owner \in {None, AgentId[w]}
    /\ file[i].status # "completed"
    /\ file[i].blockedBy \cap Unresolved = {}

\* claimTask reads the task, then the list for its blockers.
Check(w) ==
    /\ op[w].at = "check"
    /\ IF Claimable(w, op[w].id)
       THEN /\ Goto(w, "read")
            /\ broken' = IF \E b \in file[op[w].id].blockedBy :
                                Exists(b) /\ file[b].status # "completed"
                         THEN broken \cup {"jumped"} ELSE broken
            /\ UNCHANGED taskLock
       ELSE Set(w, Idle) /\ Unlock(w) /\ UNCHANGED broken
    /\ UNCHANGED <<file, mark, listLock, dead, holds, used>>

(* updateTaskUnsafe.                                                        *)
Read(a) ==
    /\ op[a].at = "read"
    /\ IF Readable(op[a].id)
       THEN /\ op' = [op EXCEPT ![a].at = "write", ![a].copy = file[op[a].id]]
            /\ UNCHANGED <<taskLock, holds>>
       ELSE /\ Unlock(a)
            /\ IF op[a].do = "claim"        \* success, with a task that is null
               THEN /\ \E next \in AfterClaim(op[a].id) : Set(a, next)
                    /\ holds' = [holds EXCEPT ![a] = op[a].id]
               ELSE Fail(a)
    /\ UNCHANGED <<file, mark, listLock, dead, used, broken>>

Updated(a, o) ==
    CASE o.do = "claim"    -> [o.copy EXCEPT !.owner = AgentId[a]]
      [] o.do = "start"    -> [o.copy EXCEPT !.status = "in_progress"]
      [] o.do = "finish"   -> [o.copy EXCEPT !.status = "completed"]
      [] o.do = "release"  -> [o.copy EXCEPT !.owner = None]
      [] o.do = "unassign" -> [o.copy EXCEPT !.owner = None, !.status = "pending"]
      [] o.do \in {"block", "unblock"} -> [o.copy EXCEPT !.blockedBy = o.blockers]

\* The file is truncated, or made again if it was deleted meanwhile ...
Write(a) ==
    /\ op[a].at = "write"
    /\ file' = [file EXCEPT ![op[a].id] = [Updated(a, op[a]) EXCEPT !.whole = FALSE]]
    /\ Goto(a, "fill")
    /\ UNCHANGED <<mark, taskLock, listLock, dead, holds, used, broken>>

\* ... and filled, unless it is deleted meanwhile.
Filled(i) == IF Exists(i) THEN [file[i] EXCEPT !.whole = TRUE] ELSE None

Fill(a) ==
    /\ op[a].at = "fill" /\ op[a].do # "create"
    /\ file' = [file EXCEPT ![op[a].id] = Filled(op[a].id)]
    /\ Unlock(a)
    /\ \E next \in IF op[a].do = "claim" THEN AfterClaim(op[a].id)
                   ELSE Following(op[a]) : Set(a, next)
    /\ holds' = CASE op[a].do = "claim" -> [holds EXCEPT ![a] = op[a].id]
                  [] op[a].do \in {"finish", "release"} -> [holds EXCEPT ![a] = None]
                  [] OTHER -> holds
    /\ UNCHANGED <<mark, listLock, dead, used, broken>>

----------------------------------------------------------------------------
(* Workers.                                                                 *)

\* tryClaimNextTask and the task list watcher: an available task of the list.
Look(w) ==
    /\ IsIdle(w) /\ holds[w] = None
    /\ \E i \in Listed :
          /\ file[i].status = "pending" /\ file[i].owner = None
          /\ file[i].blockedBy \cap Unresolved = {}
          /\ Set(w, Update("claim", i, {}, {}))
    /\ UNCHANGED <<file, mark, taskLock, listLock, dead, holds, used, broken>>

\* TaskUpdate with status completed.
Finish(w) ==
    /\ IsIdle(w) /\ holds[w] # None
    /\ Set(w, Update("finish", holds[w], {}, {}))
    /\ UNCHANGED <<file, mark, taskLock, listLock, dead, holds, used, broken>>

\* The process ends; the locks it held go stale.
Die(w) ==
    /\ w \notin dead
    /\ dead' = dead \cup {w}
    /\ Set(w, Idle)
    /\ holds' = [holds EXCEPT ![w] = None]
    /\ taskLock' = [i \in Ids |-> IF taskLock[i] = w THEN None ELSE taskLock[i]]
    /\ UNCHANGED <<file, mark, listLock, used, broken>>

----------------------------------------------------------------------------
(* Leads.                                                                   *)

\* unassignTeammateTasks: the tasks are picked from one reading of the list.
Unassign(l, w) ==
    /\ IsIdle(l) /\ w \in dead
    /\ LET theirs == {i \in Unresolved : file[i].owner = AgentId[w]}
       IN  \E i \in theirs :
              Set(l, Update("unassign", i, {},
                            {[id |-> j, blockers |-> {}] : j \in theirs \ {i}}))
    /\ UNCHANGED <<file, mark, taskLock, listLock, dead, holds, used, broken>>

\* blockTask: the array is extended before the lock is taken.
Block(l, i, j) ==
    /\ IsIdle(l) /\ i # j /\ {i, j} \subseteq Listed
    /\ i \notin file[j].blockedBy
    /\ Set(l, Update("block", j, file[j].blockedBy \cup {i}, {}))
    /\ UNCHANGED <<file, mark, taskLock, listLock, dead, holds, used, broken>>

\* The steps at which an operation relies on the mark or changes it.
Numbering(a) == op[a].at \in {"scan", "mark", "unlink", "clear"}
Overlap(a) == IF \E b \in Actors \ {a} : Numbering(b) THEN {"overlap"} ELSE {}

\* createTask, under the lock of the list, reads the names and the mark.
Create(l) ==
    /\ IsIdle(l) /\ listLock = None
    /\ listLock' = l
    /\ Set(l, [do |-> "create", at |-> "scan", todo |-> {"names", "mark"}, high |-> 0])
    /\ broken' = broken \cup Overlap(l)
    /\ UNCHANGED <<file, mark, taskLock, dead, holds, used>>

HighestOf(S) == Max(S \cup {0})

Scan(l) ==
    /\ op[l].at = "scan"
    /\ \E what \in op[l].todo :
          LET seen == IF what = "mark" THEN mark ELSE HighestOf({i \in Ids : Exists(i)})
          IN  Set(l, [do |-> "create", at |-> "scan", todo |-> op[l].todo \ {what},
                      high |-> HighestOf({op[l].high, seen})])
    /\ UNCHANGED <<file, mark, taskLock, listLock, dead, holds, used, broken>>

NewTask == [owner |-> None, status |-> "pending", blockedBy |-> {}, whole |-> FALSE]

Number(l) ==
    /\ op[l].at = "scan" /\ op[l].todo = {}
    /\ IF op[l].high < MaxId
       THEN LET i == op[l].high + 1
            IN  /\ file' = [file EXCEPT ![i] = NewTask]
                /\ Set(l, [do |-> "create", at |-> "fill", id |-> i])
                /\ used' = used \cup {i}
                /\ broken' = IF i \in used THEN broken \cup {"reuse"} ELSE broken
                /\ UNCHANGED listLock
       ELSE Set(l, Idle) /\ listLock' = None /\ UNCHANGED <<file, used, broken>>
    /\ UNCHANGED <<mark, taskLock, dead, holds>>

Created(l) ==
    /\ op[l].at = "fill" /\ op[l].do = "create"
    /\ file' = [file EXCEPT ![op[l].id] = Filled(op[l].id)]
    /\ listLock' = None
    /\ Set(l, Idle)
    /\ UNCHANGED <<mark, taskLock, dead, holds, used, broken>>

\* deleteTask raises the mark, unlinks the file, and takes the task out of the
\* others; none of it under a lock but these updates.
Delete(l, i) ==
    /\ IsIdle(l) /\ Readable(i)
    /\ Set(l, [do |-> "delete", at |-> IF i > mark THEN "mark" ELSE "unlink", id |-> i])
    /\ broken' = broken \cup Overlap(l)
    /\ UNCHANGED <<file, mark, taskLock, listLock, dead, holds, used>>

RaiseMark(l) ==
    /\ op[l].at = "mark" /\ op[l].do = "delete"
    /\ mark' = op[l].id
    /\ Goto(l, "unlink")
    /\ UNCHANGED <<file, taskLock, listLock, dead, holds, used, broken>>

Unlink(l) ==
    /\ op[l].at = "unlink"
    /\ LET i == op[l].id
           others == {j \in Listed \ {i} : i \in file[j].blockedBy}
           first == [do |-> "unblock", todo |->
                        {[id |-> j, blockers |-> file[j].blockedBy \ {i}] : j \in others}]
       IN  /\ file' = [file EXCEPT ![i] = None]
           /\ \E next \in IF Exists(i) THEN Following(first) ELSE {Idle} : Set(l, next)
    /\ UNCHANGED <<mark, taskLock, listLock, dead, holds, used, broken>>

----------------------------------------------------------------------------
(* The display: when its timer fires it looks whether all is completed, and *)
(* resetTaskList then saves the highest id and unlinks every file.          *)
Verify(d) ==
    /\ IsIdle(d) /\ Listed # {} /\ Unresolved = {}
    /\ Set(d, [do |-> "reset", at |-> "reset"])
    /\ UNCHANGED <<file, mark, taskLock, listLock, dead, holds, used, broken>>

Reset(d) ==
    /\ op[d].at = "reset" /\ listLock = None
    /\ listLock' = d
    /\ Goto(d, "mark")
    /\ broken' = broken \cup Overlap(d)
    /\ UNCHANGED <<file, mark, taskLock, dead, holds, used>>

\* Mutant: the highest id of the files replaces the mark.
SaveHighest(d) ==
    /\ op[d].at = "mark" /\ op[d].do = "reset"
    /\ mark' = HighestOf({i \in Ids : Exists(i)})
    /\ Goto(d, "clear")
    /\ UNCHANGED <<file, taskLock, listLock, dead, holds, used, broken>>

SaveMark(d) ==
    /\ op[d].at = "mark" /\ op[d].do = "reset"
    /\ mark' = HighestOf({mark} \cup {i \in Ids : Exists(i)})
    /\ Goto(d, "clear")
    /\ UNCHANGED <<file, taskLock, listLock, dead, holds, used, broken>>

Clear(d) ==
    /\ op[d].at = "clear"
    /\ broken' = IF \A i \in Ids : Exists(i) => file[i].status = "completed"
                 THEN broken ELSE broken \cup {"cleared"}
    /\ file' = [i \in Ids |-> None]
    /\ listLock' = None
    /\ Set(d, Idle)
    /\ UNCHANGED <<mark, taskLock, dead, holds, used>>

----------------------------------------------------------------------------
Next ==
    \/ \E a \in Workers \cup Leads : Lock(a) \/ Read(a) \/ Write(a) \/ Fill(a)
    \/ \E w \in Workers : Look(w) \/ Check(w) \/ Finish(w) \/ Die(w)
    \/ \E l \in Leads :
          \/ Create(l) \/ Scan(l) \/ Number(l) \/ Created(l)
          \/ RaiseMark(l) \/ Unlink(l)
          \/ \E w \in Workers : Unassign(l, w)
          \/ \E i \in Ids : Delete(l, i) \/ \E j \in Ids : Block(l, i, j)
    \/ \E d \in Display : Verify(d) \/ Reset(d) \/ SaveMark(d) \/ Clear(d)

Spec == Init /\ [][Next]_vars

----------------------------------------------------------------------------
(* A task is worked on by one worker: no other worker is told that it has   *)
(* claimed it until the first has finished or released it, or has died and  *)
(* its tasks were taken away - through deletions, lost files and writes     *)
(* that bring a deleted file back, as long as the id names one task.        *)
ClaimedOnce ==
    "reuse" \notin broken =>
        \A w, v \in Workers : holds[w] # None /\ holds[w] = holds[v] => w = v

(* An id names one task for good, deleted or cleared, unless a deletion or  *)
(* a reset overlapped with another one or with a creation.                  *)
IdsNotReused == "overlap" \notin broken => "reuse" \notin broken

(* tasks.ts:400: "Update high water mark before deleting to prevent ID      *)
(* reuse".                                                                  *)
MarkPreventsReuse == "reuse" \notin broken

(* useTasksV2.ts: "Verify all tasks are still completed before clearing".   *)
OnlyCompletedCleared == "cleared" \notin broken

(* prompt.ts of TaskList: "tasks with blockedBy cannot be claimed until     *)
(* dependencies resolve".                                                   *)
BlockedNotClaimed == "jumped" \notin broken
=============================================================================
