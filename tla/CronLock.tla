------------------------------ MODULE CronLock ------------------------------
(* The lock file that lets one session of a project drive the scheduled     *)
(* tasks.  Each session is a process that tries to create the file, probes  *)
(* it every few seconds when another one has it, takes over from a dead     *)
(* owner, and removes it when it stops.  Every access to the file system is *)
(* a step of its own.                                                       *)
EXTENDS Naturals

CONSTANTS
    Sessions,
    Ghost,       \* a session of the past whose process is dead
    NoLock,      \* the lock file does not exist
    MaxStarts    \* bounds how often a session is started

ASSUME LockAssumption ==
    /\ Ghost \notin Sessions
    /\ MaxStarts \in Nat

\* What the file holds.  Between its creation and the write of its body, and
\* while it is rewritten, it is not whole and does not parse.
Content == [by : Sessions \cup {Ghost}, pid : 0..MaxStarts, whole : BOOLEAN]
ASSUME NoLockAssumption == NoLock \notin Content

VARIABLES
    lock,        \* the lock file
    life,        \* life[s]: "on" while the scheduler of s is enabled,
                 \* "stopping" while it stops, "off" or "dead" without a process
    pid,         \* pid[s]: tells the processes of a session apart
    step,        \* step[s]: where tryAcquire or release of s waits
    isOwner,     \* isOwner[s]: what the scheduler of s believes
    raced        \* an acquisition and a recovery have overlapped

lockVars == <<lock, life, pid, step, isOwner, raced>>

HasProcess(s) == life[s] \in {"on", "stopping"}
Mine(s) == [by |-> s, pid |-> pid[s], whole |-> TRUE]
Partial(s) == [by |-> s, pid |-> pid[s], whole |-> FALSE]
IsRunning(l) == l.by \in Sessions /\ pid[l.by] = l.pid /\ HasProcess(l.by)

\* Steps between finding a lock stale (or one's own) and replacing it.
Recovering == {"unlinking", "recreating", "rewriting"}
Others(s, S) == \E u \in Sessions \ {s} : step[u] \in S

\* There may be a lock of a dead session, or of a dead process of a session.
LockInit ==
    /\ lock \in {NoLock}
                \cup [by : Sessions \cup {Ghost}, pid : {0}, whole : {TRUE}]
    /\ life = [s \in Sessions |-> "off"]
    /\ pid = [s \in Sessions |-> 0]
    /\ step = [s \in Sessions |-> "idle"]
    /\ isOwner = [s \in Sessions |-> FALSE]
    /\ raced = FALSE

(* enable(), and every probe, begin with tryAcquireSchedulerLock.           *)
BeginAcquire(s) ==
    /\ step' = [step EXCEPT ![s] = "creating"]
    /\ raced' = (raced \/ Others(s, Recovering))

Start(s) ==
    /\ ~HasProcess(s)
    /\ pid[s] < MaxStarts
    /\ life' = [life EXCEPT ![s] = "on"]
    /\ pid' = [pid EXCEPT ![s] = @ + 1]
    /\ BeginAcquire(s)
    /\ UNCHANGED <<lock, isOwner>>

Probe(s) ==
    /\ life[s] = "on"
    /\ ~isOwner[s]
    /\ step[s] = "idle"
    /\ BeginAcquire(s)
    /\ UNCHANGED <<lock, life, pid, isOwner>>

(* The end of an acquisition: its callback looks whether the scheduler was  *)
(* stopped meanwhile.                                                       *)
Win(s) ==
    /\ isOwner' = [isOwner EXCEPT ![s] = life[s] = "on"]
    /\ step' = [step EXCEPT ![s] = IF life[s] = "on" THEN "idle" ELSE "releasing"]
    /\ UNCHANGED life

Lose(s) ==
    /\ life' = [life EXCEPT ![s] = IF @ = "on" THEN "on" ELSE "off"]
    /\ step' = [step EXCEPT ![s] = "idle"]
    /\ UNCHANGED isOwner

(* Mutant: the file is opened with 'w'.                                     *)
CreateAnyway(s) ==
    /\ step[s] \in {"creating", "recreating"}
    /\ lock' = Partial(s)
    /\ step' = [step EXCEPT ![s] = "writing"]
    /\ UNCHANGED <<life, pid, isOwner, raced>>

(* tryCreateExclusive opens the file with 'wx' ...                          *)
Create(s) ==
    /\ step[s] \in {"creating", "recreating"}
    /\ IF lock = NoLock
       THEN /\ lock' = Partial(s)
            /\ step' = [step EXCEPT ![s] = "writing"]
            /\ UNCHANGED <<life, isOwner>>
       ELSE /\ UNCHANGED lock
            /\ IF step[s] = "creating"
               THEN /\ step' = [step EXCEPT ![s] = "reading"]
                    /\ UNCHANGED <<life, isOwner>>
               ELSE Lose(s)
    /\ UNCHANGED <<pid, raced>>

(* ... and writes the body, into the file it has opened: if that file was   *)
(* unlinked meanwhile nobody sees it.                                       *)
Write(s) ==
    /\ step[s] = "writing"
    /\ lock' = IF lock = Partial(s) THEN Mine(s) ELSE lock
    /\ Win(s)
    /\ UNCHANGED <<pid, raced>>

Own(s, l) == l # NoLock /\ l.whole /\ l.by = s

\* Mutant: a lock is respected though its process is dead.
BlockedByAnyone(l) == l # NoLock /\ l.whole

Blocked(l) == l # NoLock /\ l.whole /\ IsRunning(l)

(* Creation failed: read who holds the lock.                                *)
Read(s) ==
    /\ step[s] = "reading"
    /\ IF Own(s, lock) /\ lock.pid = pid[s]
       THEN Win(s) /\ UNCHANGED raced
       ELSE IF Blocked(lock) /\ ~Own(s, lock)
       THEN Lose(s) /\ UNCHANGED raced
       ELSE /\ step' = [step EXCEPT ![s] =
                            IF Own(s, lock) THEN "rewriting" ELSE "unlinking"]
            /\ raced' = (raced \/ \E u \in Sessions \ {s} : step[u] # "idle")
            /\ UNCHANGED <<life, isOwner>>
    /\ UNCHANGED <<lock, pid>>

(* The lock is ours from an earlier process: overwrite it.                  *)
Rewrite(s) ==
    /\ step[s] = "rewriting"
    /\ lock' = Partial(s)
    /\ step' = [step EXCEPT ![s] = "writing"]
    /\ UNCHANGED <<life, pid, isOwner, raced>>

(* The lock was stale when it was read: unlink whatever is there now.       *)
Unlink(s) ==
    /\ step[s] = "unlinking"
    /\ lock' = NoLock
    /\ step' = [step EXCEPT ![s] = "recreating"]
    /\ UNCHANGED <<life, pid, isOwner, raced>>

(* stop(): an acquisition that is still under way looks at it at its end.   *)
Stop(s) ==
    /\ life[s] = "on"
    /\ isOwner' = [isOwner EXCEPT ![s] = FALSE]
    /\ IF isOwner[s]
       THEN /\ life' = [life EXCEPT ![s] = "stopping"]
            /\ step' = [step EXCEPT ![s] = "releasing"]
       ELSE /\ life' = [life EXCEPT ![s] =
                            IF step[s] = "idle" THEN "off" ELSE "stopping"]
            /\ UNCHANGED step
    /\ UNCHANGED <<lock, pid, raced>>

(* releaseSchedulerLock reads the file and unlinks it if it is its own.     *)
ReadForRelease(s) ==
    /\ step[s] = "releasing"
    /\ IF Own(s, lock)
       THEN /\ step' = [step EXCEPT ![s] = "removing"]
            /\ UNCHANGED <<life, isOwner>>
       ELSE Lose(s)
    /\ UNCHANGED <<lock, pid, raced>>

Remove(s) ==
    /\ step[s] = "removing"
    /\ lock' = NoLock
    /\ Lose(s)
    /\ UNCHANGED <<pid, raced>>

(* The process dies and leaves the file as it is.                           *)
Crash(s) ==
    /\ HasProcess(s)
    /\ life' = [life EXCEPT ![s] = "dead"]
    /\ step' = [step EXCEPT ![s] = "idle"]
    /\ isOwner' = [isOwner EXCEPT ![s] = FALSE]
    /\ UNCHANGED <<lock, pid, raced>>

Acquire(s) == Create(s) \/ Write(s) \/ Read(s) \/ Rewrite(s) \/ Unlink(s)
Release(s) == ReadForRelease(s) \/ Remove(s)

LockNext ==
    \E s \in Sessions :
        \/ Start(s) \/ Probe(s) \/ Acquire(s)
        \/ Stop(s) \/ Release(s) \/ Crash(s)

LockSpec == LockInit /\ [][LockNext]_lockVars

(* A process that lives goes on with its calls, and its probe timer fires.  *)
LockFairness ==
    \A s \in Sessions :
        WF_lockVars(Acquire(s)) /\ WF_lockVars(Release(s)) /\ WF_lockVars(Probe(s))

----------------------------------------------------------------------------
Steps == {"idle", "creating", "writing", "reading", "releasing", "removing"}
            \cup Recovering

LockTypeOK ==
    /\ lock \in Content \cup {NoLock}
    /\ life \in [Sessions -> {"off", "on", "stopping", "dead"}]
    /\ pid \in [Sessions -> 0..MaxStarts]
    /\ step \in [Sessions -> Steps]
    /\ isOwner \in [Sessions -> BOOLEAN]
    /\ raced \in BOOLEAN

(* As long as no acquisition has overlapped with a recovery, at most one    *)
(* session believes that it owns the scheduler, through crashes, restarts   *)
(* under the same identity, late answers to a probe and late releases.      *)
SoleOwner ==
    ~raced => \A s, u \in Sessions : isOwner[s] /\ isOwner[u] => s = u

(* cronTasksLock.ts:109: "If two sessions race to recover a stale lock,     *)
(* only one create succeeds."                                               *)
OneCreateSucceeds == \A s, u \in Sessions : isOwner[s] /\ isOwner[u] => s = u

=============================================================================
