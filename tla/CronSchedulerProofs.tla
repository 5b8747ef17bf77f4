------------------------ MODULE CronSchedulerProofs ------------------------
(* Proofs about CronScheduler and its lock, for any number of sessions,     *)
(* processes and tasks.                                                     *)
EXTENDS CronScheduler, TLAPS

\* A session that does something with the lock has a process; an owner is at
\* rest.
Active ==
    /\ \A s \in Sessions : step[s] # "idle" => HasProcess(s)
    /\ \A s \in Sessions : isOwner[s] => life[s] = "on" /\ step[s] = "idle"

\* The file tells who owns the scheduler, who is writing it, who removes it.
FileTells ==
    \A s \in Sessions :
        /\ isOwner[s] => lock = Mine(s)
        /\ step[s] = "writing" => lock = Partial(s)
        /\ step[s] \in {"releasing", "removing"} =>
               lock = Mine(s) /\ life[s] = "stopping"

\* Who replaces a stale lock is alone with it.
RecoversAlone ==
    \A s, u \in Sessions :
        s # u /\ step[s] \in Recovering => step[u] = "idle" /\ ~isOwner[u]

IInv == LockTypeOK /\ Active /\ (~raced => FileTells /\ RecoversAlone)

\* At the start no session runs; a lock that is there is of a dead process.
LEMMA InitIInv == LockInit => IInv
<1> SUFFICES ASSUME LockInit PROVE IInv
  OBVIOUS
<1>0. 0 \in 0..MaxStarts
  BY LockAssumption
<1>1. lock \in Content \cup {NoLock}
  <2>1. ASSUME NEW l \in [by : Sessions \cup {Ghost}, pid : {0}, whole : {TRUE}]
        PROVE  l \in Content
    BY <1>0 DEF Content
  <2> QED
    BY <2>1 DEF LockInit
<1>2. /\ life \in [Sessions -> {"off", "on", "stopping", "dead"}]
      /\ step \in [Sessions -> Steps]
      /\ isOwner \in [Sessions -> BOOLEAN]
      /\ raced \in BOOLEAN
  BY DEF LockInit, Steps
<1>3. pid \in [Sessions -> 0..MaxStarts]
  BY <1>0 DEF LockInit
<1>4. Active /\ FileTells /\ RecoversAlone
  BY DEF LockInit, Active, FileTells, RecoversAlone, Recovering
<1> QED
  BY <1>1, <1>2, <1>3, <1>4 DEF IInv, LockTypeOK

\* What a session writes tells it apart from every other session.
LEMMA Signed ==
    ASSUME NEW s \in Sessions, NEW u \in Sessions,
           pid \in [Sessions -> 0..MaxStarts]
    PROVE  /\ Mine(s) \in Content /\ Partial(s) \in Content
           /\ Mine(s) = Mine(u) => s = u
           /\ Partial(s) = Partial(u) => s = u
           /\ Mine(s) # Partial(u)
           /\ Mine(s) # NoLock /\ Partial(s) # NoLock
<1>1. Mine(s) \in Content /\ Partial(s) \in Content
  BY DEF Mine, Partial, Content
<1>2. /\ Mine(s).by = s /\ Mine(u).by = u /\ Partial(s).by = s /\ Partial(u).by = u
      /\ Mine(s).whole /\ ~Partial(u).whole
  BY DEF Mine, Partial
<1> QED
  BY <1>1, <1>2, NoLockAssumption

\* The lock of an owner, and of one that stops, is respected by the others.
LEMMA MineBlocks ==
    ASSUME NEW s \in Sessions, NEW u \in Sessions, s # u, HasProcess(s),
           lock = Mine(s), pid \in [Sessions -> 0..MaxStarts]
    PROVE  Blocked(lock) /\ ~Own(u, lock)
<1>1. lock.by = s /\ lock.pid = pid[s] /\ lock.whole
  BY DEF Mine
<1>2. lock # NoLock
  BY Signed
<1> QED
  BY <1>1, <1>2 DEF Blocked, Own, IsRunning

\* A session begins to acquire the lock, in a new process or in its own.
LEMMA BeginStep ==
    ASSUME IInv, NEW s \in Sessions, Start(s) \/ Probe(s)
    PROVE  IInv'
<1> USE DEF BeginAcquire, HasProcess
<1>0. /\ life \in [Sessions -> {"off", "on", "stopping", "dead"}]
      /\ pid \in [Sessions -> 0..MaxStarts] /\ step \in [Sessions -> Steps]
      /\ isOwner \in [Sessions -> BOOLEAN] /\ raced \in BOOLEAN
      /\ lock \in Content \cup {NoLock} /\ MaxStarts \in Nat
  BY LockAssumption DEF IInv, LockTypeOK
<1>1. /\ step[s] = "idle" /\ ~isOwner[s]
      /\ step' = [step EXCEPT ![s] = "creating"]
      /\ raced' = (raced \/ Others(s, Recovering))
      /\ UNCHANGED <<lock, isOwner>>
  BY <1>0 DEF Start, Probe, IInv, Active
<1>2. /\ life' \in [Sessions -> {"off", "on", "stopping", "dead"}] /\ life'[s] = "on"
      /\ pid' \in [Sessions -> 0..MaxStarts]
      /\ \A u \in Sessions \ {s} : life'[u] = life[u] /\ pid'[u] = pid[u]
  BY <1>0 DEF Start, Probe
<1>3. LockTypeOK'
  BY <1>0, <1>1, <1>2 DEF LockTypeOK, Steps
<1>4. Active'
  BY <1>0, <1>1, <1>2 DEF Active, IInv
<1>5. ASSUME ~raced' PROVE FileTells' /\ RecoversAlone'
  <2>1. ~raced /\ \A u \in Sessions \ {s} : step[u] \notin Recovering
    BY <1>1, <1>5 DEF Others
  <2>2. FileTells'
    BY <1>0, <1>1, <1>2, <2>1 DEF FileTells, IInv, Mine, Partial
  <2>3. RecoversAlone'
    BY <1>0, <1>1, <2>1 DEF RecoversAlone, Recovering
  <2> QED
    BY <2>2, <2>3
<1> QED
  BY <1>3, <1>4, <1>5 DEF IInv

\* What Win and Lose do, to one session.
LEMMA WinEffect ==
    ASSUME LockTypeOK, NEW s \in Sessions, Win(s)
    PROVE  /\ isOwner' \in [Sessions -> BOOLEAN] /\ step' \in [Sessions -> Steps]
           /\ life' = life
           /\ \A u \in Sessions \ {s} : isOwner'[u] = isOwner[u] /\ step'[u] = step[u]
           /\ \/ life[s] = "on" /\ isOwner'[s] /\ step'[s] = "idle"
              \/ life[s] # "on" /\ ~isOwner'[s] /\ step'[s] = "releasing"
BY DEF LockTypeOK, Win, Steps

LEMMA LoseEffect ==
    ASSUME LockTypeOK, NEW s \in Sessions, Lose(s)
    PROVE  /\ isOwner' = isOwner /\ step' \in [Sessions -> Steps]
           /\ life' \in [Sessions -> {"off", "on", "stopping", "dead"}]
           /\ \A u \in Sessions \ {s} : life'[u] = life[u] /\ step'[u] = step[u]
           /\ step'[s] = "idle"
BY DEF LockTypeOK, Lose, Steps

\* A session whose acquisition has not worked, or whose release is over, leaves
\* the others alone as long as it leaves the file alone or removes its own.
LEMMA LoseStep ==
    ASSUME IInv, NEW s \in Sessions, Lose(s), step[s] # "idle",
           UNCHANGED <<pid, raced>>,
           lock' = lock \/ (lock' = NoLock /\ step[s] = "removing")
    PROVE  IInv'
<1> USE DEF HasProcess
<1>0. /\ isOwner' = isOwner /\ step' \in [Sessions -> Steps] /\ ~isOwner[s]
      /\ life' \in [Sessions -> {"off", "on", "stopping", "dead"}]
      /\ \A u \in Sessions \ {s} : life'[u] = life[u] /\ step'[u] = step[u]
      /\ step'[s] = "idle" /\ pid' = pid /\ raced' = raced
  BY LoseEffect DEF IInv, Active
<1>1. LockTypeOK'
  BY <1>0 DEF IInv, LockTypeOK
<1>2. Active'
  BY <1>0 DEF IInv, Active
<1>3. ASSUME ~raced' PROVE FileTells' /\ RecoversAlone'
  <2>1. FileTells /\ RecoversAlone /\ pid \in [Sessions -> 0..MaxStarts]
    BY <1>0, <1>3 DEF IInv, LockTypeOK
  <2>2. RecoversAlone'
    BY <1>0, <2>1 DEF RecoversAlone, Recovering
  <2>3. ASSUME lock' = lock PROVE FileTells'
    BY <1>0, <2>1, <2>3 DEF FileTells, Mine, Partial
  <2>4. ASSUME lock' = NoLock, step[s] = "removing" PROVE FileTells'
    <3>1. lock = Mine(s)
      BY <2>1, <2>4 DEF FileTells
    <3>2. \A u \in Sessions \ {s} : lock # Mine(u) /\ lock # Partial(u)
      BY <2>1, <3>1, Signed
    <3> QED
      BY <1>0, <2>1, <3>2 DEF FileTells
  <2> QED
    BY <2>2, <2>3, <2>4
<1> QED
  BY <1>1, <1>2, <1>3 DEF IInv

\* An acquisition that has worked: the file is that of the session.
LEMMA WinStep ==
    ASSUME IInv, NEW s \in Sessions, Win(s), step[s] \in {"writing", "reading"},
           UNCHANGED <<pid, raced>>, lock' \in Content \cup {NoLock},
           ~raced => lock' = Mine(s) /\ lock \in {Mine(s), Partial(s)}
    PROVE  IInv'
<1> USE DEF HasProcess
<1>0. /\ isOwner' \in [Sessions -> BOOLEAN] /\ step' \in [Sessions -> Steps]
      /\ life' = life /\ pid' = pid /\ raced' = raced
      /\ \A u \in Sessions \ {s} : isOwner'[u] = isOwner[u] /\ step'[u] = step[u]
      /\ \/ life[s] = "on" /\ isOwner'[s] /\ step'[s] = "idle"
         \/ life[s] = "stopping" /\ ~isOwner'[s] /\ step'[s] = "releasing"
  BY WinEffect DEF IInv, Active
<1>1. LockTypeOK'
  BY <1>0 DEF IInv, LockTypeOK
<1>2. Active'
  BY <1>0 DEF IInv, Active
<1>3. ASSUME ~raced' PROVE FileTells' /\ RecoversAlone'
  <2>1. FileTells /\ RecoversAlone /\ pid \in [Sessions -> 0..MaxStarts]
    BY <1>0, <1>3 DEF IInv, LockTypeOK
  <2>2. lock' = Mine(s) /\ lock \in {Mine(s), Partial(s)} /\ Mine(s)' = Mine(s)
    BY <1>0, <1>3 DEF Mine
  <2>3. \A u \in Sessions \ {s} :
            ~isOwner[u] /\ step[u] \notin {"writing", "releasing", "removing"}
    BY <2>1, <2>2, Signed DEF FileTells
  <2>4. \A u \in Sessions \ {s} : step[u] \notin Recovering
    BY <2>1 DEF RecoversAlone
  <2> QED
    BY <1>0, <2>2, <2>3, <2>4 DEF FileTells, RecoversAlone, Recovering
<1> QED
  BY <1>1, <1>2, <1>3 DEF IInv

\* The exclusive creation: it works only while no session relies on the file.
LEMMA CreateStep ==
    ASSUME IInv, NEW s \in Sessions, Create(s)
    PROVE  IInv'
<1> USE DEF HasProcess
<1>1. ASSUME lock # NoLock, step[s] = "recreating" PROVE IInv'
  <2>1. Lose(s) /\ UNCHANGED <<lock, pid, raced>>
    BY <1>1 DEF Create
  <2> QED
    BY <1>1, <2>1, LoseStep
<1>2. ASSUME lock = NoLock \/ step[s] = "creating" PROVE IInv'
  <2>0. /\ life \in [Sessions -> {"off", "on", "stopping", "dead"}]
        /\ pid \in [Sessions -> 0..MaxStarts] /\ step \in [Sessions -> Steps]
        /\ isOwner \in [Sessions -> BOOLEAN] /\ raced \in BOOLEAN
        /\ lock \in Content \cup {NoLock}
    BY DEF IInv, LockTypeOK
  <2>1. /\ step[s] \in {"creating", "recreating"}
        /\ UNCHANGED <<life, pid, isOwner, raced>>
        /\ \/ lock = NoLock /\ lock' = Partial(s)
              /\ step' = [step EXCEPT ![s] = "writing"]
           \/ lock # NoLock /\ lock' = lock
              /\ step' = [step EXCEPT ![s] = "reading"]
    BY <1>2 DEF Create
  <2>2. LockTypeOK'
    BY <2>0, <2>1, Signed DEF LockTypeOK, Steps
  <2>3. Active'
    BY <2>0, <2>1 DEF IInv, Active
  <2>4. ASSUME ~raced' PROVE FileTells' /\ RecoversAlone'
    <3>1. FileTells /\ RecoversAlone
      BY <2>1, <2>4 DEF IInv
    <3>2. \A u \in Sessions \ {s} : step[u] \notin Recovering
      BY <2>1, <3>1 DEF RecoversAlone
    <3>3. RecoversAlone'
      BY <2>0, <2>1, <3>2 DEF RecoversAlone, Recovering
    <3>4. ~isOwner[s]
      BY <2>1 DEF IInv, Active
    <3>5. \A u \in Sessions : /\ Mine(u)' = Mine(u) /\ Partial(u)' = Partial(u)
                              /\ Mine(u) # NoLock /\ Partial(u) # NoLock
      BY <2>0, <2>1, Signed DEF Mine, Partial
    <3>6. FileTells'
      BY <2>0, <2>1, <3>1, <3>4, <3>5 DEF FileTells
    <3> QED
      BY <3>3, <3>6
  <2> QED
    BY <2>2, <2>3, <2>4 DEF IInv
<1> QED
  BY <1>1, <1>2 DEF Create

LEMMA WriteStep ==
    ASSUME IInv, NEW s \in Sessions, Write(s)
    PROVE  IInv'
<1>1. /\ step[s] = "writing" /\ Win(s) /\ UNCHANGED <<pid, raced>>
      /\ lock' = IF lock = Partial(s) THEN Mine(s) ELSE lock
  BY DEF Write
<1>2. lock' \in Content \cup {NoLock}
  BY <1>1, Signed DEF IInv, LockTypeOK
<1>3. ~raced => lock = Partial(s)
  BY <1>1 DEF IInv, FileTells
<1> QED
  BY <1>1, <1>2, <1>3, WinStep

\* What is read decides: one's own lock, a lock that is respected, or one to be
\* replaced, which then is nobody's.
LEMMA ReadStep ==
    ASSUME IInv, NEW s \in Sessions, Read(s)
    PROVE  IInv'
<1> USE DEF HasProcess
<1>0. /\ life \in [Sessions -> {"off", "on", "stopping", "dead"}]
      /\ pid \in [Sessions -> 0..MaxStarts] /\ step \in [Sessions -> Steps]
      /\ isOwner \in [Sessions -> BOOLEAN] /\ raced \in BOOLEAN
      /\ lock \in Content \cup {NoLock}
      /\ step[s] = "reading" /\ UNCHANGED <<lock, pid>>
  BY DEF IInv, LockTypeOK, Read
<1>1. ASSUME Own(s, lock), lock.pid = pid[s] PROVE IInv'
  <2>1. Win(s) /\ UNCHANGED raced
    BY <1>1 DEF Read
  <2>2. lock = Mine(s)
    BY <1>0, <1>1 DEF Own, Mine, Content
  <2> QED
    BY <1>0, <2>1, <2>2, WinStep
<1>2. ASSUME ~(Own(s, lock) /\ lock.pid = pid[s]), Blocked(lock), ~Own(s, lock)
      PROVE  IInv'
  <2>1. Lose(s) /\ UNCHANGED raced
    BY <1>2 DEF Read
  <2> QED
    BY <1>0, <2>1, LoseStep
<1>3. ASSUME ~(Own(s, lock) /\ lock.pid = pid[s]), ~(Blocked(lock) /\ ~Own(s, lock))
      PROVE  IInv'
  <2>1. /\ step' = [step EXCEPT ![s] =
                       IF Own(s, lock) THEN "rewriting" ELSE "unlinking"]
        /\ raced' = (raced \/ \E u \in Sessions \ {s} : step[u] # "idle")
        /\ UNCHANGED <<life, isOwner>>
    BY <1>3 DEF Read
  <2>2. LockTypeOK'
    BY <1>0, <2>1 DEF LockTypeOK, Steps, Recovering
  <2>3. Active'
    BY <1>0, <2>1 DEF IInv, Active
  <2>4. ASSUME ~raced' PROVE FileTells' /\ RecoversAlone'
    <3>1. ~raced /\ \A u \in Sessions \ {s} : step[u] = "idle"
      BY <1>0, <2>1, <2>4
    <3>2. FileTells /\ Active
      BY <3>1 DEF IInv
    <3>3. \A u \in Sessions \ {s} : ~isOwner[u]
      BY <1>0, <1>3, <3>2, MineBlocks DEF FileTells, Active
    <3>4. ~isOwner[s]
      BY <1>0, <3>2 DEF Active
    <3>5. /\ step'[s] \in {"rewriting", "unlinking"}
          /\ \A u \in Sessions \ {s} : step'[u] = "idle"
          /\ \A u \in Sessions : ~isOwner'[u]
      BY <1>0, <2>1, <3>1, <3>3, <3>4
    <3> QED
      BY <3>5 DEF FileTells, RecoversAlone, Recovering
  <2> QED
    BY <2>2, <2>3, <2>4 DEF IInv
<1> QED
  BY <1>1, <1>2, <1>3

\* The two steps that replace a stale lock.
LEMMA RecoverStep ==
    ASSUME IInv, NEW s \in Sessions, Rewrite(s) \/ Unlink(s)
    PROVE  IInv'
<1> USE DEF HasProcess
<1>0. /\ life \in [Sessions -> {"off", "on", "stopping", "dead"}]
      /\ pid \in [Sessions -> 0..MaxStarts] /\ step \in [Sessions -> Steps]
      /\ isOwner \in [Sessions -> BOOLEAN] /\ raced \in BOOLEAN
  BY DEF IInv, LockTypeOK
<1>1. /\ step[s] \in Recovering /\ UNCHANGED <<life, pid, isOwner, raced>>
      /\ \/ lock' = Partial(s) /\ step' = [step EXCEPT ![s] = "writing"]
         \/ lock' = NoLock /\ step' = [step EXCEPT ![s] = "recreating"]
  BY DEF Rewrite, Unlink, Recovering
<1>2. LockTypeOK'
  BY <1>0, <1>1, Signed DEF LockTypeOK, Steps, Recovering
<1>3. Active'
  BY <1>0, <1>1 DEF IInv, Active, Recovering
<1>4. ASSUME ~raced' PROVE FileTells' /\ RecoversAlone'
  <2>1. RecoversAlone /\ Active
    BY <1>1, <1>4 DEF IInv
  <2>2. /\ \A u \in Sessions \ {s} : step[u] = "idle" /\ ~isOwner[u]
        /\ ~isOwner[s]
    BY <1>1, <2>1 DEF RecoversAlone, Active, Recovering
  <2>3. Partial(s)' = Partial(s)
    BY <1>1 DEF Partial
  <2> QED
    BY <1>0, <1>1, <2>2, <2>3 DEF FileTells, RecoversAlone, Recovering
<1> QED
  BY <1>2, <1>3, <1>4 DEF IInv

LEMMA StopStep ==
    ASSUME IInv, NEW s \in Sessions, Stop(s)
    PROVE  IInv'
<1> USE DEF HasProcess
<1>0. /\ life \in [Sessions -> {"off", "on", "stopping", "dead"}]
      /\ pid \in [Sessions -> 0..MaxStarts] /\ step \in [Sessions -> Steps]
      /\ isOwner \in [Sessions -> BOOLEAN] /\ raced \in BOOLEAN
  BY DEF IInv, LockTypeOK
<1>1. /\ life[s] = "on" /\ isOwner' = [isOwner EXCEPT ![s] = FALSE]
      /\ UNCHANGED <<lock, pid, raced>>
      /\ \/ /\ isOwner[s] /\ life' = [life EXCEPT ![s] = "stopping"]
            /\ step' = [step EXCEPT ![s] = "releasing"]
         \/ /\ step[s] = "idle" /\ life' = [life EXCEPT ![s] = "off"]
            /\ step' = step
         \/ /\ step[s] # "idle" /\ life' = [life EXCEPT ![s] = "stopping"]
            /\ step' = step
  BY DEF Stop
<1>2. LockTypeOK'
  BY <1>0, <1>1 DEF IInv, LockTypeOK, Steps
<1>3. Active'
  BY <1>0, <1>1 DEF IInv, Active
<1>4. ASSUME ~raced' PROVE FileTells' /\ RecoversAlone'
  <2>1. FileTells /\ RecoversAlone
    BY <1>1, <1>4 DEF IInv
  <2>2. \A u \in Sessions : Mine(u)' = Mine(u) /\ Partial(u)' = Partial(u)
    BY <1>1 DEF Mine, Partial
  <2>3. FileTells'
    BY <1>0, <1>1, <2>1, <2>2 DEF FileTells
  <2>4. RecoversAlone'
    BY <1>0, <1>1, <2>1 DEF RecoversAlone, Recovering
  <2> QED
    BY <2>3, <2>4
<1> QED
  BY <1>2, <1>3, <1>4 DEF IInv

LEMMA ReleaseStep ==
    ASSUME IInv, NEW s \in Sessions, Release(s)
    PROVE  IInv'
<1> USE DEF HasProcess
<1>0. /\ step \in [Sessions -> Steps] /\ pid \in [Sessions -> 0..MaxStarts]
  BY DEF IInv, LockTypeOK
<1>1. ASSUME ReadForRelease(s), Own(s, lock) PROVE IInv'
  <2>1. /\ step[s] = "releasing" /\ step' = [step EXCEPT ![s] = "removing"]
        /\ UNCHANGED <<lock, life, pid, isOwner, raced>>
    BY <1>1 DEF ReadForRelease
  <2>2. LockTypeOK' /\ Active'
    BY <1>0, <2>1 DEF IInv, LockTypeOK, Active, Steps
  <2>3. ASSUME ~raced' PROVE FileTells' /\ RecoversAlone'
    BY <1>0, <2>1, <2>3
       DEF IInv, FileTells, RecoversAlone, Recovering, Mine, Partial
  <2> QED
    BY <2>2, <2>3 DEF IInv
<1>2. ASSUME ReadForRelease(s), ~Own(s, lock) PROVE IInv'
  <2>1. Lose(s) /\ step[s] # "idle" /\ UNCHANGED <<lock, pid, raced>>
    BY <1>2 DEF ReadForRelease
  <2> QED
    BY <2>1, LoseStep
<1>3. ASSUME Remove(s) PROVE IInv'
  <2>1. /\ Lose(s) /\ step[s] = "removing" /\ lock' = NoLock
        /\ UNCHANGED <<pid, raced>>
    BY <1>3 DEF Remove
  <2> QED
    BY <2>1, LoseStep
<1> QED
  BY <1>1, <1>2, <1>3 DEF Release

LEMMA CrashStep ==
    ASSUME IInv, NEW s \in Sessions, Crash(s)
    PROVE  IInv'
<1> USE DEF HasProcess
<1>0. /\ life \in [Sessions -> {"off", "on", "stopping", "dead"}]
      /\ step \in [Sessions -> Steps] /\ isOwner \in [Sessions -> BOOLEAN]
  BY DEF IInv, LockTypeOK
<1>1. /\ life' = [life EXCEPT ![s] = "dead"]
      /\ step' = [step EXCEPT ![s] = "idle"]
      /\ isOwner' = [isOwner EXCEPT ![s] = FALSE]
      /\ UNCHANGED <<lock, pid, raced>>
  BY DEF Crash
<1>2. LockTypeOK' /\ Active'
  BY <1>0, <1>1 DEF IInv, LockTypeOK, Active, Steps
<1>3. ASSUME ~raced' PROVE FileTells' /\ RecoversAlone'
  BY <1>0, <1>1, <1>3 DEF IInv, FileTells, RecoversAlone, Recovering, Mine, Partial
<1> QED
  BY <1>2, <1>3 DEF IInv

\* One step per action of the lock.
LEMMA LockStepIInv ==
    ASSUME IInv, [LockNext]_lockVars
    PROVE  IInv'
<1>1. ASSUME UNCHANGED lockVars PROVE IInv'
  BY <1>1 DEF IInv, LockTypeOK, Active, FileTells, RecoversAlone, lockVars,
              HasProcess, Mine, Partial
<1>2. ASSUME NEW s \in Sessions, Start(s) \/ Probe(s) PROVE IInv'
  BY <1>2, BeginStep
<1>3. ASSUME NEW s \in Sessions, Acquire(s) PROVE IInv'
  BY <1>3, CreateStep, WriteStep, ReadStep, RecoverStep DEF Acquire
<1> QED
  BY <1>1, <1>2, <1>3, StopStep, ReleaseStep, CrashStep DEF LockNext

\* The scheduler takes no step with the lock that the lock does not allow.
LEMMA NextLocks == [Next]_vars => [LockNext]_lockVars
BY DEF Next, LockStep, LockNext, vars

THEOREM Invariance == Spec => []IInv
<1>1. Init => IInv
  BY InitIInv DEF Init
<1>2. IInv /\ [Next]_vars => IInv'
  BY NextLocks, LockStepIInv
<1> QED
  BY <1>1, <1>2, PTL DEF Spec

(* While no acquisition has overlapped with a recovery, two sessions never  *)
(* both believe that they drive the scheduler (cronTasksLock.ts): the file  *)
(* carries the mark of an owner, and has one mark.                          *)
THEOREM OneDriver == Spec => []SoleOwner
<1>1. IInv => SoleOwner
  <2>1. ASSUME IInv, ~raced, NEW s \in Sessions, NEW u \in Sessions,
               isOwner[s], isOwner[u]
        PROVE  s = u
    BY <2>1, Signed DEF IInv, LockTypeOK, FileTells
  <2> QED
    BY <2>1 DEF SoleOwner
<1> QED
  BY Invariance, <1>1, PTL

(* The scheduler implements the lock: what it adds never makes the lock do  *)
(* what cronTasksLock.ts does not.                                          *)
THEOREM UsesTheLock == Spec => LockSpec
<1>1. Init => LockInit
  BY DEF Init
<1> QED
  BY <1>1, NextLocks, PTL DEF Spec, LockSpec

----------------------------------------------------------------------------
(* FiresOnce.  The lock alone does not give it: what one owner has fired,   *)
(* the next must not find due.  So the invariant follows a fired task       *)
(* through the changes of the file that are under way.                      *)

\* No acquisition overlapped a recovery, and nothing else went wrong either.
Good == ~raced /\ upset = {}

\* The changes of the file that can be under way.
OpSet ==
    [kind : {"clean", "fired", "drop", "add"}, ids : SUBSET Tasks, at : Anchors,
     read : BOOLEAN, copy : [Tasks -> Anchors]]

\* The values of the variables of the scheduler.
SchedTypes ==
    /\ clock \in 0..MaxClock
    /\ kind \in [Tasks -> {"once", "recurring", "aged"}]
    /\ file \in [Tasks -> Anchors]
    /\ tasks \in [Sessions -> [Tasks -> Anchors]]
    /\ nextFireAt \in [Sessions -> [Tasks -> Nat \cup {None}]]
    /\ inFlight \in [Sessions -> SUBSET Tasks]
    /\ booting \in [Sessions -> {"no", "acquiring", "loading"}]
    /\ ops \in [Sessions -> SUBSET OpSet]
    /\ fires \in [Tasks -> 0..2]

\* The session drives the scheduled tasks, or its lock is not yet released.
Holds(s) == isOwner[s] \/ step[s] \in {"releasing", "removing"}

\* Changes that check() keeps in flight.
Serving(op) == op.kind \in {"clean", "fired"}

\* What a session without a process, one that loads, and one that does not own keep.
SessionOk ==
    \A s \in Sessions :
        /\ ~HasProcess(s) => /\ ops[s] = {} /\ inFlight[s] = {}
                             /\ \A t \in Tasks : nextFireAt[s][t] = None
        /\ booting[s] # "no" => inFlight[s] = {}
        /\ life[s] = "on" /\ ~isOwner[s] =>
               \A t \in Tasks : nextFireAt[s][t] \in {None, Never}
        /\ inFlight[s] # {} => Holds(s)

\* A task is in flight as long as one change of it is.
ServedOk ==
    \A s \in Sessions :
        /\ \A op \in ops[s] : Serving(op) => op.ids \subseteq inFlight[s]
        /\ \A op, p \in ops[s] :
               Serving(op) /\ Serving(p) /\ op.ids \cap p.ids # {} => op = p

\* Only an addition changes a task that is not in the file, and it is alone with it.
AddOk ==
    \A s \in Sessions : \A op \in ops[s] :
        op.kind = "add" =>
            \A t \in op.ids :
                /\ file[t] = Absent /\ fires[t] = 0 /\ op.at # Absent
                /\ op.read => op.copy[t] = Absent
                /\ \A u \in Sessions : \A p \in ops[u] : t \in p.ids => u = s /\ p = op

\* A copy that lacks a task that is to be changed is right, and so is one of a task in flight.
CopyOk ==
    \A s \in Sessions : \A op \in ops[s] : \A t \in op.ids :
        op.read /\ op.kind # "add" =>
            /\ op.copy[t] = Absent => file[t] = Absent
            /\ Serving(op) => file[t] \in {op.copy[t], Absent}

\* Only what recurs is marked as fired, only what does not is removed on firing.
KindOk ==
    \A s \in Sessions : \A op \in ops[s] : \A t \in op.ids :
        /\ op.kind = "fired" => kind[t] # "once" /\ op.at # Absent
        /\ op.kind = "clean" => kind[t] # "recurring"

\* A task that recurs has fired in this period: the file tells so, or will.
RecursLater(t) ==
    /\ \A s \in Sessions : \A op \in ops[s] :
           op.kind = "fired" /\ t \in op.ids => op.at = clock
    /\ \/ file[t] = clock
       \/ \E s \in Sessions : \E op \in ops[s] : op.kind = "fired" /\ t \in op.ids
    /\ \A s \in Sessions :
           life[s] = "on" => nextFireAt[s][t] = None \/ nextFireAt[s][t] > clock

\* A task has fired for good: its removal is in flight.
Leaves(t) == \E s \in Sessions : \E op \in ops[s] : op.kind = "clean" /\ t \in op.ids

\* A missed one-shot was asked about: its removal is under way in a session that started
\* alone and still has it in its copy, and every other one has yet to load.
Asked(t) ==
    /\ file[t] + 1 <= clock
    /\ \E s \in Sessions :
        /\ booting[s] = "no" /\ nextFireAt[s][t] = Never /\ tasks[s][t] # Absent
        /\ \E op \in ops[s] : op.kind = "drop" /\ t \in op.ids
        /\ \A u \in Sessions \ {s} : HasProcess(u) => booting[u] # "no"

\* What has fired has fired once, and it is out of the file or on its way out of it; a task
\* that recurs is not due again.
FiredOk ==
    \A t \in Tasks : fires[t] > 0 =>
        /\ fires[t] = 1
        /\ file[t] # Absent =>
             /\ kind[t] = "recurring" => RecursLater(t)
             /\ kind[t] = "aged" => Leaves(t)
             /\ kind[t] = "once" => Leaves(t) \/ Asked(t)


FireOk == SessionOk /\ ServedOk /\ AddOk /\ CopyOk /\ KindOk /\ FiredOk

\* The invariant that FiresOnce rests on.
FireInv == SchedTypes /\ (Good => FireOk)

\* One session at a time holds the lock.
LEMMA HoldsAlone ==
    ASSUME IInv, ~raced, NEW s \in Sessions, NEW u \in Sessions, Holds(s), Holds(u)
    PROVE  s = u
BY Signed DEF IInv, LockTypeOK, FileTells, Holds

\* What a step of the lock does to the session that takes it, and to the others.
LEMMA LockMoves ==
    ASSUME IInv, NEW s \in Sessions,
           \/ Start(s) \/ Probe(s) \/ Acquire(s) \/ Stop(s) \/ Release(s) \/ Crash(s),
           ~raced'
    PROVE  /\ ~raced
           /\ \A u \in Sessions \ {s} :
                  life'[u] = life[u] /\ isOwner'[u] = isOwner[u] /\ step'[u] = step[u]
           /\ Holds(s) => Holds(s)' \/ ~HasProcess(s)'
           /\ HasProcess(s) /\ life'[s] = "on" =>
                  life[s] = "on" /\ (isOwner[s] => isOwner'[s])
<1> USE DEF HasProcess, Holds
<1>0. /\ life \in [Sessions -> {"off", "on", "stopping", "dead"}]
      /\ step \in [Sessions -> Steps] /\ isOwner \in [Sessions -> BOOLEAN]
  BY DEF IInv, LockTypeOK
<1>1. ASSUME Start(s) \/ Probe(s) PROVE ~raced /\ isOwner' = isOwner
               /\ step' = [step EXCEPT ![s] = "creating"]
  BY <1>1 DEF Start, Probe, BeginAcquire
<1>2. CASE Start(s)
  BY <1>0, <1>1, <1>2 DEF Start, IInv, Active
<1>3. CASE Probe(s)
  BY <1>0, <1>1, <1>3 DEF Probe, IInv, Active
<1>4. ASSUME Win(s), ~raced, step[s] \in {"writing", "reading"}
      PROVE  /\ \A u \in Sessions \ {s} :
                    life'[u] = life[u] /\ isOwner'[u] = isOwner[u] /\ step'[u] = step[u]
             /\ ~Holds(s) /\ life' = life /\ ~isOwner[s]
  BY <1>0, <1>4 DEF Win, IInv, Active
<1>5. ASSUME Lose(s), step[s] # "idle"
      PROVE  /\ \A u \in Sessions \ {s} :
                    life'[u] = life[u] /\ isOwner'[u] = isOwner[u] /\ step'[u] = step[u]
             /\ ~isOwner[s] /\ ((life[s] = "on" /\ life'[s] = "on") \/ life'[s] = "off")
  BY <1>0, <1>5 DEF Lose, IInv, Active
<1>6. CASE Create(s) \/ Write(s) \/ Read(s) \/ Rewrite(s) \/ Unlink(s)
  <2>1. ~raced /\ step[s] \notin {"idle", "releasing", "removing"}
    <3>1. CASE Read(s)
      BY <3>1 DEF Read
    <3> QED BY <1>6, <3>1 DEF Create, Write, Rewrite, Unlink
  <2>2. ~isOwner[s]
    BY <2>1 DEF IInv, Active
  <2>3. \/ Win(s) /\ step[s] \in {"writing", "reading"}
        \/ Lose(s)
        \/ /\ UNCHANGED <<life, isOwner>>
           /\ \E p \in Steps : step' = [step EXCEPT ![s] = p]
    BY <1>6 DEF Create, Write, Read, Rewrite, Unlink, Steps, Recovering
  <2> QED BY <1>0, <1>4, <1>5, <2>1, <2>2, <2>3
<1>7. CASE Stop(s)
  BY <1>0, <1>7 DEF Stop, IInv, Active
<1>8. CASE Release(s)
  <2>1. ~raced /\ step[s] \in {"releasing", "removing"}
    BY <1>8 DEF Release, ReadForRelease, Remove
  <2>2. life[s] = "stopping"
    BY <2>1 DEF IInv, FileTells
  <2>3. \/ Lose(s)
        \/ UNCHANGED <<life, isOwner>> /\ step' = [step EXCEPT ![s] = "removing"]
    BY <1>8 DEF Release, ReadForRelease, Remove
  <2> QED BY <1>0, <1>5, <2>1, <2>2, <2>3
<1>9. CASE Crash(s)
  BY <1>0, <1>9 DEF Crash
<1> QED BY <1>2, <1>3, <1>6, <1>7, <1>8, <1>9 DEF Acquire

\* A step of the lock leaves the files alone; who ends has nothing under way.
LEMMA LockFires ==
    ASSUME IInv, SchedTypes, FireOk, Good', NEW s \in Sessions, LockStep(s)
    PROVE  FireOk'
<1> USE DEF HasProcess
<1>1. /\ \A u \in Sessions \ {s} :
             life'[u] = life[u] /\ isOwner'[u] = isOwner[u] /\ step'[u] = step[u]
      /\ Holds(s) => Holds(s)' \/ ~HasProcess(s)'
      /\ HasProcess(s) /\ life'[s] = "on" =>
             life[s] = "on" /\ (isOwner[s] => isOwner'[s])
  BY LockMoves DEF LockStep, Good
<1>2. /\ UNCHANGED <<clock, kind, file, fires>> /\ ops' = ops /\ upset = {}
      /\ \A u \in Sessions :
             /\ ~HasProcess(u)' => ops'[u] = {} /\ inFlight'[u] = {}
                                   /\ \A t \in Tasks : nextFireAt'[u][t] = None
             /\ HasProcess(u)' => /\ inFlight'[u] = inFlight[u] /\ tasks'[u] = tasks[u]
                                  /\ nextFireAt'[u] = nextFireAt[u]
  BY DEF LockStep, SchedFollows, Good, SchedTypes, time
<1>3. \A u \in Sessions :
         /\ HasProcess(u)' /\ ~HasProcess(u) => booting'[u] = "acquiring"
         /\ HasProcess(u)' /\ HasProcess(u) => (booting'[u] = "no" <=> booting[u] = "no")
         /\ ~HasProcess(u)' => booting'[u] = "no"
  BY DEF LockStep, SchedFollows, Starts, SchedTypes
<1>4. SessionOk'
  <2>1. ASSUME NEW u \in Sessions, booting'[u] # "no" PROVE inFlight'[u] = {}
    BY <1>2, <1>3, <2>1 DEF FireOk, SessionOk
  <2>2. ASSUME NEW u \in Sessions, life'[u] = "on", ~isOwner'[u], NEW t \in Tasks
        PROVE  nextFireAt'[u][t] \in {None, Never}
    BY <1>1, <1>2, <2>2 DEF FireOk, SessionOk
  <2>3. ASSUME NEW u \in Sessions, inFlight'[u] # {} PROVE Holds(u)'
    BY <1>1, <1>2, <2>3 DEF FireOk, SessionOk, Holds
  <2> QED BY <1>2, <2>1, <2>2, <2>3 DEF SessionOk
<1>5. ServedOk'
  BY <1>2 DEF FireOk, ServedOk, Serving
<1>6. AddOk' /\ CopyOk' /\ KindOk'
  BY <1>2 DEF FireOk, AddOk, CopyOk, KindOk, Serving
<1>7. ASSUME NEW t \in Tasks, RecursLater(t) PROVE RecursLater(t)'
  BY <1>1, <1>2, <1>7 DEF FireOk, SessionOk, RecursLater
<1>8. ASSUME NEW t \in Tasks, Asked(t) PROVE Asked(t)'
  <2>1. PICK v \in Sessions :
          /\ booting[v] = "no" /\ nextFireAt[v][t] = Never /\ tasks[v][t] # Absent
          /\ \E op \in ops[v] : op.kind = "drop" /\ t \in op.ids
          /\ \A u \in Sessions \ {v} : HasProcess(u) => booting[u] # "no"
    BY <1>8 DEF Asked
  <2>2. HasProcess(v) /\ HasProcess(v)'
    BY <1>2, <2>1 DEF FireOk, SessionOk
  <2> QED BY <1>2, <1>3, <1>8, <2>1, <2>2 DEF Asked
<1>9. \A t \in Tasks : Leaves(t) => Leaves(t)'
  BY <1>2 DEF Leaves
<1>10. FiredOk'
  BY <1>2, <1>7, <1>8, <1>9 DEF FireOk, FiredOk
<1> QED BY <1>4, <1>5, <1>6, <1>10 DEF FireOk

\* What the processes and the holders are does not change when the lock does not.
LEMMA LockStays ==
    ASSUME UNCHANGED lockVars
    PROVE  /\ UNCHANGED <<life, isOwner, step, raced>>
           /\ \A s \in Sessions : HasProcess(s)' = HasProcess(s) /\ Holds(s)' = Holds(s)
BY DEF lockVars, HasProcess, Holds

\* A copy that is being read is the file.
LEMMA ReadFires ==
    ASSUME SchedTypes, FireOk, Good', UNCHANGED lockVars,
           NEW s \in Sessions, NEW op, ReadTasks(s, op)
    PROVE  FireOk'
<1> DEFINE r == [op EXCEPT !.read = TRUE, !.copy = file]
<1>1. /\ op \in ops[s] /\ ~op.read /\ op \in OpSet
      /\ UNCHANGED <<clock, kind, file, tasks, nextFireAt, inFlight, booting, fires>>
      /\ ops' = [ops EXCEPT ![s] = (ops[s] \ {op}) \cup {r}]
  BY DEF ReadTasks, SchedTypes, time
<1>2. r.kind = op.kind /\ r.ids = op.ids /\ r.at = op.at /\ r.read /\ r.copy = file
  BY <1>1 DEF OpSet
<1>3. UNCHANGED <<life, isOwner, step, raced>>
      /\ \A u \in Sessions : HasProcess(u)' = HasProcess(u) /\ Holds(u)' = Holds(u)
  BY LockStays
<1> HIDE DEF r
<1>4. /\ \A u \in Sessions : \A p \in ops'[u] :
             (p \in ops[u] /\ ~(u = s /\ p = op)) \/ (u = s /\ p = r)
      /\ \A u \in Sessions : \A p \in ops[u] : p \in ops'[u] \/ (u = s /\ p = op)
      /\ r \in ops'[s] /\ \A u \in Sessions \ {s} : ops'[u] = ops[u]
  <2>1. ops \in [Sessions -> SUBSET OpSet]
    BY DEF SchedTypes
  <2>2. /\ ops'[s] = (ops[s] \ {op}) \cup {r}
        /\ \A u \in Sessions \ {s} : ops'[u] = ops[u]
    BY <1>1, <2>1
  <2>3. r # op
    BY <1>1, <1>2
  <2> QED BY <2>2, <2>3
<1>5. SessionOk'
  BY <1>1, <1>3, <1>4 DEF FireOk, SessionOk
<1>6. ServedOk'
  <2>1. ASSUME NEW u \in Sessions, NEW p \in ops'[u], Serving(p)
        PROVE  p.ids \subseteq inFlight'[u]
    BY <1>1, <1>2, <1>4, <2>1 DEF FireOk, ServedOk, Serving
  <2>2. ASSUME NEW u \in Sessions, NEW p \in ops'[u], NEW q \in ops'[u],
               Serving(p), Serving(q), p.ids \cap q.ids # {}
        PROVE  p = q
    BY <1>1, <1>2, <1>4, <2>2 DEF FireOk, ServedOk, Serving
  <2> QED BY <2>1, <2>2 DEF ServedOk, Serving
<1>7. AddOk'
  BY <1>1, <1>2, <1>4 DEF FireOk, AddOk
<1>8. CopyOk'
  BY <1>1, <1>2, <1>4 DEF FireOk, CopyOk, Serving
<1>9. KindOk'
  BY <1>1, <1>2, <1>4 DEF FireOk, KindOk
<1>10. ASSUME NEW t \in Tasks, RecursLater(t) PROVE RecursLater(t)'
  BY <1>1, <1>2, <1>3, <1>4, <1>10 DEF RecursLater
<1>11. ASSUME NEW t \in Tasks, Leaves(t) PROVE Leaves(t)'
  BY <1>1, <1>2, <1>4, <1>11 DEF Leaves
<1>12. ASSUME NEW t \in Tasks, Asked(t) PROVE Asked(t)'
  BY <1>1, <1>2, <1>3, <1>4, <1>12 DEF Asked
<1>13. FiredOk'
  BY <1>1, <1>10, <1>11, <1>12 DEF FireOk, FiredOk
<1> QED BY <1>5, <1>6, <1>7, <1>8, <1>9, <1>13 DEF FireOk

\* A write that overwrites nobody's change sets or removes what it is about.
LEMMA WriteEffect ==
    ASSUME SchedTypes, FireOk, NEW s \in Sessions, NEW op, WriteTasks(s, op), upset' = {}
    PROVE  /\ upset = {} /\ file' \in [Tasks -> Anchors]
           /\ \A t \in Tasks :
                /\ t \notin op.ids => file'[t] = file[t]
                /\ t \in op.ids =>
                       file'[t] = Absent \/ (op.kind \in {"fired", "add"} /\ file'[t] = op.at)
                /\ file[t] = Absent /\ file'[t] # Absent => op.kind = "add" /\ t \in op.ids
<1>1. op \in ops[s] /\ op.read /\ op \in OpSet
  BY DEF WriteTasks, SchedTypes
<1>2. /\ op.copy \in [Tasks -> Anchors] /\ op.at \in Anchors /\ op.ids \subseteq Tasks
      /\ op.kind \in {"clean", "fired", "drop", "add"} /\ Absent \in Anchors
  BY <1>1 DEF OpSet, Anchors
<1>3. /\ Applied(op) \in [Tasks -> Anchors]
      /\ \A t \in Tasks :
            /\ t \notin op.ids => Applied(op)[t] = op.copy[t]
            /\ t \in op.ids /\ op.kind \in {"clean", "drop"} => Applied(op)[t] = Absent
            /\ t \in op.ids /\ op.kind = "fired" =>
                   Applied(op)[t] = IF op.copy[t] = Absent THEN Absent ELSE op.at
            /\ t \in op.ids /\ op.kind = "add" => Applied(op)[t] = op.at
  BY <1>2 DEF Applied
<1>4. CASE Applied(op) = op.copy
  <2>1. file' = file /\ upset = {}
    BY <1>4 DEF WriteTasks
  <2>2. ASSUME NEW t \in op.ids
        PROVE  file[t] = Absent \/ (op.kind \in {"fired", "add"} /\ file[t] = op.at)
    <3>1. CASE op.kind = "add"
      BY <1>1, <1>2, <1>3, <1>4, <3>1 DEF FireOk, AddOk
    <3>2. CASE op.kind \in {"clean", "drop"}
      <4>1. op.copy[t] = Absent
        BY <1>2, <1>3, <1>4, <3>2
      <4> QED BY <1>1, <3>2, <4>1 DEF FireOk, CopyOk
    <3>3. CASE op.kind = "fired"
      <4>1. op.copy[t] = Absent \/ op.copy[t] = op.at
        BY <1>2, <1>3, <1>4, <3>3
      <4>2. file[t] \in {op.copy[t], Absent}
        BY <1>1, <3>3 DEF FireOk, CopyOk, Serving
      <4> QED BY <3>3, <4>1, <4>2
    <3> QED BY <1>2, <3>1, <3>2, <3>3
  <2> QED BY <2>1, <2>2 DEF SchedTypes
<1>5. CASE Applied(op) # op.copy
  <2>1. file' = Applied(op) /\ file = op.copy /\ upset = {}
    BY <1>5 DEF WriteTasks
  <2>2. ASSUME NEW t \in Tasks, t \in op.ids
        PROVE  file'[t] = Absent \/ (op.kind \in {"fired", "add"} /\ file'[t] = op.at)
    BY <1>2, <1>3, <2>1, <2>2
  <2>3. ASSUME NEW t \in Tasks, file[t] = Absent, file'[t] # Absent
        PROVE  op.kind = "add" /\ t \in op.ids
    BY <1>2, <1>3, <2>1, <2>3
  <2>4. \A t \in Tasks : t \notin op.ids => file'[t] = file[t]
    BY <1>3, <2>1
  <2> QED BY <1>3, <2>1, <2>2, <2>3, <2>4
<1> QED BY <1>4, <1>5

\* A write that nobody overtook removes a fired task or marks it, and drops no change of another.
LEMMA WriteFires ==
    ASSUME IInv, SchedTypes, Good, FireOk, Good', UNCHANGED lockVars,
           NEW s \in Sessions, NEW op, WriteTasks(s, op)
    PROVE  FireOk'
<1>1. /\ op \in ops[s] /\ op.read /\ op \in OpSet
      /\ UNCHANGED <<clock, kind, tasks, nextFireAt, booting, fires>>
      /\ ops' = [ops EXCEPT ![s] = ops[s] \ {op}]
      /\ inFlight' = [inFlight EXCEPT ![s] =
                         IF Serving(op) THEN inFlight[s] \ op.ids ELSE inFlight[s]]
  BY DEF WriteTasks, SchedTypes, time, Serving
<1>2. \A t \in Tasks :
        /\ t \notin op.ids => file'[t] = file[t]
        /\ t \in op.ids =>
               file'[t] = Absent \/ (op.kind \in {"fired", "add"} /\ file'[t] = op.at)
        /\ file[t] = Absent /\ file'[t] # Absent => op.kind = "add" /\ t \in op.ids
  BY WriteEffect DEF Good
<1>3. UNCHANGED <<life, isOwner, step, raced>>
      /\ \A u \in Sessions : HasProcess(u)' = HasProcess(u) /\ Holds(u)' = Holds(u)
  BY LockStays
<1>4. /\ \A u \in Sessions : \A p \in ops'[u] : (p \in ops[u] /\ ~(u = s /\ p = op))
      /\ \A u \in Sessions : \A p \in ops[u] : p \in ops'[u] \/ (u = s /\ p = op)
      /\ \A u \in Sessions : inFlight'[u] \subseteq inFlight[u]
      /\ \A u \in Sessions : \A p \in ops[u] : p.ids \subseteq Tasks /\ p \in OpSet
  BY <1>1 DEF SchedTypes, OpSet
<1>5. SessionOk'
  BY <1>1, <1>3, <1>4 DEF FireOk, SessionOk
<1>6. ServedOk'
  <2>1. ASSUME NEW u \in Sessions, NEW p \in ops'[u], Serving(p)
        PROVE  p.ids \subseteq inFlight'[u]
    BY <1>1, <1>4, <2>1 DEF FireOk, ServedOk, SchedTypes
  <2>2. ASSUME NEW u \in Sessions, NEW p \in ops'[u], NEW q \in ops'[u],
               Serving(p), Serving(q), p.ids \cap q.ids # {}
        PROVE  p = q
    BY <1>4, <2>2 DEF FireOk, ServedOk
  <2> QED BY <2>1, <2>2 DEF ServedOk, Serving
<1>7. AddOk'
  <2> SUFFICES ASSUME NEW u \in Sessions, NEW p \in ops'[u], p.kind = "add", NEW t \in p.ids
               PROVE  /\ file'[t] = Absent /\ fires'[t] = 0 /\ p.at # Absent
                      /\ p.read => p.copy[t] = Absent
                      /\ \A v \in Sessions : \A q \in ops'[v] : t \in q.ids => v = u /\ q = p
    BY DEF AddOk
  <2>1. t \in Tasks /\ t \notin op.ids
    BY <1>1, <1>4 DEF FireOk, AddOk
  <2> QED BY <1>1, <1>2, <1>4, <2>1 DEF FireOk, AddOk
<1>8. CopyOk'
  <2> SUFFICES ASSUME NEW u \in Sessions, NEW p \in ops'[u], NEW t \in p.ids, p.read, p.kind # "add"
               PROVE  /\ p.copy[t] = Absent => file'[t] = Absent
                      /\ Serving(p) => file'[t] \in {p.copy[t], Absent}
    BY DEF CopyOk, Serving
  <2>1. /\ t \in Tasks /\ p \in ops[u] /\ ~(u = s /\ p = op)
        /\ p.copy[t] = Absent => file[t] = Absent
        /\ Serving(p) => file[t] \in {p.copy[t], Absent}
    BY <1>4 DEF FireOk, CopyOk
  <2>2. ~(op.kind = "add" /\ t \in op.ids)
    BY <1>1, <2>1 DEF FireOk, AddOk
  <2>3. ~(Serving(p) /\ op.kind = "fired" /\ t \in op.ids)
    <3>1. SUFFICES ASSUME Serving(p), Serving(op), t \in op.ids PROVE FALSE
      BY DEF Serving
    <3>2. t \in inFlight[u] /\ t \in inFlight[s]
      BY <1>1, <2>1, <3>1 DEF FireOk, ServedOk
    <3>3. u = s
      BY <3>2, HoldsAlone DEF FireOk, SessionOk, Good
    <3> QED BY <1>1, <2>1, <3>1, <3>3 DEF FireOk, ServedOk
  <2> QED BY <1>2, <2>1, <2>2, <2>3
<1>9. KindOk'
  BY <1>1, <1>4 DEF FireOk, KindOk
<1>10. ASSUME NEW t \in Tasks, fires[t] > 0, file'[t] # Absent
       PROVE  /\ file[t] # Absent
              /\ t \in op.ids => op.kind = "fired" /\ file'[t] = op.at
  <2>1. ~(op.kind = "add" /\ t \in op.ids)
    BY <1>1, <1>10 DEF FireOk, AddOk
  <2> QED BY <1>2, <1>10, <2>1
<1>11. FiredOk'
  <2> SUFFICES ASSUME NEW t \in Tasks, fires[t] > 0
               PROVE  /\ fires[t] = 1
                      /\ file'[t] # Absent =>
                           /\ kind[t] = "recurring" => RecursLater(t)'
                           /\ kind[t] = "aged" => Leaves(t)'
                           /\ kind[t] = "once" => Leaves(t)' \/ Asked(t)'
    BY <1>1 DEF FiredOk
  <2>1. fires[t] = 1
    BY DEF FireOk, FiredOk
  <2>2. SUFFICES ASSUME file'[t] # Absent
                 PROVE  /\ kind[t] = "recurring" => RecursLater(t)'
                        /\ kind[t] = "aged" => Leaves(t)'
                        /\ kind[t] = "once" => Leaves(t)' \/ Asked(t)'
    BY <2>1
  <2>3. /\ file[t] # Absent
        /\ t \in op.ids => op.kind = "fired" /\ file'[t] = op.at
        /\ t \notin op.ids => file'[t] = file[t]
    BY <1>2, <1>10, <2>2
  <2>4. ASSUME RecursLater(t) PROVE RecursLater(t)'
    <3>1. \A u \in Sessions : \A p \in ops'[u] : p.kind = "fired" /\ t \in p.ids => p.at = clock
      BY <1>4, <2>4 DEF RecursLater
    <3>2. \/ file'[t] = clock
          \/ \E u \in Sessions : \E p \in ops'[u] : p.kind = "fired" /\ t \in p.ids
      <4>1. CASE t \in op.ids
        BY <1>1, <2>3, <2>4, <4>1 DEF RecursLater
      <4>2. CASE t \notin op.ids
        BY <1>4, <2>3, <2>4, <4>2 DEF RecursLater
      <4> QED BY <4>1, <4>2
    <3> QED BY <1>1, <1>3, <2>4, <3>1, <3>2 DEF RecursLater
  <2>5. ASSUME Leaves(t) PROVE Leaves(t)'
    <3>1. PICK u \in Sessions : \E p \in ops[u] : p.kind = "clean" /\ t \in p.ids
      BY <2>5 DEF Leaves
    <3>2. PICK p \in ops[u] : p.kind = "clean" /\ t \in p.ids
      BY <3>1
    <3>3. p \in ops'[u]
      BY <1>4, <2>3, <3>2
    <3> QED BY <3>2, <3>3 DEF Leaves
  <2>6. ASSUME Asked(t), kind[t] = "once" PROVE Asked(t)'
    <3>1. t \notin op.ids
      BY <1>1, <2>3, <2>6 DEF FireOk, KindOk
    <3> QED BY <1>1, <1>3, <1>4, <2>3, <2>6, <3>1 DEF Asked
  <2> QED BY <2>3, <2>4, <2>5, <2>6 DEF FireOk, FiredOk
<1> QED BY <1>5, <1>6, <1>7, <1>8, <1>9, <1>11 DEF FireOk

\* A new id, or one of a task in the file: nothing else changes that id's task by adding it.
LEMMA EditFires ==
    ASSUME SchedTypes, FireOk, UNCHANGED lockVars, NEW s \in Sessions, NEW t \in Tasks,
           Add(s, t) \/ Delete(s, t)
    PROVE  FireOk'
<1>1. PICK n \in {Op("add", {t}, clock), Op("drop", {t}, 0)} :
        /\ ops' = [ops EXCEPT ![s] = ops[s] \cup {n}]
        /\ n.kind = "add" =>
               file[t] = Absent /\ fires[t] = 0
                   /\ \A u \in Sessions : \A p \in ops[u] : t \notin p.ids
        /\ n.kind = "drop" => file[t] # Absent
  <2>1. CASE Add(s, t)
    BY <2>1 DEF Add, Op
  <2>2. CASE Delete(s, t)
    BY <2>2 DEF Delete, Op
  <2> QED BY <2>1, <2>2
<1>2. /\ HasProcess(s)
      /\ UNCHANGED <<clock, kind, file, tasks, nextFireAt, inFlight, booting, fires>>
  BY DEF Add, Delete, time
<1>3. /\ n.kind \in {"add", "drop"} /\ n.ids = {t} /\ ~n.read
      /\ n.kind = "add" => n.at = clock
  BY <1>1 DEF Op
<1>4. UNCHANGED <<life, isOwner, step, raced>>
      /\ \A u \in Sessions : HasProcess(u)' = HasProcess(u) /\ Holds(u)' = Holds(u)
  BY LockStays
<1>5. /\ \A u \in Sessions : \A p \in ops'[u] : p \in ops[u] \/ (u = s /\ p = n)
      /\ \A u \in Sessions : ops[u] \subseteq ops'[u]
      /\ \A u \in Sessions \ {s} : ops'[u] = ops[u]
  <2>1. ops \in [Sessions -> SUBSET OpSet]
    BY DEF SchedTypes
  <2> QED BY <1>1, <2>1
<1>6. SessionOk'
  BY <1>2, <1>4, <1>5 DEF FireOk, SessionOk
<1>7. ServedOk'
  <2>1. \A u \in Sessions : \A p \in ops'[u] : Serving(p) => p \in ops[u]
    BY <1>3, <1>5 DEF Serving
  <2> QED BY <1>2, <2>1 DEF FireOk, ServedOk, Serving
<1>8. AddOk'
  <2> SUFFICES ASSUME NEW u \in Sessions, NEW p \in ops'[u], p.kind = "add", NEW x \in p.ids
               PROVE  /\ file[x] = Absent /\ fires[x] = 0 /\ p.at # Absent
                      /\ p.read => p.copy[x] = Absent
                      /\ \A v \in Sessions : \A q \in ops'[v] : x \in q.ids => v = u /\ q = p
    BY <1>2 DEF AddOk
  <2>1. clock # Absent
    BY ClockAssumption DEF SchedTypes
  <2>2. CASE p \in ops[u]
    <3>1. /\ file[x] = Absent /\ fires[x] = 0 /\ p.at # Absent
          /\ p.read => p.copy[x] = Absent
          /\ \A v \in Sessions : \A q \in ops[v] : x \in q.ids => v = u /\ q = p
      BY <2>2 DEF FireOk, AddOk
    <3>2. x \notin n.ids
      BY <1>1, <1>3, <2>2, <3>1
    <3> QED BY <1>5, <3>1, <3>2
  <2>3. CASE u = s /\ p = n
    BY <1>1, <1>3, <1>5, <2>1, <2>3
  <2> QED BY <1>5, <2>2, <2>3
<1>9. CopyOk'
  <2>1. \A u \in Sessions : \A p \in ops'[u] : p.read => p \in ops[u]
    BY <1>3, <1>5
  <2> QED BY <1>2, <2>1 DEF FireOk, CopyOk, Serving
<1>10. KindOk'
  BY <1>2, <1>3, <1>5 DEF FireOk, KindOk
<1>11. ASSUME NEW x \in Tasks, RecursLater(x) PROVE RecursLater(x)'
  BY <1>2, <1>3, <1>4, <1>5, <1>11 DEF RecursLater
<1>12. ASSUME NEW x \in Tasks, Leaves(x) PROVE Leaves(x)'
  BY <1>5, <1>12 DEF Leaves
<1>13. ASSUME NEW x \in Tasks, Asked(x) PROVE Asked(x)'
  BY <1>2, <1>4, <1>5, <1>13 DEF Asked
<1>14. FiredOk'
  BY <1>2, <1>11, <1>12, <1>13 DEF FireOk, FiredOk
<1> QED BY <1>6, <1>7, <1>8, <1>9, <1>10, <1>14 DEF FireOk

\* A schedule is dropped while no task in the file bears the mark of having been asked about.
LEMMA EvictFires ==
    ASSUME SchedTypes, FireOk, Good', UNCHANGED lockVars, NEW s \in Sessions, Evict(s)
    PROVE  FireOk'
<1>1. /\ UNCHANGED <<clock, kind, file, tasks, inFlight, booting, ops, fires>>
      /\ \A u \in Sessions \ {s} : nextFireAt'[u] = nextFireAt[u]
      /\ \A t \in Tasks : nextFireAt'[s][t] = None
  BY DEF Evict, time, SchedTypes
<1>2. \A t \in Tasks : file[t] # Absent => nextFireAt[s][t] # Never
  BY DEF Evict, Good, In
<1>3. UNCHANGED <<life, isOwner, step, raced>>
      /\ \A u \in Sessions : HasProcess(u)' = HasProcess(u) /\ Holds(u)' = Holds(u)
  BY LockStays
<1>4. SessionOk'
  BY <1>1, <1>3 DEF FireOk, SessionOk
<1>5. ServedOk' /\ AddOk' /\ CopyOk' /\ KindOk'
  BY <1>1 DEF FireOk, ServedOk, AddOk, CopyOk, KindOk, Serving
<1>6. ASSUME NEW t \in Tasks, RecursLater(t) PROVE RecursLater(t)'
  BY <1>1, <1>3, <1>6 DEF RecursLater
<1>7. ASSUME NEW t \in Tasks, Leaves(t) PROVE Leaves(t)'
  BY <1>1, <1>7 DEF Leaves
<1>8. ASSUME NEW t \in Tasks, file[t] # Absent, Asked(t) PROVE Asked(t)'
  BY <1>1, <1>2, <1>3, <1>8 DEF Asked
<1>9. FiredOk'
  BY <1>1, <1>6, <1>7, <1>8 DEF FireOk, FiredOk
<1> QED BY <1>4, <1>5, <1>9 DEF FireOk

\* When a period passes every recurring task may fire again; nobody else may.
LEMMA TickFires ==
    ASSUME SchedTypes, FireOk, UNCHANGED lockVars, Tick
    PROVE  FireOk'
<1>1. /\ UNCHANGED <<file, tasks, nextFireAt, inFlight, booting, ops>>
      /\ clock' = clock + 1 /\ clock \in Nat
      /\ \A t \in Tasks :
            /\ kind[t] # "recurring" => kind'[t] = kind[t]
            /\ kind'[t] = "recurring" => kind[t] = "recurring"
            /\ kind'[t] = "once" => kind[t] = "once"
            /\ fires'[t] = IF kind[t] = "recurring" THEN 0 ELSE fires[t]
  BY ClockAssumption DEF Tick, SchedTypes
<1>2. UNCHANGED <<life, isOwner, step, raced>>
      /\ \A u \in Sessions : HasProcess(u)' = HasProcess(u) /\ Holds(u)' = Holds(u)
  BY LockStays
<1>3. ops \in [Sessions -> SUBSET OpSet] /\ \A op \in OpSet : op.ids \subseteq Tasks
  BY DEF SchedTypes, OpSet
<1>4. SessionOk'
  BY <1>1, <1>2 DEF FireOk, SessionOk
<1>5. ServedOk' /\ CopyOk'
  BY <1>1 DEF FireOk, ServedOk, CopyOk, Serving
<1>6. AddOk'
  BY <1>1, <1>3 DEF FireOk, AddOk
<1>7. KindOk'
  BY <1>1, <1>3 DEF FireOk, KindOk
<1>8. ASSUME NEW t \in Tasks, Leaves(t) PROVE Leaves(t)'
  BY <1>1, <1>8 DEF Leaves
<1>9. ASSUME NEW t \in Tasks, file[t] # Absent, Asked(t) PROVE Asked(t)'
  <2>1. file[t] \in Nat
    BY <1>9 DEF SchedTypes, Anchors
  <2>2. file[t] + 1 <= clock'
    BY <1>1, <1>9, <2>1 DEF Asked
  <2> QED BY <1>1, <1>2, <1>9, <2>2 DEF Asked
<1>10. FiredOk'
  BY <1>1, <1>8, <1>9 DEF FireOk, FiredOk
<1> QED BY <1>4, <1>5, <1>6, <1>7, <1>10 DEF FireOk

\* Who loads first finds every overdue one-shot untouched, or it is not alone.
LEMMA LoadFires ==
    ASSUME SchedTypes, FireOk, Good', UNCHANGED lockVars, NEW s \in Sessions, LoadInitial(s)
    PROVE  FireOk'
<1> DEFINE missed == {t \in In(file) : kind[t] = "once" /\ NextRun(file[t]) <= clock}
           n == Op("drop", missed, 0)
<1>1. /\ HasProcess(s) /\ booting[s] = "loading"
      /\ UNCHANGED <<clock, kind, file, inFlight>>
      /\ booting'[s] = "no" /\ \A u \in Sessions \ {s} : booting'[u] = booting[u]
      /\ tasks'[s] = file /\ \A u \in Sessions \ {s} : tasks'[u] = tasks[u]
  BY DEF LoadInitial, SchedTypes, time, HasProcess
<1>2. /\ \A u \in Sessions \ {s} : nextFireAt'[u] = nextFireAt[u]
      /\ \A t \in Tasks :
            /\ t \in missed => nextFireAt'[s][t] = Never
            /\ t \notin missed => nextFireAt'[s][t] = nextFireAt[s][t]
  BY DEF LoadInitial, SchedTypes
<1>3. \A t \in Tasks :
         /\ t \in missed => fires'[t] = Fired(t)
         /\ t \notin missed => fires'[t] = fires[t]
  BY DEF LoadInitial
<1>4. missed # {} => \A u \in Sessions \ {s} : ~HasProcess(u)
  BY DEF LoadInitial, Good
<1>5. /\ \A u \in Sessions : \A p \in ops'[u] : p \in ops[u] \/ (u = s /\ p = n /\ missed # {})
      /\ \A u \in Sessions : ops[u] \subseteq ops'[u]
      /\ missed # {} => n \in ops'[s]
  <2>1. ops \in [Sessions -> SUBSET OpSet]
    BY DEF SchedTypes
  <2>2. ops' = [ops EXCEPT ![s] = ops[s] \cup (IF missed = {} THEN {} ELSE {n})]
    BY DEF LoadInitial
  <2> QED BY <2>1, <2>2
<1>6. /\ n.kind = "drop" /\ n.ids = missed /\ ~n.read
      /\ \A t \in missed : t \in Tasks /\ file[t] # Absent /\ kind[t] = "once"
           /\ file[t] + 1 <= clock
      /\ \A t \in Tasks : file[t] # Absent /\ kind[t] = "once" /\ file[t] + 1 <= clock =>
           t \in missed
  BY DEF Op, In, NextRun
<1> HIDE DEF n, missed
<1>7. UNCHANGED <<life, isOwner, step, raced>>
      /\ \A u \in Sessions : HasProcess(u)' = HasProcess(u) /\ Holds(u)' = Holds(u)
  BY LockStays
<1>8. ASSUME NEW t \in Tasks, kind[t] = "once", file[t] # Absent PROVE ~Asked(t)
  <2> SUFFICES ASSUME Asked(t) PROVE FALSE
    OBVIOUS
  <2>1. PICK v \in Sessions :
          /\ booting[v] = "no"
          /\ \E op \in ops[v] : op.kind = "drop" /\ t \in op.ids
    BY DEF Asked
  <2>2. HasProcess(v)
    BY <2>1 DEF FireOk, SessionOk
  <2>3. t \in missed
    BY <1>6, <1>8 DEF Asked
  <2> QED BY <1>1, <1>4, <2>1, <2>2, <2>3
<1>9. ASSUME NEW t \in missed PROVE fires[t] = 0 /\ ~Leaves(t)
  <2>1. ~Leaves(t)
    <3> SUFFICES ASSUME Leaves(t) PROVE FALSE
      OBVIOUS
    <3>1. PICK v \in Sessions : t \in inFlight[v]
      BY DEF Leaves, FireOk, ServedOk, Serving
    <3>2. HasProcess(v)
      BY <3>1 DEF FireOk, SessionOk
    <3>3. v = s
      BY <1>4, <1>9, <3>2
    <3> QED BY <1>1, <3>1, <3>3 DEF FireOk, SessionOk
  <2>2. t \in Tasks /\ file[t] # Absent /\ kind[t] = "once" /\ fires[t] \in Nat
    BY <1>6 DEF SchedTypes
  <2> QED BY <1>8, <2>1, <2>2 DEF FireOk, FiredOk
<1>10. SessionOk'
  <2>1. \A u \in Sessions : \A p \in ops'[u] : HasProcess(u)
    BY <1>1, <1>5 DEF FireOk, SessionOk
  <2>2. \A u \in Sessions, t \in Tasks :
            nextFireAt'[u][t] = nextFireAt[u][t] \/ (u = s /\ nextFireAt'[u][t] = Never)
    BY <1>2
  <2> QED BY <1>1, <1>7, <2>1, <2>2 DEF FireOk, SessionOk
<1>11. ServedOk'
  <2>1. \A u \in Sessions : \A p \in ops'[u] : Serving(p) => p \in ops[u]
    BY <1>5, <1>6 DEF Serving
  <2> QED BY <1>1, <2>1 DEF FireOk, ServedOk, Serving
<1>12. AddOk'
  <2> SUFFICES ASSUME NEW u \in Sessions, NEW p \in ops'[u], p.kind = "add", NEW t \in p.ids
               PROVE  /\ file[t] = Absent /\ fires'[t] = 0 /\ p.at # Absent
                      /\ p.read => p.copy[t] = Absent
                      /\ \A v \in Sessions : \A q \in ops'[v] : t \in q.ids => v = u /\ q = p
    BY <1>1 DEF AddOk
  <2>1. p \in ops[u]
    BY <1>5, <1>6
  <2>2. /\ file[t] = Absent /\ fires[t] = 0 /\ p.at # Absent
        /\ p.read => p.copy[t] = Absent
        /\ \A v \in Sessions : \A q \in ops[v] : t \in q.ids => v = u /\ q = p
    BY <2>1 DEF FireOk, AddOk
  <2>3. t \notin missed /\ t \in Tasks
    BY <1>6, <2>1, <2>2 DEF SchedTypes, OpSet
  <2> QED BY <1>3, <1>5, <1>6, <2>2, <2>3
<1>13. CopyOk'
  <2>1. \A u \in Sessions : \A p \in ops'[u] : p.read => p \in ops[u]
    BY <1>5, <1>6
  <2> QED BY <1>1, <2>1 DEF FireOk, CopyOk, Serving
<1>14. KindOk'
  BY <1>1, <1>5, <1>6 DEF FireOk, KindOk
<1>15. ASSUME NEW t \in Tasks, kind[t] = "recurring", RecursLater(t) PROVE RecursLater(t)'
  <2>1. t \notin missed
    BY <1>6, <1>15
  <2>2. \A u \in Sessions : nextFireAt'[u][t] = nextFireAt[u][t]
    BY <1>2, <2>1
  <2>3. \A u \in Sessions : \A p \in ops'[u] : p.kind = "fired" => p \in ops[u]
    BY <1>5, <1>6
  <2> QED BY <1>1, <1>5, <1>7, <1>15, <2>2, <2>3 DEF RecursLater
<1>16. ASSUME NEW t \in Tasks, Leaves(t) PROVE Leaves(t)'
  BY <1>5, <1>16 DEF Leaves
<1>17. ASSUME NEW t \in missed PROVE Asked(t)'
  BY <1>1, <1>2, <1>4, <1>5, <1>6, <1>7, <1>17 DEF Asked
<1>18. FiredOk'
  <2> SUFFICES ASSUME NEW t \in Tasks, fires'[t] > 0
               PROVE  /\ fires'[t] = 1
                      /\ file[t] # Absent =>
                           /\ kind[t] = "recurring" => RecursLater(t)'
                           /\ kind[t] = "aged" => Leaves(t)'
                           /\ kind[t] = "once" => Leaves(t)' \/ Asked(t)'
    BY <1>1 DEF FiredOk
  <2>1. CASE t \in missed
    BY <1>3, <1>6, <1>9, <1>17, <2>1 DEF Fired
  <2>2. CASE t \notin missed
    <3>1. fires[t] > 0
      BY <1>3, <2>2
    <3> QED BY <1>3, <1>8, <1>15, <1>16, <2>2, <3>1 DEF FireOk, FiredOk
  <2> QED BY <2>1, <2>2
<1> QED BY <1>10, <1>11, <1>12, <1>13, <1>14, <1>18 DEF FireOk

\* A copy that is brought up to date loses nothing that the file still has.
LEMMA ReloadFires ==
    ASSUME SchedTypes, FireOk, UNCHANGED lockVars, NEW s \in Sessions, Reload(s)
    PROVE  FireOk'
<1>1. /\ UNCHANGED <<clock, kind, file, nextFireAt, inFlight, booting, ops, fires>>
      /\ tasks'[s] = file /\ \A u \in Sessions \ {s} : tasks'[u] = tasks[u]
  BY DEF Reload, time, SchedTypes
<1>2. UNCHANGED <<life, isOwner, step, raced>>
      /\ \A u \in Sessions : HasProcess(u)' = HasProcess(u) /\ Holds(u)' = Holds(u)
  BY LockStays
<1>3. SessionOk' /\ ServedOk' /\ AddOk' /\ CopyOk' /\ KindOk'
  BY <1>1, <1>2 DEF FireOk, SessionOk, ServedOk, AddOk, CopyOk, KindOk, Serving
<1>4. ASSUME NEW t \in Tasks, RecursLater(t) PROVE RecursLater(t)'
  BY <1>1, <1>2, <1>4 DEF RecursLater
<1>5. ASSUME NEW t \in Tasks, Leaves(t) PROVE Leaves(t)'
  BY <1>1, <1>5 DEF Leaves
<1>6. ASSUME NEW t \in Tasks, file[t] # Absent, Asked(t) PROVE Asked(t)'
  BY <1>1, <1>2, <1>6 DEF Asked
<1>7. FiredOk'
  BY <1>1, <1>4, <1>5, <1>6 DEF FireOk, FiredOk
<1> QED BY <1>3, <1>7 DEF FireOk

\* The owner fires only what has not fired yet, unless its copy is out of date.
LEMMA DueIsNew ==
    ASSUME IInv, SchedTypes, Good, FireOk, NEW s \in Sessions,
           life[s] = "on", isOwner[s], booting[s] = "no",
           \A t \in DueIn(s) : tasks[s][t] = file[t]
    PROVE  /\ \A u \in Sessions \ {s} : inFlight[u] = {}
           /\ \A t \in Tasks : Asked(t) => nextFireAt[s][t] = Never
           /\ \A t \in DueIn(s) : fires[t] = 0
<1>1. HasProcess(s) /\ Holds(s)
  BY DEF HasProcess, Holds
<1>2. \A u \in Sessions \ {s} : inFlight[u] = {}
  BY <1>1, HoldsAlone DEF FireOk, SessionOk, Good
<1>3. \A t \in Tasks : Asked(t) => nextFireAt[s][t] = Never
  BY <1>1 DEF Asked
<1>4. ASSUME NEW t \in DueIn(s), fires[t] > 0 PROVE FALSE
  <2>1. /\ t \in Tasks /\ file[t] # Absent /\ t \notin inFlight[s]
        /\ clock >= NextOf(s, t) /\ clock \in 0..MaxClock /\ tasks[s][t] = file[t]
    BY <1>4 DEF DueIn, In, SchedTypes
  <2>2. /\ file[t] \in Nat /\ MaxClock \in Nat
        /\ Never \in Nat /\ Never > MaxClock /\ Never # None
    BY <2>1, ClockAssumption DEF SchedTypes, Anchors, Never, None
  <2>3. \A u \in Sessions : \A p \in ops[u] : Serving(p) => t \notin p.ids
    BY <1>2, <2>1 DEF FireOk, ServedOk
  <2>4. ~Leaves(t)
    BY <2>3 DEF Leaves, Serving
  <2>5. CASE kind[t] = "recurring"
    <3>1. /\ file[t] = clock
          /\ nextFireAt[s][t] = None \/ nextFireAt[s][t] > clock
      BY <1>4, <2>1, <2>3, <2>5 DEF FireOk, FiredOk, RecursLater, Serving
    <3> QED BY <2>1, <2>2, <3>1 DEF NextOf, NextRun, SchedTypes
  <2>6. CASE kind[t] = "aged"
    BY <1>4, <2>1, <2>4, <2>6 DEF FireOk, FiredOk
  <2>7. CASE kind[t] = "once"
    <3>1. nextFireAt[s][t] = Never
      BY <1>3, <1>4, <2>1, <2>4, <2>7 DEF FireOk, FiredOk
    <3> QED BY <2>1, <2>2, <3>1 DEF NextOf
  <2> QED BY <2>1, <2>5, <2>6, <2>7 DEF SchedTypes
<1>5. \A t \in DueIn(s) : fires[t] \in Nat
  BY DEF DueIn, In, SchedTypes
<1> QED BY <1>2, <1>3, <1>4, <1>5

\* A tick of the owner: what it fires leaves the file, or is not due again in this period.
LEMMA CheckFires ==
    ASSUME IInv, SchedTypes, Good, FireOk, Good', UNCHANGED lockVars,
           NEW s \in Sessions, Check(s)
    PROVE  FireOk'
<1> DEFINE due == DueIn(s)
           again == {t \in DueIn(s) : kind[t] = "recurring"}
           once == DueIn(s) \ again
           Clean(t) == Op("clean", {t}, 0)
           n == Op("fired", again, clock)
<1>1. /\ life[s] = "on" /\ isOwner[s] /\ booting[s] = "no" /\ HasProcess(s) /\ Holds(s)
      /\ UNCHANGED <<clock, kind, file, tasks, booting>>
      /\ \A t \in DueIn(s) : tasks[s][t] = file[t]
  BY DEF Check, time, HasProcess, Holds, Good
<1>2. /\ \A u \in Sessions \ {s} : inFlight[u] = {}
      /\ \A t \in Tasks : Asked(t) => nextFireAt[s][t] = Never
      /\ \A t \in due : fires[t] = 0
  BY <1>1, DueIsNew
<1>3. /\ clock \in Nat /\ clock # Absent /\ clock <= MaxClock
      /\ Never \in Nat /\ Never > MaxClock /\ MaxClock \in Nat /\ None \notin Nat
  BY ClockAssumption DEF SchedTypes, Never, None
<1>4. /\ \A t \in due : t \in Tasks /\ file[t] # Absent /\ t \notin inFlight[s]
      /\ again \subseteq due /\ \A t \in again : kind[t] = "recurring"
      /\ once \subseteq due /\ \A t \in once : kind[t] # "recurring"
      /\ \A t \in due : t \in again \/ t \in once
  BY <1>1 DEF DueIn, In
<1>5. /\ \A u \in Sessions \ {s} : inFlight'[u] = inFlight[u]
      /\ inFlight'[s] = inFlight[s] \cup due
  BY DEF Check, SchedTypes
<1>6. \A t \in Tasks :
         /\ t \in due => fires'[t] = 1
         /\ t \notin due => fires'[t] = fires[t]
  BY <1>2 DEF Check, Fired
<1>7. /\ \A u \in Sessions \ {s} : nextFireAt'[u] = nextFireAt[u]
      /\ \A t \in again : nextFireAt'[s][t] = clock + 1
      /\ \A t \in Tasks : t \notin due =>
             nextFireAt'[s][t] = IF tasks[s][t] = Absent THEN None
                                 ELSE IF t \in inFlight[s] THEN nextFireAt[s][t]
                                 ELSE NextOf(s, t)
  <2>1. nextFireAt' = [nextFireAt EXCEPT ![s] =
                [t \in Tasks |->
                    IF t \in again THEN NextRun(clock)
                    ELSE IF t \in once \/ t \notin In(tasks[s]) THEN None
                    ELSE IF t \in inFlight[s] THEN nextFireAt[s][t]
                    ELSE NextOf(s, t)]]
    BY DEF Check
  <2>2. nextFireAt \in [Sessions -> [Tasks -> Nat \cup {None}]]
    BY DEF SchedTypes
  <2> HIDE DEF again, once
  <2> QED BY <1>4, <2>1, <2>2 DEF NextRun, In
<1>8. ASSUME NEW t \in Tasks, t \notin due, tasks[s][t] # Absent, t \notin inFlight[s]
      PROVE  NextOf(s, t) > clock
  <2>1. NextOf(s, t) \in Nat
    BY <1>8 DEF NextOf, NextRun, SchedTypes, Anchors, None
  <2> QED BY <1>3, <1>8, <2>1 DEF DueIn, In
<1>9. /\ \A t \in Tasks : Clean(t).kind = "clean" /\ Clean(t).ids = {t} /\ ~Clean(t).read
      /\ n.kind = "fired" /\ n.ids = again /\ ~n.read /\ n.at = clock
  BY DEF Op
<1>10. ops' = [ops EXCEPT ![s] = ops[s] \cup {Clean(t) : t \in once}
                                  \cup (IF again = {} THEN {} ELSE {n})]
  BY DEF Check
<1> HIDE DEF n, Clean, again, once, due
<1>11. /\ \A u \in Sessions : \A p \in ops'[u] :
              \/ p \in ops[u]
              \/ u = s /\ \E t \in once : p = Clean(t)
              \/ u = s /\ p = n
       /\ \A u \in Sessions : ops[u] \subseteq ops'[u]
       /\ \A u \in Sessions \ {s} : ops'[u] = ops[u]
       /\ \A t \in once : Clean(t) \in ops'[s]
       /\ again # {} => n \in ops'[s]
  <2>1. ops \in [Sessions -> SUBSET OpSet]
    BY DEF SchedTypes
  <2>2. /\ ops'[s] = ops[s] \cup {Clean(t) : t \in once}
                            \cup (IF again = {} THEN {} ELSE {n})
        /\ \A u \in Sessions \ {s} : ops'[u] = ops[u]
    BY <1>10, <2>1
  <2> QED BY <2>2
<1>12. UNCHANGED <<life, isOwner, step, raced>>
       /\ \A u \in Sessions : HasProcess(u)' = HasProcess(u) /\ Holds(u)' = Holds(u)
  BY LockStays
\* A change that is new is about tasks that are due, and an old one in service is not.
<1>13. /\ \A u \in Sessions : \A p \in ops'[u] : p \notin ops[u] =>
              u = s /\ Serving(p) /\ p.ids \subseteq due /\ ~p.read
       /\ \A u \in Sessions : \A p \in ops[u] : Serving(p) => p.ids \cap due = {}
  <2>1. ASSUME NEW u \in Sessions, NEW p \in ops'[u], p \notin ops[u]
        PROVE  u = s /\ Serving(p) /\ p.ids \subseteq due /\ ~p.read
    BY <1>4, <1>9, <1>11, <2>1 DEF Serving
  <2>2. \A u \in Sessions : \A p \in ops[u] : Serving(p) => p.ids \cap due = {}
    BY <1>2, <1>4 DEF FireOk, ServedOk
  <2> QED BY <2>1, <2>2
<1>14. SessionOk'
  <2>1. \A u \in Sessions \ {s} :
            ops'[u] = ops[u] /\ inFlight'[u] = inFlight[u] /\ nextFireAt'[u] = nextFireAt[u]
    BY <1>5, <1>7, <1>11
  <2> QED BY <1>1, <1>12, <2>1 DEF FireOk, SessionOk
<1>15. ServedOk'
  <2>1. ASSUME NEW u \in Sessions, NEW p \in ops'[u], Serving(p)
        PROVE  p.ids \subseteq inFlight'[u]
    BY <1>5, <1>13, <2>1 DEF FireOk, ServedOk
  <2>2. ASSUME NEW u \in Sessions, NEW p \in ops'[u], NEW q \in ops'[u],
               Serving(p), Serving(q), p.ids \cap q.ids # {}
        PROVE  p = q
    <3>1. CASE p \in ops[u] /\ q \in ops[u]
      BY <2>2, <3>1 DEF FireOk, ServedOk
    <3>2. CASE p \notin ops[u] /\ q \notin ops[u]
      BY <1>4, <1>9, <1>11, <2>2, <3>2
    <3>3. CASE (p \in ops[u]) # (q \in ops[u])
      BY <1>13, <2>2, <3>3
    <3> QED BY <3>1, <3>2, <3>3
  <2> QED BY <2>1, <2>2 DEF ServedOk, Serving
<1>16. AddOk'
  <2> SUFFICES ASSUME NEW u \in Sessions, NEW p \in ops'[u], p.kind = "add", NEW t \in p.ids
               PROVE  /\ file[t] = Absent /\ fires'[t] = 0 /\ p.at # Absent
                      /\ p.read => p.copy[t] = Absent
                      /\ \A v \in Sessions : \A q \in ops'[v] : t \in q.ids => v = u /\ q = p
    BY <1>1 DEF AddOk
  <2>1. p \in ops[u]
    BY <1>13 DEF Serving
  <2>2. /\ file[t] = Absent /\ fires[t] = 0 /\ p.at # Absent
        /\ p.read => p.copy[t] = Absent
        /\ \A v \in Sessions : \A q \in ops[v] : t \in q.ids => v = u /\ q = p
    BY <2>1 DEF FireOk, AddOk
  <2>3. t \in Tasks /\ t \notin due
    BY <1>4, <2>1, <2>2 DEF SchedTypes, OpSet
  <2> QED BY <1>6, <1>13, <2>2, <2>3
<1>17. CopyOk'
  <2>1. \A u \in Sessions : \A p \in ops'[u] : p.read => p \in ops[u]
    BY <1>13
  <2> QED BY <1>1, <2>1 DEF FireOk, CopyOk, Serving
<1>18. KindOk'
  <2> SUFFICES ASSUME NEW u \in Sessions, NEW p \in ops'[u], NEW t \in p.ids
               PROVE  /\ p.kind = "fired" => kind[t] # "once" /\ p.at # Absent
                      /\ p.kind = "clean" => kind[t] # "recurring"
    BY <1>1 DEF KindOk
  <2>1. CASE p \in ops[u]
    BY <2>1 DEF FireOk, KindOk
  <2>2. CASE \E x \in once : p = Clean(x)
    BY <1>4, <1>9, <2>2
  <2>3. CASE p = n
    BY <1>3, <1>4, <1>9, <2>3
  <2> QED BY <1>11, <2>1, <2>2, <2>3
<1>19. ASSUME NEW t \in Tasks, Leaves(t) PROVE Leaves(t)'
  BY <1>11, <1>19 DEF Leaves
<1>20. ASSUME NEW t \in Tasks, file[t] # Absent, t \notin due, Asked(t) PROVE Asked(t)'
  <2>1. PICK v \in Sessions :
          /\ booting[v] = "no" /\ nextFireAt[v][t] = Never /\ tasks[v][t] # Absent
          /\ \E op \in ops[v] : op.kind = "drop" /\ t \in op.ids
          /\ \A u \in Sessions \ {v} : HasProcess(u) => booting[u] # "no"
    BY <1>20 DEF Asked
  <2>2. v = s
    BY <1>1, <2>1
  <2>3. nextFireAt'[s][t] = Never
    BY <1>3, <1>7, <1>20, <2>1, <2>2 DEF NextOf
  <2> QED BY <1>1, <1>11, <1>12, <1>20, <2>1, <2>2, <2>3 DEF Asked
<1>21. ASSUME NEW t \in Tasks, t \notin due, file[t] # Absent, RecursLater(t)
       PROVE  RecursLater(t)'
  <2>1. \A u \in Sessions : \A p \in ops'[u] : p.kind = "fired" /\ t \in p.ids => p.at = clock
    BY <1>13, <1>21 DEF RecursLater
  <2>2. \/ file[t] = clock
        \/ \E u \in Sessions : \E p \in ops'[u] : p.kind = "fired" /\ t \in p.ids
    BY <1>11, <1>21 DEF RecursLater
  <2>3. ASSUME NEW u \in Sessions, life[u] = "on"
        PROVE  nextFireAt'[u][t] = None \/ nextFireAt'[u][t] > clock
    <3>1. CASE u = s
      BY <1>7, <1>8, <1>21, <2>3, <3>1 DEF RecursLater
    <3>2. CASE u # s
      BY <1>7, <1>21, <2>3, <3>2 DEF RecursLater
    <3> QED BY <3>1, <3>2
  <2> QED BY <1>1, <1>12, <2>1, <2>2, <2>3 DEF RecursLater
<1>22. ASSUME NEW t \in again PROVE RecursLater(t)'
  <2>1. t \in due /\ t \in Tasks
    BY <1>4
  <2>2. \A u \in Sessions : \A p \in ops'[u] : p.kind = "fired" /\ t \in p.ids => p.at = clock
    <3> SUFFICES ASSUME NEW u \in Sessions, NEW p \in ops'[u], p.kind = "fired", t \in p.ids
                 PROVE  p.at = clock
      OBVIOUS
    <3>1. p \notin ops[u]
      BY <1>13, <2>1 DEF Serving
    <3> QED BY <1>9, <1>11, <3>1, <1>4
  <2>3. \E u \in Sessions : \E p \in ops'[u] : p.kind = "fired" /\ t \in p.ids
    BY <1>9, <1>11
  <2>4. ASSUME NEW u \in Sessions, life[u] = "on"
        PROVE  nextFireAt'[u][t] = None \/ nextFireAt'[u][t] > clock
    <3>1. CASE u = s
      BY <1>3, <1>7, <3>1
    <3>2. CASE u # s
      <4>1. ~isOwner[u]
        BY <1>1, <3>2, HoldsAlone DEF Holds, Good
      <4>2. nextFireAt[u][t] \in {None, Never}
        BY <2>1, <2>4, <4>1 DEF FireOk, SessionOk
      <4> QED BY <1>3, <1>7, <3>2, <4>2
    <3> QED BY <3>1, <3>2
  <2> QED BY <1>1, <1>12, <2>2, <2>3, <2>4 DEF RecursLater
<1>23. ASSUME NEW t \in once PROVE Leaves(t)'
  BY <1>4, <1>9, <1>11, <1>23 DEF Leaves
<1>24. FiredOk'
  <2> SUFFICES ASSUME NEW t \in Tasks, fires'[t] > 0
               PROVE  /\ fires'[t] = 1
                      /\ file[t] # Absent =>
                           /\ kind[t] = "recurring" => RecursLater(t)'
                           /\ kind[t] = "aged" => Leaves(t)'
                           /\ kind[t] = "once" => Leaves(t)' \/ Asked(t)'
    BY <1>1 DEF FiredOk
  <2>1. CASE t \in due
    BY <1>4, <1>6, <1>22, <1>23, <2>1
  <2>2. CASE t \notin due
    <3>1. fires[t] > 0 /\ fires'[t] = fires[t]
      BY <1>6, <2>2
    <3> QED BY <1>19, <1>20, <1>21, <2>2, <3>1 DEF FireOk, FiredOk
  <2> QED BY <2>1, <2>2
<1> QED BY <1>14, <1>15, <1>16, <1>17, <1>18, <1>24 DEF FireOk

\* Every step keeps the shape of what the sessions keep.
LEMMA SchedTypesStep ==
    ASSUME SchedTypes, [Next]_vars
    PROVE  SchedTypes'
<1>1. /\ clock \in 0..MaxClock
      /\ kind \in [Tasks -> {"once", "recurring", "aged"}]
      /\ file \in [Tasks -> Anchors]
      /\ tasks \in [Sessions -> [Tasks -> Anchors]]
      /\ nextFireAt \in [Sessions -> [Tasks -> Nat \cup {None}]]
      /\ inFlight \in [Sessions -> SUBSET Tasks]
      /\ booting \in [Sessions -> {"no", "acquiring", "loading"}]
      /\ ops \in [Sessions -> SUBSET OpSet]
      /\ fires \in [Tasks -> 0..2]
  BY DEF SchedTypes
<1>2. MaxClock \in Nat /\ 0 \in Anchors /\ Absent \in Anchors /\ clock \in Anchors /\ Never \in Nat
  BY <1>1, ClockAssumption DEF Anchors, Never
<1>3. \A k \in {"clean", "fired", "drop", "add"}, ids \in SUBSET Tasks, at \in Anchors :
          Op(k, ids, at) \in OpSet
  BY <1>2 DEF Op, OpSet, NoTasks
<1>4. ASSUME NEW s \in Sessions, LockStep(s) PROVE SchedTypes'
  <2>1. /\ UNCHANGED <<clock, kind, file, fires>>
        /\ tasks' = [u \in Sessions |-> IF HasProcess(u)' THEN tasks[u] ELSE NoTasks]
        /\ nextFireAt' = [u \in Sessions |->
              IF HasProcess(u)' THEN nextFireAt[u] ELSE [t \in Tasks |-> None]]
        /\ inFlight' = [u \in Sessions |-> IF HasProcess(u)' THEN inFlight[u] ELSE {}]
        /\ ops' = [u \in Sessions |-> IF HasProcess(u)' THEN ops[u] ELSE {}]
        /\ booting' = [u \in Sessions |->
              IF Starts(u) THEN "acquiring"
              ELSE IF ~HasProcess(u)' THEN "no"
              ELSE IF booting[u] = "acquiring" /\ step'[u] = "idle" THEN "loading"
              ELSE booting[u]]
    BY <1>4 DEF LockStep, SchedFollows, time
  <2>2. nextFireAt' \in [Sessions -> [Tasks -> Nat \cup {None}]]
    BY <1>1, <2>1
  <2>3. inFlight' \in [Sessions -> SUBSET Tasks] /\ ops' \in [Sessions -> SUBSET OpSet]
    BY <1>1, <2>1
  <2>4. booting' \in [Sessions -> {"no", "acquiring", "loading"}]
    BY <1>1, <2>1
  <2>5. tasks' \in [Sessions -> [Tasks -> Anchors]]
    BY <1>1, <1>2, <2>1 DEF NoTasks
  <2> QED BY <1>1, <2>1, <2>2, <2>3, <2>4, <2>5 DEF SchedTypes
<1>5. ASSUME NEW s \in Sessions, NEW op, ReadTasks(s, op) PROVE SchedTypes'
  <2>1. op \in OpSet /\ op \in ops[s]
    BY <1>1, <1>5 DEF ReadTasks
  <2>2. [op EXCEPT !.read = TRUE, !.copy = file] \in OpSet
    BY <1>1, <2>1 DEF OpSet
  <2>3. ops' \in [Sessions -> SUBSET OpSet]
    BY <1>1, <1>5, <2>2 DEF ReadTasks
  <2> QED BY <1>1, <1>5, <2>3 DEF ReadTasks, time, SchedTypes
<1>6. ASSUME NEW s \in Sessions, NEW op, WriteTasks(s, op) PROVE SchedTypes'
  <2>1. op \in OpSet /\ op \in ops[s]
    BY <1>1, <1>6 DEF WriteTasks
  <2>2. op.copy \in [Tasks -> Anchors] /\ op.at \in Anchors
    BY <2>1 DEF OpSet
  <2>3. Applied(op) \in [Tasks -> Anchors]
    BY <1>2, <2>2 DEF Applied
  <2>4. file' \in [Tasks -> Anchors]
    BY <1>1, <1>6, <2>3 DEF WriteTasks
  <2>5. ops' \in [Sessions -> SUBSET OpSet] /\ inFlight' \in [Sessions -> SUBSET Tasks]
    BY <1>1, <1>6 DEF WriteTasks
  <2> QED BY <1>1, <1>6, <2>4, <2>5 DEF WriteTasks, time, SchedTypes
<1>7. ASSUME NEW s \in Sessions, Check(s) PROVE SchedTypes'
  <2>1. DueIn(s) \subseteq Tasks /\ {t \in DueIn(s) : kind[t] = "recurring"} \subseteq Tasks
    BY DEF DueIn, In
  <2>2. inFlight' \in [Sessions -> SUBSET Tasks]
    BY <1>1, <1>7, <2>1 DEF Check
  <2>3. ASSUME NEW t \in In(tasks[s])
        PROVE  NextOf(s, t) \in Nat
    <3>1. tasks[s][t] \in Nat /\ t \in Tasks
      BY <1>1, <2>3 DEF In, Anchors
    <3> QED BY <1>1, <3>1 DEF NextOf, NextRun, None
  <2>4. \A t \in Tasks : Op("clean", {t}, 0) \in OpSet
    BY <1>2, <1>3
  <2>5. \A a \in SUBSET Tasks : Op("fired", a, clock) \in OpSet
    BY <1>2, <1>3
  <2>6. ops' \in [Sessions -> SUBSET OpSet]
    <3> DEFINE again == {t \in DueIn(s) : kind[t] = "recurring"}
               cleans == {Op("clean", {t}, 0) : t \in DueIn(s) \ again}
               again1 == IF again = {} THEN {} ELSE {Op("fired", again, clock)}
    <3>1. ops' = [ops EXCEPT ![s] = ops[s] \cup cleans \cup again1]
      BY <1>7 DEF Check
    <3>2. cleans \subseteq OpSet
      BY <2>1, <2>4
    <3>3. again1 \subseteq OpSet
      BY <2>1, <2>5
    <3> HIDE DEF cleans, again1
    <3>4. ops[s] \cup cleans \cup again1 \in SUBSET OpSet
      BY <1>1, <3>2, <3>3
    <3> QED BY <1>1, <3>1, <3>4
  <2>7. fires' \in [Tasks -> 0..2]
    <3>1. \A t \in Tasks : Fired(t) \in 0..2
      BY <1>1 DEF Fired
    <3> QED BY <1>1, <1>7, <3>1 DEF Check
  <2>8. nextFireAt' \in [Sessions -> [Tasks -> Nat \cup {None}]]
    <3>1. clock + 1 \in Nat
      BY <1>1, <1>2
    <3>2. PICK again, once :
            nextFireAt' = [nextFireAt EXCEPT ![s] =
                [t \in Tasks |->
                    IF t \in again THEN NextRun(clock)
                    ELSE IF t \in once \/ t \notin In(tasks[s]) THEN None
                    ELSE IF t \in inFlight[s] THEN nextFireAt[s][t]
                    ELSE NextOf(s, t)]]
      BY <1>7 DEF Check
    <3> QED BY <1>1, <1>7, <2>3, <3>1, <3>2 DEF NextRun
  <2> QED BY <1>1, <1>7, <2>2, <2>6, <2>7, <2>8 DEF Check, time, SchedTypes
<1>8. ASSUME NEW s \in Sessions, LoadInitial(s) PROVE SchedTypes'
  <2> DEFINE missed == {t \in In(file) : kind[t] = "once" /\ NextRun(file[t]) <= clock}
  <2>1. missed \subseteq Tasks
    BY DEF In
  <2>2. Op("drop", missed, 0) \in OpSet
    BY <1>2, <1>3, <2>1
  <2>3. /\ nextFireAt' = [nextFireAt EXCEPT ![s] =
                [t \in Tasks |-> IF t \in missed THEN Never ELSE nextFireAt[s][t]]]
        /\ ops' = [ops EXCEPT ![s] =
                ops[s] \cup (IF missed = {} THEN {} ELSE {Op("drop", missed, 0)})]
        /\ fires' = [t \in Tasks |-> IF t \in missed THEN Fired(t) ELSE fires[t]]
        /\ booting' = [booting EXCEPT ![s] = "no"]
        /\ tasks' = [tasks EXCEPT ![s] = file]
        /\ UNCHANGED <<clock, kind, file, inFlight>>
    BY <1>8 DEF LoadInitial, time
  <2> HIDE DEF missed
  <2>4. nextFireAt' \in [Sessions -> [Tasks -> Nat \cup {None}]]
    BY <1>1, <1>2, <2>3
  <2>5. ops' \in [Sessions -> SUBSET OpSet]
    BY <1>1, <2>2, <2>3
  <2>6. fires' \in [Tasks -> 0..2]
    <3>1. \A t \in Tasks : Fired(t) \in 0..2
      BY <1>1 DEF Fired
    <3> QED BY <1>1, <2>3, <3>1
  <2> QED BY <1>1, <2>3, <2>4, <2>5, <2>6 DEF SchedTypes
<1>9. ASSUME NEW s \in Sessions, Evict(s) PROVE SchedTypes'
  <2>1. nextFireAt' \in [Sessions -> [Tasks -> Nat \cup {None}]]
    BY <1>1, <1>9 DEF Evict
  <2> QED BY <1>1, <1>9, <2>1 DEF Evict, time, SchedTypes
<1>10. ASSUME NEW s \in Sessions, NEW t \in Tasks, Add(s, t) \/ Delete(s, t) PROVE SchedTypes'
  <2>1. Op("add", {t}, clock) \in OpSet /\ Op("drop", {t}, 0) \in OpSet
    BY <1>2, <1>3
  <2>2. PICK n \in OpSet : ops' = [ops EXCEPT ![s] = ops[s] \cup {n}]
    <3>1. CASE Add(s, t)
      BY <2>1, <3>1 DEF Add
    <3>2. CASE Delete(s, t)
      BY <2>1, <3>2 DEF Delete
    <3> QED BY <1>10, <3>1, <3>2
  <2>3. ops[s] \cup {n} \in SUBSET OpSet
    BY <1>1
  <2>4. ops' \in [Sessions -> SUBSET OpSet]
    BY <1>1, <2>2, <2>3
  <2> QED BY <1>1, <1>10, <2>4 DEF Add, Delete, time, SchedTypes
<1>11. ASSUME Tick PROVE SchedTypes'
  <2>1. clock' \in 0..MaxClock
    BY <1>1, <1>2, <1>11 DEF Tick
  <2>2. kind' \in [Tasks -> {"once", "recurring", "aged"}]
    BY <1>1, <1>11 DEF Tick
  <2>3. fires' \in [Tasks -> 0..2]
    BY <1>1, <1>11 DEF Tick
  <2> QED BY <1>1, <1>11, <2>1, <2>2, <2>3 DEF Tick, SchedTypes
<1>12. ASSUME NEW s \in Sessions, Reload(s) PROVE SchedTypes'
  BY <1>1, <1>12 DEF Reload, time, SchedTypes
<1>13. ASSUME UNCHANGED vars PROVE SchedTypes'
  BY <1>13 DEF vars, schedVars, time, SchedTypes
<1> QED BY <1>4, <1>5, <1>6, <1>7, <1>8, <1>9, <1>10, <1>11, <1>12, <1>13
         DEF Next, SchedStep, Change

\* At first nothing is under way and nothing has fired.
LEMMA FireInvInit == Init => FireInv
<1> SUFFICES ASSUME Init PROVE FireInv
  OBVIOUS
<1>1. /\ clock = 0 /\ kind \in [Tasks -> {"once", "recurring"}]
      /\ file \in [Tasks -> {0, Absent}]
      /\ tasks = [s \in Sessions |-> NoTasks]
      /\ nextFireAt = [s \in Sessions |-> [t \in Tasks |-> None]]
      /\ inFlight = [s \in Sessions |-> {}] /\ booting = [s \in Sessions |-> "no"]
      /\ ops = [s \in Sessions |-> {}] /\ fires = [t \in Tasks |-> 0]
  BY DEF Init
<1>2. MaxClock \in Nat
  BY ClockAssumption
<1>3. SchedTypes
  <2>1. file \in [Tasks -> Anchors] /\ clock \in 0..MaxClock
    BY <1>1, <1>2 DEF Anchors
  <2>2. tasks \in [Sessions -> [Tasks -> Anchors]]
    BY <1>1 DEF Anchors, NoTasks
  <2> QED BY <1>1, <2>1, <2>2 DEF SchedTypes
<1>4. SessionOk
  BY <1>1 DEF SessionOk
<1>5. ServedOk /\ AddOk /\ CopyOk /\ KindOk /\ FiredOk
  BY <1>1 DEF ServedOk, AddOk, CopyOk, KindOk, FiredOk
<1> QED BY <1>3, <1>4, <1>5 DEF FireInv, FireOk

\* What has gone wrong stays wrong.
LEMMA GoodBefore ==
    ASSUME IInv, [Next]_vars, Good'
    PROVE  Good
<1>1. ASSUME NEW s \in Sessions, LockStep(s) PROVE Good
  <2>1. ~raced
    BY <1>1, LockMoves DEF LockStep, Good
  <2>2. upset = {}
    BY <1>1 DEF LockStep, SchedFollows, Good
  <2> QED BY <2>1, <2>2 DEF Good
<1>2. ASSUME NEW s \in Sessions, SchedStep(s), UNCHANGED lockVars PROVE Good
  <2>1. ~raced
    BY <1>2, LockStays DEF Good
  <2>2. upset = {}
    BY <1>2 DEF SchedStep, Change, ReadTasks, WriteTasks, Check, LoadInitial, Reload, Evict,
       Add, Delete, Good
  <2> QED BY <2>1, <2>2 DEF Good
<1>3. CASE Tick /\ UNCHANGED lockVars
  BY <1>3, LockStays DEF Tick, Good
<1>4. CASE UNCHANGED vars
  BY <1>4 DEF vars, lockVars, schedVars, Good
<1> QED BY <1>1, <1>2, <1>3, <1>4 DEF Next

\* Every step keeps the invariant.
LEMMA FireInvStep ==
    ASSUME IInv, FireInv, [Next]_vars
    PROVE  FireInv'
<1>1. SchedTypes /\ SchedTypes'
  BY SchedTypesStep DEF FireInv
<1>2. SUFFICES ASSUME Good' PROVE FireOk'
  BY <1>1 DEF FireInv
<1>3. Good /\ FireOk
  BY <1>2, GoodBefore DEF FireInv
<1>4. ASSUME NEW s \in Sessions, LockStep(s) PROVE FireOk'
  BY <1>1, <1>2, <1>3, <1>4, LockFires
<1>5. ASSUME NEW s \in Sessions, SchedStep(s), UNCHANGED lockVars PROVE FireOk'
  <2>1. ASSUME NEW op, ReadTasks(s, op) PROVE FireOk'
    BY <1>1, <1>2, <1>3, <1>5, <2>1, ReadFires
  <2>2. ASSUME NEW op, WriteTasks(s, op) PROVE FireOk'
    BY <1>1, <1>2, <1>3, <1>5, <2>2, WriteFires
  <2>3. CASE Check(s)
    BY <1>1, <1>2, <1>3, <1>5, <2>3, CheckFires
  <2>4. CASE LoadInitial(s)
    BY <1>1, <1>2, <1>3, <1>5, <2>4, LoadFires
  <2>5. CASE Evict(s)
    BY <1>1, <1>2, <1>3, <1>5, <2>5, EvictFires
  <2>6. ASSUME NEW t \in Tasks, Add(s, t) \/ Delete(s, t) PROVE FireOk'
    BY <1>1, <1>3, <1>5, <2>6, EditFires
  <2>7. CASE Reload(s)
    BY <1>1, <1>3, <1>5, <2>7, ReloadFires
  <2> QED BY <1>5, <2>1, <2>2, <2>3, <2>4, <2>5, <2>6, <2>7 DEF SchedStep, Change
<1>6. CASE Tick /\ UNCHANGED lockVars
  BY <1>1, <1>3, <1>6, TickFires
<1>7. CASE UNCHANGED vars
  <2>1. /\ UNCHANGED <<life, isOwner, step, clock, kind, file, tasks, nextFireAt, inFlight,
           booting, ops, fires>>
        /\ \A u \in Sessions : HasProcess(u)' = HasProcess(u) /\ Holds(u)' = Holds(u)
    BY <1>7 DEF vars, lockVars, schedVars, time, HasProcess, Holds
  <2>2. SessionOk' /\ ServedOk' /\ AddOk' /\ CopyOk' /\ KindOk'
    BY <1>3, <2>1 DEF FireOk, SessionOk, ServedOk, AddOk, CopyOk, KindOk, Serving
  <2>3. \A t \in Tasks : /\ RecursLater(t) => RecursLater(t)'
                         /\ Leaves(t) => Leaves(t)'
                         /\ Asked(t) => Asked(t)'
    BY <2>1 DEF RecursLater, Leaves, Asked
  <2>4. FiredOk'
    BY <1>3, <2>1, <2>3 DEF FireOk, FiredOk
  <2> QED BY <2>2, <2>4 DEF FireOk
<1> QED BY <1>4, <1>5, <1>6, <1>7 DEF Next

(* A scheduled task fires once (check(), cronScheduler.ts:333): a one-shot  *)
(* in all, a recurring one per period, across owners, handoffs, restarts    *)
(* and edits, as long as none of the mishaps that FiresOnce names happened. *)
THEOREM FiresAtMostOnce == Spec => []FiresOnce
<1>1. Init => FireInv
  BY FireInvInit
<1>2. IInv /\ FireInv /\ [Next]_vars => FireInv'
  BY FireInvStep
<1>3. FireInv => FiresOnce
  BY DEF FireInv, Good, FireOk, FiredOk, FiresOnce, SchedTypes
<1> QED BY <1>1, <1>2, <1>3, Invariance, PTL DEF Spec
=============================================================================
