----------------------------- MODULE RunPersistence -----------------------------
(***************************************************************************)
(* The run directories on disk (src/workflow/persistence.ts): what a run   *)
(* that ends writes there, and the sweep it then starts, which removes all *)
(* but the newest directories.  A run in progress writes its journal into  *)
(* its directory (journal.ts) and a diverging resume removes it.           *)
(*                                                                         *)
(* run_done starts a job: mkdir, write state.json.tmp, rename, readdir,    *)
(* read each state.json, remove the victims.  Every file operation is      *)
(* awaited, so anything may come in between.                               *)
(***************************************************************************)
EXTENDS Integers, FiniteSets

CONSTANTS
  RunIds,
  NoRun,
  KeepMax,     \* KEEP_MAX_RUNS
  MaxJobs,     \* bound: run_done events
  MaxCrashes   \* bound

ASSUME PersistenceAssumption ==
  /\ IsFiniteSet(RunIds) /\ NoRun \notin RunIds /\ {KeepMax, MaxJobs, MaxCrashes} \subseteq Nat
  /\ KeepMax > 0

Jobs == 1 .. MaxJobs

VARIABLES
  progress, \* progress[r]: status and updatedAt in the progress store
  disk,     \* disk[r]: whether it has a directory, state.json.tmp, state.json
  job,      \* job[i]: what the i-th run_done of this process still has to do
  clock,    \* Date.now(): one tick for each event of a run
  crashes,
  overlap   \* a run has started while another one, or a job, went on (history)

diskVars == <<progress, disk, job, clock, crashes, overlap>>

Nothing == [status |-> "none", at |-> 0]
Absent  == [there |-> FALSE, tmp |-> Nothing, state |-> Nothing]

FreeJob == [pc |-> "free", run |-> NoRun, unread |-> {}, listed |-> {},
            at |-> [r \in RunIds |-> 0], victims |-> {}, data |-> Nothing]

DiskInit ==
  /\ progress = [r \in RunIds |-> Nothing] /\ disk = [r \in RunIds |-> Absent]
  /\ job = [i \in Jobs |-> FreeJob] /\ clock = 0 /\ crashes = 0
  /\ overlap = FALSE

Going(r) == progress[r].status = "running"
Idle     == \A i \in Jobs : job[i].pc \in {"free", "over", "lost"}

--------------------------------------------------------------------------------

\* run_started, of a new run or of one that is resumed.
Start(r) ==
  /\ ~ Going(r)
  /\ \E i \in Jobs : job[i].pc = "free"
  /\ clock' = clock + 1
  /\ progress' = [progress EXCEPT ![r] = [status |-> "running", at |-> clock + 1]]
  /\ overlap' = (overlap \/ ~ Idle \/ \E s \in RunIds : Going(s))
  /\ UNCHANGED <<disk, job, crashes>>

\* append() of the journal makes the directory if it is not there.
AppendJournal(r) ==
  /\ Going(r) /\ ~ disk[r].there
  /\ disk' = [disk EXCEPT ![r].there = TRUE]
  /\ UNCHANGED <<progress, job, clock, crashes, overlap>>

\* truncate() removes it.
Truncate(r) ==
  /\ Going(r) /\ disk[r].there
  /\ disk' = [disk EXCEPT ![r] = Absent]
  /\ UNCHANGED <<progress, job, clock, crashes, overlap>>

Step(i, from, to) ==
  /\ job[i].pc = from
  /\ job' = [job EXCEPT ![i] = to]

\* run_done: the store has the terminal status when the listener runs.
RunDone(r, i) ==
  /\ Going(r)
  /\ \A j \in 1 .. i - 1 : job[j].pc # "free"
  /\ clock' = clock + 1
  /\ progress' = [progress EXCEPT ![r] = [status |-> "terminal", at |-> clock + 1]]
  /\ Step(i, "free", [FreeJob EXCEPT !.pc = "mkdir", !.run = r])
  /\ UNCHANGED <<disk, crashes, overlap>>

\* The object of the store, which apply() changes in place, is stringified once
\* mkdir() is done.
MakeDir(i) ==
  LET r == job[i].run
  IN  /\ Step(i, "mkdir", [job[i] EXCEPT !.pc = "write", !.data = progress[r]])
      /\ disk' = [disk EXCEPT ![r].there = TRUE]
      /\ UNCHANGED <<progress, clock, crashes, overlap>>

\* The string goes to the temporary file.  The directory may be gone by now: the
\* error is swallowed, and the sweep follows.
WriteTmp(i) ==
  LET r == job[i].run
  IN  /\ Step(i, "write", IF disk[r].there THEN [job[i] EXCEPT !.pc = "rename", !.data = Nothing]
                          ELSE [FreeJob EXCEPT !.pc = "readdir"])
      /\ disk' = IF disk[r].there THEN [disk EXCEPT ![r].tmp = job[i].data] ELSE disk
      /\ UNCHANGED <<progress, clock, crashes, overlap>>

\* Mutant: the new state is left in the temporary file.
RenameForgotten(i) ==
  /\ Step(i, "rename", [job[i] EXCEPT !.pc = "readdir"])
  /\ UNCHANGED <<disk, progress, clock, crashes, overlap>>

\* rename() fails, and is swallowed, when the temporary file is gone.
Rename(i) ==
  LET r == job[i].run
  IN  /\ Step(i, "rename", [FreeJob EXCEPT !.pc = "readdir"])
      /\ disk' = IF disk[r].tmp = Nothing THEN disk
                 ELSE [disk EXCEPT ![r].state = disk[r].tmp, ![r].tmp = Nothing]
      /\ UNCHANGED <<progress, clock, crashes, overlap>>

ReadDir(i) ==
  LET names == {r \in RunIds : disk[r].there}
  IN  /\ Step(i, "readdir", [job[i] EXCEPT !.pc = "scan", !.unread = names, !.listed = names])
      /\ UNCHANGED <<progress, disk, clock, crashes, overlap>>

\* readRunState() of one directory: updatedAt, or 0 without a state.json.
ReadState(i, r) ==
  /\ r \in job[i].unread
  /\ Step(i, "scan", [job[i] EXCEPT !.unread = @ \ {r}, !.at[r] = disk[r].state.at])
  /\ UNCHANGED <<progress, disk, clock, crashes, overlap>>

\* Mutant: one directory too many is kept.
VictimsOffByOne(names, at) ==
  {V \in SUBSET names :
     /\ Cardinality(names \ V) = IF Cardinality(names) > KeepMax THEN KeepMax + 1
                                 ELSE Cardinality(names)
     /\ \A v \in V, k \in names \ V : at[v] <= at[k]}

\* What sorting by updatedAt and cutting at KeepMax can leave over: the order of
\* equals is that of readdir().
Victims(names, at) ==
  {V \in SUBSET names :
     /\ Cardinality(names \ V) = IF Cardinality(names) > KeepMax THEN KeepMax
                                 ELSE Cardinality(names)
     /\ \A v \in V, k \in names \ V : at[v] <= at[k]}

ChooseVictims(i) ==
  /\ job[i].unread = {}
  /\ \E V \in Victims(job[i].listed, job[i].at) :
       Step(i, "scan", [FreeJob EXCEPT !.pc = "remove", !.victims = V])
  /\ UNCHANGED <<progress, disk, clock, crashes, overlap>>

RemoveVictim(i, r) ==
  /\ r \in job[i].victims
  /\ Step(i, "remove", [job[i] EXCEPT !.victims = @ \ {r}])
  /\ disk' = [disk EXCEPT ![r] = Absent]
  /\ UNCHANGED <<progress, clock, crashes, overlap>>

EndSweep(i) ==
  /\ job[i].victims = {}
  /\ Step(i, "remove", [FreeJob EXCEPT !.pc = "over"])
  /\ UNCHANGED <<progress, disk, clock, crashes, overlap>>

\* The process dies; the next one knows nothing of the runs before.
Crash ==
  /\ crashes < MaxCrashes /\ crashes' = crashes + 1
  /\ progress' = [r \in RunIds |-> Nothing]
  /\ job' = [i \in Jobs |-> IF job[i].pc = "free" THEN job[i] ELSE [FreeJob EXCEPT !.pc = "lost"]]
  /\ UNCHANGED <<disk, clock, overlap>>

DiskNext ==
  \/ \E r \in RunIds : Start(r) \/ AppendJournal(r) \/ Truncate(r)
  \/ \E i \in Jobs : \/ MakeDir(i) \/ WriteTmp(i) \/ Rename(i) \/ ReadDir(i)
                     \/ ChooseVictims(i) \/ EndSweep(i)
                     \/ \E r \in RunIds : RunDone(r, i) \/ ReadState(i, r) \/ RemoveVictim(i, r)
  \/ Crash

DiskSpec == DiskInit /\ [][DiskNext]_diskVars

--------------------------------------------------------------------------------

States == [status : {"none", "running", "terminal"}, at : Nat]

\* The variables have their types.
DiskTypeOK ==
  /\ progress \in [RunIds -> States]
  /\ disk \in [RunIds -> [there : BOOLEAN, tmp : States, state : States]]
  /\ job \in [Jobs -> [pc : {"free", "mkdir", "write", "rename", "readdir", "scan",
                             "remove", "over", "lost"},
                       run : RunIds \cup {NoRun}, unread : SUBSET RunIds, listed : SUBSET RunIds,
                       at : [RunIds -> Nat], victims : SUBSET RunIds, data : States]]
  /\ \A r \in RunIds : ~ disk[r].there => disk[r] = Absent
  /\ clock \in Nat /\ crashes \in 0 .. MaxCrashes /\ overlap \in BOOLEAN

\* Nothing is going on, and a run of this process has ended.
Quiet == /\ Idle /\ \A r \in RunIds : ~ Going(r)
         /\ \E i \in Jobs : job[i].pc = "over"

\* "the runs directory stays bounded" (persistence.ts:182): however sweeps, writes and
\* journals have interleaved, and after crashes too.
SweepBound == Quiet => Cardinality({r \in RunIds : disk[r].there}) <= KeepMax

Newest(r) == progress[r].at > 0 /\ \A s \in RunIds : progress[s].at <= progress[r].at

\* The run that finished last is "never swept out from under itself"
\* (persistence.ts:184).
LastRunKept == Quiet => \A r \in RunIds : Newest(r) => disk[r].state = progress[r]

NewestKept ==
  \A r, s \in RunIds : disk[s].state.at > 0 /\ progress[r].at > disk[s].state.at => disk[r].there

\* RunIds that follow one another, across crashes too: the state of the run that finished
\* last is on disk, and no run is swept while an older one is kept.
SerialKept == ~ overlap /\ Quiet => LastRunKept /\ NewestKept

\* A directory without state.json is taken for an orphan, "half-written, killed-mid-write,
\* or pre-schema" (persistence.ts:128): it is not the one of a run in progress.
OnlyOrphansSwept ==
  [][\A i \in Jobs, r \in RunIds :
       r \in job[i].victims /\ r \notin job'[i].victims => ~ (Going(r) /\ disk[r].there)]_diskVars

\* "write the terminal RunProgress to state.json" (persistence.ts:174).
TerminalOnDisk == \A r \in RunIds : disk[r].state.status # "running"
================================================================================
