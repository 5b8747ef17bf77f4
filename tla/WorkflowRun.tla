------------------------------ MODULE WorkflowRun ------------------------------
(***************************************************************************)
(* One run of the workflow engine (packages/workflow-engine/src/engine):   *)
(* the agent() hook with its permit, budget, retry and journal, under a    *)
(* script, with kill, crash and resume.                                    *)
(*                                                                         *)
(* A script is a set of fibers, the thunks of parallel(), the items of     *)
(* pipeline(), or the one main program; a fiber makes its agent() calls    *)
(* one after the other.  What JavaScript runs between two awaits is one    *)
(* action; Ready and Launched say that the first calls of all fibers are   *)
(* made in order in one turn, before anything else can happen.             *)
(***************************************************************************)
EXTENDS Integers, Sequences, FiniteSets, SequencesExt

CONSTANTS
  N,               \* number of fibers
  Scripts,         \* scripts[f]: the keys of the calls of fiber f, in order
  Guarded,         \* the fibers run under parallel()/pipeline(), which catch
  Permits,         \* maxConcurrency, after its clamp
  MaxTotalAgents,  \* MAX_TOTAL_AGENTS
  BudgetTotal,     \* budget.total
  Costs,           \* output tokens an agent may use
  Faults,          \* what the environment may do, a subset of FaultKinds
  MaxStarts        \* bound: how often the run is started or resumed

FaultKinds == {"kill", "killAgent", "crash", "torn", "io", "skip", "throw", "dead"}

Fibers == 1 .. N

ASSUME RunAssumption ==
  /\ {N, Permits, MaxTotalAgents, MaxStarts, BudgetTotal} \subseteq Nat \ {0}
  /\ Costs \subseteq Nat /\ IsFiniteSet(Costs) /\ Costs # {}
  /\ Guarded \in BOOLEAN /\ Faults \subseteq FaultKinds
  /\ Scripts \subseteq [Fibers -> Seq(STRING) \ {<<>>}]

VARIABLES
  status,  \* of the run: running, a terminal status, or down after a crash
  aborted, \* ctx.signal.aborted
  starts,  \* how often the run has started
  script,  \* the calls this execution of the script makes
  pc,      \* pc[f]: where fiber f is
  step,    \* step[f]: which of its calls
  call,    \* call[f]: key, agentId and result kind of that call
  thrown,  \* what the script rejects with, as a run status
  ctx,     \* journal, journalIndex, journalInvalidated
  sem,     \* the semaphore: available, waiters
  res,     \* agentCountBox, agentIdSeq, budget.spent()
  disk     \* journal.jsonl, in file order

vars == <<status, aborted, starts, script, pc, step, call, thrown, ctx, sem, res, disk>>
run  == <<status, aborted, starts, script>>

InBackend  == {"first", "afterDead", "retry", "third"}
Holding    == InBackend \cup {"granted", "appending"}
Settled    == {"done", "threw", "killed"}
Terminal   == {"completed", "failed", "killed"}
Torn       == [key |-> "torn", seq |-> 0, kind |-> "torn"]

FreshSem == [available |-> Permits, waiters |-> <<>>]
FreshRes == [agentCount |-> 0, nextId |-> 0, spent |-> 0]
NoCall   == [key |-> "", seq |-> 0, kind |-> "ok"]

AllFibers(v) == [f \in Fibers |-> v]

NewContext(entries, changed) ==
  [journal |-> entries, index |-> 0, invalidated |-> changed]

Init ==
  /\ status = "running" /\ aborted = FALSE /\ starts = 1 /\ script \in Scripts
  /\ pc = AllFibers("ready") /\ step = AllFibers(1) /\ call = AllFibers(NoCall)
  /\ thrown = "none" /\ ctx = NewContext(<<>>, FALSE)
  /\ sem = FreshSem /\ res = FreshRes /\ disk = <<>>

--------------------------------------------------------------------------------

\* The turn that made the first call of every fiber is over.
Launched == \A f \in Fibers : ~ (pc[f] = "ready" /\ step[f] = 1)

\* It is f's turn to call agent().
Ready(f) ==
  /\ pc[f] = "ready"
  /\ \A g \in 1 .. f - 1 : ~ (pc[g] = "ready" /\ step[g] = 1)
  /\ step[f] > 1 => Launched

\* agent() rejects: parallel() and pipeline() turn that into null and end the
\* fiber; a bare Promise.all passes the first rejection on to the script.
Reject(how) ==
  thrown' = IF Guarded \/ thrown # "none" THEN thrown
            ELSE IF how = "killed" THEN "killed" ELSE "failed"

AfterReturn(f) == IF step[f] = Len(script[f]) THEN "done" ELSE "ready"

\* release() in the finally block, while fiber f goes on to p.
ReleaseTo(f, p) ==
  IF sem.waiters = <<>>
    THEN /\ sem' = [sem EXCEPT !.available = @ + 1]
         /\ pc' = [pc EXCEPT ![f] = p]
    ELSE /\ sem' = [sem EXCEPT !.waiters = Tail(@)]
         /\ pc' = [pc EXCEPT ![f] = p, ![Head(sem.waiters)] = "granted"]

\* The try block throws and the finally block gives the permit back.
RejectReleasing(f, how) ==
  /\ ReleaseTo(f, how)
  /\ Reject(how)

\* semaphore.acquire(ctx.signal).
Acquire(f) ==
  \/ /\ aborted
     /\ pc' = [pc EXCEPT ![f] = "killed"] /\ Reject("killed") /\ UNCHANGED sem
  \/ /\ ~ aborted /\ sem.available > 0
     /\ sem' = [sem EXCEPT !.available = @ - 1]
     /\ pc' = [pc EXCEPT ![f] = "granted"] /\ UNCHANGED thrown
  \/ /\ ~ aborted /\ sem.available = 0
     /\ sem' = [sem EXCEPT !.waiters = Append(@, f)]
     /\ pc' = [pc EXCEPT ![f] = "waiting"] /\ UNCHANGED thrown

--------------------------------------------------------------------------------

\* The agent cap is checked when agent() is called, against the calls that have
\* already got past their permit.
CapReached(f) ==
  /\ Ready(f)
  /\ res.agentCount >= MaxTotalAgents
  /\ pc' = [pc EXCEPT ![f] = "threw"] /\ Reject("threw")
  /\ UNCHANGED <<run, step, call, ctx, sem, res, disk>>

\* Mutant: no cap.
NewCallUncapped(f) ==
  /\ Ready(f)
  /\ res' = [res EXCEPT !.nextId = @ + 1]
  /\ call' = [call EXCEPT ![f] = [key |-> script[f][step[f]], seq |-> res.nextId,
                                  kind |-> "ok"]]

\* Every call past the cap check takes an agentId, replayed or not.
NewCall(f) ==
  /\ Ready(f)
  /\ res.agentCount < MaxTotalAgents
  /\ res' = [res EXCEPT !.nextId = @ + 1]
  /\ call' = [call EXCEPT ![f] = [key |-> script[f][step[f]], seq |-> res.nextId,
                                  kind |-> "ok"]]

\* Mutant: the last entry is not replayed.
ReplayingNotLast == ~ ctx.invalidated /\ ctx.index + 1 < Len(ctx.journal)

Replaying == ~ ctx.invalidated /\ ctx.index < Len(ctx.journal)

\* Mutant: a hit does not move the index.
ReplayStays(f) ==
  /\ NewCall(f)
  /\ Replaying /\ ctx.journal[ctx.index + 1].key = script[f][step[f]]
  /\ pc' = [pc EXCEPT ![f] = AfterReturn(f)]
  /\ step' = [step EXCEPT ![f] = @ + 1]
  /\ UNCHANGED <<run, thrown, ctx, sem, disk>>

\* Journal hit: the recorded result is returned at once.
Replay(f) ==
  /\ NewCall(f)
  /\ Replaying /\ ctx.journal[ctx.index + 1].key = script[f][step[f]]
  /\ ctx' = [ctx EXCEPT !.index = @ + 1]
  /\ pc' = [pc EXCEPT ![f] = AfterReturn(f)]
  /\ step' = [step EXCEPT ![f] = @ + 1]
  /\ UNCHANGED <<run, thrown, sem, disk>>

\* Divergence: the rest of the journal is dropped and truncate() is awaited.
Diverge(f) ==
  /\ NewCall(f)
  /\ Replaying /\ ctx.journal[ctx.index + 1].key # script[f][step[f]]
  /\ ctx' = [ctx EXCEPT !.invalidated = TRUE, !.journal = SubSeq(@, 1, ctx.index)]
  /\ pc' = [pc EXCEPT ![f] = "truncating"]
  /\ UNCHANGED <<run, step, thrown, sem, disk>>

\* A call with nothing to replay asks for a permit.
Live(f) ==
  /\ NewCall(f)
  /\ ~ Replaying
  /\ Acquire(f)
  /\ UNCHANGED <<run, step, ctx, disk>>

\* truncate() has removed the whole directory of the run.
Truncated(f) ==
  /\ Launched /\ pc[f] = "truncating"
  /\ disk' = <<>>
  /\ Acquire(f)
  /\ UNCHANGED <<run, step, call, ctx, res>>

\* The continuation of acquire(): the signal, then the budget, then a pending skip.
GrantedKilled(f) ==
  /\ Launched /\ pc[f] = "granted"
  /\ aborted
  /\ RejectReleasing(f, "killed")
  /\ UNCHANGED <<run, step, call, ctx, res, disk>>

OverBudget(f) ==
  /\ Launched /\ pc[f] = "granted"
  /\ ~ aborted /\ res.spent >= BudgetTotal
  /\ RejectReleasing(f, "threw")
  /\ UNCHANGED <<run, step, call, ctx, res, disk>>

Skip(f) ==
  /\ Launched /\ pc[f] = "granted" /\ "skip" \in Faults
  /\ ~ aborted /\ res.spent < BudgetTotal
  /\ ReleaseTo(f, AfterReturn(f))
  /\ step' = [step EXCEPT ![f] = @ + 1]
  /\ UNCHANGED <<run, call, thrown, ctx, res, disk>>

\* Mutant: the signal is checked only when the permit is asked for.
StartAgentUnchecked(f) ==
  /\ Launched /\ pc[f] = "granted"
  /\ res.spent < BudgetTotal
  /\ res' = [res EXCEPT !.agentCount = @ + 1]
  /\ pc' = [pc EXCEPT ![f] = "first"]
  /\ UNCHANGED <<run, step, call, thrown, ctx, sem, disk>>

\* Mutant: the budget is checked before the permit, not after it.
StartAgentNoBudget(f) ==
  /\ Launched /\ pc[f] = "granted"
  /\ ~ aborted
  /\ res' = [res EXCEPT !.agentCount = @ + 1]
  /\ pc' = [pc EXCEPT ![f] = "first"]
  /\ UNCHANGED <<run, step, call, thrown, ctx, sem, disk>>

StartAgent(f) ==
  /\ Launched /\ pc[f] = "granted"
  /\ ~ aborted /\ res.spent < BudgetTotal
  /\ res' = [res EXCEPT !.agentCount = @ + 1]
  /\ pc' = [pc EXCEPT ![f] = "first"]
  /\ UNCHANGED <<run, step, call, thrown, ctx, sem, disk>>

--------------------------------------------------------------------------------

\* Mutant: the index does not follow the entry pushed.
RecordNoIndex(f, kind, cost) ==
  LET entry == [call[f] EXCEPT !.kind = kind]
  IN  /\ call' = [call EXCEPT ![f] = entry]
      /\ ctx' = [ctx EXCEPT !.journal = Append(@, entry)]
      /\ res' = [res EXCEPT !.spent = @ + cost]
      /\ pc' = [pc EXCEPT ![f] = "appending"]
      /\ UNCHANGED <<run, step, thrown, sem, disk>>

\* The result is final: it is charged, pushed to the journal and its append begins.
Record(f, kind, cost) ==
  LET entry == [call[f] EXCEPT !.kind = kind]
  IN  /\ call' = [call EXCEPT ![f] = entry]
      /\ ctx' = [ctx EXCEPT !.journal = Append(@, entry), !.index = @ + 1]
      /\ res' = [res EXCEPT !.spent = @ + cost]
      /\ pc' = [pc EXCEPT ![f] = "appending"]
      /\ UNCHANGED <<run, step, thrown, sem, disk>>

\* The backend is invoked again.
Reinvoke(f, p) ==
  /\ pc' = [pc EXCEPT ![f] = p]
  /\ UNCHANGED <<run, step, call, thrown, ctx, sem, res, disk>>

BackendOk(f) ==
  /\ Launched /\ pc[f] \in InBackend
  /\ \E n \in Costs : Record(f, "ok", n)

\* dead is retried inside the try block; the answer of any retry is final.
BackendDead(f) ==
  /\ Launched /\ pc[f] \in InBackend /\ "dead" \in Faults
  /\ IF pc[f] = "first" THEN Reinvoke(f, "afterDead") ELSE Record(f, "dead", 0)

\* A throw that is not the kill is retried by the catch block, which also guards
\* the retry of a dead result; a throw there degrades to dead.  What
\* the backend prepares outside its own try block can throw after the kill, too.
BackendThrows(f) ==
  /\ Launched /\ pc[f] \in InBackend /\ "throw" \in Faults
  /\ CASE pc[f] = "first"     -> Reinvoke(f, "retry")
       [] pc[f] = "afterDead" -> Reinvoke(f, "third")
       [] OTHER               -> Record(f, "dead", 0)

\* Mutant: the backend does not hear of the kill of the run.
BackendDeaf(f) ==
  /\ Launched /\ pc[f] \in InBackend
  /\ "killAgent" \in Faults
  /\ RejectReleasing(f, "killed")
  /\ UNCHANGED <<run, step, call, ctx, res, disk>>

\* WorkflowAbortedError: the run was killed, or this agent was.
BackendAborts(f) ==
  /\ Launched /\ pc[f] \in InBackend
  /\ aborted \/ "killAgent" \in Faults
  /\ RejectReleasing(f, "killed")
  /\ UNCHANGED <<run, step, call, ctx, res, disk>>

Backend(f) == BackendOk(f) \/ BackendDead(f) \/ BackendThrows(f) \/ BackendAborts(f)

\* Mutant: the permit is not given back on the normal path.
AppendedKeepsPermit(f) ==
  /\ Launched /\ pc[f] = "appending"
  /\ disk' = Append(disk, call[f])
  /\ pc' = [pc EXCEPT ![f] = AfterReturn(f)]
  /\ step' = [step EXCEPT ![f] = @ + 1]
  /\ UNCHANGED <<run, call, thrown, ctx, res, sem>>

\* append() has written the line: the permit is released and agent() returns.
Appended(f) ==
  /\ Launched /\ pc[f] = "appending"
  /\ disk' = Append(disk, call[f])
  /\ ReleaseTo(f, AfterReturn(f))
  /\ step' = [step EXCEPT ![f] = @ + 1]
  /\ UNCHANGED <<run, call, thrown, ctx, res>>

\* append() rejects, and with it an agent() call whose agent had succeeded.
AppendFails(f) ==
  /\ Launched /\ pc[f] = "appending" /\ "io" \in Faults
  /\ RejectReleasing(f, "threw")
  /\ UNCHANGED <<run, step, call, ctx, res, disk>>

--------------------------------------------------------------------------------

\* The script returns or rejects: run_done.
EndRun ==
  /\ status = "running" /\ Launched
  /\ thrown # "none" \/ \A f \in Fibers : pc[f] \in Settled
  /\ status' = IF thrown = "none" THEN "completed" ELSE thrown
  /\ UNCHANGED <<aborted, starts, script, pc, step, call, thrown, ctx, sem, res, disk>>

\* The run's signal aborts: every queued acquire() rejects.
Kill ==
  /\ status = "running" /\ Launched /\ "kill" \in Faults /\ ~ aborted
  /\ aborted' = TRUE
  /\ sem' = [sem EXCEPT !.waiters = <<>>]
  /\ pc' = [f \in Fibers |-> IF pc[f] = "waiting" THEN "killed" ELSE pc[f]]
  /\ IF sem.waiters # <<>> THEN Reject("killed") ELSE UNCHANGED thrown
  /\ UNCHANGED <<status, starts, script, step, call, ctx, res, disk>>

\* The process dies.  The appends under way have reached the file, in some order,
\* or not; one of them may have left half a line.
Crash ==
  /\ status # "down" /\ Launched /\ "crash" \in Faults
  /\ status' = "down"
  /\ LET appending == {f \in Fibers : pc[f] = "appending"}
     IN  \E S \in SUBSET appending : \E order \in SetToSeqs(S) :
           LET saved == disk \o [i \in DOMAIN order |-> call[order[i]]]
           IN  \/ disk' = saved
               \/ "torn" \in Faults /\ S # appending /\ disk' = Append(saved, Torn)
  /\ pc' = AllFibers("done") /\ ctx' = NewContext(<<>>, FALSE)
  /\ sem' = FreshSem /\ res' = FreshRes
  /\ UNCHANGED <<aborted, starts, script, step, call, thrown>>

\* read(): the entries by seq, ties in file order; nothing if a line does not parse.
ReadJournal ==
  LET before(i, j) == disk[i].seq < disk[j].seq \/ (disk[i].seq = disk[j].seq /\ i < j)
      rank(j) == Cardinality({i \in DOMAIN disk : before(i, j)})
  IN  IF \E i \in DOMAIN disk : disk[i].kind = "torn" THEN <<>>
      ELSE [n \in DOMAIN disk |-> disk[CHOOSE j \in DOMAIN disk : rank(j) = n - 1]]

\* runWorkflow({resume: true}) of a run that has ended or whose process died.  The
\* calls may differ (other args); scriptChanged drops the journal first.
Resume ==
  /\ status # "running" /\ \A f \in Fibers : pc[f] \in Settled
  /\ starts < MaxStarts /\ starts' = starts + 1
  /\ status' = "running" /\ aborted' = FALSE /\ script' \in Scripts
  /\ pc' = AllFibers("ready") /\ step' = AllFibers(1) /\ call' = AllFibers(NoCall)
  /\ thrown' = "none" /\ sem' = FreshSem /\ res' = FreshRes
  /\ \/ ctx' = NewContext(ReadJournal, FALSE) /\ UNCHANGED disk
     \/ script' # script /\ ctx' = NewContext(<<>>, TRUE) /\ disk' = <<>>

Agent(f) ==
  \/ CapReached(f) \/ Replay(f) \/ Diverge(f) \/ Live(f) \/ Truncated(f)
  \/ GrantedKilled(f) \/ OverBudget(f) \/ Skip(f) \/ StartAgent(f)
  \/ Appended(f) \/ AppendFails(f)

Next ==
  \/ \E f \in Fibers : Agent(f) \/ Backend(f)
  \/ EndRun \/ Kill \/ Crash \/ Resume

Spec == Init /\ [][Next]_vars

\* JavaScript runs every continuation that is due; a killed backend stops.
EngineFairness ==
  /\ \A f \in Fibers : WF_vars(Agent(f)) /\ WF_vars(aborted /\ BackendAborts(f))
  /\ WF_vars(EndRun)

FairSpec == Spec /\ EngineFairness

\* Every backend invocation comes to an end.
BackendFairness == \A f \in Fibers : WF_vars(Backend(f))

--------------------------------------------------------------------------------

Keys == {""} \cup UNION {UNION {Range(s[f]) : f \in Fibers} : s \in Scripts}

Entries == [key : Keys, seq : Nat, kind : {"ok", "dead"}]

\* The variables have their types.
TypeOK ==
  /\ status \in {"running", "down"} \cup Terminal
  /\ aborted \in BOOLEAN /\ starts \in 1 .. MaxStarts /\ script \in Scripts
  /\ pc \in [Fibers -> {"ready", "truncating", "waiting"} \cup Holding \cup Settled]
  /\ step \in [Fibers -> Nat] /\ \A f \in Fibers : step[f] \in 1 .. Len(script[f]) + 1
  /\ call \in [Fibers -> Entries]
  /\ thrown \in {"none", "failed", "killed"}
  /\ ctx \in [journal : Seq(Entries), index : Nat, invalidated : BOOLEAN]
  /\ sem \in [available : Nat, waiters : Seq(Fibers)]
  /\ res \in [agentCount : Nat, nextId : Nat, spent : Nat]
  /\ disk \in Seq(Entries \cup {Torn})

InState(S) == {f \in Fibers : pc[f] \in S}

\* On every way out of agent(), the abort of a queued call included, the permit is
\* given back exactly once (hooks.ts:92-98, 217-219).
PermitsConserved == sem.available + Cardinality(InState(Holding)) = Permits

\* "otherwise N waiters enqueued while spent=0 all pass the check and overspend"
\* (hooks.ts:101-104): with the check behind the permit the overspending is bounded
\* by the agents that run at once, not by the calls that wait.
BudgetOverrunBounded ==
  res.spent <= BudgetTotal - 1 + Permits * Max(Costs)

\* The agent cap can be overrun, but only by the calls that were past the check
\* when the last agent below the cap started (hooks.ts:57, 113).
AgentOverrunBounded == res.agentCount <= MaxTotalAgents - 1 + N

\* No agent starts once the run has been killed (hooks.ts:100).
NoAgentAfterKill == [][aborted /\ aborted' => res.agentCount' <= res.agentCount]_vars

\* A replayed entry is one that read() loaded: the entries this execution pushes
\* itself are behind the index as soon as they are there (hooks.ts:73-88, 213-214).
NoSelfReplay ==
  InState({"truncating", "waiting"} \cup Holding) # {} => ctx.index = Len(ctx.journal)

\* "completed agent() calls replay from the journal instantly" (WorkflowTool.ts:44):
\* a resumed script never throws away the recorded result of a call it still makes.
CompletedCallsReplay ==
  [][\A f \in Fibers : pc[f] = "ready" /\ pc'[f] = "truncating" =>
       \A i \in ctx.index + 1 .. Len(ctx.journal), g \in Fibers :
         ctx.journal[i].key \notin Range(script[g])]_vars

\* ... and so never runs an agent whose result is in the file.
DurableCallsNotRerun ==
  [][\A f \in Fibers : pc[f] = "granted" /\ pc'[f] = "first" =>
       \A i \in DOMAIN disk : disk[i].seq # call[f].seq]_vars

\* "Divergence: discard subsequent journal entries" (hooks.ts:86): the entries that
\* were replayed before it stay in the file.
PrefixSurvivesDivergence ==
  [][\A f \in Fibers : pc[f] = "truncating" /\ pc'[f] # "truncating" =>
       Range(disk) \cap Range(ctx.journal) \subseteq Range(disk')]_vars

\* MAX_TOTAL_AGENTS is the "Total cap on agent() calls within a single workflow
\* lifecycle" (constants.ts:28).
AgentCap == res.agentCount <= MaxTotalAgents

\* "must rethrow WorkflowAbortedError ..., otherwise hooks.agent will swallow the
\* abort ..., and the workflow won't know it was killed" (claudeCodeBackend.ts:328):
\* a run that had a call rejected by the kill is not reported as completed.
KillIsReported == status = "completed" => InState({"killed"}) = {}

\* "both get one retry chance" (hooks.ts:166): no agent is invoked a third time.
RetriedOnce == InState({"third"}) = {}

\* Aborting one agent "does not affect other agents in the same run; workflow keeps
\* running" (service.ts:74): only the kill of the run ends it as killed.
AgentKillKeepsRun == status = "killed" => aborted

\* Every run ends, if the agents do: no permit and no waiter is left behind.
RunEnds == BackendFairness => (status = "running" ~> status # "running")

\* A killed run ends even if no agent would ever finish.
KilledRunEnds == aborted /\ status = "running" ~> status # "running"
================================================================================
