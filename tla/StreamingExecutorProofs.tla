------------------------ MODULE StreamingExecutorProofs ------------------------
(***************************************************************************)
(* StreamingExecutor implements ToolDiscipline: for every number of calls  *)
(* and mix of tools, and whatever aborts, failures, progress and dawdling  *)
(* of the consumer come in between, the tools start in order, an unsafe    *)
(* one alone, and none twice.                                              *)
(*                                                                         *)
(* The argument: the tools before the first queued one have all been       *)
(* started, because the blocks arrive in order and, once an aborted query  *)
(* has skipped a block, it adds no more of them.                           *)
(*                                                                         *)
(* The last part is about the results: each call has one when the drain is *)
(* over, and that of an unsafe tool comes before those of the tools behind *)
(* it.                                                                     *)
(***************************************************************************)
EXTENDS StreamingExecutor, SequenceTheorems, TLAPS

Statuses == {"absent", "skipped", "queued", "executing", "completed", "yielded"}

\* Blocks arrive in order, and none is added behind one that was skipped.
Arrivals ==
  \A u, t \in Tools : u < t =>
    /\ status[u] = "absent" => status[t] = "absent"
    /\ status[u] = "skipped" => status[t] \in {"absent", "skipped"}

\* A block is skipped by an aborted query only, and an abort is for good.
SkippedByAbort == \A t \in Tools : status[t] = "skipped" => aborted

ArrivalInv ==
  /\ kind \in [Tools -> Kinds] /\ status \in [Tools -> Statuses] /\ aborted \in BOOLEAN
  /\ Arrivals /\ SkippedByAbort

--------------------------------------------------------------------------------

\* The actions that neither add, start nor finish a tool.
Quietly ==
  \/ QueueDone \/ ConsumerBack \/ CollectEnds \/ EndStream \/ DrainCheck \/ DrainCollect
  \/ DrainDecide \/ YieldProgress \/ Receive \/ Message \/ StreamFails \/ ImageFails
  \/ \E t \in Tools : Progress(t) \/ ToolErrs(t)

\* ... leave alone what ArrivalInv is about.
LEMMA QuietlyKeeps == Quietly => UNCHANGED <<kind, status, aborted>>
BY DEF Quietly, QueueDone, ConsumerBack, CollectEnds, EndStream, DrainCheck, DrainCollect,
       DrainDecide, YieldProgress, Receive, Message, StreamFails, ImageFails, Progress, ToolErrs

\* A step adds a tool, starts one, finishes one, yields a result, or does none of these.
LEMMA StepKinds ==
  Next => \/ AddTool \/ StartTool \/ YieldResult \/ Abort \/ Quietly
          \/ \E t \in Tools, own \in {"ok", "error"} : Complete(t, own)
BY DEF Next, Executor, Query, Quietly, ToolEnds, ToolFails, ToolInvalid

\* The first of a set of tools is one, and no later than any other.
LEMMA FirstIsLeast ==
  ASSUME NEW S, NEW t \in Tools, First(S, t)
  PROVE  t \in S /\ \A u \in S : t <= u
BY DEF First

--------------------------------------------------------------------------------

\* The blocks reach the executor in order, and an abort cuts them off for good.
THEOREM ArrivalsInOrder == Spec => []ArrivalInv
<1>1. Init => ArrivalInv
  BY ExecutorAssumption
  DEF Init, ArrivalInv, Arrivals, SkippedByAbort, Statuses
<1>2. ArrivalInv /\ [Next]_vars => ArrivalInv'
  <2> SUFFICES ASSUME ArrivalInv, [Next]_vars PROVE ArrivalInv'
    OBVIOUS
  <2>1. CASE AddTool
    <3>1. PICK t \in Tools : First(In({"absent"}), t) /\
            status' = [status EXCEPT ![t] = IF aborted THEN "skipped"
                                            ELSE IF kind[t] = "unknown" THEN "completed"
                                            ELSE "queued"]
      BY <2>1 DEF AddTool
    <3>2. UNCHANGED <<kind, aborted>>
      BY <2>1 DEF AddTool
    <3>3. status[t] = "absent" /\ \A u \in Tools : status[u] = "absent" => t <= u
      BY <3>1, FirstIsLeast DEF In
    <3>4. \A u \in Tools : u < t => status[u] # "absent"
      BY <3>3 DEF Tools
    <3>5. \A u \in Tools : t < u => status[u] = "absent"
      BY <3>3 DEF ArrivalInv, Arrivals
    <3>6. status' \in [Tools -> Statuses]
      BY <3>1 DEF ArrivalInv, Statuses
    <3>7. SkippedByAbort'
      BY <3>1, <3>2 DEF ArrivalInv, SkippedByAbort
    <3>8. Arrivals'
      <4> SUFFICES ASSUME NEW u \in Tools, NEW v \in Tools, u < v
                   PROVE  /\ status'[u] = "absent" => status'[v] = "absent"
                          /\ status'[u] = "skipped" => status'[v] \in {"absent", "skipped"}
        BY DEF Arrivals
      <4>1. CASE v = t
        BY <4>1, <3>1, <3>4 DEF ArrivalInv, SkippedByAbort, Tools, Statuses
      <4>2. CASE u = t
        BY <4>2, <3>1, <3>5 DEF ArrivalInv, Tools, Statuses
      <4>3. CASE u # t /\ v # t
        BY <4>3, <3>1 DEF ArrivalInv, Arrivals, Statuses
      <4> QED
        BY <4>1, <4>2, <4>3
    <3> QED
      BY <3>2, <3>6, <3>7, <3>8 DEF ArrivalInv
  <2>2. CASE StartTool
    BY <2>2 DEF StartTool, NextTool, First, In, ArrivalInv, Arrivals, SkippedByAbort, Statuses
  <2>3. CASE YieldResult
    BY <2>3 DEF YieldResult, ArrivalInv, Arrivals, SkippedByAbort, Statuses
  <2>4. ASSUME NEW t \in Tools, NEW own \in {"ok", "error"}, Complete(t, own)
        PROVE  ArrivalInv'
    BY <2>4 DEF Complete, ArrivalInv, Arrivals, SkippedByAbort, Statuses
  <2>5. CASE Abort
    BY <2>5 DEF Abort, ArrivalInv, Arrivals, SkippedByAbort
  <2>6. CASE Quietly \/ UNCHANGED vars
    <3>1. UNCHANGED <<kind, status, aborted>>
      BY <2>6, QuietlyKeeps DEF vars
    <3> QED
      BY <3>1 DEF ArrivalInv, Arrivals, SkippedByAbort
  <2> QED
    BY <2>1, <2>2, <2>3, <2>4, <2>5, <2>6, StepKinds
<1> QED
  BY <1>1, <1>2, PTL DEF Spec

--------------------------------------------------------------------------------

\* The tools before the first queued one have all been started or answered.
LEMMA FirstQueuedInTurn ==
  ASSUME ArrivalInv, NEW t \in Tools, NextTool(t)
  PROVE  Discipline!InTurn(t) /\ Progressed[t] = "waiting"
<1>1. status[t] = "queued" /\ \A u \in Tools : status[u] = "queued" => t <= u
  BY FirstIsLeast DEF NextTool, In
<1>2. ASSUME NEW u \in 1 .. t - 1 PROVE Progressed[u] # "waiting"
  <2>1. u \in Tools /\ u < t
    BY ExecutorAssumption DEF Tools
  <2>2. status[u] \notin {"absent", "skipped", "queued"}
    BY <1>1, <2>1 DEF ArrivalInv, Arrivals, Tools
  <2> QED
    BY <2>1, <2>2 DEF ArrivalInv, Statuses, Progressed
<1> QED
  BY <1>1, <1>2 DEF Discipline!InTurn, Progressed

\* What the discipline calls running is what executes.
LEMMA RunningIsExecuting ==
  \A t \in Tools : Progressed[t] = "running" <=> t \in Executing
BY DEF Progressed, Executing, In

\* Every step of the executor is a step of the discipline, or none of its business.
LEMMA StepImplements ==
  ASSUME ArrivalInv, [Next]_vars
  PROVE  [Discipline!Next]_(Discipline!vars)
<1>1. CASE AddTool
  <2>1. PICK t \in Tools : First(In({"absent"}), t) /\
          status' = [status EXCEPT ![t] = IF aborted THEN "skipped"
                                          ELSE IF kind[t] = "unknown" THEN "completed"
                                          ELSE "queued"]
    BY <1>1 DEF AddTool
  <2>2. status[t] = "absent" /\ UNCHANGED kind
    BY <1>1, <2>1, FirstIsLeast DEF AddTool, In
  <2>3. CASE ~ aborted /\ kind[t] = "unknown"
    <3>1. Progressed' = [Progressed EXCEPT ![t] = "finished"] /\ Progressed[t] = "waiting"
      BY <2>1, <2>2, <2>3 DEF Progressed, ArrivalInv
    <3>2. Discipline!Refuse(t)
      BY <2>2, <2>3, <3>1 DEF Discipline!Refuse
    <3> QED
      BY <3>2 DEF Discipline!Next, Discipline!Tools, Tools
  <2>4. CASE ~ (~ aborted /\ kind[t] = "unknown")
    <3>1. Progressed' = Progressed
      BY <2>1, <2>2, <2>4 DEF Progressed, ArrivalInv
    <3> QED
      BY <2>2, <3>1 DEF Discipline!vars
  <2> QED
    BY <2>3, <2>4
<1>2. CASE StartTool
  <2>1. PICK t \in Tools : /\ NextTool(t) /\ CanExecute(t)
                           /\ status' = [status EXCEPT ![t] = IF aborted \/ errored
                                           THEN "completed" ELSE "executing"]
    BY <1>2 DEF StartTool
  <2>2. Discipline!InTurn(t) /\ Progressed[t] = "waiting" /\ UNCHANGED kind
    BY <1>2, <2>1, FirstQueuedInTurn DEF StartTool
  <2>3. CASE aborted \/ errored
    <3>1. Progressed' = [Progressed EXCEPT ![t] = "finished"]
      BY <2>1, <2>3 DEF Progressed, ArrivalInv
    <3>2. Discipline!Refuse(t)
      BY <2>2, <3>1 DEF Discipline!Refuse
    <3> QED
      BY <3>2 DEF Discipline!Next, Discipline!Tools, Tools
  <2>4. CASE ~ (aborted \/ errored)
    <3>1. Progressed' = [Progressed EXCEPT ![t] = "running"]
      BY <2>1, <2>4 DEF Progressed, ArrivalInv
    <3>2. Discipline!Running = Executing
      BY RunningIsExecuting DEF Discipline!Running, Discipline!Tools, Tools, Executing, In
    <3>3. Executing # {} => kind[t] \in SafeKind /\ \A u \in Executing : kind[u] \in SafeKind
      BY <2>1 DEF CanExecute
    <3>4. Discipline!Start(t)
      BY <2>2, <3>1, <3>2, <3>3 DEF Discipline!Start, Discipline!SafeKind, SafeKind
    <3> QED
      BY <3>4 DEF Discipline!Next, Discipline!Tools, Tools
  <2> QED
    BY <2>3, <2>4
<1>3. ASSUME NEW t \in Tools, NEW own \in {"ok", "error"}, Complete(t, own)
      PROVE  [Discipline!Next]_(Discipline!vars)
  <2>1. Progressed' = [Progressed EXCEPT ![t] = "finished"] /\ Progressed[t] = "running"
    BY <1>3 DEF Complete, Progressed, ArrivalInv
  <2>2. Discipline!Finish(t)
    BY <1>3, <2>1 DEF Complete, Discipline!Finish
  <2> QED
    BY <2>2 DEF Discipline!Next, Discipline!Tools, Tools
<1>4. CASE YieldResult
  <2>1. UNCHANGED kind /\ Progressed' = Progressed
    BY <1>4 DEF YieldResult, Progressed, ArrivalInv
  <2> QED
    BY <2>1 DEF Discipline!vars
<1>5. CASE Abort \/ Quietly \/ UNCHANGED vars
  <2>1. UNCHANGED <<kind, status>>
    BY <1>5, QuietlyKeeps DEF Abort, vars
  <2> QED
    BY <2>1 DEF Discipline!vars, Progressed
<1> QED
  BY <1>1, <1>2, <1>3, <1>4, <1>5, StepKinds

\* The streaming executor runs the tools of a turn by the discipline.
THEOREM Refinement == Spec => ImplementsDiscipline
<1>1. Init => Discipline!Init
  BY ExecutorAssumption
  DEF Init, Discipline!Init, Discipline!Tools, Discipline!Kinds, Tools, Kinds, Progressed
<1> QED
  BY <1>1, ArrivalsInOrder, StepImplements, PTL DEF Spec, ImplementsDiscipline, Discipline!Spec

--------------------------------------------------------------------------------

\* What the discipline promises, for the tools as it sees them.

\* The kinds and the states of the tools keep their types.
THEOREM DisciplineTypes == Discipline!Spec => []Discipline!TypeOK
<1> USE DEF Discipline!TypeOK, Discipline!Tools
<1>1. Discipline!Init => Discipline!TypeOK
  BY DEF Discipline!Init
<1>2. Discipline!TypeOK /\ [Discipline!Next]_(Discipline!vars) => Discipline!TypeOK'
  <2> SUFFICES ASSUME Discipline!TypeOK, [Discipline!Next]_(Discipline!vars)
               PROVE  Discipline!TypeOK'
    OBVIOUS
  <2> DEFINE state == Progressed
  <2>1. kind \in [1 .. N -> Discipline!Kinds]
        /\ state \in [1 .. N -> {"waiting", "running", "finished"}]
    OBVIOUS
  <2> HIDE DEF state
  <2>2. ASSUME NEW t \in 1 .. N, Discipline!Start(t) \/ Discipline!Finish(t) \/ Discipline!Refuse(t)
        PROVE  kind' = kind
               /\ \E s \in {"running", "finished"} : state' = [state EXCEPT ![t] = s]
    BY <2>2 DEF Discipline!Start, Discipline!Finish, Discipline!Refuse, state
  <2>3. kind' \in [1 .. N -> Discipline!Kinds]
        /\ state' \in [1 .. N -> {"waiting", "running", "finished"}]
    <3>1. CASE Discipline!Next
      <4>1. PICK t \in 1 .. N : Discipline!Start(t) \/ Discipline!Finish(t) \/ Discipline!Refuse(t)
        BY <3>1 DEF Discipline!Next
      <4> QED
        BY <2>1, <2>2, <4>1
    <3>2. CASE UNCHANGED Discipline!vars
      BY <2>1, <3>2 DEF Discipline!vars, state
    <3> QED
      BY <3>1, <3>2
  <2> QED
    BY <2>3 DEF state
<1> QED
  BY <1>1, <1>2, PTL DEF Discipline!Spec

\* A tool that is not concurrency safe runs alone, in every state.
THEOREM RunsAlone == Discipline!Spec => []Discipline!Exclusive
<1> USE DEF Discipline!Tools
<1>1. Discipline!Init => Discipline!Exclusive
  BY DEF Discipline!Init, Discipline!Exclusive, Discipline!Running
<1>2. Discipline!TypeOK /\ Discipline!Exclusive /\ [Discipline!Next]_(Discipline!vars)
        => Discipline!Exclusive'
  <2> SUFFICES ASSUME Discipline!TypeOK, Discipline!Exclusive, [Discipline!Next]_(Discipline!vars)
               PROVE  Discipline!Exclusive'
    OBVIOUS
  <2> DEFINE state == Progressed
  <2>1. /\ state \in [1 .. N -> {"waiting", "running", "finished"}]
        /\ \A t, u \in 1 .. N : state[t] = "running" /\ state[u] = "running" /\ t # u
                                  => kind[t] \in Discipline!SafeKind
    BY DEF Discipline!TypeOK, Discipline!Exclusive, Discipline!Running
  <2> HIDE DEF state
  <2>2. ASSUME NEW t \in 1 .. N, Discipline!Start(t)
        PROVE  /\ kind' = kind /\ state' = [state EXCEPT ![t] = "running"]
               /\ \A u \in 1 .. N : state[u] = "running" =>
                    kind[t] \in Discipline!SafeKind /\ kind[u] \in Discipline!SafeKind
    BY <2>2 DEF Discipline!Start, Discipline!Running, state
  <2>3. ASSUME NEW t \in 1 .. N, Discipline!Finish(t) \/ Discipline!Refuse(t)
        PROVE  kind' = kind /\ state' = [state EXCEPT ![t] = "finished"]
    BY <2>3 DEF Discipline!Finish, Discipline!Refuse, state
  <2>4. \A t, u \in 1 .. N : state'[t] = "running" /\ state'[u] = "running" /\ t # u
                               => kind'[t] \in Discipline!SafeKind
    <3>1. ASSUME NEW s \in 1 .. N, Discipline!Start(s)
          PROVE  \A t, u \in 1 .. N : state'[t] = "running" /\ state'[u] = "running" /\ t # u
                                        => kind'[t] \in Discipline!SafeKind
      BY <2>1, <2>2, <3>1
    <3>2. ASSUME NEW s \in 1 .. N, Discipline!Finish(s) \/ Discipline!Refuse(s)
          PROVE  \A t, u \in 1 .. N : state'[t] = "running" /\ state'[u] = "running" /\ t # u
                                        => kind'[t] \in Discipline!SafeKind
      BY <2>1, <2>3, <3>2
    <3>3. CASE UNCHANGED Discipline!vars
      BY <2>1, <3>3 DEF Discipline!vars, state
    <3> QED
      BY <3>1, <3>2, <3>3 DEF Discipline!Next
  <2> QED
    BY <2>4 DEF Discipline!Exclusive, Discipline!Running, Discipline!SafeKind, state
<1> QED
  BY <1>1, <1>2, DisciplineTypes, PTL DEF Discipline!Spec

\* So the executor never has an unsafe tool executing beside another tool, whatever
\* aborts, failures, progress and dawdling of the consumer come in between.
THEOREM UnsafeRunsAlone == Spec => [](\A t, u \in Executing : t # u => kind[t] \in SafeKind)
<1>1. Discipline!Exclusive => \A t, u \in Executing : t # u => kind[t] \in SafeKind
  BY RunningIsExecuting
  DEF Discipline!Exclusive, Discipline!Running, Discipline!Tools, Discipline!SafeKind, SafeKind,
      Executing, In, Tools
<1> QED
  BY <1>1, Refinement, RunsAlone, PTL DEF ImplementsDiscipline

--------------------------------------------------------------------------------

\* The results.

\* A tool that was started, or answered in place of that.
Started == In({"executing", "completed", "yielded"})

\* A result is one message; what was handed out has been yielded.
ResultInv ==
  /\ progress \subseteq Started
  /\ loop # "failed" => \A t \in Tools : answers[t] = IF status[t] = "yielded" THEN 1 ELSE 0
  /\ loop = "over" => In({"queued", "executing", "completed"}) = {}
  /\ \A i \in 1 .. Len(emitted) : status[emitted[i]] = "yielded"

\* An unsafe tool has ended before one behind it starts, and getCompletedResults() does
\* not go past it before its result is out.
BarrierInv ==
  /\ \A t \in Tools : kind[t] # "unknown"
  /\ \A t, u \in Tools : t < u /\ kind[t] \notin SafeKind =>
       /\ u \in Started => status[t] \in {"completed", "yielded"}
       /\ status[u] = "yielded" => status[t] = "yielded"
  /\ \A t \in Tools : kind[t] \notin SafeKind /\ status[t] # "yielded" => pos <= t
  /\ BarrierOrder

\* The actions that change no tool's status and hand out no result.
Still ==
  \/ Receive \/ Message \/ Abort \/ QueueDone \/ ConsumerBack \/ CollectEnds \/ EndStream
  \/ DrainCollect \/ DrainDecide \/ YieldProgress \/ \E t \in Tools : Progress(t)

\* What cuts the turn short or its siblings off: neither hands out a result.
Cut == ImageFails \/ \E t \in Tools : ToolErrs(t)

\* Every step is one of these.
LEMMA StepCases ==
  Next => \/ AddTool \/ StartTool \/ YieldResult \/ Still \/ DrainCheck \/ StreamFails \/ Cut
          \/ \E t \in Tools, own \in {"ok", "error"} : ~ Over /\ Complete(t, own)
BY DEF Next, Executor, Query, Still, Cut, ToolEnds, ToolFails, ToolInvalid

LoopStates == {"await", "shown", "collect", "given", "check", "process", "decide",
               "wait", "over", "failed"}

\* The types, with the Boolean variables one by one.
LEMMA Types ==
  TypeOK <=> /\ kind \in [Tools -> Kinds] /\ status \in [Tools -> Statuses]
             /\ progress \subseteq Tracked
             /\ errored \in BOOLEAN /\ aborted \in BOOLEAN
             /\ due \in BOOLEAN /\ draining \in BOOLEAN
             /\ loop \in LoopStates
             /\ pos \in 1 .. N + 1 /\ answers \in [Tools -> Nat] /\ emitted \in Seq(Tools)
BY DEF TypeOK, Statuses, LoopStates

\* What AddTool, StartTool and Complete have in common: they move one tool on.
LEMMA OneMoves ==
  ASSUME TypeOK, NEW t \in Tools, NEW s \in Statuses, status' = [status EXCEPT ![t] = s],
         s \in {"absent", "skipped"} => status[t] = "absent"
  PROVE  /\ status' \in [Tools -> Statuses]
         /\ \A u \in Tools : status'[u] = IF u = t THEN s ELSE status[u]
         /\ t \in Tracked => Tracked \subseteq Tracked'
         /\ Tracked \ {t} \subseteq Tracked'
BY DEF TypeOK, Statuses, Tracked, In

\* A tool is added in the order of the blocks.
LEMMA AddDoes ==
  ASSUME TypeOK, AddTool
  PROVE  /\ loop = "shown" /\ loop' \in {"await", "collect"} /\ pos' = 1
         /\ UNCHANGED <<kind, progress, errored, aborted, draining, answers, emitted>>
         /\ due' \in BOOLEAN
         /\ \E t \in Tools, s \in {"skipped", "completed", "queued"} :
              /\ status[t] = "absent" /\ status' = [status EXCEPT ![t] = s]
              /\ s = "completed" => kind[t] = "unknown"
<1>1. PICK t \in Tools :
        /\ First(In({"absent"}), t)
        /\ status' = [status EXCEPT ![t] = IF aborted THEN "skipped"
                                           ELSE IF kind[t] = "unknown" THEN "completed"
                                           ELSE "queued"]
        /\ due' = (due \/ (~ aborted /\ kind[t] # "unknown"))
  BY DEF AddTool
<1>2. status[t] = "absent"
  BY <1>1 DEF First, In
<1>3. due' \in BOOLEAN
  BY <1>1
<1>4. \E s \in {"skipped", "completed", "queued"} :
        status' = [status EXCEPT ![t] = s] /\ (s = "completed" => kind[t] = "unknown")
  BY <1>1
<1>5. /\ loop = "shown" /\ loop' \in {"await", "collect"} /\ pos' = 1
      /\ UNCHANGED <<kind, progress, errored, aborted, draining, answers, emitted>>
  BY DEF AddTool
<1> QED
  BY <1>2, <1>3, <1>4, <1>5

\* The first queued tool starts, or is answered, if no unsafe one stands in the way.
LEMMA StartDoes ==
  ASSUME TypeOK, StartTool
  PROVE  /\ UNCHANGED <<kind, progress, errored, aborted, due, loop, pos, draining, answers>>
         /\ emitted' = emitted
         /\ \E t \in Tools, s \in {"executing", "completed"} :
              /\ NextTool(t) /\ CanExecute(t)
              /\ status[t] = "queued" /\ status' = [status EXCEPT ![t] = s]
<1>1. PICK t \in Tools : /\ NextTool(t) /\ CanExecute(t)
                         /\ status' = [status EXCEPT ![t] = IF aborted \/ errored THEN "completed"
                                                            ELSE "executing"]
  BY DEF StartTool
<1>2. status[t] = "queued"
  BY <1>1 DEF NextTool, First, In
<1>3. \E s \in {"executing", "completed"} : status' = [status EXCEPT ![t] = s]
  BY <1>1
<1> QED
  BY <1>1, <1>2, <1>3 DEF StartTool

\* A tool ends.
LEMMA CompleteDoes ==
  ASSUME TypeOK, NEW t \in Tools, NEW own, Complete(t, own), ~ Over
  PROVE  /\ status[t] = "executing" /\ status' = [status EXCEPT ![t] = "completed"]
         /\ loop' \in {loop, "check"} /\ loop' \in LoopStates /\ loop' \notin {"over", "failed"}
         /\ errored' \in BOOLEAN /\ due' \in BOOLEAN
         /\ UNCHANGED <<kind, progress, aborted, pos, draining, answers, emitted>>
<1>1. loop \in LoopStates
  BY Types
<1>2. errored' \in BOOLEAN /\ due' \in BOOLEAN
  BY DEF Complete
<1>3. loop' \in {loop, "check"} /\ loop' \in LoopStates /\ loop' \notin {"over", "failed"}
  BY <1>1 DEF Complete, Awake, Over, LoopStates
<1> QED
  BY <1>2, <1>3 DEF Complete

\* A result is handed out: that of the first tool that stops the collection.
LEMMA YieldDoes ==
  ASSUME TypeOK, YieldResult
  PROVE  /\ loop = "collect" /\ loop' = "given"
         /\ UNCHANGED <<kind, progress, errored, aborted, due, draining>>
         /\ \E t \in Tools :
              /\ First(Stops, t) /\ status[t] = "completed"
              /\ status' = [status EXCEPT ![t] = "yielded"]
              /\ answers' = [answers EXCEPT ![t] = answers[t] + 1] /\ emitted' = Append(emitted, t)
              /\ pos' = t + 1
BY DEF YieldResult

\* The other steps.
LEMMA StillDoes ==
  ASSUME TypeOK, Still
  PROVE  /\ UNCHANGED <<kind, status, errored, answers, emitted>>
         /\ aborted' \in BOOLEAN /\ due' \in BOOLEAN /\ draining' \in BOOLEAN
         /\ loop' \in LoopStates
         /\ loop' = "over" => loop = "over"
         /\ loop' = "failed" <=> loop = "failed"
         /\ \/ progress' \subseteq progress
            \/ \E t \in Tools : progress' = progress \cup {t} /\ status[t] = "executing"
         /\ \/ pos' \in {pos, 1}
            \/ \E t \in Tools : First(Stops, t) /\ t \in progress /\ pos' = t
<1> USE Types
<1>1. CASE Receive \/ Message \/ Abort \/ QueueDone \/ ConsumerBack \/ EndStream \/ DrainCollect
  BY <1>1 DEF Receive, Message, Abort, QueueDone, ConsumerBack, EndStream, DrainCollect, LoopStates
<1>2. CASE CollectEnds \/ DrainDecide
  BY <1>2 DEF CollectEnds, DrainDecide, LoopStates
<1>3. CASE YieldProgress
  BY <1>3 DEF YieldProgress, LoopStates
<1>4. ASSUME NEW t \in Tools, Progress(t)
      PROVE  /\ UNCHANGED <<kind, status, errored, aborted, due, pos, draining, answers, emitted>>
             /\ status[t] = "executing" /\ progress' = progress \cup {t}
             /\ loop' \in LoopStates /\ loop' \in {loop, "check"} /\ loop \notin {"over", "failed"}
  BY <1>4 DEF Progress, Awake, Over, LoopStates
<1> QED
  BY <1>1, <1>2, <1>3, <1>4 DEF Still

\* The image error ends the turn, an error message sets the flag; that is all.
LEMMA CutDoes ==
  ASSUME Cut
  PROVE  /\ UNCHANGED <<kind, status, progress, aborted, due, pos, draining, answers, emitted>>
         /\ \/ loop' = "failed" /\ errored' = errored
            \/ loop' = loop /\ errored' = TRUE
BY DEF Cut, ImageFails, ToolErrs

\* The types are kept.
LEMMA TypesKept == TypeOK /\ [Next]_vars => TypeOK'
<1> SUFFICES ASSUME TypeOK, [Next]_vars PROVE TypeOK'
  OBVIOUS
<1>0. /\ kind \in [Tools -> Kinds] /\ status \in [Tools -> Statuses] /\ progress \subseteq Tracked
      /\ errored \in BOOLEAN /\ aborted \in BOOLEAN /\ due \in BOOLEAN /\ draining \in BOOLEAN
      /\ loop \in LoopStates
      /\ pos \in 1 .. N + 1 /\ answers \in [Tools -> Nat] /\ emitted \in Seq(Tools)
  BY Types
<1> DEFINE Typed ==
      /\ kind' \in [Tools -> Kinds] /\ status' \in [Tools -> Statuses]
      /\ progress' \subseteq Tracked'
      /\ errored' \in BOOLEAN /\ aborted' \in BOOLEAN /\ due' \in BOOLEAN /\ draining' \in BOOLEAN
      /\ loop' \in LoopStates
      /\ pos' \in 1 .. N + 1 /\ answers' \in [Tools -> Nat] /\ emitted' \in Seq(Tools)
<1>1. SUFFICES Typed
  BY DEF TypeOK, Statuses, LoopStates
<1>2. CASE AddTool
  <2>1. PICK t \in Tools, s \in {"skipped", "completed", "queued"} :
          status[t] = "absent" /\ status' = [status EXCEPT ![t] = s]
    BY <1>2, AddDoes
  <2>2. status' \in [Tools -> Statuses] /\ Tracked \ {t} \subseteq Tracked' /\ s \in Statuses
    BY <2>1, OneMoves DEF Statuses
  <2>3. t \notin Tracked
    BY <2>1 DEF Tracked, In
  <2>4. 1 \in 1 .. N + 1
    BY ExecutorAssumption
  <2> QED
    BY <1>0, <1>2, <2>2, <2>3, <2>4, AddDoes DEF LoopStates
<1>3. CASE StartTool
  <2>1. PICK t \in Tools, s \in {"executing", "completed"} :
          status[t] = "queued" /\ status' = [status EXCEPT ![t] = s]
    BY <1>3, StartDoes
  <2>2. t \in Tracked /\ s \in Statuses
    BY <2>1 DEF Tracked, In, Statuses
  <2>3. status' \in [Tools -> Statuses] /\ Tracked \subseteq Tracked'
    BY <2>1, <2>2, OneMoves
  <2> QED
    BY <1>0, <1>3, <2>3, StartDoes
<1>4. ASSUME NEW t \in Tools, NEW own, Complete(t, own), ~ Over PROVE Typed
  <2>1. status[t] = "executing" /\ status' = [status EXCEPT ![t] = "completed"]
    BY <1>4, CompleteDoes
  <2>2. t \in Tracked /\ "completed" \in Statuses
    BY <2>1 DEF Tracked, In, Statuses
  <2>3. status' \in [Tools -> Statuses] /\ Tracked \subseteq Tracked'
    BY <2>1, <2>2, OneMoves
  <2>4. /\ loop' \in LoopStates /\ errored' \in BOOLEAN /\ due' \in BOOLEAN
        /\ UNCHANGED <<kind, progress, aborted, pos, draining, answers, emitted>>
    BY <1>4, CompleteDoes
  <2> QED
    BY <1>0, <2>3, <2>4
<1>5. CASE YieldResult
  <2>1. PICK t \in Tools :
          /\ status[t] = "completed" /\ status' = [status EXCEPT ![t] = "yielded"]
          /\ answers' = [answers EXCEPT ![t] = answers[t] + 1] /\ emitted' = Append(emitted, t)
          /\ pos' = t + 1
    BY <1>5, YieldDoes
  <2>2. t \in Tracked /\ "yielded" \in Statuses
    BY <2>1 DEF Tracked, In, Statuses
  <2>3. status' \in [Tools -> Statuses] /\ Tracked \subseteq Tracked'
    BY <2>1, <2>2, OneMoves
  <2>4. emitted' \in Seq(Tools)
    BY <1>0, <2>1, AppendProperties
  <2>5. answers' \in [Tools -> Nat]
    BY <1>0, <2>1
  <2>6. pos' \in 1 .. N + 1
    BY <2>1, ExecutorAssumption DEF Tools
  <2> QED
    BY <1>0, <1>5, <2>3, <2>4, <2>5, <2>6, YieldDoes DEF LoopStates
<1>6. CASE Still
  <2>1. UNCHANGED <<kind, status, errored, answers, emitted>> /\ Tracked' = Tracked
    BY <1>6, StillDoes DEF Tracked, In
  <2>2. progress' \subseteq Tracked
    <3>1. \A t \in Tools : status[t] = "executing" => t \in Tracked
      BY DEF Tracked, In
    <3> QED
      BY <1>0, <1>6, <3>1, StillDoes
  <2>3. pos' \in 1 .. N + 1
    BY <1>0, <1>6, StillDoes, ExecutorAssumption DEF Tools
  <2> QED
    BY <1>0, <1>6, <2>1, <2>2, <2>3, StillDoes
<1>7. CASE DrainCheck
  <2>1. UNCHANGED <<kind, status, progress, errored, aborted, pos, draining, answers, emitted>>
        /\ loop' \in {"over", "process"} /\ due' \in {due, TRUE}
    BY <1>7 DEF DrainCheck
  <2> QED
    BY <1>0, <2>1 DEF LoopStates, Tracked, In
<1>8. CASE StreamFails
  <2>1. UNCHANGED <<kind, status, progress, errored, aborted, due, pos, draining, emitted>>
        /\ loop' = "failed"
        /\ answers' = [t \in Tools |-> IF status[t] = "absent" THEN 0 ELSE answers[t] + 1]
    BY <1>8 DEF StreamFails
  <2>2. answers' \in [Tools -> Nat]
    BY <1>0, <2>1
  <2> QED
    BY <1>0, <2>1, <2>2 DEF LoopStates, Tracked, In
<1>9. CASE UNCHANGED vars
  BY <1>0, <1>9 DEF vars, Tracked, In
<1>10. CASE Cut
  BY <1>0, <1>10, CutDoes DEF LoopStates, Tracked, In
<1> QED
  BY <1>2, <1>3, <1>4, <1>5, <1>6, <1>7, <1>8, <1>9, <1>10, StepCases

\* Each result is one message, and the turn is over when all are out.
LEMMA ResultsKept == TypeOK /\ ResultInv /\ [Next]_vars => ResultInv'
<1> SUFFICES ASSUME TypeOK, ResultInv, [Next]_vars PROVE ResultInv'
  OBVIOUS
<1>0. /\ status \in [Tools -> Statuses] /\ answers \in [Tools -> Nat] /\ emitted \in Seq(Tools)
      /\ progress \subseteq Started
      /\ Len(emitted) \in Nat /\ \A i \in 1 .. Len(emitted) : emitted[i] \in Tools
  BY Types, LenProperties, ElementOfSeq DEF ResultInv
<1>1. ASSUME NEW t \in Tools, NEW s \in Statuses, status' = [status EXCEPT ![t] = s],
             status[t] # "yielded", s # "yielded",
             s \in {"absent", "skipped", "queued"} => t \notin Started,
             progress' = progress, answers' = answers, emitted' = emitted,
             loop' \notin {"over", "failed"}, loop # "failed"
      PROVE  ResultInv'
  <2>1. \A u \in Tools : status'[u] = IF u = t THEN s ELSE status[u]
    BY <1>0, <1>1
  <2>2. progress' \subseteq Started'
    BY <1>0, <1>1, <2>1 DEF Started, In, Statuses
  <2>3. \A u \in Tools : answers'[u] = IF status'[u] = "yielded" THEN 1 ELSE 0
    BY <1>1, <2>1 DEF ResultInv
  <2>4. \A i \in 1 .. Len(emitted') : status'[emitted'[i]] = "yielded"
    BY <1>0, <1>1, <2>1 DEF ResultInv
  <2> QED
    BY <1>1, <2>2, <2>3, <2>4 DEF ResultInv
<1>2. CASE AddTool
  <2>1. PICK t \in Tools, s \in {"skipped", "completed", "queued"} :
          status[t] = "absent" /\ status' = [status EXCEPT ![t] = s]
    BY <1>2, AddDoes
  <2>2. t \notin Started /\ s \in Statuses /\ loop' \notin {"over", "failed"} /\ loop # "failed"
        /\ progress' = progress /\ answers' = answers /\ emitted' = emitted
    BY <1>2, <2>1, AddDoes DEF Started, In, Statuses
  <2> QED
    BY <1>1, <2>1, <2>2
<1>3. CASE StartTool
  <2>1. PICK t \in Tools, s \in {"executing", "completed"} :
          status[t] = "queued" /\ status' = [status EXCEPT ![t] = s]
    BY <1>3, StartDoes
  <2>2. UNCHANGED <<progress, loop, answers, emitted>>
    BY <1>3, StartDoes
  <2>3. \A u \in Tools : status'[u] = IF u = t THEN s ELSE status[u]
    BY <1>0, <2>1
  <2>4. loop # "over"
    BY <2>1 DEF ResultInv, In
  <2>5. progress' \subseteq Started'
    BY <1>0, <2>1, <2>2, <2>3 DEF Started, In
  <2>6. \A i \in 1 .. Len(emitted') : status'[emitted'[i]] = "yielded"
    BY <1>0, <2>1, <2>2, <2>3 DEF ResultInv
  <2>7. loop' # "failed" => \A u \in Tools : answers'[u] = IF status'[u] = "yielded" THEN 1 ELSE 0
    BY <2>1, <2>2, <2>3 DEF ResultInv
  <2> QED
    BY <2>2, <2>4, <2>5, <2>6, <2>7 DEF ResultInv
<1>4. ASSUME NEW t \in Tools, NEW own, Complete(t, own), ~ Over PROVE ResultInv'
  <2>1. status[t] = "executing" /\ status' = [status EXCEPT ![t] = "completed"]
        /\ loop' \notin {"over", "failed"} /\ progress' = progress /\ answers' = answers
        /\ emitted' = emitted
    BY <1>4, CompleteDoes
  <2>2. loop # "failed"
    BY <1>4 DEF Over
  <2>3. "completed" \in Statuses
    BY DEF Statuses
  <2> QED
    BY <1>1, <2>1, <2>2, <2>3
<1>5. CASE YieldResult
  <2>1. PICK t \in Tools :
          /\ status[t] = "completed" /\ status' = [status EXCEPT ![t] = "yielded"]
          /\ answers' = [answers EXCEPT ![t] = answers[t] + 1] /\ emitted' = Append(emitted, t)
    BY <1>5, YieldDoes
  <2>2. loop = "collect" /\ loop' = "given" /\ progress' = progress
    BY <1>5, YieldDoes
  <2>3. \A u \in Tools : status'[u] = IF u = t THEN "yielded" ELSE status[u]
    BY <1>0, <2>1
  <2>4. progress' \subseteq Started'
    BY <1>0, <2>2, <2>3 DEF Started, In
  <2>5. \A u \in Tools : answers'[u] = IF u = t THEN answers[t] + 1 ELSE answers[u]
    BY <1>0, <2>1
  <2>6. \A u \in Tools : answers[u] = IF status[u] = "yielded" THEN 1 ELSE 0
    BY <2>2 DEF ResultInv
  <2>7. \A u \in Tools : answers'[u] = IF status'[u] = "yielded" THEN 1 ELSE 0
    <3> SUFFICES ASSUME NEW u \in Tools
                 PROVE  answers'[u] = IF status'[u] = "yielded" THEN 1 ELSE 0
      OBVIOUS
    <3>1. answers[t] = 0
      BY <2>1, <2>6
    <3> QED
      BY <2>3, <2>5, <2>6, <3>1
  <2>8. /\ Len(emitted') = Len(emitted) + 1 /\ emitted'[Len(emitted) + 1] = t
        /\ \A i \in 1 .. Len(emitted) : emitted'[i] = emitted[i]
    BY <1>0, <2>1, AppendProperties
  <2>9. ASSUME NEW i \in 1 .. Len(emitted') PROVE status'[emitted'[i]] = "yielded"
    <3>1. CASE i \in 1 .. Len(emitted)
      BY <1>0, <2>3, <2>8, <3>1 DEF ResultInv
    <3>2. CASE i = Len(emitted) + 1
      BY <2>3, <2>8, <3>2
    <3> QED
      BY <1>0, <2>8, <3>1, <3>2
  <2> QED
    BY <2>2, <2>4, <2>7, <2>9 DEF ResultInv
<1>6. CASE Still
  <2>1. UNCHANGED <<status, answers, emitted>> /\ Started' = Started
        /\ In({"queued", "executing", "completed"})' = In({"queued", "executing", "completed"})
    BY <1>6, StillDoes DEF Started, In
  <2>2. progress' \subseteq Started
    <3>1. \A t \in Tools : status[t] = "executing" => t \in Started
      BY DEF Started, In
    <3> QED
      BY <1>0, <1>6, <3>1, StillDoes
  <2>3. (loop' = "over" => loop = "over") /\ (loop' = "failed" <=> loop = "failed")
    BY <1>6, StillDoes
  <2> QED
    BY <2>1, <2>2, <2>3 DEF ResultInv
<1>7. CASE DrainCheck
  BY <1>7 DEF DrainCheck, ResultInv, Started, In
<1>8. CASE StreamFails
  BY <1>8 DEF StreamFails, ResultInv, Started, In
<1>9. CASE UNCHANGED vars
  BY <1>9 DEF vars, ResultInv, Started, In
<1>10. CASE Cut
  BY <1>10, CutDoes DEF ResultInv, Started, In
<1> QED
  BY <1>2, <1>3, <1>4, <1>5, <1>6, <1>7, <1>8, <1>9, <1>10, StepCases

\* Only a result that is handed out adds to the order of the results.
LEMMA OrderStays ==
  ASSUME BarrierOrder, UNCHANGED <<kind, emitted>>
  PROVE  BarrierOrder'
BY DEF BarrierOrder

\* An unsafe tool that has ended and not been answered stops the collection.
LEMMA UnsafeStops ==
  ASSUME BarrierInv, NEW t \in Tools, kind[t] \notin SafeKind, status[t] = "completed",
         NEW u \in Tools, First(Stops, u)
  PROVE  u <= t
<1>1. pos <= t
  BY DEF BarrierInv
<1>2. t \in Stops
  BY <1>1 DEF Stops, Yields
<1> QED
  BY <1>2, FirstIsLeast

\* What is unsafe ends before those behind it start, and is answered before they are.
LEMMA BarrierKept ==
  TypeOK /\ ResultInv /\ ArrivalInv /\ BarrierInv /\ [Next]_vars => BarrierInv'
<1> SUFFICES ASSUME TypeOK, ResultInv, ArrivalInv, BarrierInv, [Next]_vars PROVE BarrierInv'
  OBVIOUS
<1>0. /\ status \in [Tools -> Statuses] /\ emitted \in Seq(Tools) /\ pos \in 1 .. N + 1
      /\ \A t \in Tools : t \in Nat /\ 1 <= t
      /\ Len(emitted) \in Nat /\ \A i \in 1 .. Len(emitted) : emitted[i] \in Tools
  BY Types, LenProperties, ElementOfSeq, ExecutorAssumption DEF Tools
<1> DEFINE Behind == \A t, u \in Tools : t < u /\ kind[t] \notin SafeKind =>
                       /\ u \in Started => status[t] \in {"completed", "yielded"}
                       /\ status[u] = "yielded" => status[t] = "yielded"
           Stopped == \A t \in Tools : kind[t] \notin SafeKind /\ status[t] # "yielded" => pos <= t
<1>1. /\ Behind /\ Stopped /\ BarrierOrder
      /\ \A t, u \in Tools : t < u /\ kind[t] \notin SafeKind /\ u \in Started =>
           status[t] \in {"completed", "yielded"}
      /\ \A t, u \in Tools : t < u /\ kind[t] \notin SafeKind /\ status[u] = "yielded" =>
           status[t] = "yielded"
      /\ \A t \in Tools : kind[t] \notin SafeKind /\ status[t] # "yielded" => pos <= t
      /\ \A t \in Tools : kind[t] # "unknown"
  BY DEF BarrierInv
<1>2. ASSUME kind' = kind, Behind', Stopped', BarrierOrder' PROVE BarrierInv'
  BY <1>1, <1>2 DEF BarrierInv
<1>3. ASSUME UNCHANGED <<kind, status, emitted>>, pos' \in {pos, 1} PROVE BarrierInv'
  <2>1. Behind' /\ BarrierOrder'
    BY <1>1, <1>3, OrderStays DEF Started, In
  <2>2. Stopped'
    BY <1>0, <1>1, <1>3
  <2> QED
    BY <1>2, <1>3, <2>1, <2>2
<1>4. CASE AddTool
  <2>1. PICK t \in Tools, s \in {"skipped", "completed", "queued"} :
          /\ status[t] = "absent" /\ status' = [status EXCEPT ![t] = s]
          /\ s = "completed" => kind[t] = "unknown"
    BY <1>4, AddDoes
  <2>2. UNCHANGED <<kind, emitted>> /\ pos' = 1
    BY <1>4, AddDoes
  <2>3. s # "completed" /\ \A u \in Tools : status'[u] = IF u = t THEN s ELSE status[u]
    BY <1>0, <1>1, <2>1
  <2>4. \A u \in Tools : u \in Started' <=> u \in Started
    BY <2>1, <2>3 DEF Started, In
  <2>5. \A u \in Tools : t < u => u \notin Started
    BY <2>1 DEF ArrivalInv, Arrivals, Started, In
  <2>6. Behind'
    <3> SUFFICES ASSUME NEW v \in Tools, NEW u \in Tools, v < u, kind'[v] \notin SafeKind
                 PROVE  /\ u \in Started' => status'[v] \in {"completed", "yielded"}
                        /\ status'[u] = "yielded" => status'[v] = "yielded"
      OBVIOUS
    <3>1. status'[u] = "yielded" => u \in Started'
      BY DEF Started, In
    <3> QED
      BY <1>1, <2>1, <2>2, <2>3, <2>4, <2>5, <3>1
  <2> QED
    BY <1>0, <1>1, <1>2, <2>2, <2>6, OrderStays
<1>5. CASE StartTool
  <2>1. PICK t \in Tools, s \in {"executing", "completed"} :
          /\ NextTool(t) /\ CanExecute(t)
          /\ status[t] = "queued" /\ status' = [status EXCEPT ![t] = s]
    BY <1>5, StartDoes
  <2>2. UNCHANGED <<kind, emitted, pos>>
    BY <1>5, StartDoes
  <2>3. \A u \in Tools : status'[u] = IF u = t THEN s ELSE status[u]
    BY <1>0, <2>1
  <2>4. ASSUME NEW v \in Tools, v < t, kind[v] \notin SafeKind
        PROVE  status[v] \in {"completed", "yielded"}
    <3>1. status[v] \notin {"absent", "skipped"}
      BY <2>1, <2>4 DEF ArrivalInv, Arrivals
    <3>2. status[v] # "queued"
      <4>1. status[v] = "queued" => t <= v
        BY <2>1, FirstIsLeast DEF NextTool, In
      <4> QED
        BY <1>0, <2>4, <4>1
    <3>3. status[v] # "executing"
      BY <2>1, <2>4 DEF CanExecute, Executing, In
    <3> QED
      BY <1>0, <3>1, <3>2, <3>3 DEF Statuses
  <2>5. \A u \in Tools : t < u /\ kind[t] \notin SafeKind => u \notin Started
    BY <1>1, <2>1
  <2>6. \A u \in Tools : u # t => (u \in Started' <=> u \in Started)
    BY <2>3 DEF Started, In
  <2>7. Behind'
    <3> SUFFICES ASSUME NEW v \in Tools, NEW u \in Tools, v < u, kind'[v] \notin SafeKind
                 PROVE  /\ u \in Started' => status'[v] \in {"completed", "yielded"}
                        /\ status'[u] = "yielded" => status'[v] = "yielded"
      OBVIOUS
    <3>1. CASE u = t
      BY <1>0, <2>1, <2>2, <2>3, <2>4, <3>1
    <3>2. CASE u # t /\ v = t
      <4>1. u \notin Started
        BY <2>2, <2>5, <3>2
      <4>2. status[u] # "yielded"
        BY <4>1 DEF Started, In
      <4> QED
        BY <2>3, <2>6, <3>2, <4>1, <4>2
    <3>3. CASE u # t /\ v # t
      BY <1>1, <2>2, <2>3, <2>6, <3>3
    <3> QED
      BY <3>1, <3>2, <3>3
  <2>8. Stopped'
    BY <1>1, <2>1, <2>2, <2>3
  <2> QED
    BY <1>1, <1>2, <2>2, <2>7, <2>8, OrderStays
<1>6. ASSUME NEW t \in Tools, NEW own, Complete(t, own), ~ Over PROVE BarrierInv'
  <2>1. /\ status[t] = "executing" /\ status' = [status EXCEPT ![t] = "completed"]
        /\ UNCHANGED <<kind, pos, emitted>>
    BY <1>6, CompleteDoes
  <2>2. \A u \in Tools : status'[u] = IF u = t THEN "completed" ELSE status[u]
    BY <1>0, <2>1
  <2>3. \A u \in Tools : u \in Started' <=> u \in Started
    BY <2>1, <2>2 DEF Started, In
  <2>4. Behind' /\ Stopped'
    BY <1>1, <2>1, <2>2, <2>3
  <2> QED
    BY <1>1, <1>2, <2>1, <2>4, OrderStays
<1>7. CASE YieldResult
  <2>1. PICK t \in Tools :
          /\ First(Stops, t) /\ status[t] = "completed"
          /\ status' = [status EXCEPT ![t] = "yielded"]
          /\ emitted' = Append(emitted, t) /\ pos' = t + 1
    BY <1>7, YieldDoes
  <2>2. kind' = kind /\ t \in Started
    BY <1>7, <2>1, YieldDoes DEF Started, In
  <2>3. \A u \in Tools : status'[u] = IF u = t THEN "yielded" ELSE status[u]
    BY <1>0, <2>1
  <2>4. \A u \in Tools : u \in Started' <=> u \in Started
    BY <2>1, <2>3 DEF Started, In
  <2>5. ASSUME NEW v \in Tools, v < t, kind[v] \notin SafeKind PROVE status[v] = "yielded"
    <3>1. status[v] \in {"completed", "yielded"}
      BY <1>1, <2>2, <2>5
    <3>2. status[v] = "completed" => t <= v
      BY <2>1, <2>5, UnsafeStops
    <3> QED
      BY <1>0, <2>5, <3>1, <3>2
  <2>6. Behind'
    BY <1>1, <2>2, <2>3, <2>4, <2>5
  <2>7. Stopped'
    <3> SUFFICES ASSUME NEW v \in Tools, kind[v] \notin SafeKind, status'[v] # "yielded"
                 PROVE  t + 1 <= v
      BY <2>1, <2>2
    <3>1. v # t /\ ~ (v < t)
      BY <2>3, <2>5
    <3> QED
      BY <1>0, <3>1
  <2>8. BarrierOrder'
    <3>1. /\ Len(emitted') = Len(emitted) + 1 /\ emitted'[Len(emitted) + 1] = t
          /\ \A i \in 1 .. Len(emitted) : emitted'[i] = emitted[i]
          /\ DOMAIN emitted' = 1 .. Len(emitted) + 1 /\ DOMAIN emitted = 1 .. Len(emitted)
      <4>1. emitted' \in Seq(Tools)
        BY <1>0, <2>1, AppendProperties
      <4> QED
        BY <1>0, <2>1, <4>1, AppendProperties, LenProperties
    <3> SUFFICES ASSUME NEW i \in 1 .. Len(emitted) + 1, NEW j \in 1 .. Len(emitted) + 1, i < j
                 PROVE  kind[emitted'[j]] \in SafeKind \/ emitted'[i] <= emitted'[j]
      BY <2>2, <3>1 DEF BarrierOrder
    <3>2. CASE j \in 1 .. Len(emitted)
      <4>1. i \in 1 .. Len(emitted) /\ emitted'[i] = emitted[i] /\ emitted'[j] = emitted[j]
        BY <1>0, <3>1, <3>2
      <4> QED
        BY <1>1, <3>1, <3>2, <4>1 DEF BarrierOrder
    <3>3. CASE j = Len(emitted) + 1
      <4>1. i \in 1 .. Len(emitted) /\ emitted'[i] = emitted[i] /\ emitted'[j] = t
        BY <1>0, <3>1, <3>3
      <4>2. emitted[i] \in Tools /\ status[emitted[i]] = "yielded"
        BY <1>0, <4>1 DEF ResultInv
      <4>3. kind[t] \in SafeKind \/ ~ (t < emitted[i])
        BY <1>1, <2>1, <4>2
      <4> QED
        BY <1>0, <4>1, <4>2, <4>3
    <3> QED
      BY <1>0, <3>2, <3>3
  <2> QED
    BY <1>2, <2>2, <2>6, <2>7, <2>8
<1>8. CASE Still
  <2>1. UNCHANGED <<kind, status, emitted>>
    BY <1>8, StillDoes
  <2>2. CASE pos' \in {pos, 1}
    BY <1>3, <2>1, <2>2
  <2>3. ASSUME NEW t \in Tools, First(Stops, t), t \in progress, pos' = t PROVE BarrierInv'
    <3>1. t \in Started
      BY <2>3 DEF ResultInv
    <3>2. ASSUME NEW v \in Tools, kind[v] \notin SafeKind, status[v] # "yielded" PROVE t <= v
      <4>1. v < t => status[v] = "completed"
        BY <1>1, <3>1, <3>2
      <4>2. v < t => t <= v
        BY <2>3, <3>2, <4>1, UnsafeStops
      <4> QED
        BY <1>0, <4>2
    <3>3. Behind' /\ Stopped'
      BY <1>1, <2>1, <2>3, <3>2 DEF Started, In
    <3> QED
      BY <1>1, <1>2, <2>1, <3>3, OrderStays
  <2> QED
    BY <1>8, <2>2, <2>3, StillDoes
<1>9. CASE DrainCheck \/ StreamFails \/ Cut \/ UNCHANGED vars
  BY <1>3, <1>9, CutDoes DEF DrainCheck, StreamFails, vars
<1> QED
  BY <1>4, <1>5, <1>6, <1>7, <1>8, <1>9, StepCases

--------------------------------------------------------------------------------

\* The types and the results hold in every state.
LEMMA ResultsHold == Spec => [](TypeOK /\ ResultInv)
<1>1. Init => TypeOK /\ ResultInv
  <2> SUFFICES ASSUME Init PROVE TypeOK /\ ResultInv
    OBVIOUS
  <2>1. TypeOK
    <3>1. 1 \in 1 .. N + 1 /\ kind \in [Tools -> Kinds] /\ <<>> \in Seq(Tools)
      BY ExecutorAssumption, EmptySeq DEF Init
    <3> QED
      BY <3>1 DEF Init, TypeOK
  <2>2. Len(emitted) = 0
    BY EmptySeq DEF Init
  <2> QED
    BY <2>1, <2>2 DEF Init, ResultInv
<1> QED
  BY <1>1, TypesKept, ResultsKept, PTL DEF Spec

\* The variables of the executor and of the query loop keep their types.
THEOREM TypeCorrect == Spec => []TypeOK
BY ResultsHold, PTL

\* When getRemainingResults() has come to its end, nothing of the turn still runs and each
\* call the executor was given has one result, cancelled ones included, whatever aborts,
\* failures, progress and dawdling of the consumer there were (StreamingToolExecutor.ts:441-513).
THEOREM DrainedAnswersOnce == Spec => [](loop = "over" => AnsweredOnce)
<1>1. TypeOK /\ ResultInv => (loop = "over" => AnsweredOnce)
  <2> SUFFICES ASSUME TypeOK, ResultInv, loop = "over" PROVE AnsweredOnce
    OBVIOUS
  <2>1. Executing = {} /\ \A t \in Tools : status[t] \in {"absent", "skipped", "yielded"}
    BY Types DEF ResultInv, Executing, In, Statuses
  <2>2. \A t \in Tools : answers[t] = IF status[t] = "yielded" THEN 1 ELSE 0
    BY DEF ResultInv
  <2>3. \A t \in Tools : t \in Tracked <=> status[t] = "yielded"
    BY <2>1 DEF Tracked, In
  <2> QED
    BY <2>1, <2>2, <2>3 DEF AnsweredOnce
<1> QED
  BY <1>1, ResultsHold, PTL

\* The result of an unsafe tool comes before those of the tools behind it, if the model asks
\* for tools that exist: an unknown one is answered when it arrives (addTool()).
THEOREM UnsafeResultsInOrder ==
  ASSUME "unknown" \notin KindsUsed
  PROVE  Spec => []BarrierOrder
<1>1. Init => BarrierInv
  <2> SUFFICES ASSUME Init PROVE BarrierInv
    OBVIOUS
  <2>1. \A t \in Tools : kind[t] \in KindsUsed /\ status[t] = "absent" /\ t >= 1
    BY ExecutorAssumption DEF Init, Tools
  <2>2. DOMAIN emitted = {}
    BY EmptySeq, LenProperties DEF Init
  <2> QED
    BY <2>1, <2>2 DEF Init, BarrierInv, BarrierOrder, Started, In
<1>2. BarrierInv => BarrierOrder
  BY DEF BarrierInv
<1> QED
  BY <1>1, <1>2, BarrierKept, ResultsHold, ArrivalsInOrder, PTL DEF Spec
================================================================================
