--------------------------- MODULE WorkflowRunProofs ---------------------------
(***************************************************************************)
(* One run of the workflow engine, for every script, every number of       *)
(* fibers and permits, every cap and budget and any number of resumes: its *)
(* types, the permits, the bounds on the budget and on the agent cap, the  *)
(* journal that never replays a result of its own, the kill after which no *)
(* agent starts, and the replay of a sequential script.  The last part is  *)
(* about workflow(), which runs another script inside a run                *)
(* (WorkflowNesting).                                                      *)
(***************************************************************************)
EXTENDS WorkflowRun, WorkflowNesting, SequenceTheorems, FiniteSetTheorems, TLAPS

Asking == {"ready", "truncating", "waiting"}

Phases == Asking \cup Holding \cup Settled

\* A fiber that has not settled still has a call to make.
CallsLeft == \A f \in Fibers : pc[f] \in Settled \/ step[f] <= Len(script[f])

--------------------------------------------------------------------------------

\* A script gives every fiber at least one call.
LEMMA ScriptIsSeq ==
  ASSUME script \in Scripts, NEW f \in Fibers
  PROVE  script[f] \in Seq(STRING) /\ Len(script[f]) \in Nat \ {0}
<1>1. script[f] \in Seq(STRING) \ {<<>>}
  BY RunAssumption
<1> QED BY <1>1, EmptySeq, LenProperties

\* The call a fiber is making is in its script.
LEMMA CallKey ==
  ASSUME TypeOK, CallsLeft, NEW f \in Fibers, pc[f] \notin Settled
  PROVE  step[f] \in 1 .. Len(script[f]) /\ script[f][step[f]] \in Keys
<1>1. step[f] \in 1 .. Len(script[f])
  BY ScriptIsSeq DEF TypeOK, CallsLeft
<1>2. DOMAIN script[f] = 1 .. Len(script[f])
  BY ScriptIsSeq, LenProperties DEF TypeOK
<1>3. script[f][step[f]] \in Range(script[f])
  BY <1>1, <1>2 DEF Range
<1>4. script \in Scripts
  BY DEF TypeOK
<1>5. script[f][step[f]] \in UNION {Range(script[g]) : g \in Fibers}
  BY <1>3
<1> QED BY <1>1, <1>4, <1>5 DEF Keys

\* A call that returns leaves its fiber done, or with another call to make.
LEMMA ReturnTypes ==
  ASSUME TypeOK, CallsLeft, NEW f \in Fibers, pc[f] \notin Settled
  PROVE  /\ AfterReturn(f) \in {"done", "ready"}
         /\ step[f] + 1 \in 1 .. Len(script[f]) + 1
         /\ AfterReturn(f) = "ready" => step[f] + 1 <= Len(script[f])
BY CallKey, ScriptIsSeq DEF AfterReturn, TypeOK

\* A rejected call leaves the outcome of the script typed.
LEMMA RejectTypes ==
  ASSUME TypeOK, NEW how, Reject(how)
  PROVE  thrown' \in {"none", "failed", "killed"}
BY DEF TypeOK, Reject

\* The first waiter is a fiber, and so are those behind it.
LEMMA FirstWaiter ==
  ASSUME NEW q \in Seq(Fibers), q # <<>>
  PROVE  Head(q) \in Fibers /\ Tail(q) \in Seq(Fibers)
BY HeadTailProperties

\* The queue holds the waiting fibers, each once.
QueueExact ==
  LET q == sem.waiters
  IN  /\ \A i \in 1 .. Len(q) : pc[q[i]] = "waiting"
      /\ \A f \in Fibers : pc[f] = "waiting" => \E i \in 1 .. Len(q) : q[i] = f
      /\ \A i, j \in 1 .. Len(q) : q[i] = q[j] => i = j

\* release() gives the permit back, or to a fiber that waits.
Frees(f, p) ==
  /\ sem.waiters = <<>> /\ sem'.waiters = <<>>
  /\ sem'.available = sem.available + 1
  /\ pc' = [pc EXCEPT ![f] = p]

HandsOver(f, p, g) ==
  /\ g = Head(sem.waiters) /\ sem.waiters # <<>> /\ sem'.waiters = Tail(sem.waiters)
  /\ sem'.available = sem.available
  /\ pc[g] = "waiting" /\ pc' = [pc EXCEPT ![f] = p, ![g] = "granted"]

\* release() frees its permit, or hands it to the first that waits.
LEMMA ReleaseCases ==
  ASSUME TypeOK, QueueExact, NEW f \in Fibers, NEW p, ReleaseTo(f, p)
  PROVE  /\ sem' \in [available : Nat, waiters : Seq(Fibers)]
         /\ Frees(f, p) \/ \E g \in Fibers : HandsOver(f, p, g)
<1>1. CASE sem.waiters = <<>>
  <2>1. sem \in [available : Nat, waiters : Seq(Fibers)]
    BY DEF TypeOK
  <2>2. sem' = [sem EXCEPT !.available = sem.available + 1] /\ pc' = [pc EXCEPT ![f] = p]
    BY <1>1 DEF ReleaseTo
  <2> QED BY <1>1, <2>1, <2>2 DEF Frees
<1>2. CASE sem.waiters # <<>>
  <2> DEFINE g == Head(sem.waiters)
  <2>1. g \in Fibers /\ Tail(sem.waiters) \in Seq(Fibers)
    BY <1>2, FirstWaiter DEF TypeOK
  <2>2. pc[g] = "waiting"
    <3>1. g = sem.waiters[1] /\ 1 \in 1 .. Len(sem.waiters)
      BY <1>2, HeadTailProperties, LenProperties, EmptySeq DEF TypeOK
    <3> QED BY <3>1 DEF QueueExact
  <2>3. sem' = [sem EXCEPT !.waiters = Tail(sem.waiters)]
          /\ pc' = [pc EXCEPT ![f] = p, ![g] = "granted"]
    BY <1>2 DEF ReleaseTo
  <2> HIDE DEF g
  <2>4. sem' \in [available : Nat, waiters : Seq(Fibers)] /\ sem'.available = sem.available
        /\ sem'.waiters = Tail(sem.waiters)
    BY <2>1, <2>3 DEF TypeOK
  <2>5. HandsOver(f, p, g)
    BY <1>2, <2>2, <2>3, <2>4 DEF HandsOver, g
  <2> QED BY <2>1, <2>4, <2>5
<1> QED BY <1>1, <1>2

\* acquire() rejects, takes a permit or joins the queue.
Joins(f) ==
  /\ sem.available = 0 /\ sem'.waiters = Append(sem.waiters, f) /\ sem'.available = 0
  /\ pc' = [pc EXCEPT ![f] = "waiting"]

Takes(f) ==
  /\ sem.available > 0 /\ sem'.waiters = sem.waiters /\ sem'.available = sem.available - 1
  /\ pc' = [pc EXCEPT ![f] = "granted"]

\* acquire() joins the queue, takes a permit or rejects.
LEMMA AcquireCases ==
  ASSUME TypeOK, NEW f \in Fibers, Acquire(f)
  PROVE  /\ sem' \in [available : Nat, waiters : Seq(Fibers)]
         /\ \/ Joins(f) \/ Takes(f)
            \/ sem' = sem /\ pc' = [pc EXCEPT ![f] = "killed"]
         /\ thrown' \in {"none", "failed", "killed"}
<1>1. Append(sem.waiters, f) \in Seq(Fibers)
  BY AppendProperties DEF TypeOK
<1>2. CASE aborted
  BY <1>2, RejectTypes DEF TypeOK, Acquire
<1>3. CASE ~ aborted /\ sem.available > 0
  BY <1>3 DEF TypeOK, Acquire, Takes
<1>4. CASE ~ aborted /\ sem.available = 0
  <2> DEFINE q == Append(sem.waiters, f)
  <2>1. sem' = [sem EXCEPT !.waiters = q] /\ pc' = [pc EXCEPT ![f] = "waiting"] /\ thrown' = thrown
    BY <1>4 DEF Acquire
  <2>2. q \in Seq(Fibers)
    BY <1>1
  <2> HIDE DEF q
  <2>3. sem' \in [available : Nat, waiters : Seq(Fibers)] /\ sem'.waiters = q
        /\ sem'.available = sem.available
    BY <2>1, <2>2 DEF TypeOK
  <2> QED BY <1>4, <2>1, <2>3 DEF TypeOK, Joins, q
<1>5. aborted \/ (~ aborted /\ sem.available > 0) \/ (~ aborted /\ sem.available = 0)
  BY DEF Acquire
<1> QED BY <1>2, <1>3, <1>4, <1>5

--------------------------------------------------------------------------------

Other == {"ready", "truncating"} \cup Settled

\* What a fiber does to the pool of permits.
Stays(f) ==
  /\ sem' = sem
  /\ \E p \in Phases : /\ pc' = [pc EXCEPT ![f] = p]
                       /\ (pc[f] \in Holding /\ p \in Holding) \/ (pc[f] \in Other /\ p \in Other)

Asks(f) == pc[f] \in Other /\ (Joins(f) \/ Takes(f))

Releases(f) ==
  /\ pc[f] \in Holding
  /\ \E p \in {"ready"} \cup Settled : Frees(f, p) \/ \E g \in Fibers : HandsOver(f, p, g)

PoolStep(f) ==
  /\ sem' \in [available : Nat, waiters : Seq(Fibers)]
  /\ Stays(f) \/ Asks(f) \/ Releases(f)

Dropped ==
  /\ sem' = FreshSem
  /\ \E p \in {"ready", "done"} : pc' = AllFibers(p)

\* Holding, waiting and neither exclude each other.
LEMMA Disjoint ==
  /\ Holding \cap Other = {} /\ "waiting" \notin Holding \cup Other /\ InBackend \subseteq Holding
  /\ Phases = Holding \cup Other \cup {"waiting"}
BY DEF Holding, InBackend, Other, Settled, Phases, Asking

\* Asking for a permit is a step of the pool.
LEMMA AcquirePool ==
  ASSUME TypeOK, NEW f \in Fibers, pc[f] \in {"ready", "truncating"}, Acquire(f)
  PROVE  PoolStep(f)
<1>1. ASSUME sem' = sem, pc' = [pc EXCEPT ![f] = "killed"] PROVE Stays(f)
  BY <1>1 DEF Stays, Phases, Settled, Other
<1> QED BY <1>1, AcquireCases DEF PoolStep, Asks, Other

\* Giving a permit back is a step of the pool.
LEMMA ReleasePool ==
  ASSUME TypeOK, QueueExact, NEW f \in Fibers, pc[f] \in Holding,
         NEW p \in {"ready"} \cup Settled, ReleaseTo(f, p)
  PROVE  PoolStep(f)
BY ReleaseCases DEF PoolStep, Releases

\* A fiber that keeps its permit, or has none and asks for none, leaves the pool alone.
LEMMA StaysPool ==
  ASSUME TypeOK, NEW f \in Fibers, NEW p, sem' = sem, pc' = [pc EXCEPT ![f] = p],
         (pc[f] \in Holding /\ p \in Holding) \/ (pc[f] \in Other /\ p \in Other)
  PROVE  PoolStep(f)
<1>1. p \in Phases
  BY Disjoint
<1> QED BY <1>1 DEF Stays, PoolStep, TypeOK

\* Each action of a fiber is a step of the pool.
LEMMA FiberPool ==
  ASSUME TypeOK, CallsLeft, QueueExact, NEW f \in Fibers, Agent(f) \/ Backend(f)
  PROVE  PoolStep(f)
<1>1. CASE CapReached(f)
  BY <1>1, StaysPool DEF CapReached, Ready, Other, Settled
<1>2. CASE Replay(f)
  <2>1. AfterReturn(f) \in Other /\ pc[f] \in Other
    BY <1>2, ReturnTypes DEF Replay, NewCall, Ready, Other, Settled
  <2> QED BY <1>2, <2>1, StaysPool DEF Replay
<1>3. CASE Diverge(f)
  BY <1>3, StaysPool DEF Diverge, NewCall, Ready, Other
<1>4. CASE Live(f) \/ Truncated(f)
  BY <1>4, AcquirePool DEF Live, Truncated, NewCall, Ready
<1>5. CASE GrantedKilled(f) \/ OverBudget(f) \/ AppendFails(f) \/ BackendAborts(f)
  <2>1. pc[f] \in Holding /\ \E p \in Settled : ReleaseTo(f, p)
    BY <1>5 DEF GrantedKilled, OverBudget, AppendFails, BackendAborts, RejectReleasing, Holding,
       InBackend, Settled
  <2> QED BY <2>1, ReleasePool
<1>6. CASE Skip(f) \/ Appended(f)
  <2>1. pc[f] \in Holding /\ ReleaseTo(f, AfterReturn(f)) /\ pc[f] \notin Settled
    BY <1>6 DEF Skip, Appended, Holding, Settled
  <2>2. AfterReturn(f) \in {"ready"} \cup Settled
    BY <2>1, ReturnTypes DEF Settled
  <2> QED BY <2>1, <2>2, ReleasePool
<1>7. CASE StartAgent(f) \/ BackendOk(f) \/ BackendDead(f) \/ BackendThrows(f)
  <2>1. /\ pc[f] \in InBackend \cup {"granted"}
        /\ sem' = sem /\ \E p \in {"first", "afterDead", "retry", "third", "appending"} :
                           pc' = [pc EXCEPT ![f] = p]
    <3>1. ASSUME NEW kind, NEW n, Record(f, kind, n)
          PROVE  sem' = sem /\ pc' = [pc EXCEPT ![f] = "appending"]
      BY <3>1 DEF Record
    <3>2. ASSUME NEW p, Reinvoke(f, p) PROVE sem' = sem /\ pc' = [pc EXCEPT ![f] = p]
      BY <3>2 DEF Reinvoke
    <3>3. CASE StartAgent(f)
      BY <3>3 DEF StartAgent
    <3>4. CASE BackendOk(f)
      BY <3>1, <3>4 DEF BackendOk
    <3>5. CASE BackendDead(f)
      BY <3>1, <3>2, <3>5 DEF BackendDead
    <3>6. CASE BackendThrows(f)
      <4>1. CASE pc[f] = "first"
        BY <3>2, <3>6, <4>1 DEF BackendThrows
      <4>2. CASE pc[f] = "afterDead"
        BY <3>2, <3>6, <4>2 DEF BackendThrows
      <4>3. CASE pc[f] \notin {"first", "afterDead"}
        BY <3>1, <3>6, <4>3 DEF BackendThrows
      <4> QED BY <4>1, <4>2, <4>3
    <3> QED BY <1>7, <3>3, <3>4, <3>5, <3>6
  <2>2. PICK p \in {"first", "afterDead", "retry", "third",
        "appending"} : pc' = [pc EXCEPT ![f] = p]
    BY <2>1
  <2>3. pc[f] \in Holding /\ p \in Holding
    BY <2>1 DEF Holding, InBackend
  <2> QED BY <2>1, <2>2, <2>3, StaysPool
<1> QED BY <1>1, <1>2, <1>3, <1>4, <1>5, <1>6, <1>7 DEF Agent, Backend

\* ... and the script, the kill, a crash and a resume keep the pool, empty the queue
\* or start with a fresh pool.
LEMMA RunPool ==
  ASSUME EndRun \/ Kill \/ Crash \/ Resume
  PROVE  Kill \/ Dropped \/ UNCHANGED <<pc, sem>>
BY DEF EndRun, Kill, Crash, Resume, Dropped

--------------------------------------------------------------------------------

\* Adding and removing one element of a finite set.
LEMMA CardinalityStep ==
  ASSUME NEW S, NEW T, NEW x, IsFiniteSet(S)
  PROVE  /\ Cardinality(S) \in Nat
         /\ x \notin S /\ T = S \cup {x} => Cardinality(T) = Cardinality(S) + 1
         /\ x \in S /\ T = S \ {x} => Cardinality(T) = Cardinality(S) - 1
BY FS_CardinalityType, FS_AddElement, FS_RemoveElement

\* At most N fibers are in a set of states.
LEMMA InStateFinite ==
  ASSUME NEW S
  PROVE  /\ IsFiniteSet(InState(S)) /\ IsFiniteSet(InState(S)')
         /\ Cardinality(InState(S)) \in 0 .. N /\ Cardinality(InState(S)') \in 0 .. N
<1>1. IsFiniteSet(Fibers) /\ Cardinality(Fibers) = N /\ N \in Nat
  BY FS_Interval, RunAssumption DEF Fibers
<1>2. InState(S) \in SUBSET Fibers /\ InState(S)' \in SUBSET Fibers
  BY DEF InState
<1> QED BY <1>1, <1>2, FS_Subset, FS_CardinalityType

\* The queue is exact and the permits are conserved.
PoolInv == QueueExact /\ PermitsConserved

\* A fiber that leaves the pool alone keeps its invariant.
LEMMA StaysKeepsPool ==
  ASSUME TypeOK, PoolInv, NEW f \in Fibers, Stays(f)
  PROVE  PoolInv'
<1>1. PICK p \in Phases : /\ pc' = [pc EXCEPT ![f] = p]
                          /\ (pc[f] \in Holding /\ p \in Holding)
                               \/ (pc[f] \in Other /\ p \in Other)
  BY DEF Stays
<1>2. InState(Holding)' = InState(Holding)
  BY <1>1, Disjoint DEF InState, TypeOK
<1>3. sem' = sem /\ \A g \in Fibers : pc'[g] = "waiting" <=> pc[g] = "waiting"
  BY <1>1, Disjoint DEF Stays, TypeOK
<1>4. \A i \in 1 .. Len(sem.waiters) : sem.waiters[i] \in Fibers
  BY ElementOfSeq DEF TypeOK
<1> QED BY <1>2, <1>3, <1>4 DEF PoolInv, QueueExact, PermitsConserved

\* A fiber that asks for a permit joins the queue once, or takes one that was free.
LEMMA AsksKeepsPool ==
  ASSUME TypeOK, PoolInv, NEW f \in Fibers, Asks(f)
  PROVE  PoolInv'
<1> DEFINE q == sem.waiters
           r == sem'.waiters
<1>1. \A i \in 1 .. Len(q) : q[i] \in Fibers
  BY ElementOfSeq DEF TypeOK
<1>2. Len(q) \in Nat /\ sem.available \in Nat
  BY LenProperties DEF TypeOK
<1>3. pc[f] \notin Holding \cup {"waiting"}
  BY Disjoint DEF Asks
<1>4. CASE Joins(f)
  <2>1. /\ Len(r) = Len(q) + 1 /\ r[Len(q) + 1] = f
        /\ \A i \in 1 .. Len(q) : r[i] = q[i]
    BY <1>4, AppendProperties DEF Joins, TypeOK
  <2>2. \A g \in Fibers : pc'[g] = IF g = f THEN "waiting" ELSE pc[g]
    BY <1>4 DEF Joins, TypeOK
  <2>3. InState(Holding)' = InState(Holding)
    BY <1>3, <2>2, Disjoint DEF InState
  <2>4. \A i \in 1 .. Len(q) : q[i] # f /\ pc[q[i]] = "waiting"
    BY <1>3, <1>1 DEF PoolInv, QueueExact
  <2> HIDE DEF q, r
  <2>5. \A i \in 1 .. Len(r) : i \in 1 .. Len(q) \/ i = Len(q) + 1
    BY <1>2, <2>1
  <2>6. QueueExact'
    <3>1. \A i \in 1 .. Len(r) : pc'[r[i]] = "waiting"
      BY <1>1, <2>1, <2>2, <2>4, <2>5
    <3>2. \A g \in Fibers : pc'[g] = "waiting" => \E i \in 1 .. Len(r) : r[i] = g
      BY <1>2, <2>1, <2>2 DEF PoolInv, QueueExact, q
    <3>3. \A i, j \in 1 .. Len(r) : r[i] = r[j] => i = j
      BY <2>1, <2>4, <2>5 DEF PoolInv, QueueExact, q
    <3> QED BY <3>1, <3>2, <3>3 DEF QueueExact, r
  <2> QED BY <1>4, <2>3, <2>6 DEF PoolInv, PermitsConserved, Joins
<1>5. CASE Takes(f)
  <2>1. \A g \in Fibers : pc'[g] = IF g = f THEN "granted" ELSE pc[g]
    BY <1>5 DEF Takes, TypeOK
  <2>2. InState(Holding)' = InState(Holding) \cup {f} /\ f \notin InState(Holding)
    BY <1>3, <2>1 DEF InState, Holding
  <2>3. Cardinality(InState(Holding)') = Cardinality(InState(Holding)) + 1
        /\ Cardinality(InState(Holding)) \in Nat
    BY <2>2, InStateFinite, CardinalityStep
  <2>4. QueueExact'
    BY <1>1, <1>3, <1>5, <2>1 DEF PoolInv, QueueExact, Takes
  <2> QED BY <1>2, <1>5, <2>3, <2>4, RunAssumption DEF PoolInv, PermitsConserved, Takes
<1> QED BY <1>4, <1>5 DEF Asks

\* A permit handed over leaves the count and takes its new owner off the queue.
LEMMA ReleasesKeepsPool ==
  ASSUME TypeOK, PoolInv, NEW f \in Fibers, Releases(f)
  PROVE  PoolInv'
<1> DEFINE q == sem.waiters
           r == sem'.waiters
<1>1. \A i \in 1 .. Len(q) : q[i] \in Fibers
  BY ElementOfSeq DEF TypeOK
<1>2. Len(q) \in Nat /\ sem.available \in Nat
  BY LenProperties DEF TypeOK
<1>3. PICK p \in {"ready"} \cup Settled : Frees(f, p) \/ \E g \in Fibers : HandsOver(f, p, g)
  BY DEF Releases
<1>4. p \notin Holding \cup {"waiting"} /\ pc[f] \in Holding /\ pc[f] # "waiting"
  BY <1>3, Disjoint DEF Other, Releases
<1>5. f \in InState(Holding)
  BY <1>4 DEF InState
<1>6. CASE Frees(f, p)
  <2>1. \A g \in Fibers : pc'[g] = IF g = f THEN p ELSE pc[g]
    BY <1>6 DEF Frees, TypeOK
  <2>2. InState(Holding)' = InState(Holding) \ {f}
    BY <1>4, <2>1 DEF InState
  <2>3. Cardinality(InState(Holding)') = Cardinality(InState(Holding)) - 1
        /\ Cardinality(InState(Holding)) \in Nat
    BY <1>5, <2>2, InStateFinite, CardinalityStep
  <2>4. QueueExact'
    BY <1>1, <1>4, <1>6, <2>1 DEF PoolInv, QueueExact, Frees
  <2> QED BY <1>2, <1>6, <2>3, <2>4, RunAssumption DEF PoolInv, PermitsConserved, Frees
<1>7. ASSUME NEW g \in Fibers, HandsOver(f, p, g) PROVE PoolInv'
  <2>1. \A h \in Fibers : pc'[h] = IF h = g THEN "granted" ELSE IF h = f THEN p ELSE pc[h]
    BY <1>7 DEF HandsOver, TypeOK
  <2>2. pc[g] = "waiting" /\ g # f
    BY <1>4, <1>7 DEF HandsOver
  <2>3. InState(Holding)' = (InState(Holding) \ {f}) \cup {g} /\ g \notin InState(Holding)
    BY <1>4, <2>1, <2>2, Disjoint DEF InState, Holding
  <2>4. Cardinality(InState(Holding)') = Cardinality(InState(Holding))
    <3>1. /\ Cardinality(InState(Holding) \ {f}) = Cardinality(InState(Holding)) - 1
          /\ IsFiniteSet(InState(Holding) \ {f}) /\ Cardinality(InState(Holding)) \in Nat
      BY <1>5, InStateFinite, CardinalityStep, FS_RemoveElement
    <3> QED BY <2>3, <3>1, CardinalityStep
  <2>5. /\ Len(q) \in Nat \ {0} /\ Len(r) = Len(q) - 1 /\ g = q[1]
        /\ \A i \in 1 .. Len(r) : r[i] = q[i + 1]
    BY <1>7, HeadTailProperties, EmptySeq, LenProperties DEF HandsOver, TypeOK
  <2> HIDE DEF q, r
  <2>6. /\ \A i \in 1 .. Len(q) : pc[q[i]] = "waiting"
        /\ \A h \in Fibers : pc[h] = "waiting" => \E i \in 1 .. Len(q) : q[i] = h
        /\ \A i, j \in 1 .. Len(q) : q[i] = q[j] => i = j
    BY DEF PoolInv, QueueExact, q
  <2>7. \A i \in 1 .. Len(r) : i + 1 \in 1 .. Len(q) /\ i + 1 # 1 /\ r[i] = q[i + 1] /\ r[i] # g
    BY <2>5, <2>6
  <2>8. QueueExact'
    <3>1. \A i \in 1 .. Len(r) : pc'[r[i]] = "waiting"
      BY <1>1, <1>4, <2>1, <2>6, <2>7
    <3>2. ASSUME NEW h \in Fibers, pc'[h] = "waiting" PROVE \E i \in 1 .. Len(r) : r[i] = h
      <4>1. pc[h] = "waiting" /\ h # g
        BY <1>4, <2>1, <3>2
      <4>2. PICK i \in 1 .. Len(q) : q[i] = h
        BY <2>6, <4>1
      <4>3. i - 1 \in 1 .. Len(r) /\ r[i - 1] = h
        BY <2>5, <4>1, <4>2
      <4> QED BY <4>3
    <3>3. \A i, j \in 1 .. Len(r) : r[i] = r[j] => i = j
      <4> SUFFICES ASSUME NEW i \in 1 .. Len(r), NEW j \in 1 .. Len(r), r[i] = r[j] PROVE i = j
        OBVIOUS
      <4>1. i + 1 = j + 1
        BY <2>6, <2>7
      <4> QED BY <4>1
    <3> QED BY <3>1, <3>2, <3>3 DEF QueueExact, r
  <2> QED BY <1>7, <2>4, <2>8 DEF PoolInv, PermitsConserved, HandsOver
<1> QED BY <1>3, <1>6, <1>7

\* The kill rejects the queued calls and empties the queue; the holders keep their
\* permits.
LEMMA KillKeepsPool ==
  ASSUME TypeOK, PoolInv, Kill
  PROVE  PoolInv'
<1>1. \A f \in Fibers : pc'[f] = IF pc[f] = "waiting" THEN "killed" ELSE pc[f]
  BY DEF Kill
<1>2. InState(Holding)' = InState(Holding)
  BY <1>1 DEF InState, Holding, InBackend
<1>3. sem'.waiters = <<>> /\ sem'.available = sem.available
  BY DEF Kill, TypeOK
<1>4. Len(sem'.waiters) = 0
  BY <1>3, EmptySeq
<1>5. QueueExact'
  BY <1>1, <1>4 DEF QueueExact
<1> QED BY <1>2, <1>3, <1>5 DEF PoolInv, PermitsConserved

\* A crash and a resume start with all permits.
LEMMA DroppedPool ==
  ASSUME Dropped
  PROVE  PoolInv'
<1>1. InState(Holding)' = {} /\ \A f \in Fibers : pc'[f] # "waiting"
  BY DEF Dropped, AllFibers, InState, Holding, InBackend
<1>2. sem'.waiters = <<>> /\ sem'.available = Permits
  BY DEF Dropped, FreshSem
<1>3. Len(sem'.waiters) = 0 /\ Cardinality({}) = 0 /\ Permits \in Nat
  BY <1>2, EmptySeq, FS_EmptySet, RunAssumption
<1> QED BY <1>1, <1>2, <1>3 DEF PoolInv, QueueExact, PermitsConserved

\* Every step keeps the queue exact and the permits conserved.
LEMMA PoolStepKeeps ==
  ASSUME TypeOK, CallsLeft, PoolInv, [Next]_vars
  PROVE  PoolInv'
<1>1. ASSUME NEW f \in Fibers, Agent(f) \/ Backend(f) PROVE PoolInv'
  <2>1. PoolStep(f)
    BY <1>1, FiberPool DEF PoolInv
  <2> QED BY <2>1, StaysKeepsPool, AsksKeepsPool, ReleasesKeepsPool DEF PoolStep
<1>2. ASSUME UNCHANGED <<pc, sem>> PROVE PoolInv'
  BY <1>2 DEF PoolInv, QueueExact, PermitsConserved, InState
<1>3. CASE EndRun \/ Kill \/ Crash \/ Resume
  BY <1>2, <1>3, RunPool, KillKeepsPool, DroppedPool
<1>4. CASE UNCHANGED vars
  BY <1>2, <1>4 DEF vars
<1> QED BY <1>1, <1>3, <1>4 DEF Next

--------------------------------------------------------------------------------

\* read() sorts: the ranks of the entries are the numbers below their count.
LEMMA RanksOnto ==
  ASSUME NEW n \in Nat, NEW r \in [1 .. n -> 0 .. n - 1],
         \A i, j \in 1 .. n : r[i] = r[j] => i = j,
         NEW k \in 0 .. n - 1
  PROVE  \E j \in 1 .. n : r[j] = k
<1>1. r \in Injection(1 .. n, 0 .. n - 1)
  BY DEF Injection, IsInjective
<1>2. IsFiniteSet(0 .. n - 1) /\ Cardinality(1 .. n) = Cardinality(0 .. n - 1)
  <2>1. Cardinality(1 .. n) = IF 1 > n THEN 0 ELSE n - 1 + 1
    BY FS_Interval
  <2>2. IsFiniteSet(0 .. n - 1) /\ Cardinality(0 .. n - 1) = IF 0 > n - 1 THEN 0 ELSE n - 1 - 0 + 1
    BY FS_Interval
  <2> QED BY <2>1, <2>2
<1>3. r \in Surjection(1 .. n, 0 .. n - 1)
  BY <1>1, <1>2, FS_Injection
<1> QED BY <1>3 DEF Surjection

\* read() returns a sequence of entries, whatever order the appends reached the file in.
LEMMA ReadTypes ==
  ASSUME disk \in Seq(Entries \cup {Torn})
  PROVE  ReadJournal \in Seq(Entries)
<1> DEFINE n == Len(disk)
           before(i, j) == disk[i].seq < disk[j].seq \/ (disk[i].seq = disk[j].seq /\ i < j)
           those(j) == {i \in 1 .. n : before(i, j)}
           r == [j \in 1 .. n |-> Cardinality(those(j))]
<1>1. n \in Nat /\ DOMAIN disk = 1 .. n /\ \A i \in 1 .. n : disk[i] \in Entries \cup {Torn}
  BY LenProperties, ElementOfSeq
<1>2. CASE \E i \in DOMAIN disk : disk[i].kind = "torn"
  BY <1>2, EmptySeq DEF ReadJournal
<1>3. CASE \A i \in DOMAIN disk : disk[i].kind # "torn"
  <2>1. \A i \in 1 .. n : disk[i] \in Entries /\ disk[i].seq \in Nat
    BY <1>1, <1>3 DEF Entries, Torn
  <2> HIDE DEF n
  <2>2. ASSUME NEW j \in 1 .. n
        PROVE  IsFiniteSet(those(j)) /\ Cardinality(those(j)) \in 0 .. n - 1
    <3>1. IsFiniteSet(1 .. n) /\ Cardinality(1 .. n) = n
      BY <1>1, FS_Interval
    <3>2. those(j) \subseteq 1 .. n /\ j \notin those(j)
      BY <2>1
    <3> HIDE DEF those
    <3>3. Cardinality(1 .. n) # Cardinality(those(j)) /\ Cardinality(those(j)) <= n
          /\ IsFiniteSet(those(j)) /\ Cardinality(those(j)) \in Nat
      BY <3>1, <3>2, FS_Subset, FS_CardinalityType
    <3> QED BY <1>1, <3>1, <3>3
  <2>3. ASSUME NEW i \in 1 .. n, NEW j \in 1 .. n, before(i, j)
        PROVE  Cardinality(those(i)) # Cardinality(those(j))
    <3>1. those(i) \subseteq those(j) /\ i \in those(j) /\ i \notin those(i)
      BY <2>1, <2>3
    <3> HIDE DEF those
    <3> QED BY <2>2, <3>1, FS_Subset
  <2>4. \A i, j \in 1 .. n : r[i] = r[j] => i = j
    <3> SUFFICES ASSUME NEW i \in 1 .. n, NEW j \in 1 .. n, i # j PROVE r[i] # r[j]
      OBVIOUS
    <3>1. before(i, j) \/ before(j, i)
      BY <1>1, <2>1
    <3> QED BY <2>3, <3>1
  <2>5. r \in [1 .. n -> 0 .. n - 1]
    BY <2>2
  <2>6. ASSUME NEW m \in 1 .. n
        PROVE  disk[CHOOSE j \in 1 .. n : Cardinality(those(j)) = m - 1] \in Entries
    <3>1. m - 1 \in 0 .. n - 1
      BY <1>1
    <3>2. \E j \in 1 .. n : Cardinality(those(j)) = m - 1
      <4> HIDE DEF r
      <4>1. \E j \in 1 .. n : r[j] = m - 1
        BY <1>1, <2>4, <2>5, <3>1, RanksOnto
      <4> QED BY <4>1 DEF r
    <3> HIDE DEF those
    <3> QED BY <2>1, <3>2
  <2>7. ReadJournal = [m \in 1 .. n |-> disk[CHOOSE j \in 1 .. n : Cardinality(those(j)) = m - 1]]
    BY <1>1, <1>3 DEF ReadJournal
  <2> DEFINE e(m) == disk[CHOOSE j \in 1 .. n : Cardinality(those(j)) = m - 1]
  <2>8. ReadJournal = [m \in 1 .. n |-> e(m)] /\ \A m \in 1 .. n : e(m) \in Entries
    BY <2>6, <2>7
  <2> HIDE DEF e
  <2> QED BY <1>1, <2>8
<1> QED BY <1>2, <1>3

\* What a crash leaves in the file is typed: some appends, in some order, and maybe half a line.
LEMMA SavedTypes ==
  ASSUME TypeOK, NEW S \in SUBSET Fibers, NEW order \in SetToSeqs(S)
  PROVE  LET lines == disk \o [i \in DOMAIN order |-> call[order[i]]]
         IN  lines \in Seq(Entries \cup {Torn}) /\ Append(lines, Torn) \in Seq(Entries \cup {Torn})
<1> DEFINE T == Entries \cup {Torn}
           new == [i \in DOMAIN order |-> call[order[i]]]
<1>1. order \in [1 .. Cardinality(S) -> S] /\ Cardinality(S) \in Nat
  <2>1. IsFiniteSet(Fibers)
    BY FS_Interval, RunAssumption DEF Fibers
  <2> QED BY <2>1, FS_Subset, FS_CardinalityType DEF SetToSeqs
<1>2. new \in Seq(T)
  <2>1. new = [i \in 1 .. Cardinality(S) |-> call[order[i]]]
    BY <1>1
  <2>2. \A i \in 1 .. Cardinality(S) : call[order[i]] \in T
    BY <1>1 DEF TypeOK
  <2> QED BY <1>1, <2>1, <2>2, IsASeq
<1> HIDE DEF new
<1>3. disk \o new \in Seq(T)
  BY <1>2, ConcatProperties DEF TypeOK
<1>4. Append(disk \o new, Torn) \in Seq(T)
  BY <1>3, AppendProperties
<1> QED BY <1>3, <1>4 DEF new

--------------------------------------------------------------------------------

Inv == TypeOK /\ CallsLeft /\ PoolInv

\* What a step of the pool does to the fibers: its own goes on, and at most one that
\* waits gets its permit.
LEMMA PoolMoves ==
  ASSUME TypeOK, PoolInv, NEW f \in Fibers, PoolStep(f)
  PROVE  /\ pc' \in [Fibers -> Phases] /\ sem' \in [available : Nat, waiters : Seq(Fibers)]
         /\ \A g \in Fibers \ {f} : pc'[g] = pc[g] \/ (pc[g] = "waiting" /\ pc'[g] = "granted")
<1>1. "granted" \in Phases /\ "waiting" \in Phases /\ {"ready"} \cup Settled \subseteq Phases
  BY DEF Phases, Asking, Holding, Settled
<1>2. CASE Stays(f)
  <2>1. PICK p \in Phases : pc' = [pc EXCEPT ![f] = p]
    BY <1>2 DEF Stays
  <2> QED BY <2>1 DEF Stays, TypeOK, Phases, Asking, PoolStep
<1>3. CASE Asks(f)
  <2>1. PICK p \in {"waiting", "granted"} : pc' = [pc EXCEPT ![f] = p]
    BY <1>3 DEF Asks, Joins, Takes
  <2> QED BY <1>1, <2>1 DEF TypeOK, Phases, Asking, PoolStep
<1>4. CASE Releases(f)
  <2>1. PICK p \in {"ready"} \cup Settled : Frees(f, p) \/ \E g \in Fibers : HandsOver(f, p, g)
    BY <1>4 DEF Releases
  <2>2. CASE Frees(f, p)
    BY <1>1, <2>2 DEF Frees, TypeOK, Phases, Asking, PoolStep
  <2>3. ASSUME NEW g \in Fibers, HandsOver(f, p, g)
        PROVE  /\ pc' \in [Fibers -> Phases]
               /\ \A h \in Fibers \ {f} : pc'[h] = pc[h]
                    \/ (pc[h] = "waiting" /\ pc'[h] = "granted")
    BY <1>1, <2>3 DEF HandsOver, TypeOK, Phases, Asking
  <2> QED BY <2>1, <2>2, <2>3 DEF PoolStep
<1> QED BY <1>2, <1>3, <1>4 DEF PoolStep

\* The fiber f goes on with its call, or is done with it.
Continues(f) ==
  \/ step' = step /\ (pc[f] \notin Settled \/ pc'[f] \in Settled)
  \/ /\ pc[f] \notin Settled
     /\ step' = [step EXCEPT ![f] = @ + 1] /\ pc'[f] = AfterReturn(f)

\* A step of the pool that goes on with its call keeps the types of the fibers.
LEMMA FiberTypes ==
  ASSUME Inv, NEW f \in Fibers, PoolStep(f), Continues(f), UNCHANGED run,
         call' \in [Fibers -> Entries], thrown' \in {"none", "failed", "killed"},
         ctx' \in [journal : Seq(Entries), index : Nat, invalidated : BOOLEAN],
         res' \in [agentCount : Nat, nextId : Nat, spent : Nat],
         disk' \in Seq(Entries \cup {Torn})
  PROVE  TypeOK' /\ CallsLeft'
<1>1. /\ pc' \in [Fibers -> Phases] /\ sem' \in [available : Nat, waiters : Seq(Fibers)]
      /\ \A g \in Fibers \ {f} : pc'[g] = pc[g] \/ (pc[g] = "waiting" /\ pc'[g] = "granted")
  BY PoolMoves DEF Inv
<1>2. script' = script /\ status' = status /\ aborted' = aborted /\ starts' = starts
  BY DEF run
<1>3. \A g \in Fibers : Len(script[g]) \in Nat \ {0}
  BY ScriptIsSeq DEF Inv, TypeOK
<1>4. ASSUME NEW g \in Fibers
      PROVE  step'[g] \in 1 .. Len(script[g]) + 1
             /\ (pc'[g] \in Settled \/ step'[g] <= Len(script[g]))
  <2>1. step[g] \in 1 .. Len(script[g]) + 1 /\ step \in [Fibers -> Nat]
        /\ (pc[g] \in Settled \/ step[g] <= Len(script[g]))
    BY DEF Inv, TypeOK, CallsLeft
  <2>2. CASE g # f
    <3>1. step'[g] = step[g]
      BY <2>1, <2>2 DEF Continues
    <3> QED BY <1>1, <2>1, <2>2, <3>1 DEF Settled
  <2>3. CASE g = f /\ step' = step /\ (pc[f] \notin Settled \/ pc'[f] \in Settled)
    BY <2>1, <2>3
  <2>4. CASE g = f /\ pc[f] \notin Settled /\ step' = [step EXCEPT ![f] = @ + 1]
             /\ pc'[f] = AfterReturn(f)
    BY <2>1, <2>4, ReturnTypes DEF Inv, Settled
  <2> QED BY <2>2, <2>3, <2>4 DEF Continues
<1>5. CallsLeft'
  BY <1>2, <1>4 DEF CallsLeft
<1>6. step' \in [Fibers -> Nat]
  <2>1. step \in [Fibers -> Nat]
    BY DEF Inv, TypeOK
  <2>2. step' = step \/ step' = [step EXCEPT ![f] = step[f] + 1]
    BY DEF Continues
  <2> QED BY <2>1, <2>2
<1>7. TypeOK'
  <2>1. /\ script \in Scripts /\ status \in {"running", "down"} \cup Terminal
        /\ aborted \in BOOLEAN /\ starts \in 1 .. MaxStarts
    BY DEF Inv, TypeOK
  <2>2. \A g \in Fibers : step'[g] \in 1 .. Len(script'[g]) + 1
    BY <1>2, <1>4
  <2> QED BY <1>1, <1>2, <1>6, <2>1, <2>2 DEF TypeOK, Phases, Asking
<1> QED BY <1>5, <1>7

\* Each action of a fiber keeps the types.
LEMMA FiberStep ==
  ASSUME Inv, NEW f \in Fibers, Agent(f) \/ Backend(f)
  PROVE  TypeOK' /\ CallsLeft'
<1> DEFINE Data == /\ call' \in [Fibers -> Entries] /\ thrown' \in {"none", "failed", "killed"}
                   /\ ctx' \in [journal : Seq(Entries), index : Nat, invalidated : BOOLEAN]
                   /\ res' \in [agentCount : Nat, nextId : Nat, spent : Nat]
                   /\ disk' \in Seq(Entries \cup {Torn})
<1> USE DEF Inv
<1>1. PoolStep(f) /\ UNCHANGED run
  <2>1. PoolStep(f)
    BY FiberPool DEF PoolInv
  <2>2. UNCHANGED run
    BY DEF Agent, Backend, CapReached, Replay, Diverge, Live, Truncated, GrantedKilled, OverBudget,
           Skip, StartAgent, Appended, AppendFails, BackendOk, BackendDead, BackendThrows,
           BackendAborts, Record, Reinvoke
  <2> QED BY <2>1, <2>2
<1>2. SUFFICES Data /\ Continues(f)
  BY <1>1, FiberTypes
<1>3. ctx \in [journal : Seq(Entries), index : Nat, invalidated : BOOLEAN]
      /\ res \in [agentCount : Nat, nextId : Nat, spent : Nat]
      /\ call \in [Fibers -> Entries] /\ thrown \in {"none", "failed", "killed"}
      /\ disk \in Seq(Entries \cup {Torn})
  BY DEF TypeOK
<1>4. ASSUME UNCHANGED <<call, ctx, res, disk>>, thrown' \in {"none", "failed", "killed"} PROVE Data
  BY <1>3, <1>4
<1>5. ASSUME NewCall(f)
      PROVE  call' \in [Fibers -> Entries] /\ res' \in [agentCount : Nat, nextId : Nat, spent : Nat]
             /\ pc[f] \notin Settled
  <2>1. script[f][step[f]] \in Keys /\ res.nextId \in Nat /\ pc[f] \notin Settled
    BY <1>3, <1>5, CallKey DEF NewCall, Ready, Settled
  <2>2. [key |-> script[f][step[f]], seq |-> res.nextId, kind |-> "ok"] \in Entries
    BY <2>1 DEF Entries
  <2> QED BY <1>3, <1>5, <2>1, <2>2 DEF NewCall
<1>6. ASSUME step' = step, pc[f] \notin Settled PROVE Continues(f)
  BY <1>6 DEF Continues
<1>7. CASE CapReached(f) \/ GrantedKilled(f) \/ OverBudget(f) \/ AppendFails(f) \/ BackendAborts(f)
  <2>1. UNCHANGED <<call, ctx, res, disk, step>> /\ (\E how : Reject(how)) /\ pc[f] \notin Settled
    BY <1>7 DEF CapReached, GrantedKilled, OverBudget, AppendFails, BackendAborts, Ready,
                RejectReleasing, InBackend, Settled
  <2> QED BY <1>4, <1>6, <2>1, RejectTypes
<1>8. CASE Replay(f)
  <2>1. ctx' = [ctx EXCEPT !.index = ctx.index + 1] /\ UNCHANGED <<thrown, disk>> /\ NewCall(f)
        /\ step' = [step EXCEPT ![f] = @ + 1] /\ pc' = [pc EXCEPT ![f] = AfterReturn(f)]
    BY <1>8 DEF Replay
  <2>2. Data
    BY <1>3, <1>5, <2>1
  <2> QED BY <1>5, <2>1, <2>2 DEF Continues, TypeOK
<1>9. CASE Diverge(f)
  <2> DEFINE j == SubSeq(ctx.journal, 1, ctx.index)
  <2>1. ctx' = [ctx EXCEPT !.invalidated = TRUE, !.journal = j] /\ UNCHANGED <<thrown, disk, step>>
        /\ NewCall(f) /\ Replaying
    BY <1>9 DEF Diverge
  <2>2. j \in Seq(Entries)
    <3>1. /\ ctx.journal \in Seq(Entries) /\ ctx.index \in Nat /\ Len(ctx.journal) \in Nat
          /\ ctx.index < Len(ctx.journal) /\ 1 \in Int /\ ctx.index \in Int
      BY <1>3, <2>1, LenProperties DEF Replaying
    <3>2. \A i \in 1 .. ctx.index : ctx.journal[i] \in Entries
      BY <3>1, ElementOfSeq
    <3> QED BY <3>1, <3>2, SubSeqProperties
  <2> HIDE DEF j
  <2>3. Data
    BY <1>3, <1>5, <2>1, <2>2
  <2> QED BY <1>5, <1>6, <2>1, <2>3
<1>10. CASE Live(f)
  <2>1. thrown' \in {"none", "failed", "killed"} /\ NewCall(f) /\ UNCHANGED <<ctx, disk, step>>
    BY <1>10, AcquireCases DEF Live
  <2> QED BY <1>3, <1>5, <1>6, <2>1
<1>11. CASE Truncated(f)
  <2>1. thrown' \in {"none", "failed", "killed"} /\ UNCHANGED <<ctx, call, res, step>>
          /\ disk' = <<>>
        /\ pc[f] \notin Settled
    BY <1>11, AcquireCases DEF Truncated, Settled
  <2> QED BY <1>3, <1>6, <2>1, EmptySeq
<1>12. CASE Skip(f) \/ Appended(f)
  <2>1. /\ step' = [step EXCEPT ![f] = @ + 1] /\ ReleaseTo(f, AfterReturn(f))
        /\ UNCHANGED <<call, thrown, ctx, res>> /\ disk' \in {disk, Append(disk, call[f])}
        /\ pc[f] \in Holding /\ pc[f] \notin Settled
    BY <1>12 DEF Skip, Appended, Holding, Settled
  <2>2. call[f] \in Entries \cup {Torn} /\ Append(disk, call[f]) \in Seq(Entries \cup {Torn})
    BY <1>3, AppendProperties
  <2>3. Data
    BY <1>3, <2>1, <2>2
  <2>4. pc'[f] = AfterReturn(f)
    <3>1. Frees(f, AfterReturn(f)) \/ \E g \in Fibers : HandsOver(f, AfterReturn(f), g)
      BY <2>1, ReleaseCases DEF PoolInv
    <3>2. pc[f] # "waiting"
      BY <2>1, Disjoint
    <3> QED BY <3>1, <3>2 DEF Frees, HandsOver, TypeOK
  <2> QED BY <2>1, <2>3, <2>4 DEF Continues
<1>13. ASSUME NEW kind \in {"ok", "dead"}, NEW n \in Nat, Record(f, kind, n), pc[f] \in InBackend
       PROVE  Data /\ Continues(f)
  <2> DEFINE entry == [call[f] EXCEPT !.kind = kind]
             j == Append(ctx.journal, entry)
  <2>1. entry \in Entries
    BY <1>3 DEF Entries
  <2>2. j \in Seq(Entries)
    BY <1>3, <2>1, AppendProperties
  <2>3. call' = [call EXCEPT ![f] = entry] /\ res' = [res EXCEPT !.spent = res.spent + n]
        /\ UNCHANGED <<thrown, disk, step>>
    BY <1>13 DEF Record
  <2>4. ctx' = [ctx EXCEPT !.journal = j, !.index = ctx.index + 1]
    BY <1>13 DEF Record
  <2> HIDE DEF entry, j
  <2>5. Data
    <3>1. ctx' \in [journal : Seq(Entries), index : Nat, invalidated : BOOLEAN]
      <4>1. ASSUME NEW x \in Nat
            PROVE  [ctx EXCEPT !.journal = j, !.index = x]
                     \in [journal : Seq(Entries), index : Nat, invalidated : BOOLEAN]
        BY <1>3, <2>2
      <4>2. ctx.index + 1 \in Nat
        BY <1>3
      <4> QED BY <2>4, <4>1, <4>2
    <3>2. res' \in [agentCount : Nat, nextId : Nat, spent : Nat]
      BY <1>3, <2>3
    <3>3. call' \in [Fibers -> Entries]
      BY <1>3, <2>1, <2>3
    <3> QED BY <1>3, <2>3, <3>1, <3>2, <3>3
  <2> QED BY <1>6, <1>13, <2>3, <2>5 DEF InBackend, Settled
<1>14. ASSUME NEW p, Reinvoke(f, p), pc[f] \in InBackend PROVE Data /\ Continues(f)
  <2>1. UNCHANGED <<call, ctx, res, disk, step, thrown>> /\ pc[f] \notin Settled
    BY <1>14 DEF Reinvoke, InBackend, Settled
  <2> QED BY <1>3, <1>4, <1>6, <2>1
<1>15. CASE StartAgent(f)
  <2>1. res' = [res EXCEPT !.agentCount = res.agentCount + 1] /\ pc[f] \notin Settled
        /\ UNCHANGED <<call, ctx, disk, step, thrown>>
    BY <1>15 DEF StartAgent, Settled
  <2> QED BY <1>3, <1>6, <2>1
<1>16. CASE BackendOk(f)
  BY <1>13, <1>16, RunAssumption DEF BackendOk
<1>17. CASE BackendDead(f)
  BY <1>13, <1>14, <1>17 DEF BackendDead
<1>18. CASE BackendThrows(f)
  <2>1. pc[f] \in InBackend
    BY <1>18 DEF BackendThrows
  <2>2. CASE pc[f] = "first"
    BY <1>14, <1>18, <2>1, <2>2 DEF BackendThrows
  <2>3. CASE pc[f] = "afterDead"
    BY <1>14, <1>18, <2>1, <2>3 DEF BackendThrows
  <2>4. CASE pc[f] \notin {"first", "afterDead"}
    BY <1>13, <1>18, <2>1, <2>4 DEF BackendThrows
  <2> QED BY <2>2, <2>3, <2>4
<1> QED BY <1>7, <1>8, <1>9, <1>10, <1>11, <1>12, <1>15, <1>16, <1>17, <1>18 DEF Agent, Backend

\* A fiber that has made no call has a typed one.
LEMMA NoCallTypes == AllFibers(NoCall) \in [Fibers -> Entries]
<1>1. NoCall \in Entries
  <2>1. "" \in Keys
    BY DEF Keys
  <2> QED BY <2>1 DEF NoCall, Entries
<1> QED BY <1>1 DEF AllFibers

\* The end, the kill, a crash and a resume of the run keep the types.
LEMMA RunStep ==
  ASSUME Inv, EndRun \/ Kill \/ Crash \/ Resume
  PROVE  TypeOK' /\ CallsLeft'
<1> USE DEF Inv
<1>1. /\ ctx \in [journal : Seq(Entries), index : Nat, invalidated : BOOLEAN]
      /\ sem \in [available : Nat, waiters : Seq(Fibers)]
      /\ res \in [agentCount : Nat, nextId : Nat, spent : Nat]
      /\ disk \in Seq(Entries \cup {Torn}) /\ <<>> \in Seq(Entries \cup {Torn})
           /\ <<>> \in Seq(Fibers)
  BY EmptySeq DEF TypeOK
<1>2. \A j \in Seq(Entries), b \in BOOLEAN :
         NewContext(j, b) \in [journal : Seq(Entries), index : Nat, invalidated : BOOLEAN]
  BY DEF NewContext
<1>3. FreshSem \in [available : Nat, waiters : Seq(Fibers)]
      /\ FreshRes \in [agentCount : Nat, nextId : Nat, spent : Nat]
  BY <1>1, RunAssumption DEF FreshSem, FreshRes
<1>4. CASE EndRun
  BY <1>4 DEF EndRun, TypeOK, CallsLeft, Terminal
<1>5. CASE Kill
  <2>1. sem' \in [available : Nat, waiters : Seq(Fibers)]
    BY <1>1, <1>5 DEF Kill
  <2>2. thrown' \in {"none", "failed", "killed"}
    BY <1>5, RejectTypes DEF Kill, TypeOK
  <2>3. pc' \in [Fibers -> Phases] /\ \A f \in Fibers : pc[f] \in Settled => pc'[f] \in Settled
    BY <1>5 DEF Kill, TypeOK, Phases, Asking, Settled
  <2>4. UNCHANGED <<status, starts, script, step, call, ctx, res, disk>> /\ aborted' = TRUE
    BY <1>5 DEF Kill
  <2> QED BY <2>1, <2>2, <2>3, <2>4 DEF TypeOK, CallsLeft, Phases, Asking
<1>6. CASE Crash
  <2>1. disk' \in Seq(Entries \cup {Torn})
    <3>1. PICK S \in SUBSET Fibers : \E order \in SetToSeqs(S) :
            LET lines == disk \o [i \in DOMAIN order |-> call[order[i]]]
            IN  disk' = lines \/ disk' = Append(lines, Torn)
      BY <1>6 DEF Crash
    <3> QED BY <3>1, SavedTypes
  <2>2. /\ ctx' = NewContext(<<>>, FALSE) /\ sem' = FreshSem /\ res' = FreshRes
        /\ pc' = AllFibers("done") /\ status' = "down"
        /\ UNCHANGED <<aborted, starts, script, step, call, thrown>>
    BY <1>6 DEF Crash
  <2>3. pc' \in [Fibers -> Phases] /\ \A f \in Fibers : pc'[f] \in Settled
    BY <2>2 DEF AllFibers, Phases, Settled
  <2>4. ctx' \in [journal : Seq(Entries), index : Nat, invalidated : BOOLEAN]
    BY <1>2, <2>2, EmptySeq
  <2> QED BY <1>3, <2>1, <2>2, <2>3, <2>4 DEF TypeOK, CallsLeft, Phases, Asking
<1>7. CASE Resume
  <2>1. /\ sem' = FreshSem /\ res' = FreshRes /\ pc' = AllFibers("ready") /\ step' = AllFibers(1)
        /\ call' = AllFibers(NoCall) /\ status' = "running" /\ aborted' = FALSE /\ thrown' = "none"
        /\ starts' = starts + 1 /\ starts < MaxStarts /\ script' \in Scripts
    BY <1>7 DEF Resume
  <2>2. ctx' \in [journal : Seq(Entries), index : Nat, invalidated : BOOLEAN]
        /\ disk' \in Seq(Entries \cup {Torn})
    <3>1. ReadJournal \in Seq(Entries) /\ <<>> \in Seq(Entries)
      BY <1>1, ReadTypes, EmptySeq
    <3> QED BY <1>1, <1>2, <1>7, <3>1 DEF Resume
  <2>3. pc' \in [Fibers -> Phases] /\ step' \in [Fibers -> Nat] /\ \A f \in Fibers : step'[f] = 1
    BY <2>1 DEF AllFibers, Phases, Asking
  <2>4. \A f \in Fibers : Len(script'[f]) \in Nat \ {0}
    <3> SUFFICES ASSUME NEW f \in Fibers PROVE Len(script'[f]) \in Nat \ {0}
      OBVIOUS
    <3>1. script'[f] \in Seq(STRING) \ {<<>>}
      BY <2>1, RunAssumption
    <3> QED BY <3>1, EmptySeq, LenProperties
  <2>5. call' \in [Fibers -> Entries]
    BY <2>1, NoCallTypes
  <2>6. starts' \in 1 .. MaxStarts
    BY <2>1, RunAssumption DEF TypeOK
  <2>7. \A f \in Fibers : step'[f] \in 1 .. Len(script'[f]) + 1 /\ step'[f] <= Len(script'[f])
    BY <2>3, <2>4
  <2> QED BY <1>3, <2>1, <2>2, <2>3, <2>5, <2>6, <2>7 DEF TypeOK, CallsLeft, Phases, Asking
<1> QED BY <1>4, <1>5, <1>6, <1>7

\* The run starts with all permits and every fiber before its first call.
LEMMA InitInv == Init => Inv
<1> SUFFICES ASSUME Init PROVE Inv
  OBVIOUS
<1>1. <<>> \in Seq(Entries) /\ <<>> \in Seq(Entries \cup {Torn}) /\ <<>> \in Seq(Fibers)
      /\ Len(<<>>) = 0
  BY EmptySeq
<1>2. \A f \in Fibers : Len(script[f]) \in Nat \ {0}
  BY ScriptIsSeq DEF Init
<1>3. /\ ctx \in [journal : Seq(Entries), index : Nat, invalidated : BOOLEAN]
      /\ sem \in [available : Nat, waiters : Seq(Fibers)]
      /\ res \in [agentCount : Nat, nextId : Nat, spent : Nat]
      /\ pc \in [Fibers -> Phases] /\ step \in [Fibers -> Nat]
      /\ call \in [Fibers -> Entries] /\ \A f \in Fibers : step[f] = 1 /\ pc[f] = "ready"
  <2>1. /\ ctx \in [journal : Seq(Entries), index : Nat, invalidated : BOOLEAN]
        /\ sem \in [available : Nat, waiters : Seq(Fibers)]
        /\ res \in [agentCount : Nat, nextId : Nat, spent : Nat]
    BY <1>1, RunAssumption DEF Init, NewContext, FreshSem, FreshRes
  <2>2. pc \in [Fibers -> Phases] /\ step \in [Fibers -> Nat]
        /\ \A f \in Fibers : step[f] = 1 /\ pc[f] = "ready"
    BY DEF Init, AllFibers, Phases, Asking
  <2> QED BY <2>1, <2>2, NoCallTypes DEF Init
<1>4. TypeOK /\ CallsLeft
  <2>1. starts \in 1 .. MaxStarts
    BY RunAssumption DEF Init
  <2>2. \A f \in Fibers : step[f] \in 1 .. Len(script[f]) + 1 /\ step[f] <= Len(script[f])
    BY <1>2, <1>3
  <2> QED BY <1>1, <1>3, <2>1, <2>2 DEF Init, TypeOK, CallsLeft, Phases, Asking
<1>5. PoolInv
  <2>1. InState(Holding) = {}
    BY <1>3 DEF InState, Holding, InBackend
  <2>2. sem.waiters = <<>> /\ sem.available = Permits /\ Permits \in Nat
    BY RunAssumption DEF Init, FreshSem
  <2> QED BY <1>1, <1>3, <2>1, <2>2, FS_EmptySet DEF PoolInv, QueueExact, PermitsConserved
<1> QED BY <1>4, <1>5 DEF Inv

\* Inv is inductive: types, a queue that holds each waiting call once, and all permits.
THEOREM Invariance == Spec => []Inv
<1>1. Inv /\ [Next]_vars => Inv'
  <2> SUFFICES ASSUME Inv, [Next]_vars PROVE Inv'
    OBVIOUS
  <2>1. PoolInv'
    BY PoolStepKeeps DEF Inv
  <2>2. TypeOK' /\ CallsLeft'
    <3>1. CASE UNCHANGED vars
      BY <3>1 DEF vars, Inv, TypeOK, CallsLeft
    <3> QED BY <3>1, FiberStep, RunStep DEF Next
  <2> QED BY <2>1, <2>2 DEF Inv
<1> QED BY <1>1, InitInv, PTL DEF Spec

\* The variables keep their types, read() of a sorted, torn or reordered journal included.
THEOREM TypeCorrect == Spec => []TypeOK
BY Invariance, PTL DEF Inv

\* On every way out of agent(), the abort of a queued call included, the permit is given
\* back exactly once (hooks.ts:92-98, 217-219).
THEOREM PermitsKept == Spec => []PermitsConserved
<1>1. Inv => PermitsConserved
  BY DEF Inv, PoolInv
<1> QED BY <1>1, Invariance, PTL

--------------------------------------------------------------------------------

\* A finite set of naturals that is not empty has a largest element: one with as few
\* elements above it as can be.
LEMMA LargestCost == Max(Costs) \in Nat /\ \A c \in Costs : c <= Max(Costs)
<1> DEFINE above(c) == {d \in Costs : d > c}
           D == {above(c) : c \in Costs}
<1>1. IsFiniteSet(Costs) /\ Costs \subseteq Nat /\ Costs # {}
  BY RunAssumption
<1>2. D \subseteq FiniteSubsetsOf(Costs) /\ D # {}
  <2>1. \A c \in Costs : above(c) \subseteq Costs /\ IsFiniteSet(above(c))
    BY <1>1, FS_Subset
  <2>2. \A c \in Costs : above(c) \in FiniteSubsetsOf(Costs)
    BY <2>1 DEF FiniteSubsetsOf
  <2> QED BY <1>1, <2>2
<1>3. PICK X \in D : \A Y \in D : ~ (<<Y, X>> \in StrictSubsetOrdering(Costs))
  <2> HIDE DEF D
  <2> QED BY <1>2, FS_StrictSubsetOrderingWellFounded, WFMin
<1>4. PICK c \in Costs : X = above(c)
  OBVIOUS
<1>5. ASSUME NEW d \in Costs, ~ (c >= d) PROVE FALSE
  <2> DEFINE Y == above(d)
  <2>1. Y \subseteq X /\ Y # X /\ X \subseteq Costs
    <3>1. d \in X /\ d \notin Y
      BY <1>1, <1>4, <1>5
    <3>2. \A e \in Costs : e > d => e > c
      BY <1>1, <1>5
    <3> QED BY <1>4, <3>1, <3>2
  <2>2. Y \in D
    OBVIOUS
  <2> HIDE DEF Y, D
  <2>3. <<Y, X>> \in StrictSubsetOrdering(Costs)
    BY <2>1 DEF StrictSubsetOrdering
  <2> QED BY <1>3, <2>2, <2>3
<1>6. \A d \in Costs : c >= d
  BY <1>5
<1> QED BY <1>1, <1>6 DEF Max

--------------------------------------------------------------------------------

\* The calls past the cap check whose agents have not started.
Unstarted == {"truncating", "waiting", "granted"}

\* What a fiber does to the counters.
AsksCall(f) ==
  /\ pc[f] = "ready" /\ res.agentCount < MaxTotalAgents
  /\ res'.agentCount = res.agentCount /\ res'.spent = res.spent /\ pc'[f] \notin InBackend

Quiet(f) ==
  /\ res'.agentCount = res.agentCount /\ res'.spent = res.spent
  /\ pc'[f] \in Unstarted => pc[f] \in Unstarted
  /\ pc'[f] \in InBackend => pc[f] \in InBackend

Starts(f) ==
  /\ ~ aborted /\ pc[f] = "granted" /\ pc'[f] = "first"
  /\ res'.agentCount = res.agentCount + 1 /\ res'.spent = res.spent /\ res.spent < BudgetTotal

Charges(f) ==
  /\ pc[f] \in InBackend /\ pc'[f] = "appending" /\ res'.agentCount = res.agentCount
  /\ \E n \in Costs \cup {0} : res'.spent = res.spent + n

\* Every action of a fiber asks for a call, starts an agent, charges one, or counts
\* nothing.
LEMMA FiberCounts ==
  ASSUME Inv, NEW f \in Fibers, Agent(f) \/ Backend(f)
  PROVE  AsksCall(f) \/ Quiet(f) \/ Starts(f) \/ Charges(f)
<1> USE DEF Inv
<1>0. res \in [agentCount : Nat, nextId : Nat, spent : Nat] /\ pc \in [Fibers -> Phases]
  BY DEF TypeOK, Phases, Asking
<1>1. ASSUME NewCall(f), pc'[f] \notin InBackend PROVE AsksCall(f)
  BY <1>0, <1>1 DEF NewCall, Ready, AsksCall
<1>2. ASSUME Acquire(f) PROVE pc'[f] \in {"killed", "granted", "waiting"}
  BY <1>0, <1>2, AcquireCases DEF Joins, Takes
<1>3. ASSUME NEW p \in {"ready"} \cup Settled, pc[f] \in Holding, ReleaseTo(f, p), res' = res
      PROVE  Quiet(f)
  <2>1. pc'[f] = p
    <3>1. Frees(f, p) \/ \E g \in Fibers : HandsOver(f, p, g)
      BY <1>3, ReleaseCases DEF PoolInv
    <3>2. pc[f] # "waiting"
      BY <1>3, Disjoint
    <3> QED BY <1>0, <3>1, <3>2 DEF Frees, HandsOver
  <2> QED BY <1>3, <2>1 DEF Quiet, Unstarted, InBackend, Settled
<1>4. CASE CapReached(f)
  BY <1>0, <1>4 DEF CapReached, Quiet, Unstarted, InBackend
<1>5. CASE Replay(f)
  <2>1. pc'[f] = AfterReturn(f) /\ NewCall(f) /\ pc[f] \notin Settled
    BY <1>0, <1>5 DEF Replay, NewCall, Ready, Settled
  <2> QED BY <1>1, <2>1, ReturnTypes DEF InBackend
<1>6. CASE Diverge(f)
  BY <1>0, <1>1, <1>6 DEF Diverge, InBackend
<1>7. CASE Live(f)
  BY <1>1, <1>2, <1>7 DEF Live, InBackend
<1>8. CASE Truncated(f)
  BY <1>2, <1>8 DEF Truncated, Quiet, Unstarted, InBackend
<1>9. CASE GrantedKilled(f) \/ OverBudget(f) \/ AppendFails(f) \/ BackendAborts(f)
  <2>1. pc[f] \in Holding /\ res' = res /\ \E p \in Settled : ReleaseTo(f, p)
    BY <1>9 DEF GrantedKilled, OverBudget, AppendFails, BackendAborts, RejectReleasing, Holding,
                InBackend, Settled
  <2> QED BY <1>3, <2>1
<1>10. CASE Skip(f) \/ Appended(f)
  <2>1. pc[f] \in Holding /\ ReleaseTo(f, AfterReturn(f)) /\ pc[f] \notin Settled /\ res' = res
    BY <1>10 DEF Skip, Appended, Holding, Settled
  <2>2. AfterReturn(f) \in {"ready"} \cup Settled
    BY <2>1, ReturnTypes DEF Settled
  <2> QED BY <1>3, <2>1, <2>2
<1>11. CASE StartAgent(f)
  BY <1>0, <1>11 DEF StartAgent, Starts
<1>12. ASSUME NEW kind, NEW n \in Costs \cup {0}, Record(f, kind, n), pc[f] \in InBackend
       PROVE  Charges(f)
  BY <1>0, <1>12 DEF Record, Charges
<1>13. ASSUME NEW p \in InBackend, Reinvoke(f, p), pc[f] \in InBackend PROVE Quiet(f)
  BY <1>0, <1>13 DEF Reinvoke, Quiet, InBackend, Unstarted
<1>14. CASE BackendOk(f)
  BY <1>12, <1>14 DEF BackendOk
<1>15. CASE BackendDead(f)
  BY <1>12, <1>13, <1>15 DEF BackendDead, InBackend
<1>16. CASE BackendThrows(f)
  <2>1. pc[f] \in InBackend /\ "retry" \in InBackend /\ "third" \in InBackend
    BY <1>16 DEF BackendThrows, InBackend
  <2>2. CASE pc[f] = "first"
    BY <1>13, <1>16, <2>1, <2>2 DEF BackendThrows
  <2>3. CASE pc[f] = "afterDead"
    BY <1>13, <1>16, <2>1, <2>3 DEF BackendThrows
  <2>4. CASE pc[f] \notin {"first", "afterDead"}
    BY <1>12, <1>16, <2>1, <2>4 DEF BackendThrows
  <2> QED BY <2>2, <2>3, <2>4
<1> QED BY <1>4, <1>5, <1>6, <1>7, <1>8, <1>9, <1>10, <1>11, <1>14, <1>15, <1>16 DEF Agent, Backend

\* Multiplication is monotone.
LEMMA Products ==
  ASSUME NEW m \in Nat, NEW a \in Nat, NEW b \in Nat
  PROVE  /\ a * m \in Nat /\ (a + 1) * m = a * m + m
         /\ a <= b => a * m <= b * m
OBVIOUS

\* The agents that may still start are counted against the cap, those that run against
\* the budget.
AgentBound ==
  res.agentCount + Cardinality(InState(Unstarted)) <= MaxTotalAgents - 1 + N

BudgetBound ==
  res.spent + Cardinality(InState(InBackend)) * Max(Costs) <= BudgetTotal - 1 + Permits * Max(Costs)

Bounds == AgentBound /\ BudgetBound

\* A fiber moves in or out of a set of states; the others keep to it.
LEMMA FiberSets ==
  ASSUME Inv, NEW f \in Fibers, Agent(f) \/ Backend(f), NEW S,
         "waiting" \in S <=> "granted" \in S
  PROVE  /\ (pc[f] \in S <=> pc'[f] \in S) => InState(S)' = InState(S)
         /\ pc[f] \in S /\ pc'[f] \notin S => InState(S)' = InState(S) \ {f} /\ f \in InState(S)
         /\ pc[f] \notin S /\ pc'[f] \in S =>
              InState(S)' = InState(S) \cup {f} /\ f \notin InState(S)
<1>1. \A g \in Fibers \ {f} : pc'[g] \in S <=> pc[g] \in S
  BY FiberPool, PoolMoves DEF Inv, PoolInv
<1> QED BY <1>1 DEF InState

\* Every action of a fiber keeps the two bounds.
LEMMA FiberBounds ==
  ASSUME Inv, Bounds, NEW f \in Fibers, Agent(f) \/ Backend(f)
  PROVE  Bounds'
<1> DEFINE u == Cardinality(InState(Unstarted))
           k == Cardinality(InState(InBackend))
           M == Max(Costs)
<1>1. /\ res \in [agentCount : Nat, nextId : Nat, spent : Nat]
      /\ res' \in [agentCount : Nat, nextId : Nat, spent : Nat]
  BY FiberStep DEF Inv, TypeOK
<1>2. M \in Nat /\ \A c \in Costs \cup {0} : c \in Nat /\ c <= M
  BY LargestCost, RunAssumption
<1>3. u \in 0 .. N /\ u' \in 0 .. N /\ k \in Nat /\ k' \in Nat /\ N \in Nat
  BY InStateFinite, RunAssumption
<1>4. /\ pc[f] \in Unstarted \/ pc'[f] \notin Unstarted => u' <= u
      /\ pc[f] \in Unstarted /\ pc'[f] \notin Unstarted => u' = u - 1
  <2>1. "waiting" \in Unstarted /\ "granted" \in Unstarted
    BY DEF Unstarted
  <2> QED BY <1>3, <2>1, FiberSets, InStateFinite, CardinalityStep
<1>5. /\ (pc[f] \in InBackend <=> pc'[f] \in InBackend) => k' = k
      /\ pc[f] \in InBackend /\ pc'[f] \notin InBackend => k' = k - 1
  <2>1. "waiting" \notin InBackend /\ "granted" \notin InBackend
    BY DEF InBackend
  <2> QED BY <1>3, <2>1, FiberSets, InStateFinite, CardinalityStep
<1>6. k' <= Permits /\ Permits \in Nat
  <2>1. PermitsConserved' /\ sem'.available \in Nat /\ Permits \in Nat
    BY FiberStep, PoolStepKeeps, RunAssumption DEF Inv, PoolInv, Next, TypeOK
  <2>2. InState(InBackend)' \in SUBSET InState(Holding)'
    BY Disjoint DEF InState
  <2>3. k' <= Cardinality(InState(Holding)') /\ Cardinality(InState(Holding)') \in Nat
    BY <2>2, InStateFinite, FS_Subset, FS_CardinalityType
  <2> QED BY <1>3, <2>1, <2>3 DEF PermitsConserved
<1>7. /\ res.agentCount \in Nat /\ res'.agentCount \in Nat /\ res.spent \in Nat
           /\ res'.spent \in Nat
      /\ MaxTotalAgents \in Nat \ {0} /\ BudgetTotal \in Nat \ {0}
  BY <1>1, RunAssumption
<1>8. /\ res.agentCount + u <= MaxTotalAgents - 1 + N
      /\ res.spent + k * M <= BudgetTotal - 1 + Permits * M
  BY DEF Bounds, AgentBound, BudgetBound
<1>9. /\ res'.agentCount + u' <= MaxTotalAgents - 1 + N
      /\ res'.spent + k' * M <= BudgetTotal - 1 + Permits * M
  <2> HIDE DEF u, k, M
  <2>1. CASE AsksCall(f)
    <3>1. res'.agentCount = res.agentCount /\ res.agentCount <= MaxTotalAgents - 1 /\ k' = k
          /\ res'.spent = res.spent
      BY <1>5, <1>7, <2>1 DEF AsksCall, InBackend
    <3> QED BY <1>3, <1>7, <1>8, <3>1
  <2>2. CASE Quiet(f)
    <3>1. u' <= u /\ res'.agentCount = res.agentCount /\ res'.spent = res.spent /\ (k' = k
            \/ k' = k - 1)
      BY <1>4, <1>5, <2>2 DEF Quiet
    <3>2. k' <= k
      BY <1>3, <3>1
    <3>3. k' * M <= k * M /\ k * M \in Nat /\ k' * M \in Nat
      BY <1>2, <1>3, <3>2, Products
    <3>4. Permits * M \in Nat
      BY <1>2, <1>6, Products
    <3> QED BY <1>3, <1>7, <1>8, <3>1, <3>3, <3>4
  <2>3. CASE Starts(f)
    <3>1. u' = u - 1 /\ res'.agentCount = res.agentCount + 1 /\ res'.spent = res.spent
          /\ res'.spent <= BudgetTotal - 1
      BY <1>4, <1>7, <2>3 DEF Starts, Unstarted
    <3>2. k' * M <= Permits * M /\ k' * M \in Nat /\ Permits * M \in Nat
      BY <1>2, <1>3, <1>6, Products
    <3> QED BY <1>3, <1>7, <1>8, <3>1, <3>2
  <2>4. CASE Charges(f)
    <3>1. u' <= u /\ k' = k - 1 /\ res'.agentCount = res.agentCount
      BY <1>4, <1>5, <2>4 DEF Charges, InBackend, Unstarted
    <3>2. PICK n \in Costs \cup {0} : res'.spent = res.spent + n
      BY <2>4 DEF Charges
    <3>3. k * M = k' * M + M /\ k' * M \in Nat /\ Permits * M \in Nat
      <4>1. k = k' + 1
        BY <1>3, <3>1
      <4>2. (k' + 1) * M = k' * M + M /\ k' * M \in Nat
        BY <1>2, <1>3, Products
      <4>3. Permits * M \in Nat
        BY <1>2, <1>6, Products
      <4> QED BY <4>1, <4>2, <4>3
    <3> QED BY <1>2, <1>3, <1>7, <1>8, <3>1, <3>2, <3>3
  <2> QED BY <2>1, <2>2, <2>3, <2>4, FiberCounts
<1>10. M' = M
  OBVIOUS
<1> QED BY <1>9 DEF Bounds, AgentBound, BudgetBound

\* They hold in a run that has just started.
LEMMA FreshBounds ==
  ASSUME res' = FreshRes, InState(Unstarted)' = {}, InState(InBackend)' = {}
  PROVE  Bounds'
<1>1. Cardinality({}) = 0 /\ Max(Costs) \in Nat
  BY FS_EmptySet, LargestCost
<1>2. Permits * Max(Costs) \in Nat /\ 0 * Max(Costs) = 0
  BY <1>1, Products, RunAssumption
<1>3. res'.agentCount = 0 /\ res'.spent = 0
  BY DEF FreshRes
<1>4. res'.agentCount + Cardinality(InState(Unstarted)') <= MaxTotalAgents - 1 + N
  BY <1>1, <1>3, RunAssumption
<1>5. res'.spent + Cardinality(InState(InBackend)') * Max(Costs)
        <= BudgetTotal - 1 + Permits * Max(Costs)
  <2>1. Cardinality(InState(InBackend)') * Max(Costs) = 0
    BY <1>1, <1>2
  <2> HIDE DEF InState
  <2> QED BY <1>2, <1>3, <2>1, RunAssumption
<1> QED BY <1>4, <1>5 DEF Bounds, AgentBound, BudgetBound

\* The end, the kill, a crash and a resume of the run keep them.
LEMMA RunBounds ==
  ASSUME Inv, Bounds, EndRun \/ Kill \/ Crash \/ Resume \/ UNCHANGED vars
  PROVE  Bounds'
<1>1. CASE EndRun \/ UNCHANGED vars
  <2>1. UNCHANGED <<pc, res>>
    BY <1>1 DEF EndRun, vars
  <2> QED BY <2>1 DEF Bounds, AgentBound, BudgetBound, InState
<1>2. CASE Kill
  <2>1. /\ res' = res /\ InState(InBackend)' = InState(InBackend)
        /\ InState(Unstarted)' \in SUBSET InState(Unstarted)
    BY <1>2 DEF Kill, InState, InBackend, Unstarted
  <2>2. /\ Cardinality(InState(Unstarted)') <= Cardinality(InState(Unstarted))
        /\ Cardinality(InState(Unstarted)') \in Nat /\ Cardinality(InState(Unstarted)) \in Nat
    BY <2>1, InStateFinite, FS_Subset, FS_CardinalityType
  <2>3. res.agentCount \in Nat /\ MaxTotalAgents \in Nat /\ N \in Nat
    BY RunAssumption DEF Inv, TypeOK
  <2>4. AgentBound'
    BY <2>1, <2>2, <2>3 DEF Bounds, AgentBound
  <2>5. BudgetBound'
    BY <2>1 DEF Bounds, BudgetBound
  <2> QED BY <2>4, <2>5 DEF Bounds
<1>3. CASE Crash \/ Resume
  <2>1. res' = FreshRes /\ \E p \in {"ready", "done"} : pc' = AllFibers(p)
    BY <1>3 DEF Crash, Resume
  <2>2. InState(Unstarted)' = {} /\ InState(InBackend)' = {}
    BY <2>1 DEF AllFibers, InState, Unstarted, InBackend
  <2> QED BY <2>1, <2>2, FreshBounds
<1> QED BY <1>1, <1>2, <1>3

\* They hold at the start.
LEMMA InitBounds == Init => Bounds
<1> SUFFICES ASSUME Init PROVE Bounds
  OBVIOUS
<1>1. InState(Unstarted) = {} /\ InState(InBackend) = {} /\ res.agentCount = 0 /\ res.spent = 0
  BY DEF Init, AllFibers, InState, Unstarted, InBackend, FreshRes
<1>2. Cardinality({}) = 0 /\ Max(Costs) \in Nat
  BY FS_EmptySet, LargestCost
<1>3. Permits * Max(Costs) \in Nat /\ 0 * Max(Costs) = 0
  BY <1>2, Products, RunAssumption
<1>4. AgentBound
  BY <1>1, <1>2, RunAssumption DEF AgentBound
<1>5. BudgetBound
  BY <1>1, <1>2, <1>3, RunAssumption DEF BudgetBound
<1> QED BY <1>4, <1>5 DEF Bounds

\* The two bounds are inductive.
THEOREM BoundsHold == Spec => []Bounds
<1>1. Inv /\ Bounds /\ [Next]_vars => Bounds'
  BY FiberBounds, RunBounds DEF Next
<1> QED BY <1>1, InitBounds, Invariance, PTL DEF Spec

\* The budget is overspent by at most what the agents that run at once may use
\* (hooks.ts:101-104).
THEOREM BudgetHolds == Spec => []BudgetOverrunBounded
<1>1. Inv /\ Bounds => BudgetOverrunBounded
  <2> SUFFICES ASSUME Inv, Bounds PROVE BudgetOverrunBounded
    OBVIOUS
  <2>1. Cardinality(InState(InBackend)) \in Nat /\ Max(Costs) \in Nat
    BY InStateFinite, LargestCost
  <2>2. Cardinality(InState(InBackend)) * Max(Costs) \in Nat /\ Permits * Max(Costs) \in Nat
    BY <2>1, Products, RunAssumption
  <2>3. res.spent \in Nat /\ BudgetTotal \in Nat
    BY RunAssumption DEF Inv, TypeOK
  <2> QED BY <2>2, <2>3 DEF Bounds, BudgetBound, BudgetOverrunBounded
<1> QED BY <1>1, BoundsHold, Invariance, PTL

\* The agent cap is overrun by at most the calls that were past its check (hooks.ts:57,
\* 113).
THEOREM CapHolds == Spec => []AgentOverrunBounded
<1>1. Inv /\ Bounds => AgentOverrunBounded
  <2> SUFFICES ASSUME Inv, Bounds PROVE AgentOverrunBounded
    OBVIOUS
  <2>1. Cardinality(InState(Unstarted)) \in Nat /\ N \in Nat
    BY InStateFinite, RunAssumption
  <2>2. res.agentCount \in Nat /\ MaxTotalAgents \in Nat
    BY RunAssumption DEF Inv, TypeOK
  <2> QED BY <2>1, <2>2 DEF Bounds, AgentBound, AgentOverrunBounded
<1> QED BY <1>1, BoundsHold, Invariance, PTL

--------------------------------------------------------------------------------

\* The calls that are past their look at the journal.
Occupied == {"truncating", "waiting"} \cup Holding

\* There is nothing left to replay once a call has gone past the journal.
ReplayInv ==
  /\ ctx.index <= Len(ctx.journal)
  /\ ctx.invalidated => ctx.index = Len(ctx.journal)
  /\ \A f \in Fibers : pc[f] \in Occupied => ctx.index = Len(ctx.journal)

\* A call goes past the journal only when there is nothing left to replay, and what it
\* pushes is behind the index.
LEMMA FiberReplays ==
  ASSUME Inv, ReplayInv, NEW f \in Fibers, Agent(f) \/ Backend(f)
  PROVE  ReplayInv'
<1> USE DEF Inv
<1>1. /\ ctx \in [journal : Seq(Entries), index : Nat, invalidated : BOOLEAN]
      /\ ctx.index \in Nat /\ Len(ctx.journal) \in Nat /\ pc \in [Fibers -> Phases]
  BY LenProperties DEF TypeOK, Phases, Asking
<1>2. ASSUME ctx' = ctx, pc[f] \in Occupied PROVE ReplayInv'
  <2>1. ctx.index = Len(ctx.journal)
    BY <1>2 DEF ReplayInv
  <2> QED BY <1>1, <1>2, <2>1 DEF ReplayInv
<1>3. ASSUME ctx'.index = Len(ctx'.journal), ctx'.index \in Nat PROVE ReplayInv'
  BY <1>3 DEF ReplayInv
<1>4. CASE CapReached(f)
  <2>1. ctx' = ctx /\ pc' = [pc EXCEPT ![f] = "threw"]
    BY <1>4 DEF CapReached
  <2>2. \A g \in Fibers : pc'[g] \in Occupied => pc[g] \in Occupied
    BY <1>1, <2>1 DEF Occupied, Holding, InBackend
  <2> QED BY <2>1, <2>2 DEF ReplayInv
<1>5. CASE Replay(f)
  <2>1. /\ ctx' = [ctx EXCEPT !.index = ctx.index + 1] /\ ctx.index < Len(ctx.journal)
        /\ ~ ctx.invalidated /\ pc' = [pc EXCEPT ![f] = AfterReturn(f)] /\ pc[f] \notin Settled
    BY <1>5 DEF Replay, Replaying, NewCall, Ready, Settled
  <2>2. \A g \in Fibers : pc[g] \notin Occupied
    <3>1. ctx.index # Len(ctx.journal)
      BY <1>1, <2>1
    <3> QED BY <3>1 DEF ReplayInv
  <2>3. AfterReturn(f) \in {"done", "ready"}
    BY <2>1, ReturnTypes
  <2>4. \A g \in Fibers : pc'[g] \notin Occupied
    <3>1. AfterReturn(f) \notin Occupied
      BY <2>3 DEF Occupied, Holding, InBackend
    <3> QED BY <1>1, <2>1, <2>2, <3>1
  <2>5. ctx'.index = ctx.index + 1 /\ ctx'.journal = ctx.journal
          /\ ctx'.invalidated = ctx.invalidated
    BY <1>1, <2>1
  <2>6. ctx'.index <= Len(ctx'.journal) /\ ~ ctx'.invalidated
    BY <1>1, <2>1, <2>5
  <2> QED BY <2>4, <2>6 DEF ReplayInv
<1>6. CASE Diverge(f)
  <2> DEFINE j == SubSeq(ctx.journal, 1, ctx.index)
  <2>1. ctx' = [ctx EXCEPT !.invalidated = TRUE, !.journal = j] /\ ctx.index < Len(ctx.journal)
    BY <1>6 DEF Diverge, Replaying
  <2>2. Len(j) = ctx.index
    <3>1. 1 \in Int /\ ctx.index \in Int /\ \A i \in 1 .. ctx.index : ctx.journal[i] \in Entries
      BY <1>1, <2>1, ElementOfSeq
    <3>2. Len(j) = IF 1 <= ctx.index THEN ctx.index - 1 + 1 ELSE 0
      BY <3>1, SubSeqProperties
    <3> QED BY <1>1, <3>2
  <2> HIDE DEF j
  <2>3. ctx'.index = ctx.index /\ ctx'.journal = j
    BY <1>1, <2>1
  <2> QED BY <1>1, <1>3, <2>2, <2>3
<1>7. CASE Live(f)
  <2>1. ctx' = ctx /\ (ctx.invalidated \/ ~ (ctx.index < Len(ctx.journal)))
    BY <1>7 DEF Live, Replaying
  <2>2. ctx.index = Len(ctx.journal)
    BY <1>1, <2>1 DEF ReplayInv
  <2> QED BY <1>1, <1>3, <2>1, <2>2
<1>8. CASE \/ Truncated(f) \/ GrantedKilled(f) \/ OverBudget(f) \/ Skip(f) \/ StartAgent(f)
           \/ Appended(f) \/ AppendFails(f) \/ BackendAborts(f)
  <2>1. ctx' = ctx /\ pc[f] \in Occupied
    BY <1>8 DEF Truncated, GrantedKilled, OverBudget, Skip, StartAgent, Appended, AppendFails,
                BackendAborts, Occupied, Holding
  <2> QED BY <1>2, <2>1
<1>9. ASSUME NEW kind, NEW n, Record(f, kind, n), pc[f] \in InBackend PROVE ReplayInv'
  <2> DEFINE entry == [call[f] EXCEPT !.kind = kind]
             j == Append(ctx.journal, entry)
  <2>1. ctx.index = Len(ctx.journal)
    <3>1. pc[f] \in Occupied
      BY <1>9 DEF Occupied, Holding
    <3> QED BY <3>1 DEF ReplayInv
  <2>2. Len(j) = Len(ctx.journal) + 1
    <3> HIDE DEF entry
    <3> QED BY <1>1
  <2>3. ctx' = [ctx EXCEPT !.journal = j, !.index = ctx.index + 1]
    BY <1>9 DEF Record
  <2> HIDE DEF j
  <2>4. ctx'.index = ctx.index + 1 /\ ctx'.journal = j
    BY <1>1, <2>3
  <2> QED BY <1>1, <1>3, <2>1, <2>2, <2>4
<1>10. ASSUME NEW p, Reinvoke(f, p), pc[f] \in InBackend PROVE ReplayInv'
  BY <1>2, <1>10 DEF Reinvoke, Occupied, Holding
<1>11. CASE BackendOk(f) \/ BackendDead(f)
  BY <1>9, <1>10, <1>11 DEF BackendOk, BackendDead
<1>12. CASE BackendThrows(f)
  <2>1. pc[f] \in InBackend
    BY <1>12 DEF BackendThrows
  <2>2. CASE pc[f] = "first"
    BY <1>10, <1>12, <2>1, <2>2 DEF BackendThrows
  <2>3. CASE pc[f] = "afterDead"
    BY <1>10, <1>12, <2>1, <2>3 DEF BackendThrows
  <2>4. CASE pc[f] \notin {"first", "afterDead"}
    BY <1>9, <1>12, <2>1, <2>4 DEF BackendThrows
  <2> QED BY <2>2, <2>3, <2>4
<1> QED BY <1>4, <1>5, <1>6, <1>7, <1>8, <1>11, <1>12 DEF Agent, Backend

\* The end and the kill of the run leave the journal alone; a crash and a resume start
\* with an index of 0.
LEMMA RunReplays ==
  ASSUME Inv, ReplayInv, EndRun \/ Kill \/ Crash \/ Resume \/ UNCHANGED vars
  PROVE  ReplayInv'
<1>1. CASE EndRun \/ Kill \/ UNCHANGED vars
  <2>1. ctx' = ctx /\ \A f \in Fibers : pc'[f] \in Occupied => pc[f] \in Occupied
    BY <1>1 DEF EndRun, Kill, vars, Occupied, Holding, InBackend
  <2> QED BY <2>1 DEF ReplayInv
<1>2. ASSUME NEW j \in Seq(Entries), NEW b \in BOOLEAN, NEW p \in {"ready", "done"},
             ctx' = NewContext(j, b), b => Len(j) = 0, pc' = AllFibers(p)
      PROVE  ReplayInv'
  <2>1. \A f \in Fibers : pc'[f] \notin Occupied
    BY <1>2 DEF AllFibers, Occupied, Holding, InBackend
  <2>2. ctx'.index = 0 /\ ctx'.journal = j /\ ctx'.invalidated = b
    BY <1>2 DEF NewContext
  <2>3. Len(j) \in Nat
    BY LenProperties
  <2>4. ctx'.index <= Len(ctx'.journal) /\ (ctx'.invalidated => ctx'.index = Len(ctx'.journal))
    BY <1>2, <2>2, <2>3
  <2> QED BY <2>1, <2>4 DEF ReplayInv
<1>3. ReadJournal \in Seq(Entries) /\ <<>> \in Seq(Entries) /\ Len(<<>>) = 0
  BY ReadTypes, EmptySeq DEF Inv, TypeOK
<1>4. CASE Crash
  <2>1. pc' = AllFibers("done") /\ ctx' = NewContext(<<>>, FALSE)
    BY <1>4 DEF Crash
  <2> QED BY <1>2, <1>3, <2>1
<1>5. CASE Resume
  <2>1. /\ pc' = AllFibers("ready")
        /\ ctx' = NewContext(ReadJournal, FALSE) \/ ctx' = NewContext(<<>>, TRUE)
    BY <1>5 DEF Resume
  <2> QED BY <1>2, <1>3, <2>1
<1> QED BY <1>1, <1>4, <1>5

\* An execution replays only what read() loaded (hooks.ts:73-88, 213-214).
THEOREM NothingOfItsOwn == Spec => []NoSelfReplay
<1>1. Init => ReplayInv
  <2> SUFFICES ASSUME Init PROVE ReplayInv
    OBVIOUS
  <2>1. (\A f \in Fibers : pc[f] \notin Occupied) /\ Len(<<>>) = 0
    BY EmptySeq DEF Init, AllFibers, Occupied, Holding, InBackend
  <2> QED BY <2>1 DEF Init, NewContext, ReplayInv
<1>2. Inv /\ ReplayInv /\ [Next]_vars => ReplayInv'
  BY FiberReplays, RunReplays DEF Next
<1>3. ReplayInv => NoSelfReplay
  BY DEF ReplayInv, NoSelfReplay, InState, Occupied
<1> QED BY <1>1, <1>2, <1>3, Invariance, PTL DEF Spec

\* No agent starts once the run has been killed (hooks.ts:100).
THEOREM NoLateAgent == Spec => NoAgentAfterKill
<1>1. Inv /\ [Next]_vars => [aborted /\ aborted' => res.agentCount' <= res.agentCount]_vars
  <2> SUFFICES ASSUME Inv, [Next]_vars, aborted, aborted', ~ UNCHANGED vars
               PROVE  res.agentCount' <= res.agentCount
    OBVIOUS
  <2>1. res.agentCount \in Nat
    BY DEF Inv, TypeOK
  <2>2. ASSUME NEW f \in Fibers, Agent(f) \/ Backend(f) PROVE res.agentCount' <= res.agentCount
    BY <2>1, <2>2, FiberCounts DEF AsksCall, Quiet, Starts, Charges
  <2>3. CASE EndRun \/ Kill
    BY <2>1, <2>3 DEF EndRun, Kill
  <2>4. CASE Crash \/ Resume
    BY <2>1, <2>4 DEF Crash, Resume, FreshRes
  <2> QED BY <2>2, <2>3, <2>4 DEF Next
<1>2. Inv /\ [Next]_vars /\ Inv' => [aborted /\ aborted' => res.agentCount' <= res.agentCount]_vars
  BY <1>1
<1> QED BY <1>2, Invariance, PTL DEF Spec, NoAgentAfterKill

--------------------------------------------------------------------------------

\* A script of one fiber that makes the same calls in every execution, where no call
\* ends without a line in the journal and no crash leaves half a line.
Sequential ==
  /\ N = 1 /\ \A s, t \in Scripts : s = t
  /\ Faults \cap {"skip", "torn"} = {}

\* The lines of the file are those of the first calls of the script, in order.
FileTrue ==
  \A i \in 1 .. Len(disk) :
    disk[i].seq = i - 1 /\ disk[i].key = script[1][i] /\ disk[i].kind # "torn"

\* The call under way is the one behind the lines in the file.
AtEnd ==
  /\ Len(disk) = step[1] - 1 /\ res.nextId = step[1]
  /\ call[1].seq = step[1] - 1 /\ call[1].key = script[1][step[1]]

\* The script never diverges; it is as far as the index, then as far as the file.
OneFiber ==
  /\ ~ ctx.invalidated /\ pc[1] \notin {"truncating", "waiting"}
  /\ pc[1] = "ready" =>
       ctx.journal = disk /\ ctx.index = step[1] - 1 /\ res.nextId = step[1] - 1
  /\ pc[1] \in {"granted"} \cup InBackend => ctx.journal = disk /\ ctx.index = step[1] - 1 /\ AtEnd
  /\ pc[1] = "appending" => /\ ctx.journal = Append(disk, call[1]) /\ ctx.index = step[1]
                            /\ AtEnd

SeqInv == FileTrue /\ OneFiber

\* With one fiber nobody waits, and a permit is free when the script asks for it.
LEMMA AlonePool ==
  ASSUME Sequential, Inv, pc[1] # "waiting"
  PROVE  /\ Fibers = {1} /\ sem.waiters = <<>>
         /\ pc[1] = "ready" => sem.available > 0
<1>1. Fibers = {1}
  BY DEF Sequential, Fibers
<1>2. sem.waiters = <<>>
  <2>1. sem.waiters \in Seq(Fibers)
    BY DEF Inv, TypeOK
  <2>2. Len(sem.waiters) \in Nat /\ \A i \in 1 .. Len(sem.waiters) : sem.waiters[i] = 1
    BY <1>1, <2>1, LenProperties, ElementOfSeq
  <2>3. \A i \in 1 .. Len(sem.waiters) : pc[sem.waiters[i]] = "waiting"
    BY DEF Inv, PoolInv, QueueExact
  <2>4. Len(sem.waiters) = 0
    BY <2>2, <2>3
  <2> QED BY <2>1, <2>4, EmptySeq
<1>3. ASSUME pc[1] = "ready" PROVE sem.available > 0
  <2>1. InState(Holding) = {}
    BY <1>1, <1>3 DEF InState, Holding, InBackend
  <2>2. Cardinality(InState(Holding)) = 0
    BY <2>1, FS_EmptySet
  <2>3. sem.available + 0 = Permits /\ sem.available \in Nat
    BY <2>2 DEF Inv, PoolInv, PermitsConserved, TypeOK
  <2> QED BY <2>3, RunAssumption
<1> QED BY <1>1, <1>2, <1>3

\* ... so it gets the permit unless the run is killed, and gives it back to nobody.
LEMMA AloneMoves ==
  ASSUME Sequential, Inv, pc[1] # "waiting"
  PROVE  /\ pc[1] = "ready" /\ Acquire(1) => pc'[1] \in {"killed", "granted"}
         /\ \A p : ReleaseTo(1, p) => pc'[1] = p
         /\ \A p : pc' = [pc EXCEPT ![1] = p] => pc'[1] = p
<1>1. 1 \in Fibers /\ pc \in [Fibers -> Phases]
  BY AlonePool DEF Inv, TypeOK, Phases, Asking
<1>2. ASSUME pc[1] = "ready", Acquire(1) PROVE pc'[1] \in {"killed", "granted"}
  <2>1. sem.available > 0
    BY <1>2, AlonePool
  <2>2. Joins(1) \/ Takes(1) \/ pc' = [pc EXCEPT ![1] = "killed"]
    BY <1>1, <1>2, AcquireCases DEF Inv
  <2> QED BY <1>1, <2>1, <2>2 DEF Joins, Takes
<1>3. ASSUME NEW p, ReleaseTo(1, p) PROVE pc'[1] = p
  BY <1>1, <1>3, AlonePool DEF ReleaseTo
<1> QED BY <1>1, <1>2, <1>3

\* A rejection changes neither the file nor the script.
LEMMA RejectionSeq ==
  ASSUME SeqInv, disk' = disk, script' = script, ctx' = ctx, pc'[1] \in Settled
  PROVE  SeqInv'
<1>1. FileTrue'
  BY DEF SeqInv, FileTrue
<1>2. OneFiber'
  BY DEF SeqInv, OneFiber, Settled, InBackend
<1> QED BY <1>1, <1>2 DEF SeqInv

\* agent() of a sequential script: it replays what is in the file, and what is not it
\* runs; it never diverges.
LEMMA CallSeq ==
  ASSUME Sequential, Inv, ReplayInv, SeqInv, NewCall(1), Replay(1) \/ Diverge(1) \/ Live(1)
  PROVE  SeqInv'
<1>0. /\ 1 \in Fibers /\ pc[1] = "ready" /\ pc[1] # "waiting" /\ pc \in [Fibers -> Phases]
      /\ step \in [Fibers -> Nat] /\ step[1] \in Nat \ {0} /\ call \in [Fibers -> Entries]
      /\ ctx \in [journal : Seq(Entries), index : Nat, invalidated : BOOLEAN]
      /\ res \in [agentCount : Nat, nextId : Nat, spent : Nat] /\ res.nextId \in Nat
      /\ Len(disk) \in Nat /\ ctx.index \in Nat
  <2>1. 1 \in Fibers /\ pc[1] = "ready"
    BY DEF NewCall, Ready, Sequential, Fibers
  <2>2. step[1] \in 1 .. Len(script[1])
    BY <2>1, CallKey DEF Inv, Settled
  <2> QED BY <2>1, <2>2, LenProperties DEF Inv, TypeOK, Phases, Asking
<1>1. /\ ~ ctx.invalidated /\ ctx.journal = disk /\ ctx.index = step[1] - 1
      /\ res.nextId = step[1] - 1 /\ ctx.index <= Len(disk)
  BY <1>0 DEF SeqInv, OneFiber, ReplayInv
<1>2. res'.nextId = step[1]
  <2>1. res' = [res EXCEPT !.nextId = res.nextId + 1]
    BY DEF NewCall
  <2>2. res'.nextId = res.nextId + 1
    BY <1>0, <2>1
  <2> QED BY <1>0, <1>1, <2>2
<1>3. call'[1].key = script[1][step[1]] /\ call'[1].seq = step[1] - 1
  <2> DEFINE c == [key |-> script[1][step[1]], seq |-> res.nextId, kind |-> "ok"]
  <2>1. call' = [call EXCEPT ![1] = c]
    BY DEF NewCall
  <2>2. c.key = script[1][step[1]] /\ c.seq = res.nextId
    OBVIOUS
  <2> HIDE DEF c
  <2>3. call'[1] = c
    BY <1>0, <2>1
  <2> QED BY <1>1, <2>2, <2>3
<1>4. disk' = disk /\ script' = script
  BY DEF Replay, Diverge, Live, run
<1>5. FileTrue'
  BY <1>4 DEF SeqInv, FileTrue
<1>6. CASE Replay(1)
  <2>1. ctx' = [ctx EXCEPT !.index = ctx.index + 1] /\ step' = [step EXCEPT ![1] = step[1] + 1]
    BY <1>6 DEF Replay
  <2>2. pc' = [pc EXCEPT ![1] = AfterReturn(1)]
    BY <1>6 DEF Replay
  <2>3. pc'[1] \in {"done", "ready"}
    BY <1>0, <2>2 DEF AfterReturn
  <2>4. step'[1] = step[1] + 1
    BY <1>0, <2>1
  <2>5. ctx'.journal = ctx.journal /\ ctx'.index = ctx.index + 1
          /\ ctx'.invalidated = ctx.invalidated
    BY <1>0, <2>1
  <2>6. ctx'.journal = disk' /\ ctx'.index = step'[1] - 1 /\ res'.nextId = step'[1] - 1
    BY <1>0, <1>1, <1>2, <1>4, <2>4, <2>5
  <2>7. OneFiber'
    BY <1>1, <2>3, <2>5, <2>6 DEF OneFiber, InBackend
  <2> QED BY <1>5, <2>7 DEF SeqInv
<1>7. CASE Diverge(1)
  <2>1. ctx.index < Len(disk) /\ ctx.journal[ctx.index + 1].key # script[1][step[1]]
    BY <1>1, <1>7 DEF Diverge, Replaying
  <2>2. step[1] \in 1 .. Len(disk) /\ ctx.index + 1 = step[1]
    BY <1>0, <1>1, <2>1
  <2>3. disk[step[1]].key = script[1][step[1]]
    BY <2>2 DEF SeqInv, FileTrue
  <2> QED BY <1>1, <2>1, <2>2, <2>3
<1>8. CASE Live(1)
  <2>1. Acquire(1) /\ ctx' = ctx /\ step' = step /\ ~ (ctx.index < Len(disk))
    BY <1>1, <1>8 DEF Live, Replaying
  <2>2. pc'[1] \in {"killed", "granted"}
    BY <1>0, <2>1, AloneMoves
  <2>3. AtEnd'
    BY <1>0, <1>1, <1>2, <1>3, <1>4, <2>1 DEF AtEnd
  <2>4. OneFiber'
    BY <1>1, <1>4, <2>1, <2>2, <2>3 DEF OneFiber, InBackend
  <2> QED BY <1>5, <2>4 DEF SeqInv
<1> QED BY <1>6, <1>7, <1>8

\* A result is pushed to the journal as the next line of the file.
LEMMA RecordSeq ==
  ASSUME Sequential, Inv, SeqInv, NEW kind \in {"ok", "dead"}, NEW cost \in Nat,
         pc[1] \in InBackend, Record(1, kind, cost)
  PROVE  SeqInv'
<1> DEFINE entry == [call[1] EXCEPT !.kind = kind]
           j == Append(ctx.journal, entry)
<1>0. /\ 1 \in Fibers /\ pc \in [Fibers -> Phases] /\ step[1] \in Nat
      /\ call \in [Fibers -> Entries]
      /\ ctx \in [journal : Seq(Entries), index : Nat, invalidated : BOOLEAN] /\ ctx.index \in Nat
      /\ res \in [agentCount : Nat, nextId : Nat, spent : Nat]
  <2>1. 1 \in Fibers
    BY DEF Sequential, Fibers
  <2> QED BY <2>1 DEF Inv, TypeOK, Phases, Asking
<1>1. /\ ~ ctx.invalidated /\ ctx.journal = disk /\ ctx.index = step[1] - 1 /\ AtEnd
  BY DEF SeqInv, OneFiber
<1>2. entry.seq = call[1].seq /\ entry.key = call[1].key
  BY <1>0 DEF Entries
<1>3. /\ call' = [call EXCEPT ![1] = entry] /\ res' = [res EXCEPT !.spent = res.spent + cost]
      /\ ctx' = [ctx EXCEPT !.journal = j, !.index = ctx.index + 1]
      /\ pc' = [pc EXCEPT ![1] = "appending"]
      /\ step' = step /\ disk' = disk /\ script' = script
  BY DEF Record, run
<1> HIDE DEF entry
<1>4. call'[1] = entry /\ pc'[1] = "appending" /\ j = Append(disk, entry)
  BY <1>0, <1>1, <1>3
<1> HIDE DEF j
<1>5. ctx'.journal = j /\ ctx'.index = ctx.index + 1 /\ ctx'.invalidated = ctx.invalidated
  BY <1>0, <1>3
<1>6. res'.nextId = res.nextId
  BY <1>0, <1>3
<1>7. AtEnd'
  BY <1>1, <1>2, <1>3, <1>4, <1>6 DEF AtEnd
<1>8. ctx'.journal = Append(disk', call'[1]) /\ ctx'.index = step'[1]
  BY <1>0, <1>1, <1>3, <1>4, <1>5
<1>9. OneFiber'
  BY <1>1, <1>4, <1>5, <1>7, <1>8 DEF OneFiber, InBackend
<1>10. FileTrue'
  BY <1>3 DEF SeqInv, FileTrue
<1> QED BY <1>9, <1>10 DEF SeqInv

\* Between the permit and the result the call stays the one behind the file.
LEMMA GoingSeq ==
  ASSUME SeqInv, pc[1] \in {"granted"} \cup InBackend, pc'[1] \in InBackend,
         res'.nextId = res.nextId, UNCHANGED <<script, step, call, ctx, disk>>
  PROVE  SeqInv'
<1>1. AtEnd' /\ FileTrue'
  BY DEF SeqInv, OneFiber, AtEnd, FileTrue
<1>2. OneFiber'
  BY <1>1 DEF SeqInv, OneFiber, InBackend
<1> QED BY <1>1, <1>2 DEF SeqInv

\* A line more in the file is that of the call under way.
LEMMA LineSeq ==
  ASSUME Sequential, Inv, SeqInv, pc[1] = "appending",
         disk' = Append(disk, call[1]), script' = script
  PROVE  FileTrue' /\ Len(disk') = step[1]
<1>1. disk \in Seq(Entries \cup {Torn}) /\ call[1] \in Entries /\ Len(disk) \in Nat
      /\ step[1] \in Nat
  <2>1. 1 \in Fibers
    BY DEF Sequential, Fibers
  <2> QED BY <2>1, LenProperties DEF Inv, TypeOK
<1>2. AtEnd
  BY DEF SeqInv, OneFiber
<1>3. /\ Len(disk') = Len(disk) + 1 /\ disk'[Len(disk) + 1] = call[1]
      /\ \A i \in 1 .. Len(disk) : disk'[i] = disk[i]
  BY <1>1, AppendProperties
<1>4. call[1].kind # "torn"
  BY <1>1 DEF Entries
<1>5. ASSUME NEW i \in 1 .. Len(disk')
      PROVE  disk'[i].seq = i - 1 /\ disk'[i].key = script'[1][i] /\ disk'[i].kind # "torn"
  <2>1. CASE i \in 1 .. Len(disk)
    BY <1>3, <2>1 DEF SeqInv, FileTrue
  <2>2. CASE i = Len(disk) + 1
    BY <1>1, <1>2, <1>3, <1>4, <2>2 DEF AtEnd
  <2> QED BY <1>1, <1>3, <2>1, <2>2
<1>6. Len(disk') = step[1]
  BY <1>1, <1>2, <1>3 DEF AtEnd
<1>7. FileTrue'
  BY <1>5 DEF FileTrue
<1> QED BY <1>6, <1>7

\* A call returns when its line is in the file.
LEMMA AppendedSeq ==
  ASSUME Sequential, Inv, SeqInv, Appended(1)
  PROVE  SeqInv'
<1>1. /\ pc[1] = "appending" /\ disk' = Append(disk, call[1])
      /\ step' = [step EXCEPT ![1] = step[1] + 1] /\ UNCHANGED <<script, ctx, res>>
      /\ ReleaseTo(1, AfterReturn(1))
  BY DEF Appended, run
<1>2. FileTrue' /\ Len(disk') = step[1]
  BY <1>1, LineSeq
<1>3. step'[1] = step[1] + 1 /\ step[1] \in Nat
  BY <1>1 DEF Sequential, Fibers, Inv, TypeOK
<1>4. pc'[1] \in {"done", "ready"}
  BY <1>1, AloneMoves DEF AfterReturn
<1>5. /\ ~ ctx.invalidated /\ ctx.journal = disk' /\ ctx.index = step[1] /\ res.nextId = step[1]
  BY <1>1 DEF SeqInv, OneFiber, AtEnd
<1>6. ctx'.journal = disk' /\ ctx'.index = step'[1] - 1 /\ res'.nextId = step'[1] - 1
  BY <1>1, <1>3, <1>5
<1>7. OneFiber'
  BY <1>1, <1>4, <1>5, <1>6 DEF OneFiber, InBackend
<1> QED BY <1>2, <1>7 DEF SeqInv

\* Every step of the fiber.
LEMMA FiberSeq ==
  ASSUME Sequential, Inv, ReplayInv, SeqInv, Agent(1) \/ Backend(1)
  PROVE  SeqInv'
<1>0. pc[1] # "waiting" /\ pc[1] # "truncating"
  BY DEF SeqInv, OneFiber
<1>1. CASE CapReached(1) \/ GrantedKilled(1) \/ OverBudget(1) \/ AppendFails(1) \/ BackendAborts(1)
  <2>1. UNCHANGED <<disk, script, ctx>>
    BY <1>1 DEF CapReached, GrantedKilled, OverBudget, AppendFails, BackendAborts, run
  <2>2. \E p \in Settled : pc' = [pc EXCEPT ![1] = p] \/ ReleaseTo(1, p)
    BY <1>1 DEF CapReached, GrantedKilled, OverBudget, AppendFails, BackendAborts,
                RejectReleasing, Settled
  <2>3. pc'[1] \in Settled
    BY <1>0, <2>2, AloneMoves
  <2> QED BY <2>1, <2>3, RejectionSeq
<1>2. CASE Replay(1) \/ Diverge(1) \/ Live(1)
  <2>1. NewCall(1)
    BY <1>2 DEF Replay, Diverge, Live
  <2> QED BY <1>2, <2>1, CallSeq
<1>3. CASE Truncated(1) \/ Skip(1)
  BY <1>0, <1>3 DEF Truncated, Skip, Sequential
<1>4. CASE StartAgent(1)
  <2>1. /\ pc[1] = "granted" /\ pc' = [pc EXCEPT ![1] = "first"]
        /\ UNCHANGED <<script, step, call, ctx, disk>>
    BY <1>4 DEF StartAgent, run
  <2>2. res' = [res EXCEPT !.agentCount = res.agentCount + 1]
    BY <1>4 DEF StartAgent
  <2>3. res'.nextId = res.nextId
    BY <2>2 DEF Inv, TypeOK
  <2>4. pc'[1] \in InBackend
    BY <1>0, <2>1, AloneMoves DEF InBackend
  <2> QED BY <2>1, <2>3, <2>4, GoingSeq
<1>5. ASSUME NEW p \in InBackend, Reinvoke(1, p), pc[1] \in InBackend PROVE SeqInv'
  <2>1. pc' = [pc EXCEPT ![1] = p] /\ UNCHANGED <<script, step, call, ctx, disk, res>>
    BY <1>5 DEF Reinvoke, run
  <2>2. pc'[1] \in InBackend
    BY <1>0, <1>5, <2>1, AloneMoves
  <2> QED BY <1>5, <2>1, <2>2, GoingSeq
<1>6. CASE BackendOk(1)
  BY <1>6, RecordSeq, RunAssumption DEF BackendOk
<1>7. CASE BackendDead(1)
  BY <1>5, <1>7, RecordSeq DEF BackendDead, InBackend
<1>8. CASE BackendThrows(1)
  <2>1. pc[1] \in InBackend /\ "retry" \in InBackend /\ "third" \in InBackend
    BY <1>8 DEF BackendThrows, InBackend
  <2>2. CASE pc[1] = "first"
    BY <1>5, <1>8, <2>1, <2>2 DEF BackendThrows
  <2>3. CASE pc[1] = "afterDead"
    BY <1>5, <1>8, <2>1, <2>3 DEF BackendThrows
  <2>4. CASE pc[1] \notin {"first", "afterDead"}
    BY <1>8, <2>1, <2>4, RecordSeq DEF BackendThrows
  <2> QED BY <2>2, <2>3, <2>4
<1>9. CASE Appended(1)
  BY <1>9, AppendedSeq
<1> QED BY <1>1, <1>2, <1>3, <1>4, <1>6, <1>7, <1>8, <1>9 DEF Agent, Backend

\* read() leaves a file in the order of its calls as it is.
LEMMA ReadInOrder ==
  ASSUME disk \in Seq(Entries \cup {Torn}), FileTrue
  PROVE  ReadJournal = disk
<1> DEFINE n == Len(disk)
           before(i, j) == disk[i].seq < disk[j].seq \/ (disk[i].seq = disk[j].seq /\ i < j)
           those(j) == {i \in 1 .. n : before(i, j)}
           spot(m) == CHOOSE j \in 1 .. n : Cardinality(those(j)) = m - 1
<1>1. n \in Nat /\ DOMAIN disk = 1 .. n
  BY LenProperties
<1>2. ~ \E i \in DOMAIN disk : disk[i].kind = "torn"
  BY <1>1 DEF FileTrue
<1>3. ReadJournal = [m \in 1 .. n |-> disk[spot(m)]]
  BY <1>1, <1>2 DEF ReadJournal
<1>4. ASSUME NEW j \in 1 .. n PROVE Cardinality(those(j)) = j - 1
  <2>1. \A i \in 1 .. n : before(i, j) <=> i < j
    BY <1>1 DEF FileTrue
  <2>2. those(j) = 1 .. j - 1
    BY <1>1, <2>1
  <2> HIDE DEF those
  <2>3. 1 \in Int /\ j - 1 \in Int /\ (1 > j - 1 => j = 1)
    BY <1>1
  <2>4. Cardinality(1 .. j - 1) = IF 1 > j - 1 THEN 0 ELSE (j - 1) - 1 + 1
    BY <2>3, FS_Interval
  <2> QED BY <1>1, <2>2, <2>3, <2>4
<1> HIDE DEF those, n
<1>5. ASSUME NEW m \in 1 .. n PROVE spot(m) = m
  <2>1. \A j \in 1 .. n : Cardinality(those(j)) = m - 1 <=> j = m
    BY <1>1, <1>4
  <2> QED BY <2>1
<1> HIDE DEF spot
<1>6. ReadJournal = [m \in 1 .. n |-> disk[m]]
  BY <1>3, <1>5
<1>7. disk = [m \in 1 .. n |-> disk[m]]
  BY <1>1
<1> QED BY <1>6, <1>7

\* A crash leaves the line of the call under way in the file, or not.
LEMMA CrashSeq ==
  ASSUME Sequential, Inv, SeqInv, Crash
  PROVE  SeqInv'
<1>0. Fibers = {1} /\ disk \in Seq(Entries \cup {Torn}) /\ call[1] \in Entries
  BY DEF Sequential, Fibers, Inv, TypeOK
<1>1. /\ ctx' = NewContext(<<>>, FALSE) /\ pc' = AllFibers("done") /\ script' = script
      /\ "torn" \notin Faults
  BY DEF Crash, Sequential
<1>2. OneFiber'
  BY <1>0, <1>1 DEF OneFiber, NewContext, AllFibers, InBackend
<1>3. PICK S \in SUBSET {f \in Fibers : pc[f] = "appending"} : \E order \in SetToSeqs(S) :
        disk' = disk \o [i \in DOMAIN order |-> call[order[i]]]
  BY <1>1 DEF Crash
<1>4. PICK order \in SetToSeqs(S) : disk' = disk \o [i \in DOMAIN order |-> call[order[i]]]
  BY <1>3
<1>5. order \in [1 .. Cardinality(S) -> S]
  BY DEF SetToSeqs
<1>6. CASE S = {}
  <2>1. DOMAIN order = {}
    <3>1. Cardinality(S) = 0
      BY <1>6, FS_EmptySet
    <3> QED BY <1>5, <3>1
  <2>2. [i \in DOMAIN order |-> call[order[i]]] = <<>>
    BY <2>1
  <2>3. disk' = disk
    BY <1>0, <1>4, <2>2, ConcatProperties, EmptySeq
  <2> QED BY <1>1, <1>2, <2>3 DEF SeqInv, FileTrue
<1>7. CASE S = {1}
  <2>1. order \in [1 .. 1 -> {1}]
    <3>1. Cardinality(S) = 1
      BY <1>7, FS_Singleton
    <3> QED BY <1>5, <1>7, <3>1
  <2>2. [i \in DOMAIN order |-> call[order[i]]] = <<call[1]>>
    <3>1. DOMAIN order = 1 .. 1 /\ order[1] = 1
      BY <2>1
    <3> QED BY <3>1
  <2>3. disk' = Append(disk, call[1])
    BY <1>0, <1>4, <2>2
  <2>4. pc[1] = "appending"
    BY <1>3, <1>7
  <2> QED BY <1>1, <1>2, <2>3, <2>4, LineSeq DEF SeqInv
<1> QED BY <1>0, <1>6, <1>7

\* A resume starts with what the file says; the script is the same.
LEMMA ResumeSeq ==
  ASSUME Sequential, Inv, SeqInv, Resume
  PROVE  SeqInv'
<1>1. 1 \in Fibers /\ script \in Scripts /\ disk \in Seq(Entries \cup {Torn})
  BY DEF Sequential, Fibers, Inv, TypeOK
<1>2. script' = script
  BY <1>1 DEF Resume, Sequential
<1>3. ReadJournal = disk
  BY <1>1, ReadInOrder DEF SeqInv
<1>4. /\ ctx' = NewContext(disk, FALSE) /\ disk' = disk /\ pc' = AllFibers("ready")
      /\ step' = AllFibers(1) /\ res' = FreshRes
  BY <1>2, <1>3 DEF Resume
<1>5. pc'[1] = "ready" /\ step'[1] = 1 /\ res'.nextId = 0
  BY <1>1, <1>4 DEF AllFibers, FreshRes
<1>6. OneFiber'
  BY <1>4, <1>5 DEF OneFiber, NewContext, InBackend
<1> QED BY <1>2, <1>4, <1>6 DEF SeqInv, FileTrue

\* SeqInv is inductive for a sequential script.
LEMMA SeqStep ==
  Sequential /\ Inv /\ ReplayInv /\ SeqInv /\ [Next]_vars => SeqInv'
<1> SUFFICES ASSUME Sequential, Inv, ReplayInv, SeqInv, [Next]_vars PROVE SeqInv'
  OBVIOUS
<1>1. CASE EndRun \/ UNCHANGED vars
  <2>1. UNCHANGED <<pc, step, call, ctx, res, disk, script>>
    BY <1>1 DEF EndRun, vars
  <2> QED BY <2>1 DEF SeqInv, FileTrue, OneFiber, AtEnd
<1>2. CASE Kill
  <2>1. UNCHANGED <<step, call, ctx, res, disk, script>>
    BY <1>2 DEF Kill
  <2>2. pc'[1] = pc[1]
    BY <1>2 DEF Kill, SeqInv, OneFiber, Sequential, Fibers
  <2> QED BY <2>1, <2>2 DEF SeqInv, FileTrue, OneFiber, AtEnd
<1>3. ASSUME NEW f \in Fibers, Agent(f) \/ Backend(f) PROVE SeqInv'
  <2>1. f = 1
    BY DEF Sequential, Fibers
  <2> QED BY <1>3, <2>1, FiberSeq
<1> QED BY <1>1, <1>2, <1>3, CrashSeq, ResumeSeq DEF Next

\* A sequential script has replayed, or made again, exactly what is in its file.
LEMMA SeqKept == ASSUME Sequential PROVE Spec => [](Inv /\ ReplayInv /\ SeqInv)
<1>1. Init => ReplayInv /\ SeqInv
  <2> SUFFICES ASSUME Init PROVE ReplayInv /\ SeqInv
    OBVIOUS
  <2>1. (\A f \in Fibers : pc[f] \notin Occupied) /\ Len(<<>>) = 0
    BY EmptySeq DEF Init, AllFibers, Occupied, Holding, InBackend
  <2>2. ReplayInv
    BY <2>1 DEF Init, NewContext, ReplayInv
  <2>3. pc[1] = "ready" /\ step[1] = 1 /\ res.nextId = 0
    BY DEF Init, AllFibers, FreshRes, Sequential, Fibers
  <2>4. SeqInv
    BY <2>1, <2>3 DEF Init, NewContext, SeqInv, FileTrue, OneFiber, InBackend
  <2> QED BY <2>2, <2>4
<1>2. Inv /\ ReplayInv /\ [Next]_vars => ReplayInv'
  BY FiberReplays, RunReplays DEF Next
<1>3. Inv /\ ReplayInv /\ SeqInv /\ [Next]_vars => SeqInv'
  BY SeqStep
<1> QED BY <1>1, <1>2, <1>3, Invariance, PTL DEF Spec

\* A script that makes its calls one after the other, and the same ones when it is resumed,
\* replays every recorded call: it never diverges from its journal (hooks.ts:73-88),
\* whatever kills, crashes, failed appends and resumes it has been through.
THEOREM SequentialReplays == ASSUME Sequential PROVE Spec => CompletedCallsReplay
<1>1. SeqInv' => [\A f \in Fibers : pc[f] = "ready" /\ pc'[f] = "truncating" =>
                    \A i \in ctx.index + 1 .. Len(ctx.journal), g \in Fibers :
                      ctx.journal[i].key \notin Range(script[g])]_vars
  BY DEF SeqInv, OneFiber, Sequential, Fibers
<1> QED BY <1>1, SeqKept, PTL DEF CompletedCallsReplay

\* ... and no agent runs again for a call whose result is in the file.
THEOREM SequentialNotRerun == ASSUME Sequential PROVE Spec => DurableCallsNotRerun
<1>1. SeqInv => [\A f \in Fibers : pc[f] = "granted" /\ pc'[f] = "first" =>
                   \A i \in DOMAIN disk : disk[i].seq # call[f].seq]_vars
  <2> SUFFICES ASSUME SeqInv, NEW f \in Fibers, pc[f] = "granted", NEW i \in DOMAIN disk
               PROVE  disk[i].seq # call[f].seq
    OBVIOUS
  <2>1. f = 1
    BY DEF Sequential, Fibers
  <2> QED BY <2>1 DEF SeqInv, OneFiber, AtEnd, FileTrue
<1> QED BY <1>1, SeqKept, PTL DEF DurableCallsNotRerun

--------------------------------------------------------------------------------

\* The workflow() hook of the same engine. Its variables are its own.

Inside == {c \in Callers : at[c] # "main"}

\* One call at a time, which has raised the depth from 0 if its script executes.
OneInside ==
  /\ \A c, d \in Inside : c = d
  /\ \A c \in Callers : at[c] \in {"main", "resolving", "sub"}
  /\ \A c \in Callers : at[c] = "sub" => depth = 1 /\ saved[c][1] = 0
  /\ (\A c \in Callers : at[c] # "sub") => depth = 0

NestingInv == NestingTypeOK /\ (~ overlap => OneInside)

\* The depth, the saved depths and the places of the callers keep their types.
LEMMA NestingTypes ==
  ASSUME NestingTypeOK, [NestingNext]_nestingVars
  PROVE  NestingTypeOK'
<1> USE DEF NestingTypeOK, Resolving
<1>1. ASSUME NEW c \in Callers,
             Call(c, "main", "resolving") \/ Call(c, "sub", "resolving2")
      PROVE  NestingTypeOK'
  <2>1. calls' \in [Callers -> 0 .. MaxCalls]
    BY <1>1, NestingAssumption DEF Call
  <2>2. at' \in [Callers -> {"main", "sub", "sub2"} \cup Resolving]
    BY <1>1 DEF Call
  <2> QED
    BY <1>1, <2>1, <2>2 DEF Call
<1>2. ASSUME NEW c \in Callers,
             Unresolved(c, "resolving", "main")
                 \/ Unresolved(c, "resolving2", "sub")
      PROVE  NestingTypeOK'
  BY <1>2 DEF Unresolved
<1>3. ASSUME NEW c \in Callers, NEW level \in {1, 2}, NEW from, NEW to \in {"sub", "sub2"},
             Enter(c, from, to, level)
      PROVE  NestingTypeOK'
  <2>1. saved' \in [Callers -> Nat \X Nat]
    BY <1>3 DEF Enter
  <2> QED
    BY <1>3, <2>1 DEF Enter
<1>4. ASSUME NEW c \in Callers, NEW level \in {1, 2}, NEW from, NEW back \in {"main", "sub"},
             Leave(c, from, back, level)
      PROVE  NestingTypeOK'
  BY <1>4 DEF Leave
<1>5. CASE UNCHANGED nestingVars
  BY <1>5 DEF nestingVars
<1> QED
  BY <1>1, <1>2, <1>3, <1>4, <1>5 DEF NestingNext

\* A serial step leaves at most one call inside, with the depth it stands for.
LEMMA SerialStep ==
  ASSUME NestingInv, [NestingNext]_nestingVars, ~ overlap'
  PROVE  OneInside'
<1> USE DEF NestingTypeOK, OneInside, Inside, NestingInv
<1>1. ~ overlap
  BY DEF NestingNext, Call, Unresolved, Enter, Leave, nestingVars
<1>2. ASSUME NEW c \in Callers, Call(c, "main", "resolving") PROVE OneInside'
  BY <1>1, <1>2 DEF Call
<1>3. ASSUME NEW c \in Callers, Call(c, "sub", "resolving2") PROVE OneInside'
  BY <1>1, <1>3 DEF Call
<1>4. ASSUME NEW c \in Callers, Unresolved(c, "resolving", "main") PROVE OneInside'
  BY <1>1, <1>4 DEF Unresolved
<1>5. ASSUME NEW c \in Callers, Enter(c, "resolving", "sub", 1) PROVE OneInside'
  <2>1. depth = 0
    BY <1>1, <1>5 DEF Enter
  <2>2. at' = [at EXCEPT ![c] = "sub"] /\ depth' = 1 /\ saved'[c][1] = 0
    BY <1>5, <2>1 DEF Enter
  <2> QED
    BY <1>1, <1>5, <2>2 DEF Enter
<1>6. ASSUME NEW c \in Callers, Leave(c, "sub", "main", 1) PROVE OneInside'
  BY <1>1, <1>6 DEF Leave
<1>7. ASSUME NEW c \in Callers,
             \/ Unresolved(c, "resolving2", "sub")
             \/ Enter(c, "resolving2", "sub2", 2)
             \/ Leave(c, "sub2", "sub", 2)
      PROVE  FALSE
  BY <1>1, <1>7 DEF Unresolved, Enter, Leave
<1>8. CASE UNCHANGED nestingVars
  BY <1>1, <1>8 DEF nestingVars
<1> QED
  BY <1>2, <1>3, <1>4, <1>5, <1>6, <1>7, <1>8 DEF NestingNext

\* NestingInv is inductive: the depth tells whether a sub-workflow executes.
THEOREM NestingInvariance == NestingSpec => []NestingInv
<1>1. NestingInit => NestingInv
  <2> SUFFICES ASSUME NestingInit PROVE NestingInv
    OBVIOUS
  <2>1. at \in [Callers -> {"main"}] /\ saved \in [Callers -> Nat \X Nat]
           /\ calls \in [Callers -> 0 .. MaxCalls]
    BY NestingAssumption DEF NestingInit
  <2>2. NestingTypeOK
    BY <2>1 DEF NestingInit, NestingTypeOK
  <2>3. OneInside
    BY <2>1 DEF NestingInit, OneInside, Inside
  <2> QED
    BY <2>2, <2>3 DEF NestingInv
<1>2. NestingInv /\ [NestingNext]_nestingVars => NestingInv'
  BY NestingTypes, SerialStep DEF NestingInv
<1> QED
  BY <1>1, <1>2, PTL DEF NestingSpec

\* With one workflow() call under way at a time, no sub-workflow nests another one, and
\* the depth is back at 0 when none executes (hooks.ts:286, context.ts:8).
THEOREM SerialScriptsNestOnce == NestingSpec => []SerialNesting
<1>1. NestingInv => SerialNesting
  BY DEF NestingInv, OneInside, SerialNesting, OneLevel, DepthRestored,
         Executing
<1> QED
  BY <1>1, NestingInvariance, PTL
================================================================================
