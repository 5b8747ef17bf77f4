------------------------------- MODULE Semaphore -------------------------------
(***************************************************************************)
(* The async semaphore of the workflow engine                              *)
(* (packages/workflow-engine/src/engine/concurrency.ts).  A client is one   *)
(* acquire(signal) call.  JavaScript runs acquire(), release() and an       *)
(* abort listener without interruption, so each is one action; what comes   *)
(* between them is any interleaving of the callers.                        *)
(***************************************************************************)
EXTENDS Integers, Sequences, FiniteSets, SequencesExt

CONSTANTS Clients,   \* the acquire() calls
          Permits    \* argument of the constructor, after its clamp to >= 1

ASSUME SemaphoreAssumption == IsFiniteSet(Clients) /\ Permits \in Nat \ {0}

VARIABLES
  available,   \* permits nobody holds
  waiters,     \* the queue of calls that found no permit, oldest first
  phase,       \* phase[c]: how far call c has got
  aborted      \* the calls whose signal has aborted

vars == <<available, waiters, phase, aborted>>

Phase == {"idle", "waiting", "holding", "rejected", "released"}

Holders == {c \in Clients : phase[c] = "holding"}

Init ==
  /\ available = Permits
  /\ waiters = <<>>
  /\ phase = [c \in Clients |-> "idle"]
  /\ aborted = {}

--------------------------------------------------------------------------------

\* acquire() on a signal that has already aborted: rejects, takes nothing.
AcquireRejected(c) ==
  /\ phase[c] = "idle"
  /\ c \in aborted
  /\ phase' = [phase EXCEPT ![c] = "rejected"]
  /\ UNCHANGED <<available, waiters, aborted>>

\* Mutant: the fast path does not look at the permits left.
AcquireFreeUnchecked(c) ==
  /\ phase[c] = "idle"
  /\ c \notin aborted
  /\ available' = available - 1
  /\ phase' = [phase EXCEPT ![c] = "holding"]
  /\ UNCHANGED <<waiters, aborted>>

\* acquire() that finds a permit.
AcquireFree(c) ==
  /\ phase[c] = "idle"
  /\ c \notin aborted
  /\ available > 0
  /\ available' = available - 1
  /\ phase' = [phase EXCEPT ![c] = "holding"]
  /\ UNCHANGED <<waiters, aborted>>

\* acquire() that finds none: queues an entry and listens to the signal.
AcquireWait(c) ==
  /\ phase[c] = "idle"
  /\ c \notin aborted
  /\ available <= 0
  /\ waiters' = Append(waiters, c)
  /\ phase' = [phase EXCEPT ![c] = "waiting"]
  /\ UNCHANGED <<available, aborted>>

Acquire(c) == AcquireRejected(c) \/ AcquireFree(c) \/ AcquireWait(c)

\* Mutant: release() makes the permit available although it woke a waiter.
ReleaseBoth(c) ==
  /\ phase[c] = "holding"
  /\ available' = available + 1
  /\ IF waiters # <<>>
       THEN /\ waiters' = Tail(waiters)
            /\ phase' = [phase EXCEPT ![c] = "released",
                                      ![Head(waiters)] = "holding"]
       ELSE /\ phase' = [phase EXCEPT ![c] = "released"]
            /\ UNCHANGED waiters
  /\ UNCHANGED aborted

\* Mutant: release() only makes the permit available and wakes nobody.
ReleaseNoTransfer(c) ==
  /\ phase[c] = "holding"
  /\ available' = available + 1
  /\ phase' = [phase EXCEPT ![c] = "released"]
  /\ UNCHANGED <<waiters, aborted>>

\* Mutant: release() wakes the newest waiter (pop for shift).
ReleaseNewest(c) ==
  /\ phase[c] = "holding"
  /\ IF waiters # <<>>
       THEN /\ waiters' = Front(waiters)
            /\ phase' = [phase EXCEPT ![c] = "released",
                                      ![Last(waiters)] = "holding"]
            /\ UNCHANGED available
       ELSE /\ available' = available + 1
            /\ phase' = [phase EXCEPT ![c] = "released"]
            /\ UNCHANGED waiters
  /\ UNCHANGED aborted

\* release(): the oldest waiter takes the permit over, and only when nobody
\* waits does the permit become available.
Release(c) ==
  /\ phase[c] = "holding"
  /\ IF waiters # <<>>
       THEN /\ waiters' = Tail(waiters)
            /\ phase' = [phase EXCEPT ![c] = "released",
                                      ![Head(waiters)] = "holding"]
            /\ UNCHANGED available
       ELSE /\ available' = available + 1
            /\ phase' = [phase EXCEPT ![c] = "released"]
            /\ UNCHANGED waiters
  /\ UNCHANGED aborted

\* The queue without the entry of c; wake() has removed the listener of a call
\* that was served, so an abort reaches only a call that still waits.
Without(q, c) == RemoveAt(q, CHOOSE j \in 1 .. Len(q) : q[j] = c)

\* Mutant: an abort rejects the call but leaves its entry in the queue.
AbortKeepsEntry(c) ==
  /\ c \notin aborted
  /\ aborted' = aborted \cup {c}
  /\ phase' = IF phase[c] = "waiting" THEN [phase EXCEPT ![c] = "rejected"] ELSE phase
  /\ UNCHANGED <<available, waiters>>

\* The signal of c aborts: onAbort() takes the entry out and rejects the call.
Abort(c) ==
  /\ c \notin aborted
  /\ aborted' = aborted \cup {c}
  /\ IF phase[c] = "waiting"
       THEN /\ waiters' = Without(waiters, c)
            /\ phase' = [phase EXCEPT ![c] = "rejected"]
       ELSE UNCHANGED <<waiters, phase>>
  /\ UNCHANGED available

Next == \E c \in Clients : Acquire(c) \/ Release(c) \/ Abort(c)

Spec == Init /\ [][Next]_vars

\* A caller that holds a permit gives it back: hooks.agent() releases in a
\* finally block, whatever the backend does.
Fairness == \A c \in Clients : WF_vars(Release(c))

FairSpec == Spec /\ Fairness

--------------------------------------------------------------------------------

\* The variables have their types.
TypeOK ==
  /\ available \in 0 .. Permits
  /\ waiters \in Seq(Clients)
  /\ phase \in [Clients -> Phase]
  /\ aborted \subseteq Clients

\* The queue holds exactly the calls that wait, each once: an abort, a wake and a
\* queueing never leave a stale or a duplicate entry.
QueueExact ==
  /\ \A c \in Clients :
       phase[c] = "waiting" <=> \E i \in 1 .. Len(waiters) : waiters[i] = c
  /\ \A i, j \in 1 .. Len(waiters) : waiters[i] = waiters[j] => i = j

\* "The total number of permits is conserved" (concurrency.ts:5): across direct
\* transfer, plain release and abort, no permit is lost or invented.
PermitsConserved == available + Cardinality(Holders) = Permits

\* No permit lies idle while a call waits for one.
NoIdlePermit == waiters # <<>> => available = 0

\* A call that arrives while others wait never gets a permit before them, and a
\* waiter is never served before one that queued earlier.
NoOvertaking ==
  [][\A c, d \in Clients :
       (phase[d] # "holding" /\ phase'[d] = "holding") =>
         ~ (/\ phase[c] = "waiting" /\ phase'[c] = "waiting"
            /\ \/ phase[d] = "idle"
               \/ \E i, j \in 1 .. Len(waiters) :
                    i < j /\ waiters[i] = c /\ waiters[j] = d)]_vars

\* Every queued call is eventually served or rejected.
WaiterServed == \A c \in Clients : (phase[c] = "waiting") ~> (phase[c] # "waiting")

Pool == INSTANCE PermitPool WITH holders <- Holders

\* The semaphore implements the abstract pool: its queue and its counter never let
\* in more than Permits calls, whatever calls, releases and aborts interleave.
ImplementsPool == Pool!Spec
================================================================================
