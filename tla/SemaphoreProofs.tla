---------------------------- MODULE SemaphoreProofs ----------------------------
(***************************************************************************)
(* Proofs about Semaphore, for every finite set of calls and every number  *)
(* of permits.                                                             *)
(***************************************************************************)
EXTENDS Semaphore, SequenceTheorems, FiniteSetTheorems, TLAPS

\* c is in the queue q.
In(q, c) == \E i \in 1 .. Len(q) : q[i] = c

\* No call is in the queue q twice.
Distinct(q) == \A i, j \in 1 .. Len(q) : q[i] = q[j] => i = j

\* The inductive invariant: the counter stays right only because the queue is.
IInv == TypeOK /\ QueueExact /\ PermitsConserved /\ NoIdlePermit

--------------------------------------------------------------------------------

\* Appending a call that is not queued keeps the entries distinct.
LEMMA AppendDistinct ==
  ASSUME NEW q \in Seq(Clients), NEW c \in Clients, Distinct(q), ~ In(q, c)
  PROVE  /\ Append(q, c) \in Seq(Clients)
         /\ Append(q, c) # <<>>
         /\ Distinct(Append(q, c))
         /\ \A d : In(Append(q, c), d) <=> In(q, d) \/ d = c
<1> DEFINE r == Append(q, c)
<1>1. /\ r \in Seq(Clients)  /\ r # <<>>
      /\ Len(r) = Len(q) + 1 /\ Len(q) \in Nat
      /\ \A i \in 1 .. Len(q) : r[i] = q[i]
      /\ r[Len(q) + 1] = c
  BY AppendProperties, LenProperties
<1> HIDE DEF r
<1>2. 1 .. Len(r) = (1 .. Len(q)) \cup {Len(q) + 1}
  BY <1>1
<1>3. Distinct(r)
  BY <1>1, <1>2 DEF Distinct, In
<1>4. ASSUME NEW d PROVE In(r, d) <=> In(q, d) \/ d = c
  BY <1>1, <1>2 DEF In
<1> QED
  BY <1>1, <1>3, <1>4 DEF r

\* Waking the oldest waiter takes exactly that call out of the queue.
LEMMA TailDistinct ==
  ASSUME NEW q \in Seq(Clients), q # <<>>, Distinct(q)
  PROVE  /\ Tail(q) \in Seq(Clients)
         /\ Head(q) \in Clients
         /\ In(q, Head(q))
         /\ Distinct(Tail(q))
         /\ \A d : In(Tail(q), d) <=> In(q, d) /\ d # Head(q)
<1> DEFINE t == Tail(q)
<1>1. /\ t \in Seq(Clients) /\ Head(q) \in Clients
      /\ Len(q) \in Nat \ {0}
      /\ Len(t) = Len(q) - 1
      /\ \A i \in 1 .. Len(t) : t[i] = q[i + 1]
      /\ Head(q) = q[1]
  BY HeadTailProperties, EmptySeq
<1> HIDE DEF t
<1>2. In(q, Head(q))
  BY <1>1 DEF In
<1>3. Distinct(t)
  <2> SUFFICES ASSUME NEW i \in 1 .. Len(t), NEW j \in 1 .. Len(t), t[i] = t[j]
               PROVE  i = j
    BY DEF Distinct
  <2>1. i + 1 \in 1 .. Len(q) /\ j + 1 \in 1 .. Len(q) /\ q[i + 1] = q[j + 1]
    BY <1>1
  <2> QED
    BY <2>1 DEF Distinct
<1>4. ASSUME NEW d PROVE In(t, d) <=> In(q, d) /\ d # Head(q)
  <2>1. ASSUME In(t, d) PROVE In(q, d) /\ d # Head(q)
    <3>1. PICK i \in 1 .. Len(t) : t[i] = d
      BY <2>1 DEF In
    <3>2. i + 1 \in 1 .. Len(q) /\ q[i + 1] = d /\ 1 \in 1 .. Len(q) /\ i + 1 # 1
      BY <1>1, <3>1
    <3> QED
      BY <1>1, <3>2 DEF In, Distinct
  <2>2. ASSUME In(q, d), d # Head(q) PROVE In(t, d)
    <3>1. PICK i \in 1 .. Len(q) : q[i] = d
      BY <2>2 DEF In
    <3>2. i - 1 \in 1 .. Len(t) /\ t[i - 1] = d
      BY <1>1, <2>2, <3>1
    <3> QED
      BY <3>2 DEF In
  <2> QED
    BY <2>1, <2>2
<1> QED
  BY <1>1, <1>2, <1>3, <1>4 DEF t

\* An abort takes exactly its own call out of the queue.
LEMMA WithoutDistinct ==
  ASSUME NEW q \in Seq(Clients), NEW c \in Clients, Distinct(q), In(q, c)
  PROVE  /\ Without(q, c) \in Seq(Clients)
         /\ Distinct(Without(q, c))
         /\ \A d : In(Without(q, c), d) <=> In(q, d) /\ d # c
<1> DEFINE k == CHOOSE j \in 1 .. Len(q) : q[j] = c
           a == SubSeq(q, 1, k - 1)
           b == SubSeq(q, k + 1, Len(q))
           w == a \o b
<1>1. k \in 1 .. Len(q) /\ q[k] = c
  BY DEF In
<1>2. Without(q, c) = w
  BY DEF Without, RemoveAt
<1> HIDE DEF k
<1>3. Len(q) \in Nat /\ \A i \in 1 .. Len(q) : q[i] \in Clients
  BY LenProperties, ElementOfSeq
<1>4. /\ a \in Seq(Clients) /\ Len(a) = k - 1
      /\ \A i \in 1 .. k - 1 : a[i] = q[i]
  <2>1. 1 \in Int /\ k - 1 \in Int /\ \A i \in 1 .. k - 1 : q[i] \in Clients
    BY <1>1, <1>3
  <2> QED
    BY <1>1, <1>3, <2>1, SubSeqProperties
<1>5. /\ b \in Seq(Clients) /\ Len(b) = Len(q) - k
      /\ \A i \in 1 .. Len(q) - k : b[i] = q[k + i]
  <2>1. k + 1 \in Int /\ Len(q) \in Int /\ \A i \in k + 1 .. Len(q) : q[i] \in Clients
    BY <1>1, <1>3
  <2>2. /\ b \in Seq(Clients)
        /\ Len(b) = IF k + 1 <= Len(q) THEN Len(q) - (k + 1) + 1 ELSE 0
        /\ \A i \in 1 .. Len(q) - (k + 1) + 1 : b[i] = q[(k + 1) + i - 1]
    BY <2>1, SubSeqProperties
  <2> HIDE DEF b
  <2> QED
    BY <1>1, <1>3, <2>2
<1> HIDE DEF a, b
<1>6. /\ w \in Seq(Clients) /\ Len(w) = Len(q) - 1
      /\ \A i \in 1 .. Len(w) : w[i] = IF i < k THEN q[i] ELSE q[i + 1]
  <2>1. /\ w \in Seq(Clients) /\ Len(w) = Len(a) + Len(b)
        /\ \A i \in 1 .. Len(a) + Len(b) :
             w[i] = IF i <= Len(a) THEN a[i] ELSE b[i - Len(a)]
    BY <1>4, <1>5, ConcatProperties
  <2> HIDE DEF w
  <2>2. Len(w) = Len(q) - 1
    BY <1>1, <1>3, <1>4, <1>5, <2>1
  <2>3. ASSUME NEW i \in 1 .. Len(w)
        PROVE  w[i] = IF i < k THEN q[i] ELSE q[i + 1]
    <3>1. w[i] = IF i <= k - 1 THEN a[i] ELSE b[i - (k - 1)]
      BY <1>1, <1>3, <1>4, <1>5, <2>1, <2>2
    <3>2. CASE i < k
      BY <1>1, <1>3, <1>4, <2>2, <3>1, <3>2
    <3>3. CASE ~ (i < k)
      <4>1. i - (k - 1) \in 1 .. Len(q) - k /\ k + (i - (k - 1)) = i + 1
        BY <1>1, <1>3, <2>2, <3>3
      <4>2. w[i] = b[i - (k - 1)]
        BY <1>1, <2>2, <1>3, <3>1, <3>3
      <4> QED
        BY <1>5, <3>3, <4>1, <4>2
    <3> QED
      BY <3>2, <3>3
  <2> QED
    BY <2>1, <2>2, <2>3
<1> HIDE DEF w
<1>7. Distinct(w)
  BY <1>1, <1>3, <1>6 DEF Distinct
<1>8. ASSUME NEW d PROVE In(w, d) <=> In(q, d) /\ d # c
  <2>1. ASSUME In(w, d) PROVE In(q, d) /\ d # c
    BY <1>1, <1>3, <1>6, <2>1 DEF In, Distinct
  <2>2. ASSUME In(q, d), d # c PROVE In(w, d)
    <3>1. PICK i \in 1 .. Len(q) : q[i] = d
      BY <2>2 DEF In
    <3>2. i # k
      BY <1>1, <2>2, <3>1
    <3>3. CASE i < k
      <4>1. i \in 1 .. Len(w) /\ w[i] = d
        BY <1>1, <1>3, <1>6, <3>1, <3>3
      <4> QED
        BY <4>1 DEF In
    <3>4. CASE i > k
      <4>1. i - 1 \in 1 .. Len(w) /\ w[i - 1] = d
        BY <1>1, <1>3, <1>6, <3>1, <3>4
      <4> QED
        BY <4>1 DEF In
    <3> QED
      BY <1>1, <1>3, <3>1, <3>2, <3>3, <3>4
  <2> QED
    BY <2>1, <2>2
<1> QED
  BY <1>2, <1>6, <1>7, <1>8

--------------------------------------------------------------------------------

\* What an action does to the counter follows from what it does to the holders.
LEMMA HoldersFinite == IsFiniteSet(Holders) /\ Cardinality(Holders) \in Nat
BY SemaphoreAssumption, FS_Subset, FS_CardinalityType DEF Holders

LEMMA InitIInv == Init => IInv
<1> SUFFICES ASSUME Init PROVE IInv
  OBVIOUS
<1>1. TypeOK
  BY SemaphoreAssumption DEF Init, TypeOK, Phase
<1>2. QueueExact
  BY DEF Init, QueueExact
<1>3. PermitsConserved
  <2>1. Holders = {}
    BY DEF Init, Holders
  <2> QED
    BY <2>1, FS_EmptySet, SemaphoreAssumption DEF Init, PermitsConserved
<1>4. NoIdlePermit
  BY DEF Init, NoIdlePermit
<1> QED
  BY <1>1, <1>2, <1>3, <1>4 DEF IInv

\* A call that finds a permit takes it from the counter.
LEMMA AcquireFreeStep ==
  ASSUME NEW c \in Clients, IInv, AcquireFree(c)
  PROVE  IInv'
<1> USE DEF AcquireFree
<1>1. TypeOK'
  BY SemaphoreAssumption DEF IInv, TypeOK, Phase
<1>2. QueueExact'
  BY DEF IInv, TypeOK, QueueExact
<1>3. PermitsConserved'
  <2>1. Holders' = Holders \cup {c} /\ c \notin Holders
    BY DEF IInv, TypeOK, Holders, Phase
  <2>2. Cardinality(Holders') = Cardinality(Holders) + 1
    BY <2>1, HoldersFinite, FS_AddElement
  <2> QED
    BY <2>2, HoldersFinite DEF IInv, TypeOK, PermitsConserved
<1>4. NoIdlePermit'
  BY DEF IInv, NoIdlePermit, TypeOK
<1> QED
  BY <1>1, <1>2, <1>3, <1>4 DEF IInv

\* A call that finds none goes to the end of the queue.
LEMMA AcquireWaitStep ==
  ASSUME NEW c \in Clients, IInv, AcquireWait(c)
  PROVE  IInv'
<1> USE DEF AcquireWait
<1>0. /\ waiters \in Seq(Clients) /\ Distinct(waiters) /\ ~ In(waiters, c)
      /\ \A d \in Clients : phase[d] = "waiting" <=> In(waiters, d)
  BY DEF IInv, TypeOK, QueueExact, Distinct, In
<1>1. /\ waiters' \in Seq(Clients) /\ Distinct(waiters')
      /\ \A d : In(waiters', d) <=> In(waiters, d) \/ d = c
  BY <1>0, AppendDistinct
<1>2. TypeOK'
  BY <1>1 DEF IInv, TypeOK, Phase
<1>3. \A d \in Clients : phase'[d] = "waiting" <=> In(waiters', d)
  BY <1>0, <1>1 DEF IInv, TypeOK
<1>4. QueueExact'
  BY <1>1, <1>3 DEF QueueExact, Distinct, In
<1>5. PermitsConserved'
  <2>1. Holders' = Holders
    BY DEF IInv, TypeOK, Holders
  <2> QED
    BY <2>1 DEF IInv, PermitsConserved
<1>6. NoIdlePermit'
  BY DEF IInv, TypeOK, NoIdlePermit
<1> QED
  BY <1>2, <1>4, <1>5, <1>6 DEF IInv

\* A call whose signal has aborted takes nothing.
LEMMA AcquireRejectedStep ==
  ASSUME NEW c \in Clients, IInv, AcquireRejected(c)
  PROVE  IInv'
<1> USE DEF AcquireRejected
<1>1. TypeOK'
  BY DEF IInv, TypeOK, Phase
<1>2. QueueExact'
  BY DEF IInv, TypeOK, QueueExact
<1>3. Holders' = Holders
  BY DEF IInv, TypeOK, Holders
<1> QED
  BY <1>1, <1>2, <1>3 DEF IInv, PermitsConserved, NoIdlePermit

\* A release hands the permit to the oldest waiter, or makes it available.
LEMMA ReleaseStep ==
  ASSUME NEW c \in Clients, IInv, Release(c)
  PROVE  IInv'
<1> USE DEF Release
<1>0. /\ waiters \in Seq(Clients) /\ Distinct(waiters)
      /\ \A d \in Clients : phase[d] = "waiting" <=> In(waiters, d)
      /\ phase \in [Clients -> Phase] /\ phase[c] = "holding"
  BY DEF IInv, TypeOK, QueueExact, Distinct, In
<1>1. CASE waiters # <<>>
  <2> DEFINE h == Head(waiters)
  <2>1. /\ waiters' \in Seq(Clients) /\ Distinct(waiters')
        /\ h \in Clients /\ In(waiters, h)
        /\ \A d : In(waiters', d) <=> In(waiters, d) /\ d # h
    BY <1>0, <1>1, TailDistinct
  <2>2. phase[h] = "waiting" /\ h # c
    BY <1>0, <2>1
  <2>3. phase' = [phase EXCEPT ![c] = "released", ![h] = "holding"]
    BY <1>1
  <2> HIDE DEF h
  <2>4. TypeOK'
    BY <1>0, <1>1, <2>1, <2>3 DEF IInv, TypeOK, Phase
  <2>5. \A d \in Clients : phase'[d] = "waiting" <=> In(waiters', d)
    BY <1>0, <2>1, <2>2, <2>3
  <2>6. QueueExact'
    BY <2>1, <2>5 DEF QueueExact, Distinct, In
  <2>7. PermitsConserved'
    <3>1. /\ Holders' = (Holders \ {c}) \cup {h}
          /\ c \in Holders /\ h \notin Holders \ {c}
      BY <1>0, <2>1, <2>2, <2>3 DEF Holders
    <3>2. /\ IsFiniteSet(Holders \ {c})
          /\ Cardinality(Holders \ {c}) = Cardinality(Holders) - 1
      BY <3>1, HoldersFinite, FS_RemoveElement
    <3>3. Cardinality((Holders \ {c}) \cup {h}) = Cardinality(Holders \ {c}) + 1
      BY <3>1, <3>2, FS_AddElement
    <3>4. Cardinality(Holders') = Cardinality(Holders)
      BY <3>1, <3>2, <3>3, HoldersFinite
    <3> QED
      BY <1>1, <3>4 DEF IInv, PermitsConserved
  <2>8. NoIdlePermit'
    BY <1>1 DEF IInv, NoIdlePermit
  <2> QED
    BY <2>4, <2>6, <2>7, <2>8 DEF IInv
<1>2. CASE waiters = <<>>
  <2>1. Holders' = Holders \ {c} /\ c \in Holders
    BY <1>0, <1>2 DEF Holders
  <2>2. Cardinality(Holders') = Cardinality(Holders) - 1
    BY <2>1, HoldersFinite, FS_RemoveElement
  <2>3. PermitsConserved'
    BY <1>2, <2>2, HoldersFinite DEF IInv, TypeOK, PermitsConserved
  <2>4. Cardinality(Holders) >= 1
    BY <2>1, HoldersFinite, FS_EmptySet
  <2>5. available' \in 0 .. Permits
    BY <1>2, <2>4, HoldersFinite, SemaphoreAssumption DEF IInv, TypeOK, PermitsConserved
  <2>6. TypeOK'
    BY <1>0, <1>2, <2>5 DEF IInv, TypeOK, Phase
  <2>7. QueueExact'
    BY <1>0, <1>2 DEF IInv, QueueExact
  <2>8. NoIdlePermit'
    BY <1>2 DEF NoIdlePermit
  <2> QED
    BY <2>3, <2>6, <2>7, <2>8 DEF IInv
<1> QED
  BY <1>1, <1>2

\* An abort takes its call out of the queue and leaves the counter alone.
LEMMA AbortStep ==
  ASSUME NEW c \in Clients, IInv, Abort(c)
  PROVE  IInv'
<1> USE DEF Abort
<1>0. /\ waiters \in Seq(Clients) /\ Distinct(waiters)
      /\ \A d \in Clients : phase[d] = "waiting" <=> In(waiters, d)
      /\ phase \in [Clients -> Phase]
  BY DEF IInv, TypeOK, QueueExact, Distinct, In
<1>1. CASE phase[c] = "waiting"
  <2>1. /\ waiters' \in Seq(Clients) /\ Distinct(waiters')
        /\ \A d : In(waiters', d) <=> In(waiters, d) /\ d # c
    BY <1>0, <1>1, WithoutDistinct
  <2>2. phase' = [phase EXCEPT ![c] = "rejected"]
    BY <1>1
  <2>3. TypeOK'
    BY <1>0, <2>1, <2>2 DEF IInv, TypeOK, Phase
  <2>4. \A d \in Clients : phase'[d] = "waiting" <=> In(waiters', d)
    BY <1>0, <2>1, <2>2
  <2>5. QueueExact'
    BY <2>1, <2>4 DEF QueueExact, Distinct, In
  <2>6. Holders' = Holders
    BY <1>0, <1>1, <2>2 DEF Holders
  <2>7. NoIdlePermit'
    <3>1. waiters # <<>>
      BY <1>0, <1>1 DEF In
    <3> QED
      BY <3>1 DEF IInv, NoIdlePermit
  <2> QED
    BY <2>3, <2>5, <2>6, <2>7 DEF IInv, PermitsConserved
<1>2. CASE phase[c] # "waiting"
  <2>1. UNCHANGED <<available, waiters, phase>>
    BY <1>2
  <2>2. Holders' = Holders
    BY <2>1 DEF Holders
  <2>3. TypeOK'
    BY <2>1 DEF IInv, TypeOK
  <2>4. QueueExact'
    BY <2>1 DEF IInv, QueueExact
  <2> QED
    BY <2>1, <2>2, <2>3, <2>4 DEF IInv, PermitsConserved, NoIdlePermit
<1> QED
  BY <1>1, <1>2

LEMMA NextIInv == IInv /\ [Next]_vars => IInv'
<1> SUFFICES ASSUME IInv, [Next]_vars PROVE IInv'
  OBVIOUS
<1>1. ASSUME NEW c \in Clients, Acquire(c) PROVE IInv'
  BY <1>1, AcquireFreeStep, AcquireWaitStep, AcquireRejectedStep DEF Acquire
<1>2. ASSUME NEW c \in Clients, Release(c) PROVE IInv'
  BY <1>2, ReleaseStep
<1>3. ASSUME NEW c \in Clients, Abort(c) PROVE IInv'
  BY <1>3, AbortStep
<1>4. CASE UNCHANGED vars
  <2>1. Holders' = Holders
    BY <1>4 DEF vars, Holders
  <2> QED
    BY <1>4, <2>1 DEF vars, IInv, TypeOK, QueueExact, PermitsConserved, NoIdlePermit
<1> QED
  BY <1>1, <1>2, <1>3, <1>4 DEF Next

\* Type correctness and the three invariants of the queue and the counter
\* (concurrency.ts:3-10) hold for every number of calls and of permits.
THEOREM Invariance == Spec => []IInv
BY InitIInv, NextIInv, PTL DEF Spec

THEOREM TypeCorrect == Spec => []TypeOK
BY Invariance, PTL DEF IInv

\* The queue holds exactly the calls that wait, each once.
THEOREM QueueIsExact == Spec => []QueueExact
BY Invariance, PTL DEF IInv

\* "The total number of permits is conserved" (concurrency.ts:5).
THEOREM Conservation == Spec => []PermitsConserved
BY Invariance, PTL DEF IInv

\* No permit is idle while a call waits.
THEOREM WorkConserving == Spec => []NoIdlePermit
BY Invariance, PTL DEF IInv

--------------------------------------------------------------------------------

\* The action of NoOvertaking, so that a step lemma can speak of it.
ServedInOrder ==
  \A c, d \in Clients :
    (phase[d] # "holding" /\ phase'[d] = "holding") =>
      ~ (/\ phase[c] = "waiting" /\ phase'[c] = "waiting"
         /\ \/ phase[d] = "idle"
            \/ \E i, j \in 1 .. Len(waiters) :
                 i < j /\ waiters[i] = c /\ waiters[j] = d)

\* Every step serves only a newcomer that finds the queue empty or the oldest waiter.
LEMMA NextInOrder == IInv /\ [Next]_vars => ServedInOrder
<1> SUFFICES ASSUME IInv, [Next]_vars,
                    NEW c \in Clients, NEW d \in Clients,
                    phase[d] # "holding", phase'[d] = "holding",
                    phase[c] = "waiting", phase'[c] = "waiting",
                    \/ phase[d] = "idle"
                    \/ \E i, j \in 1 .. Len(waiters) :
                         i < j /\ waiters[i] = c /\ waiters[j] = d
             PROVE  FALSE
  BY DEF ServedInOrder
<1>0. /\ waiters \in Seq(Clients) /\ Distinct(waiters)
      /\ phase \in [Clients -> Phase]
      /\ In(waiters, c) /\ waiters # <<>> /\ available = 0
  BY DEF IInv, TypeOK, QueueExact, NoIdlePermit, Distinct, In
<1>1. ASSUME NEW b \in Clients, Acquire(b) PROVE FALSE
  BY <1>0, <1>1 DEF Acquire, AcquireFree, AcquireWait, AcquireRejected
<1>2. ASSUME NEW b \in Clients, Release(b) PROVE FALSE
  <2>1. d = Head(waiters)
    BY <1>0, <1>2 DEF Release
  <2>2. Head(waiters) = waiters[1] /\ Len(waiters) \in Nat \ {0}
    BY <1>0, HeadTailProperties, EmptySeq
  <2>3. In(waiters, d)
    BY <2>1, <2>2 DEF In
  <2>4. phase[d] = "waiting"
    BY <2>3 DEF IInv, QueueExact, In
  <2>5. PICK i \in 1 .. Len(waiters), j \in 1 .. Len(waiters) :
          i < j /\ waiters[i] = c /\ waiters[j] = d
    BY <2>4
  <2>6. j = 1
    BY <1>0, <2>1, <2>2, <2>5 DEF Distinct
  <2> QED
    BY <2>2, <2>5, <2>6
<1>3. ASSUME NEW b \in Clients, Abort(b) PROVE FALSE
  BY <1>0, <1>3 DEF Abort
<1>4. CASE UNCHANGED vars
  BY <1>4 DEF vars
<1> QED
  BY <1>1, <1>2, <1>3, <1>4 DEF Next

\* First come, first served: shift() in release() and the check of the counter in
\* acquire() never let a later call pass an earlier one.
THEOREM FirstComeFirstServed == Spec => NoOvertaking
<1>1. IInv /\ [Next]_vars => [ServedInOrder]_vars
  BY NextInOrder
<1>2. Spec => [][ServedInOrder]_vars
  BY <1>1, Invariance, PTL DEF Spec
<1> QED
  BY <1>2 DEF NoOvertaking, ServedInOrder

--------------------------------------------------------------------------------

\* The initial holders are those of an empty pool.
LEMMA InitPool == Init => Pool!Init
BY DEF Init, Holders, Pool!Init

\* Every step grants, returns or hands over one permit, or changes no holder.
LEMMA NextPool == IInv /\ [Next]_vars => [Pool!Next]_Holders
<1> SUFFICES ASSUME IInv, [Next]_vars PROVE [Pool!Next]_Holders
  OBVIOUS
<1>0. /\ phase \in [Clients -> Phase] /\ waiters \in Seq(Clients) /\ Distinct(waiters)
      /\ \A d \in Clients : phase[d] = "waiting" <=> In(waiters, d)
      /\ available + Cardinality(Holders) = Permits
      /\ available \in Nat /\ Permits \in Nat /\ Cardinality(Holders) \in Nat
  BY HoldersFinite, SemaphoreAssumption
     DEF IInv, TypeOK, QueueExact, PermitsConserved, Distinct, In
<1>1. ASSUME NEW c \in Clients, AcquireFree(c) PROVE Pool!Grant(c)
  <2>1. Cardinality(Holders) < Permits
    BY <1>0, <1>1 DEF AcquireFree
  <2>2. c \notin Holders /\ Holders' = Holders \cup {c}
    BY <1>0, <1>1 DEF AcquireFree, Holders
  <2>3. Pool!Cardinality(Holders) = Cardinality(Holders)
    BY Zenon DEF Cardinality, Pool!Cardinality
  <2> QED
    BY <2>1, <2>2, <2>3 DEF Pool!Grant
<1>2. ASSUME NEW c \in Clients, AcquireWait(c) \/ AcquireRejected(c) \/ Abort(c)
      PROVE  UNCHANGED Holders
  BY <1>0, <1>2 DEF AcquireWait, AcquireRejected, Abort, Holders
<1>3. ASSUME NEW c \in Clients, Release(c) PROVE Pool!Next
  <2>1. CASE waiters = <<>>
    <3>1. c \in Holders /\ Holders' = Holders \ {c}
      BY <1>0, <1>3, <2>1 DEF Release, Holders
    <3> QED
      BY <3>1 DEF Pool!Return, Pool!Next
  <2>2. CASE waiters # <<>>
    <3> DEFINE h == Head(waiters)
    <3>1. h \in Clients /\ phase[h] = "waiting"
      BY <1>0, <2>2, TailDistinct
    <3>2. /\ phase[c] = "holding"
          /\ phase' = [phase EXCEPT ![c] = "released", ![h] = "holding"]
      BY <1>3, <2>2 DEF Release
    <3> HIDE DEF h
    <3>3. c \in Holders /\ h \notin Holders /\ Holders' = (Holders \ {c}) \cup {h}
      BY <1>0, <3>1, <3>2 DEF Holders
    <3> QED
      BY <3>1, <3>3 DEF Pool!HandOver, Pool!Next
  <2> QED
    BY <2>1, <2>2
<1>4. CASE UNCHANGED vars
  BY <1>4 DEF vars, Holders
<1> QED
  BY <1>1, <1>2, <1>3, <1>4 DEF Next, Acquire, Pool!Next

\* The queue and the counter of concurrency.ts implement the pool of permits.
THEOREM Refinement == Spec => ImplementsPool
<1>1. Spec => Pool!Init
  BY InitPool DEF Spec
<1>2. Spec => [][Pool!Next]_Holders
  BY NextPool, Invariance, PTL DEF Spec
<1> QED
  BY <1>1, <1>2, PTL DEF ImplementsPool, Pool!Spec
================================================================================
