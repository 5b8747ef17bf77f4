--------------------------- MODULE ToolBatchesProofs ---------------------------
(***************************************************************************)
(* Proofs about ToolBatches, for every number of calls, every mix of kinds *)
(* and every cap; the order of the calls, their answers and the context    *)
(* they run in for a cap that is positive.                                 *)
(***************************************************************************)
EXTENDS ToolBatches, FiniteSetTheorems, SequenceTheorems, TLAPS

Status == {"waiting", "running", "progress", "result", "held", "end", "finished"}

\* What the argument needs of the types.
Types ==
  /\ first \in Nat
  /\ tool \in [Tools -> Status]
  /\ loop \in {"batch", "fill", "race", "given", "apply"}

\* Nothing is on its way between two batches.
Idle == loop \in {"batch", "apply"} => Active = {}

\* Whatever is on its way belongs to the batch.
InBatch == Active \subseteq Batch

\* A batch of several calls never has more than the cap on its way.
Capped == Concurrent => Active = {} \/ Cardinality(Active) <= Cap

\* The inductive invariant.
IInv == Types /\ Idle /\ InBatch /\ Capped

--------------------------------------------------------------------------------

\* The calls that are on their way are finitely many.
LEMMA ActiveFinite == IsFiniteSet(Active) /\ Cardinality(Active) \in Nat
<1>1. IsFiniteSet(Tools)
  BY FS_Interval, BatchAssumption DEF Tools
<1>2. Active \subseteq Tools
  BY DEF Active
<1> QED
  BY <1>1, <1>2, FS_Subset, FS_CardinalityType

\* first moves on by a natural number.
LEMMA BatchFinite == ASSUME first \in Nat PROVE Cardinality(Batch) \in Nat
<1>1. CASE Concurrent
  <2>1. IsFiniteSet(first .. N)
    BY FS_Interval, BatchAssumption
  <2>2. Batch \subseteq first .. N
    BY <1>1 DEF Batch
  <2> QED
    BY <2>1, <2>2, FS_Subset, FS_CardinalityType
<1>2. CASE ~ Concurrent
  <2>1. Batch = {first}
    BY <1>2 DEF Batch
  <2> QED
    BY <2>1, FS_Singleton
<1> QED
  BY <1>1, <1>2

\* A step that keeps the batch, and after which nothing new is on its way, keeps
\* the invariant.
LEMMA NothingNew ==
  ASSUME IInv, Types', Idle', UNCHANGED <<kind, first>>, Active' \subseteq Active
  PROVE  IInv'
<1>1. Batch' = Batch /\ Concurrent' = Concurrent
  BY DEF Batch, Concurrent
<1>2. InBatch'
  BY <1>1 DEF IInv, InBatch
<1>3. Capped'
  <2>1. Cardinality(Active') <= Cardinality(Active) /\ Cardinality(Active') \in Nat
    BY ActiveFinite, FS_Subset, FS_CardinalityType
  <2> QED
    BY <1>1, <2>1, ActiveFinite, BatchAssumption DEF IInv, Capped
<1> QED
  BY <1>2, <1>3 DEF IInv

--------------------------------------------------------------------------------

\* The initial states satisfy the invariant.
LEMMA InitIInv == Init => IInv
<1> SUFFICES ASSUME Init PROVE IInv
  OBVIOUS
<1>1. Active = {}
  BY DEF Init, Active
<1>2. Types
  BY DEF Init, Types, Status
<1> QED
  BY <1>1, <1>2 DEF IInv, Idle, InBatch, Capped

\* Every step keeps the invariant.
LEMMA StepIInv == IInv /\ [Next]_vars => IInv'
<1> SUFFICES ASSUME IInv, [Next]_vars PROVE IInv'
  OBVIOUS
<1> USE DEF IInv
<1>1. CASE StartBatch
  <2>1. Types' /\ Idle' /\ Active' = Active
    BY <1>1 DEF StartBatch, Types, Idle, Active
  <2> QED
    BY <1>1, <2>1, NothingNew DEF StartBatch
<1>2. CASE Fill
  <2>1. PICK t \in Waiting : tool' = [tool EXCEPT ![t] = "running"]
    BY <1>2 DEF Fill
  <2>2. t \in Batch /\ tool[t] = "waiting"
    BY <2>1 DEF Waiting
  <2>3. Types' /\ Idle'
    BY <1>2, <2>1 DEF Fill, Types, Status, Idle
  <2>4. Batch' = Batch /\ Concurrent' = Concurrent
    BY <1>2 DEF Fill, Batch, Concurrent
  <2>5. Active' \subseteq Active \cup {t}
    BY <2>1 DEF Active, Types
  <2>6. InBatch'
    BY <2>2, <2>4, <2>5 DEF InBatch
  <2>7. ASSUME Concurrent PROVE Cardinality(Active') <= Cap
    <3>1. Cardinality(Active) < Cap
      BY <1>2, <2>7 DEF Fill, Room
    <3>2. t \notin Active
      BY <2>2 DEF Active
    <3>3. /\ IsFiniteSet(Active \cup {t})
          /\ Cardinality(Active \cup {t}) = Cardinality(Active) + 1
      BY <3>2, ActiveFinite, FS_AddElement
    <3>4. /\ Cardinality(Active') <= Cardinality(Active \cup {t})
          /\ Cardinality(Active') \in Nat
      BY <2>5, <3>3, FS_Subset, FS_CardinalityType
    <3> QED
      BY <3>1, <3>3, <3>4, ActiveFinite, BatchAssumption
  <2>8. Capped'
    BY <2>4, <2>7 DEF Capped
  <2> QED
    BY <2>3, <2>6, <2>8
<1>3. CASE Filled
  <2>1. Types' /\ Idle' /\ Active' = Active
    BY <1>3 DEF Filled, Types, Idle, Active
  <2> QED
    BY <1>3, <2>1, NothingNew DEF Filled
<1>4. CASE ConsumerBack
  <2>1. Types' /\ Idle' /\ Active' = Active
    BY <1>4 DEF ConsumerBack, Types, Status, Idle, Active
  <2> QED
    BY <1>4, <2>1, NothingNew DEF ConsumerBack
<1>5. CASE EndBatch
  <2>1. Active' = {} /\ Types'
    BY <1>5, BatchFinite DEF EndBatch, Active, Types, Idle
  <2> QED
    BY <2>1 DEF Idle, InBatch, Capped
<1>6. ASSUME NEW t \in Tools, Take(t) PROVE IInv'
  <2>1. Types' /\ Idle' /\ Active' \subseteq Active
    BY <1>6 DEF Take, Types, Status, Idle, Active
  <2> QED
    BY <1>6, <2>1, NothingNew DEF Take
<1>7. ASSUME NEW t \in Tools, TakeEnd(t) PROVE IInv'
  <2>1. Types' /\ Idle' /\ Active' \subseteq Active
    BY <1>7 DEF TakeEnd, Types, Status, Idle, Active
  <2> QED
    BY <1>7, <2>1, NothingNew DEF TakeEnd
<1>8. ASSUME NEW t \in Tools, NEW what \in {"progress", "result", "end"}, Reports(t, what)
      PROVE  IInv'
  <2>1. Types' /\ Idle' /\ Active' \subseteq Active
    BY <1>8 DEF Reports, Types, Status, Idle, Active
  <2> QED
    BY <1>8, <2>1, NothingNew DEF Reports
<1>9. CASE UNCHANGED vars
  <2>1. Types' /\ Idle' /\ Active' = Active
    BY <1>9 DEF vars, Types, Idle, Active
  <2> QED
    BY <1>9, <2>1, NothingNew DEF vars
<1> QED
  BY <1>1, <1>2, <1>3, <1>4, <1>5, <1>6, <1>7, <1>8, <1>9 DEF Next, RunTools

--------------------------------------------------------------------------------

\* However the ends of the tools interleave with the consumer, all() of
\* generators.ts never has more tools on their way than its cap; a batch of an
\* unsafe call has one.
THEOREM CapIsRespected == Spec => []CapRespected
<1>1. IInv => CapRespected
  <2> SUFFICES ASSUME IInv PROVE CapRespected
    OBVIOUS
  <2>1. CASE Active = {}
    BY <2>1, FS_EmptySet, BatchAssumption DEF CapRespected
  <2>2. CASE Active # {} /\ Concurrent
    BY <2>2, ActiveFinite, BatchAssumption DEF IInv, Capped, CapRespected
  <2>3. CASE Active # {} /\ ~ Concurrent
    <3>1. Active = {first}
      BY <2>3 DEF IInv, InBatch, Batch
    <3> QED
      BY <3>1, FS_Singleton, BatchAssumption DEF CapRespected
  <2> QED
    BY <2>1, <2>2, <2>3
<1> QED
  BY <1>1, InitIInv, StepIInv, PTL DEF Spec

\* A call that is not concurrency safe is alone on its way.
THEOREM UnsafeAlone ==
  Spec => [](\A t \in Active : kind[t] \notin SafeKind => Active = {t})
<1>1. IInv => \A t \in Active : kind[t] \notin SafeKind => Active = {t}
  <2> SUFFICES ASSUME IInv, NEW t \in Active, kind[t] \notin SafeKind PROVE Active = {t}
    OBVIOUS
  <2>1. t \in Batch
    BY DEF IInv, InBatch
  <2>2. ~ Concurrent
    BY <2>1, BatchAssumption DEF Batch, Concurrent, IInv, Types
  <2> QED
    BY <2>1, <2>2 DEF IInv, InBatch, Batch
<1> QED
  BY <1>1, InitIInv, StepIInv, PTL DEF Spec

--------------------------------------------------------------------------------

\* What is known of the calls outside the batch, and when the batch is over.
Order ==
  /\ first >= 1
  /\ loop # "batch" => first \in Tools
  /\ \A t \in Tools : t < first => tool[t] = "finished"
  /\ \A t \in Tools : t >= first /\ t \notin Batch => tool[t] = "waiting"
  /\ loop = "batch" => \A t \in Tools : t >= first => tool[t] = "waiting"
  /\ loop = "apply" => \A t \in Batch : tool[t] = "finished"

\* partitionToolCalls() cuts the calls into stretches without a gap.
LEMMA BatchIsInterval ==
  ASSUME first \in Tools
  PROVE  Batch = first .. first + Cardinality(Batch) - 1
<1>1. CASE ~ Concurrent
  <2>1. Batch = {first}
    BY <1>1 DEF Batch
  <2>2. Cardinality(Batch) = 1
    BY <2>1, FS_Singleton
  <2> QED
    BY <2>1, <2>2, BatchAssumption DEF Tools
<1>2. CASE Concurrent
  <2> DEFINE c == Cardinality(Batch)
             J == first .. first + c - 1
  <2>1. c \in Nat /\ IsFiniteSet(Batch)
    <3>1. IsFiniteSet(first .. N)
      BY FS_Interval, BatchAssumption DEF Tools
    <3>2. Batch \subseteq first .. N
      BY <1>2 DEF Batch
    <3> QED
      BY <3>1, <3>2, FS_Subset, FS_CardinalityType
  <2>2. ASSUME NEW k \in Batch PROVE k \in J
    <3>1. k \in first .. N /\ \A u \in first .. k : kind[u] \in SafeKind
      BY <1>2 DEF Batch
    <3>2. first .. k \subseteq Batch
      BY <1>2, <3>1, BatchAssumption DEF Batch, Tools
    <3>3. Cardinality(first .. k) = k - first + 1
      BY <3>1, FS_Interval, BatchAssumption DEF Tools
    <3>4. Cardinality(first .. k) <= c
      BY <2>1, <3>2, FS_Subset
    <3> QED
      BY <2>1, <3>1, <3>3, <3>4, BatchAssumption DEF Tools
  <2>3. Batch \subseteq J
    BY <2>2
  <2>4. IsFiniteSet(J) /\ Cardinality(J) = c
    <3> DEFINE last == first + c - 1
    <3>1. first \in Int /\ last \in Int
      BY <2>1, BatchAssumption DEF Tools
    <3> HIDE DEF last
    <3>2. /\ IsFiniteSet(first .. last)
          /\ Cardinality(first .. last) = IF first > last THEN 0 ELSE last - first + 1
      BY <3>1, FS_Interval
    <3>3. (IF first > last THEN 0 ELSE last - first + 1) = c
      BY <2>1, <3>1 DEF last
    <3> QED
      BY <3>2, <3>3 DEF last
  <2>5. Batch = J
    BY <2>3, <2>4, FS_Subset
  <2> QED
    BY <2>5
<1> QED
  BY <1>1, <1>2

\* A batch is made of calls.
LEMMA BatchOfTools == ASSUME first \in Tools PROVE Batch \subseteq Tools
  BY BatchAssumption DEF Batch, Tools

\* A step inside a batch keeps the order.
LEMMA WithinBatch ==
  ASSUME Order, UNCHANGED <<kind, first>>, first \in Tools, loop' \notin {"batch", "apply"},
         \A t \in Tools : t \notin Batch => tool'[t] = tool[t]
  PROVE  Order'
<1>1. Batch' = Batch
  BY DEF Batch, Concurrent
<1>2. \A t \in Tools : t < first => t \notin Batch
  BY BatchAssumption DEF Batch, Tools
<1>3. \A t \in Tools : t < first => tool'[t] = "finished"
  BY <1>2 DEF Order
<1>4. \A t \in Tools : t >= first /\ t \notin Batch => tool'[t] = "waiting"
  BY DEF Order
<1> QED
  BY <1>1, <1>3, <1>4 DEF Order

\* Every step keeps the order.
LEMMA StepOrder ==
  ASSUME Cap > 0, IInv, Order, [Next]_vars
  PROVE  Order'
<1> USE DEF IInv
<1>1. CASE StartBatch
  <2>1. first \in Tools /\ first >= 1 /\ UNCHANGED <<kind, first, tool>> /\ loop' = "fill"
    BY <1>1, BatchAssumption DEF StartBatch, Order, Types, Tools
  <2> QED
    BY <2>1, WithinBatch
<1>2. CASE Fill
  <2>1. PICK t \in Waiting : tool' = [tool EXCEPT ![t] = "running"]
    BY <1>2 DEF Fill
  <2>2. \A u \in Tools : u \notin Batch => tool'[u] = tool[u]
    BY <2>1 DEF Waiting, Types
  <2>3. first \in Tools /\ UNCHANGED <<kind, first>> /\ loop' = "fill"
    BY <1>2 DEF Fill, Order
  <2> QED
    BY <2>2, <2>3, WithinBatch
<1>3. CASE Filled
  <2>1. first \in Tools /\ UNCHANGED <<kind, first, tool>>
    BY <1>3 DEF Filled, Order
  <2>2. CASE Active # {}
    BY <1>3, <2>1, <2>2, WithinBatch DEF Filled
  <2>3. CASE Active = {}
    <3>1. Room
      BY <2>3, FS_EmptySet, BatchAssumption DEF Room
    <3>2. Waiting = {} /\ loop' = "apply"
      BY <1>3, <2>3, <3>1 DEF Filled
    <3>3. \A t \in Batch : tool[t] = "finished"
      BY <2>1, <2>3, <3>2, BatchOfTools DEF Waiting, Active
    <3>4. Batch' = Batch
      BY <2>1 DEF Batch, Concurrent
    <3> QED
      BY <2>1, <3>2, <3>3, <3>4 DEF Order
  <2> QED
    BY <2>2, <2>3
<1>4. CASE ConsumerBack
  <2>1. first \in Tools /\ UNCHANGED <<kind, first>> /\ loop' = "race"
    BY <1>4 DEF ConsumerBack, Order
  <2>2. \A t \in Tools : t \notin Batch => tool'[t] = tool[t]
    BY <1>4 DEF ConsumerBack, InBatch, Active
  <2> QED
    BY <2>1, <2>2, WithinBatch
<1>5. CASE EndBatch
  <2> DEFINE c == Cardinality(Batch)
  <2>1. first \in Tools /\ tool' = tool /\ first' = first + c /\ loop' = "batch"
    BY <1>5 DEF EndBatch, Order
  <2>2. c \in Nat /\ first \in Nat
    BY BatchFinite DEF Types
  <2>3. Batch = first .. first + c - 1
    BY <2>1, BatchIsInterval
  <2>4. \A t \in Batch : tool[t] = "finished"
    BY <1>5 DEF EndBatch, Order
  <2> HIDE DEF c
  <2>5. \A t \in Tools : t < first' => tool'[t] = "finished"
    <3> SUFFICES ASSUME NEW t \in Tools, t < first' PROVE tool[t] = "finished"
      BY <2>1
    <3>1. t < first \/ t \in Batch
      BY <2>1, <2>2, <2>3, BatchAssumption DEF Tools
    <3> QED
      BY <2>4, <3>1 DEF Order
  <2>6. \A t \in Tools : t >= first' => tool'[t] = "waiting"
    <3> SUFFICES ASSUME NEW t \in Tools, t >= first' PROVE tool[t] = "waiting"
      BY <2>1
    <3>1. t >= first /\ t \notin Batch
      BY <2>1, <2>2, <2>3, BatchAssumption DEF Tools
    <3> QED
      BY <3>1 DEF Order
  <2>7. first' >= 1
    BY <2>1, <2>2 DEF Order
  <2> QED
    BY <2>1, <2>5, <2>6, <2>7 DEF Order
<1>6. ASSUME NEW t \in Tools, Take(t) PROVE Order'
  <2>1. first \in Tools /\ UNCHANGED <<kind, first>> /\ loop' = "given" /\ t \in Batch
    BY <1>6 DEF Take, Order, InBatch, Active
  <2>2. \A u \in Tools : u \notin Batch => tool'[u] = tool[u]
    BY <1>6, <2>1 DEF Take, Types
  <2> QED
    BY <2>1, <2>2, WithinBatch
<1>7. ASSUME NEW t \in Tools, TakeEnd(t) PROVE Order'
  <2>1. first \in Tools /\ UNCHANGED <<kind, first>> /\ loop' = "fill" /\ t \in Batch
    BY <1>7 DEF TakeEnd, Order, InBatch, Active
  <2>2. \A u \in Tools : u \notin Batch => tool'[u] = tool[u]
    BY <1>7, <2>1 DEF TakeEnd, Types
  <2> QED
    BY <2>1, <2>2, WithinBatch
<1>8. ASSUME NEW t \in Tools, NEW what \in {"progress", "result", "end"}, Reports(t, what)
      PROVE  Order'
  <2>1. t \in Active /\ UNCHANGED <<kind, first, loop>>
    BY <1>8 DEF Reports, Active
  <2>2. loop \notin {"batch", "apply"} /\ first \in Tools /\ t \in Batch
    BY <2>1 DEF Idle, Order, InBatch
  <2>3. \A u \in Tools : u \notin Batch => tool'[u] = tool[u]
    BY <1>8, <2>2 DEF Reports, Types
  <2> QED
    BY <2>1, <2>2, <2>3, WithinBatch
<1>9. CASE UNCHANGED vars
  BY <1>9 DEF vars, Order, Batch, Concurrent
<1> QED
  BY <1>1, <1>2, <1>3, <1>4, <1>5, <1>6, <1>7, <1>8, <1>9 DEF Next, RunTools

--------------------------------------------------------------------------------

\* tool, as the discipline sees it.
Seen == [t \in Tools |-> IF tool[t] \in {"waiting", "finished"} THEN tool[t] ELSE "running"]

\* Starting the next call of the batch is a start in turn.
LEMMA FillStarts ==
  ASSUME IInv, Order, Fill
  PROVE  \E t \in Tools : Discipline!Start(t)
<1>1. PICK t \in Waiting : Next1(t) /\ tool' = [tool EXCEPT ![t] = "running"]
  BY DEF Fill
<1>2. first \in Tools /\ first >= 1 /\ kind' = kind
  BY DEF Fill, Order
<1>3. t \in Batch /\ tool[t] = "waiting" /\ t \in Tools
  BY <1>1, <1>2, BatchOfTools DEF Waiting
<1>4. ASSUME NEW u \in 1 .. t - 1 PROVE tool[u] # "waiting" /\ u \in Tools
  <2>1. u \in Tools /\ u < t
    BY <1>3, BatchAssumption DEF Tools
  <2>2. CASE u < first
    BY <2>1, <2>2 DEF Order
  <2>3. CASE u >= first
    <3>1. u \in Batch
      BY <1>2, <1>3, <2>1, <2>3, BatchAssumption DEF Batch, Tools
    <3> QED
      BY <1>1, <2>1, <3>1, BatchAssumption DEF Next1, Waiting, Tools
  <2> QED
    BY <1>2, <2>1, <2>2, <2>3, BatchAssumption DEF Tools
<1>5. Discipline!InTurn(t)
  BY <1>4 DEF Discipline!InTurn, Tools
<1>6. ASSUME Active # {}
      PROVE  kind[t] \in SafeKind /\ \A u \in Active : kind[u] \in SafeKind
  <2>1. Concurrent
    BY <1>3, <1>6 DEF IInv, InBatch, Batch, Active
  <2>2. \A u \in Batch : kind[u] \in SafeKind
    BY <2>1, <1>2, BatchAssumption DEF Batch, Tools
  <2> QED
    BY <1>3, <2>2 DEF IInv, InBatch
<1>7. Discipline!Running = Active
  BY DEF Discipline!Running, Discipline!Tools, Active, Tools, IInv, Types, Status
<1>8. Seen[t] = "waiting" /\ Seen' = [Seen EXCEPT ![t] = "running"]
  BY <1>1, <1>3 DEF Seen, IInv, Types
<1>9. Discipline!Start(t)
  BY <1>2, <1>5, <1>6, <1>7, <1>8
  DEF Discipline!Start, Discipline!SafeKind, SafeKind, Discipline!Tools, Seen, Tools
<1> QED
  BY <1>3, <1>9

\* Every step is a step of the discipline or does not show in it.
LEMMA StepImplements ==
  ASSUME IInv, Order, [Next]_vars
  PROVE  [Discipline!Next]_(Discipline!vars)
<1> USE DEF Discipline!vars, Discipline!Tools, Tools
<1>1. CASE Fill
  BY <1>1, FillStarts DEF Discipline!Next
<1>2. CASE StartBatch \/ Filled \/ EndBatch \/ UNCHANGED vars
  BY <1>2 DEF StartBatch, Filled, EndBatch, vars
<1>3. CASE ConsumerBack
  <2>1. kind' = kind /\ Seen' = Seen
    BY <1>3 DEF ConsumerBack, Seen
  <2> QED
    BY <2>1 DEF Seen
<1>4. ASSUME NEW t \in Tools, NEW what \in {"progress", "result", "end"},
             Reports(t, what) \/ Take(t)
      PROVE  UNCHANGED Discipline!vars
  <2>1. kind' = kind /\ Seen' = Seen
    BY <1>4 DEF Reports, Take, Seen, IInv, Types
  <2> QED
    BY <2>1 DEF Seen
<1>5. ASSUME NEW t \in Tools, TakeEnd(t) PROVE Discipline!Finish(t)
  <2>1. Seen[t] = "running" /\ Seen' = [Seen EXCEPT ![t] = "finished"] /\ kind' = kind
    BY <1>5 DEF TakeEnd, Seen, IInv, Types
  <2> QED
    BY <2>1 DEF Seen, Discipline!Finish
<1> QED
  BY <1>1, <1>2, <1>3, <1>4, <1>5 DEF Next, RunTools, Discipline!Next

\* With a cap that is positive, the calls of runTools() start in the order they were
\* received, an unsafe one alone, and none twice.
THEOREM Refinement == ASSUME Cap > 0 PROVE Spec => ImplementsDiscipline
<1>1. Init => Discipline!Init
  BY BatchAssumption
  DEF Init, Discipline!Init, Discipline!Tools, Discipline!Kinds, Tools, Kinds
<1>2. Init => Order
  BY BatchAssumption DEF Init, Order, Tools
<1>3. IInv /\ Order /\ [Next]_vars => Order'
  BY StepOrder
<1>4. IInv /\ Order /\ [Next]_vars => [Discipline!Next]_(Discipline!vars)
  BY StepImplements
<1> QED
  BY <1>1, <1>2, <1>3, <1>4, InitIInv, StepIInv, PTL
  DEF Spec, ImplementsDiscipline, Discipline!Spec

--------------------------------------------------------------------------------

\* How many calls of S come no later than t.
Rank(S, t) == Cardinality({u \in S : u <= t})

\* Every rank is taken, by one call.
LEMMA Ranks ==
  ASSUME NEW S \in SUBSET Nat, IsFiniteSet(S)
  PROVE  /\ Cardinality(S) \in Nat
         /\ \A t \in S : Rank(S, t) \in 1 .. Cardinality(S)
         /\ \A t, u \in S : Rank(S, t) = Rank(S, u) => t = u
         /\ \A n \in 1 .. Cardinality(S) : \E t \in S : Rank(S, t) = n
<1> DEFINE m == Cardinality(S)
           upTo(t) == {u \in S : u <= t}
           r == [t \in S |-> Rank(S, t)]
<1>1. m \in Nat
  BY FS_CardinalityType
<1>2. ASSUME NEW t \in S
      PROVE  IsFiniteSet(upTo(t)) /\ Rank(S, t) = Cardinality(upTo(t)) /\ Rank(S, t) \in 1 .. m
  <2>1. /\ Rank(S, t) = Cardinality(upTo(t))
        /\ upTo(t) \subseteq S /\ t \in upTo(t)
    BY DEF Rank
  <2> HIDE DEF upTo
  <2>2. /\ IsFiniteSet(upTo(t)) /\ Cardinality(upTo(t)) <= m
        /\ Cardinality(upTo(t)) \in Nat
    BY <1>1, <2>1, FS_Subset, FS_CardinalityType
  <2>3. Cardinality(upTo(t)) # 0
    BY <2>1, <2>2, FS_EmptySet
  <2> QED
    BY <1>1, <2>1, <2>2, <2>3
<1>3. ASSUME NEW t \in S, NEW u \in S, t < u PROVE Rank(S, t) # Rank(S, u)
  <2>1. upTo(t) \subseteq upTo(u) /\ u \notin upTo(t) /\ u \in upTo(u)
    <3>1. t \in Nat /\ u \in Nat /\ ~ (u <= t) /\ u <= u
      BY <1>3
    <3>2. ASSUME NEW v \in upTo(t) PROVE v \in upTo(u)
      <4>1. v \in Nat /\ v <= t
        OBVIOUS
      <4>2. v <= u
        BY <1>3, <3>1, <4>1
      <4> QED
        BY <4>2
    <3> QED
      BY <3>1, <3>2
  <2>2. /\ IsFiniteSet(upTo(u))
        /\ Rank(S, t) = Cardinality(upTo(t)) /\ Rank(S, u) = Cardinality(upTo(u))
    BY <1>2
  <2> HIDE DEF upTo
  <2> QED
    BY <2>1, <2>2, FS_Subset
<1>4. \A t, u \in S : Rank(S, t) = Rank(S, u) => t = u
  <2> SUFFICES ASSUME NEW t \in S, NEW u \in S, Rank(S, t) = Rank(S, u), t # u PROVE FALSE
    OBVIOUS
  <2>1. t < u \/ u < t
    OBVIOUS
  <2> QED
    BY <1>3, <2>1
<1>5. \A n \in 1 .. m : \E t \in S : Rank(S, t) = n
  <2>1. r \in [S -> 1 .. m]
    BY <1>2
  <2>2. r \in Injection(S, 1 .. m)
    BY <1>4, <2>1 DEF Injection, IsInjective
  <2>3. IsFiniteSet(1 .. m) /\ Cardinality(1 .. m) = Cardinality(S)
    BY <1>1, FS_Interval
  <2>4. r \in Surjection(S, 1 .. m)
    BY <2>2, <2>3, FS_Injection
  <2> QED
    BY <2>4 DEF Surjection
<1> QED
  BY <1>1, <1>2, <1>4, <1>5

\* The call at the place n is the one of rank n.
LEMMA InOrderIs ==
  ASSUME NEW S \in SUBSET Nat, IsFiniteSet(S)
  PROVE  /\ InOrder(S) \in Seq(S) /\ Len(InOrder(S)) = Cardinality(S)
         /\ \A n \in 1 .. Cardinality(S) :
              /\ InOrder(S)[n] \in S
              /\ \A t \in S : Rank(S, t) = n => InOrder(S)[n] = t
<1> DEFINE m == Cardinality(S)
           at(n) == CHOOSE t \in S : Rank(S, t) = n
<1>1. InOrder(S) = [n \in 1 .. m |-> at(n)]
  BY DEF InOrder, Rank
<1>2. /\ m \in Nat
      /\ \A t, u \in S : Rank(S, t) = Rank(S, u) => t = u
      /\ \A n \in 1 .. m : \E t \in S : Rank(S, t) = n
  BY Ranks
<1>3. \A n \in 1 .. m : at(n) \in S /\ Rank(S, at(n)) = n
  BY <1>2
<1> HIDE DEF at, m
<1>4. InOrder(S) \in Seq(S) /\ Len(InOrder(S)) = m
  BY <1>1, <1>2, <1>3, IsASeq
<1> QED
  BY <1>1, <1>2, <1>3, <1>4 DEF m

\* Calls that all come before others are in front of them.
LEMMA InOrderOfTwo ==
  ASSUME NEW A \in SUBSET Nat, NEW B \in SUBSET Nat, IsFiniteSet(A), IsFiniteSet(B),
         \A a \in A, b \in B : a < b
  PROVE  InOrder(A) \o InOrder(B) = InOrder(A \cup B)
<1> DEFINE S == A \cup B
           m == Cardinality(A)
           k == Cardinality(B)
           s == InOrder(A)
           q == InOrder(B)
           w == InOrder(S)
<1>1. /\ S \in SUBSET Nat /\ IsFiniteSet(S) /\ A \cap B = {}
      /\ Cardinality(S) = m + k /\ m \in Nat /\ k \in Nat
  <2>1. A \cap B = {}
    OBVIOUS
  <2>2. S \in SUBSET Nat /\ m \in Nat /\ k \in Nat /\ Cardinality({}) = 0
    BY FS_CardinalityType, FS_EmptySet
  <2>3. IsFiniteSet(S) /\ Cardinality(S) = m + k - Cardinality(A \cap B)
    BY FS_Union
  <2>4. Cardinality(A \cap B) = 0
    BY <2>1, FS_EmptySet
  <2> HIDE DEF S, m, k
  <2> QED
    BY <2>1, <2>2, <2>3, <2>4
<1>2. ASSUME NEW a \in A PROVE Rank(S, a) = Rank(A, a)
  <2>1. \A u \in S : u <= a => u \in A
    OBVIOUS
  <2>2. {u \in S : u <= a} = {u \in A : u <= a}
    BY <2>1
  <2> QED
    BY <2>2 DEF Rank
<1>3. ASSUME NEW b \in B PROVE Rank(S, b) = m + Rank(B, b) /\ Rank(B, b) \in Nat
  <2> DEFINE upTo == {u \in B : u <= b}
  <2>1. ASSUME NEW a \in A PROVE a <= b
    OBVIOUS
  <2>2. {u \in S : u <= b} = A \cup upTo
    BY <2>1
  <2>3. IsFiniteSet(upTo) /\ A \cap upTo = {} /\ Cardinality(upTo) \in Nat
    <3>1. upTo \subseteq B
      OBVIOUS
    <3> HIDE DEF upTo
    <3> QED
      BY <1>1, <3>1, FS_Subset, FS_CardinalityType
  <2> HIDE DEF upTo
  <2>4. Cardinality(A \cup upTo) = m + Cardinality(upTo)
    <3>1. Cardinality(A \cup upTo) = m + Cardinality(upTo) - Cardinality(A \cap upTo)
      BY <2>3, FS_Union
    <3>2. Cardinality(A \cap upTo) = 0
      BY <2>3, FS_EmptySet
    <3> HIDE DEF m
    <3> QED
      BY <1>1, <2>3, <3>1, <3>2
  <2> QED
    BY <2>2, <2>3, <2>4 DEF Rank, upTo
<1>4. /\ s \in Seq(A) /\ Len(s) = m /\ q \in Seq(B) /\ Len(q) = k
      /\ w \in Seq(S) /\ Len(w) = m + k
  BY <1>1, InOrderIs
<1>5. /\ s \in Seq(S) /\ q \in Seq(S)
  BY <1>4, SeqMonotonic
<1>6. \A n \in 1 .. m : s[n] \in A /\ Rank(A, s[n]) = n
  BY Ranks, InOrderIs
<1>7. \A n \in 1 .. k : q[n] \in B /\ Rank(B, q[n]) = n
  BY Ranks, InOrderIs
<1>8. \A n \in 1 .. m + k : \A t \in S : Rank(S, t) = n => w[n] = t
  BY <1>1, InOrderIs
<1> HIDE DEF s, q, w, S, m, k
<1>9. ASSUME NEW n \in 1 .. m + k PROVE (s \o q)[n] = w[n]
  <2>1. (s \o q)[n] = IF n <= m THEN s[n] ELSE q[n - m]
    BY <1>1, <1>4, <1>5, ConcatProperties
  <2>2. CASE n <= m
    <3>1. n \in 1 .. m
      BY <1>1, <2>2
    <3> QED
      BY <1>2, <1>6, <1>8, <2>1, <2>2, <3>1 DEF S
  <2>3. CASE n > m
    <3>1. n - m \in 1 .. k /\ m + (n - m) = n /\ ~ (n <= m)
      BY <1>1, <2>3
    <3>2. q[n - m] \in B /\ Rank(S, q[n - m]) = n
      BY <1>3, <1>7, <3>1
    <3> QED
      BY <1>8, <2>1, <3>1, <3>2 DEF S
  <2>4. n \in Int /\ m \in Int
    BY <1>1
  <2>5. n <= m \/ n > m
    BY <2>4
  <2> QED
    BY <2>2, <2>3, <2>5
<1>10. s \o q \in Seq(S) /\ Len(s \o q) = m + k
  BY <1>4, <1>5, ConcatProperties
<1>11. s \o q = w
  BY <1>4, <1>9, <1>10, SeqEqual
<1> QED
  BY <1>11 DEF s, q, w, S

\* One call, and none.
LEMMA InOrderSmall ==
  ASSUME NEW t \in Nat
  PROVE  InOrder({t}) = <<t>> /\ InOrder({}) = <<>>
<1>1. /\ IsFiniteSet({t}) /\ Cardinality({t}) = 1
      /\ IsFiniteSet({}) /\ Cardinality({}) = 0
  BY FS_Singleton, FS_EmptySet
<1>2. InOrder({t}) \in Seq({t}) /\ Len(InOrder({t})) = 1 /\ InOrder({t})[1] \in {t}
  <2>1. {t} \in SUBSET Nat /\ 1 \in 1 .. 1
    OBVIOUS
  <2>2. /\ InOrder({t}) \in Seq({t}) /\ Len(InOrder({t})) = 1
        /\ \A n \in 1 .. 1 : InOrder({t})[n] \in {t}
    BY <1>1, <2>1, InOrderIs
  <2> QED
    BY <2>1, <2>2
<1>3. InOrder({}) \in Seq({}) /\ Len(InOrder({})) = 0
  <2>1. {} \in SUBSET Nat
    OBVIOUS
  <2> QED
    BY <1>1, <2>1, InOrderIs
<1> QED
  BY <1>2, <1>3

--------------------------------------------------------------------------------

\* Inside a batch there is a call to run.
TypeInv == TypeOK /\ (loop # "batch" => first \in Tools)

\* The next batch begins behind this one, at the latest behind the last call.
LEMMA NextFirst ==
  ASSUME first \in Tools
  PROVE  /\ first + Cardinality(Batch) \in 1 .. N + 1
         /\ Batch = first .. first + Cardinality(Batch) - 1
<1> DEFINE c == Cardinality(Batch)
<1>1. Batch = first .. first + c - 1 /\ Batch \subseteq Tools
  BY BatchIsInterval, BatchOfTools
<1>2. first \in Nat /\ first >= 1 /\ first <= N /\ N \in Nat
  BY BatchAssumption DEF Tools
<1>3. c \in Nat
  BY <1>2, BatchFinite
<1> HIDE DEF c
<1>4. CASE c = 0
  BY <1>1, <1>2, <1>4 DEF c
<1>5. CASE c # 0
  <2>1. first + c - 1 \in first .. first + c - 1
    BY <1>2, <1>3, <1>5
  <2>2. first + c - 1 \in Tools
    BY <1>1, <2>1
  <2>3. first + c <= N + 1
    BY <1>2, <1>3, <2>2 DEF Tools
  <2> QED
    BY <1>1, <1>2, <1>3, <2>3 DEF c
<1> QED
  BY <1>4, <1>5

\* The modifiers of a set of calls are calls.
LEMMA ModifiersTyped ==
  ASSUME NEW S \in SUBSET Tools
  PROVE  IsFiniteSet(S) /\ S \in SUBSET Nat /\ InOrder(S) \in Seq(Tools)
<1>1. IsFiniteSet(Tools) /\ Tools \subseteq Nat
  BY FS_Interval, BatchAssumption DEF Tools
<1>2. IsFiniteSet(S) /\ S \in SUBSET Nat
  BY <1>1, FS_Subset
<1>3. InOrder(S) \in Seq(S)
  BY <1>2, InOrderIs
<1> QED
  BY <1>2, <1>3, SeqMonotonic

\* Every step keeps the types.
LEMMA StepTypes == TypeInv /\ [Next]_vars => TypeInv'
<1> SUFFICES ASSUME TypeInv, [Next]_vars PROVE TypeInv'
  OBVIOUS
<1> USE DEF TypeInv, TypeOK
<1>1. CASE StartBatch
  <2>1. first \in Tools
    BY <1>1, BatchAssumption DEF StartBatch, Tools
  <2> QED
    BY <1>1, <2>1 DEF StartBatch
<1>2. CASE Fill
  BY <1>2 DEF Fill
<1>3. CASE Filled
  BY <1>3 DEF Filled
<1>4. CASE ConsumerBack
  BY <1>4 DEF ConsumerBack
<1>5. CASE EndBatch
  <2>1. /\ UNCHANGED <<kind, modifies, tool, answers>> /\ queued' = {} /\ loop' = "batch"
        /\ first' = first + Cardinality(Batch) /\ context' = context \o InOrder(queued)
        /\ first \in Tools
    BY <1>5 DEF EndBatch
  <2>2. first' \in 1 .. N + 1
    BY <2>1, NextFirst
  <2>3. InOrder(queued) \in Seq(Tools)
    BY ModifiersTyped
  <2>4. context' \in Seq(Tools)
    BY <2>1, <2>3, ConcatProperties
  <2> QED
    BY <2>1, <2>2, <2>4
<1>6. ASSUME NEW t \in Tools, Take(t) PROVE TypeInv'
  <2>1. Append(context, t) \in Seq(Tools)
    BY AppendProperties
  <2>2. answers[t] \in Nat
    OBVIOUS
  <2>3. answers' \in [Tools -> Nat]
    BY <1>6, <2>2 DEF Take
  <2>4. context' \in Seq(Tools) /\ queued' \subseteq Tools
    BY <1>6, <2>1 DEF Take
  <2>5. tool' \in [Tools -> {"waiting", "running", "progress", "result", "held", "end",
                             "finished"}]
    BY <1>6 DEF Take
  <2>6. loop' = "given" /\ first' = first /\ kind' = kind /\ modifies' = modifies
        /\ first \in Tools
    BY <1>6 DEF Take
  <2> QED
    BY <2>3, <2>4, <2>5, <2>6
<1>7. ASSUME NEW t \in Tools, TakeEnd(t) PROVE TypeInv'
  BY <1>7 DEF TakeEnd
<1>8. ASSUME NEW t \in Tools, NEW what \in {"progress", "result", "end"}, Reports(t, what)
      PROVE  TypeInv'
  BY <1>8 DEF Reports
<1>9. CASE UNCHANGED vars
  BY <1>9 DEF vars
<1> QED
  BY <1>1, <1>2, <1>3, <1>4, <1>5, <1>6, <1>7, <1>8, <1>9 DEF Next, RunTools

\* The variables have their types, whatever the cap.
LEMMA TypesKept == Spec => []TypeInv
<1>1. Init => TypeInv
  <2> SUFFICES ASSUME Init PROVE TypeInv
    OBVIOUS
  <2>1. <<>> \in Seq(Tools)
    BY EmptySeq
  <2> QED
    BY <2>1, BatchAssumption DEF Init, TypeInv, TypeOK
<1> QED
  BY <1>1, StepTypes, PTL DEF Spec

\* Every variable of runTools() has its type, for any calls and any cap.
THEOREM TypeCorrect == Spec => []TypeOK
<1>1. TypeInv => TypeOK
  BY DEF TypeInv
<1> QED
  BY <1>1, TypesKept, PTL

--------------------------------------------------------------------------------

\* The generator of a call gives its result once, between its start and its end.
Answered ==
  /\ answers \in [Tools -> {0, 1}]
  /\ \A t \in Tools : /\ tool[t] \in {"waiting", "result"} => answers[t] = 0
                      /\ tool[t] \in {"end", "finished"} => answers[t] = 1

\* Calls with a modifier: those before the batch, and those of the batch that have answered.
Before == {t \in modifies : t < first}
Done   == {t \in Batch : t \in modifies /\ answers[t] = 1}

\* What has been applied, and what is put aside.
Applied ==
  /\ modifies \subseteq Tools
  /\ loop = "batch" => context = InOrder(Before)
  /\ loop # "batch" /\ Concurrent => context = InOrder(Before) /\ queued = Done
  /\ loop # "batch" /\ ~ Concurrent => context = InOrder(Before \cup Done) /\ queued = {}

\* Every step keeps the answers.
LEMMA StepAnswered == IInv /\ Answered /\ [Next]_vars => Answered'
<1> SUFFICES ASSUME IInv, Answered, [Next]_vars PROVE Answered'
  OBVIOUS
<1> USE DEF IInv, Types, Answered
<1>1. CASE StartBatch \/ Filled \/ EndBatch \/ UNCHANGED vars
  BY <1>1 DEF StartBatch, Filled, EndBatch, vars
<1>2. CASE Fill
  <2>1. PICK t \in Waiting : tool' = [tool EXCEPT ![t] = "running"]
    BY <1>2 DEF Fill
  <2> QED
    BY <1>2, <2>1 DEF Fill
<1>3. CASE ConsumerBack
  BY <1>3 DEF ConsumerBack
<1>4. ASSUME NEW t \in Tools, Take(t) PROVE Answered'
  <2>1. /\ tool[t] \in {"progress", "result"} /\ tool'[t] \in {"running", "held"}
        /\ answers'[t] = IF tool[t] = "result" THEN answers[t] + 1 ELSE answers[t]
        /\ \A u \in Tools \ {t} : tool'[u] = tool[u] /\ answers'[u] = answers[u]
        /\ answers' = [u \in Tools |-> answers'[u]]
    BY <1>4 DEF Take
  <2>2. answers'[t] \in {0, 1}
    BY <2>1
  <2>3. \A u \in Tools : answers'[u] \in {0, 1}
    BY <2>1, <2>2
  <2> QED
    BY <2>1, <2>3
<1>5. ASSUME NEW t \in Tools, TakeEnd(t) PROVE Answered'
  BY <1>5 DEF TakeEnd
<1>6. ASSUME NEW t \in Tools, NEW what \in {"progress", "result", "end"}, Reports(t, what)
      PROVE  Answered'
  BY <1>6 DEF Reports
<1> QED
  BY <1>1, <1>2, <1>3, <1>4, <1>5, <1>6 DEF Next, RunTools

\* A step inside a batch that gives no result keeps what is applied.
LEMMA WithinContext ==
  ASSUME Applied, loop # "batch", loop' # "batch",
         UNCHANGED <<kind, modifies, first, answers, queued, context>>
  PROVE  Applied'
<1>1. Batch' = Batch /\ Concurrent' = Concurrent /\ Before' = Before
  BY DEF Batch, Concurrent, Before
<1>2. Done' = Done
  BY <1>1 DEF Done
<1> QED
  BY <1>1, <1>2 DEF Applied

\* Every step keeps what is applied in order.
LEMMA StepApplied ==
  ASSUME TypeInv, IInv, Order, Answered, Applied, [Next]_vars
  PROVE  Applied'
<1>1. CASE StartBatch
  <2>1. /\ UNCHANGED <<kind, modifies, first, answers, context>> /\ queued' = {}
        /\ loop = "batch" /\ loop' = "fill" /\ first \in Tools
    BY <1>1, BatchAssumption DEF StartBatch, TypeInv, TypeOK, Tools
  <2>2. Batch' = Batch /\ Concurrent' = Concurrent /\ Before' = Before
    BY <2>1 DEF Batch, Concurrent, Before
  <2>3. \A t \in Batch : t \in Tools /\ t >= first
    BY <2>1, BatchOfTools, BatchAssumption DEF Batch, Tools
  <2>4. \A t \in Batch : answers[t] = 0
    BY <2>1, <2>3 DEF Order, Answered
  <2>5. Done' = {}
    BY <2>1, <2>2, <2>4 DEF Done
  <2>6. Before \cup {} = Before
    OBVIOUS
  <2> QED
    BY <2>1, <2>2, <2>5, <2>6 DEF Applied
<1>2. CASE Fill \/ Filled \/ ConsumerBack
  BY <1>2, WithinContext DEF Fill, Filled, ConsumerBack
<1>3. CASE EndBatch
  <2> DEFINE c == Cardinality(Batch)
  <2>1. /\ modifies' = modifies /\ first' = first + c /\ loop = "apply" /\ loop' = "batch"
        /\ context' = context \o InOrder(queued) /\ first \in Tools
        /\ modifies \subseteq Tools
    BY <1>3 DEF EndBatch, Order, Applied
  <2>2. Batch = first .. first + c - 1 /\ c \in Nat
    BY <2>1, NextFirst, BatchFinite, BatchAssumption DEF Tools
  <2>3. \A t \in Batch : answers[t] = 1
    <3>1. \A t \in Batch : tool[t] = "finished" /\ t \in Tools
      BY <2>1, BatchOfTools DEF Order
    <3> QED
      BY <3>1 DEF Answered
  <2> HIDE DEF c
  <2>4. ASSUME NEW t \in Tools PROVE t < first' <=> t < first \/ t \in Batch
    BY <2>1, <2>2, BatchAssumption DEF Tools
  <2>5. Before' = Before \cup Done
    BY <2>1, <2>3, <2>4 DEF Before, Done
  <2>6. Before \subseteq Tools /\ Done \subseteq Tools
    BY <2>1 DEF Before, Done
  <2>7. \A s \in Before, t \in Done : s < t
    BY <2>1, <2>2, <2>6, BatchAssumption DEF Before, Done, Tools
  <2>8. /\ Before \in SUBSET Nat /\ IsFiniteSet(Before)
        /\ Done \in SUBSET Nat /\ IsFiniteSet(Done)
        /\ InOrder(Before \cup Done) \in Seq(Tools)
    BY <2>6, ModifiersTyped
  <2>9. CASE Concurrent
    <3>1. context' = InOrder(Before) \o InOrder(Done)
      BY <2>1, <2>9 DEF Applied
    <3>2. InOrder(Before) \o InOrder(Done) = InOrder(Before \cup Done)
      BY <2>7, <2>8, InOrderOfTwo
    <3> QED
      BY <2>1, <2>5, <3>1, <3>2 DEF Applied
  <2>10. CASE ~ Concurrent
    <3>1. context' = InOrder(Before \cup Done) \o InOrder({})
      BY <2>1, <2>10 DEF Applied
    <3>2. InOrder({}) = <<>>
      BY InOrderSmall
    <3>3. context' = InOrder(Before \cup Done)
      BY <2>8, <3>1, <3>2, ConcatEmptySeq
    <3> QED
      BY <2>1, <2>5, <3>3 DEF Applied
  <2> QED
    BY <2>9, <2>10
<1>4. ASSUME NEW t \in Tools, Take(t) PROVE Applied'
  <2>1. /\ UNCHANGED <<kind, modifies, first>> /\ loop = "race" /\ loop' = "given"
        /\ tool[t] \in {"progress", "result"} /\ t \in Batch /\ first \in Tools
        /\ modifies \subseteq Tools
    BY <1>4 DEF Take, IInv, InBatch, Active, Order, Applied
  <2>2. Batch' = Batch /\ Concurrent' = Concurrent /\ Before' = Before
    BY <2>1 DEF Batch, Concurrent, Before
  <2>3. CASE tool[t] = "progress" \/ t \notin modifies
    <3>1. \A u \in modifies : answers'[u] = answers[u]
      BY <1>4, <2>1, <2>3 DEF Take, Answered
    <3>2. Done' = Done
      BY <2>1, <2>2, <3>1 DEF Done
    <3>3. UNCHANGED <<queued, context>>
      BY <1>4, <2>3 DEF Take
    <3> QED
      BY <2>1, <2>2, <3>2, <3>3 DEF Applied
  <2>4. CASE tool[t] = "result" /\ t \in modifies
    <3>1. /\ answers[t] = 0 /\ answers'[t] = 1
          /\ \A u \in Tools \ {t} : answers'[u] = answers[u]
      BY <1>4, <2>4 DEF Take, Answered
    <3>2. Done' = Done \cup {t}
      BY <2>1, <2>2, <2>4, <3>1 DEF Done
    <3>3. CASE Concurrent
      <4>1. queued' = queued \cup {t} /\ context' = context
        BY <1>4, <2>4, <3>3 DEF Take
      <4> QED
        BY <2>1, <2>2, <3>2, <3>3, <4>1 DEF Applied
    <3>4. CASE ~ Concurrent
      <4>1. queued' = queued /\ context' = Append(context, t)
        BY <1>4, <2>4, <3>4 DEF Take
      <4>2. Batch = {t} /\ t = first
        BY <2>1, <3>4 DEF Batch
      <4>3. Done = {} /\ Done' = {t}
        BY <3>1, <3>2, <4>2 DEF Done
      <4>4. context = InOrder(Before)
        <5>1. Before \cup {} = Before
          OBVIOUS
        <5> QED
          BY <2>1, <3>4, <4>3, <5>1 DEF Applied
      <4>5. /\ Before \in SUBSET Nat /\ IsFiniteSet(Before) /\ InOrder(Before) \in Seq(Tools)
            /\ {t} \in SUBSET Nat /\ IsFiniteSet({t}) /\ InOrder({t}) = <<t>>
            /\ \A s \in Before, u \in {t} : s < u
        <5>1. Before \in SUBSET Tools /\ {t} \in SUBSET Tools /\ t \in Nat
          <6>1. t \in Tools /\ Before \subseteq modifies
            BY <2>1, BatchOfTools DEF Before
          <6>2. t \in Nat
            BY <6>1, BatchAssumption DEF Tools
          <6> QED
            BY <2>1, <6>1, <6>2
        <5>2. \A s \in Before : s < t
          BY <4>2 DEF Before
        <5> QED
          BY <5>1, <5>2, ModifiersTyped, InOrderSmall
      <4>6. InOrder(Before) \o InOrder({t}) = InOrder(Before \cup {t})
        BY <4>5, InOrderOfTwo
      <4>7. Append(InOrder(Before), t) = InOrder(Before) \o <<t>>
        BY <4>5, AppendIsConcat
      <4>8. context' = InOrder(Before \cup {t})
        BY <4>1, <4>4, <4>5, <4>6, <4>7
      <4> QED
        BY <2>1, <2>2, <3>4, <4>1, <4>3, <4>8 DEF Applied
    <3> QED
      BY <3>3, <3>4
  <2> QED
    BY <2>1, <2>3, <2>4
<1>5. ASSUME NEW t \in Tools, TakeEnd(t) PROVE Applied'
  BY <1>5, WithinContext DEF TakeEnd
<1>6. ASSUME NEW t \in Tools, NEW what \in {"progress", "result", "end"}, Reports(t, what)
      PROVE  Applied'
  <2>1. loop # "batch"
    BY <1>6 DEF Reports, IInv, Idle, Active
  <2> QED
    BY <1>6, <2>1, WithinContext DEF Reports
<1>7. CASE UNCHANGED vars
  <2>1. UNCHANGED <<kind, modifies, first, answers, queued, context, loop>>
    BY <1>7 DEF vars
  <2>2. Batch' = Batch /\ Concurrent' = Concurrent /\ Before' = Before
    BY <2>1 DEF Batch, Concurrent, Before
  <2>3. Done' = Done
    BY <2>1, <2>2 DEF Done
  <2> QED
    BY <2>1, <2>2, <2>3 DEF Applied
<1> QED
  BY <1>1, <1>2, <1>3, <1>4, <1>5, <1>6, <1>7 DEF Next, RunTools

\* With a cap that is positive, what is known of the order, the answers and the context.
LEMMA ContextKept ==
  ASSUME Cap > 0
  PROVE  Spec => [](TypeInv /\ IInv /\ Order /\ Answered /\ Applied)
<1>1. Init => Order /\ Answered
  BY BatchAssumption DEF Init, Order, Answered, Tools
<1>2. Init => Applied
  <2> SUFFICES ASSUME Init PROVE Applied
    OBVIOUS
  <2>1. /\ context = <<>> /\ loop = "batch" /\ modifies \subseteq Tools
        /\ \A t \in modifies : ~ (t < first)
    BY BatchAssumption DEF Init, Tools
  <2>2. Before = {}
    BY <2>1 DEF Before
  <2>3. InOrder({}) = <<>>
    BY InOrderSmall
  <2> QED
    BY <2>1, <2>2, <2>3 DEF Applied
<1>3. IInv /\ Order /\ [Next]_vars => Order'
  BY StepOrder
<1>4. TypeInv /\ IInv /\ Order /\ Answered /\ Applied /\ [Next]_vars => Applied'
  BY StepApplied
<1> QED
  BY <1>1, <1>2, <1>3, <1>4, InitIInv, StepIInv, StepAnswered, TypesKept, PTL DEF Spec

\* With a cap that is positive, however the calls of a batch overlap and end: each runs
\* in the context that the batches before its own left, and the modifiers of a batch
\* are applied in the order of its calls (runTools(), toolOrchestration.ts).
THEOREM ContextsInOrder == ASSUME Cap > 0 PROVE Spec => []ContextInOrder
<1>1. IInv /\ Applied => ContextInOrder
  <2> SUFFICES ASSUME IInv, Applied PROVE ContextInOrder
    OBVIOUS
  <2>1. ASSUME NEW t \in Active, answers[t] = 0 PROVE context = InOrder(Before)
    <3>1. loop # "batch" /\ t \in Batch
      BY DEF IInv, Idle, InBatch
    <3>2. CASE Concurrent
      BY <3>1, <3>2 DEF Applied
    <3>3. CASE ~ Concurrent
      <4>1. Done = {}
        BY <2>1, <3>1, <3>3 DEF Done, Batch
      <4>2. Before \cup {} = Before
        OBVIOUS
      <4> QED
        BY <3>1, <3>3, <4>1, <4>2 DEF Applied
    <3> QED
      BY <3>2, <3>3
  <2> QED
    BY <2>1 DEF ContextInOrder, Applied, Before
<1> QED
  BY <1>1, ContextKept, PTL

\* With a cap that is positive, every call has one result for the model once its batch
\* is over, and never a second one.
THEOREM EachAnsweredOnce == ASSUME Cap > 0 PROVE Spec => []AnsweredOnce
<1>1. TypeInv /\ Order /\ Answered => AnsweredOnce
  <2> SUFFICES ASSUME TypeInv, Order, Answered PROVE AnsweredOnce
    OBVIOUS
  <2>1. \A t \in Tools : answers[t] <= 1
    BY DEF Answered
  <2>2. ASSUME NEW t \in 1 .. first - 1 PROVE answers[t] = 1
    <3>1. t \in Tools /\ t < first
      BY BatchAssumption DEF TypeInv, TypeOK, Tools
    <3> QED
      BY <3>1 DEF Order, Answered
  <2> QED
    BY <2>1, <2>2 DEF AnsweredOnce
<1> QED
  BY <1>1, ContextKept, PTL
================================================================================
