--------------------------- MODULE TaskListProofs ---------------------------
(* Proofs about TaskList: its types, that an id names one task unless the   *)
(* operations on the mark overlapped, and that no two workers of a team     *)
(* with one lead are told they have claimed the same task.                  *)
EXTENDS TaskList, FiniteSetTheorems, TLAPS

----------------------------------------------------------------------------
(* The types: an update is the same record for workers and leads, but for   *)
(* its kinds.                                                               *)

Todo == [id : Ids, blockers : SUBSET Ids]

UpdateOp(kinds) ==
  [do : kinds, at : {"lock", "check", "read", "write", "fill"}, id : Ids,
   blockers : SUBSET Ids, todo : SUBSET Todo, copy : Task \cup {None}]

WorkerKinds == {"claim", "start", "finish", "release"}

LeadKinds == {"unassign", "block", "unblock"}

CreateOp == [do : {"create"}, at : {"scan"}, todo : SUBSET {"names", "mark"}, high : Nat]
            \cup [do : {"create"}, at : {"fill"}, id : Ids]

DeleteOp == [do : {"delete"}, at : {"mark", "unlink"}, id : Ids]

ResetOp == [do : {"reset"}, at : {"reset", "mark", "clear"}]

WorkerOp == UpdateOp(WorkerKinds) \cup {Idle}

LeadOp == UpdateOp(LeadKinds) \cup CreateOp \cup DeleteOp \cup {Idle}

DisplayOp == ResetOp \cup {Idle}

Updates(a) == op[a].do \in WorkerKinds \cup LeadKinds

FileTypes ==
  /\ file \in [Ids -> Task \cup {None}]
  /\ mark \in Nat
  /\ taskLock \in [Ids -> Actors \cup {None}]
  /\ dead \subseteq Workers
  /\ holds \in [Workers -> Ids \cup {None}]
  /\ used \subseteq Ids

OpTypes ==
  /\ op \in [Actors -> WorkerOp \cup LeadOp \cup DisplayOp]
  /\ \A w \in Workers : op[w] \in WorkerOp
  /\ \A l \in Leads : op[l] \in LeadOp
  /\ \A d \in Display : op[d] \in DisplayOp
  /\ \A a \in Actors : op[a].at = "write" => op[a].copy \in Task

Types == FileTypes /\ OpTypes

----------------------------------------------------------------------------
\* Lemmas about the operators of TaskList.

\* Set(a, o) gives a the operation o and leaves the others theirs.
LEMMA SetMeans ==
  ASSUME OpTypes, NEW a \in Actors, NEW o, Set(a, o)
  PROVE  op'[a] = o /\ \A b \in Actors \ {a} : op'[b] = op[b]
BY DEF OpTypes, Set

\* None is no actor, no id and no task, and no actor has two roles.
LEMMA Distinct ==
  /\ Workers \cap Leads = {} /\ Workers \cap Display = {} /\ Leads \cap Display = {}
  /\ None \notin Actors /\ None \notin Ids /\ None # NewTask
<1>1. NewTask \in Task
  BY DEF NewTask, Task, Status
<1> QED BY <1>1, ActorsAssumption, NoFileAssumption DEF Ids

\* The step an operation is at tells its kind and whose it is.
LEMMA UpdateTypes ==
  ASSUME OpTypes, NEW a \in Actors
  PROVE  /\ op[a].at \in {"lock", "check", "read", "write"} \/ Updates(a) =>
            /\ op[a] \in UpdateOp(WorkerKinds \cup LeadKinds)
            /\ a \in Workers => op[a] \in UpdateOp(WorkerKinds)
            /\ a \in Leads => op[a] \in UpdateOp(LeadKinds)
            /\ a \in Workers \cup Leads
            /\ Updates(a)
            /\ op[a] # Idle
         /\ op[a].at = "scan" =>
              op[a] \in [do : {"create"}, at : {"scan"}, todo : SUBSET {"names", "mark"},
                high : Nat] /\ a \in Leads
         /\ op[a].at = "fill" /\ op[a].do = "create" => a \in Leads /\ op[a].id \in Ids
         /\ op[a].at = "fill" /\ op[a].do # "create" => Updates(a)
         /\ (op[a].at = "mark" /\ op[a].do = "delete") \/ op[a].at = "unlink" =>
              op[a] \in DeleteOp /\ a \in Leads
         /\ op[a].at \in {"reset", "clear"} \/ op[a].do = "reset" =>
              op[a] \in ResetOp /\ a \in Display
  BY DEF OpTypes, WorkerOp, LeadOp, DisplayOp, UpdateOp, WorkerKinds, LeadKinds, Idle, Actors,
     Updates, CreateOp, DeleteOp, ResetOp

\* What updateTaskUnsafe writes is a task.
LEMMA UpdatedTypes ==
  ASSUME OpTypes, NEW a \in Actors, op[a] \in UpdateOp(WorkerKinds \cup LeadKinds), Updates(a),
         op[a].copy \in Task
  PROVE  Updated(a, op[a]) \in Task
<1>1. AgentId[a] \in {AgentId[w] : w \in Workers} \/ op[a].do # "claim"
  BY UpdateTypes DEF LeadKinds, UpdateOp
<1> QED
  BY <1>1 DEF Updated, Task, UpdateOp, Status, WorkerKinds, LeadKinds

\* The update that follows another is of its kind and waits for its lock.
LEMMA FollowingTypes ==
  ASSUME NEW kinds, NEW o \in UpdateOp(kinds), NEW n \in {Idle} \cup Following(o)
  PROVE  n \in UpdateOp(kinds) \cup {Idle} /\ n.at \in {"lock", "idle"}
  BY DEF Following, Update, UpdateOp, Todo, Idle

\* An operation that fits its actor keeps the operations typed.
LEMMA SetTypes ==
  ASSUME OpTypes, NEW a \in Actors, NEW o, Set(a, o), o.at = "write" => o.copy \in Task,
     \/ a \in Workers /\ o \in WorkerOp
     \/ a \in Leads /\ o \in LeadOp
     \/ a \in Display /\ o \in DisplayOp
  PROVE OpTypes'
BY ActorsAssumption DEF OpTypes, Set, Actors

\* As SetTypes, for an update that becomes another of the same kind.
LEMMA SetUpdateTypes ==
  ASSUME OpTypes, NEW a \in Actors, NEW o, Set(a, o), Updates(a),
         o.at = "write" => o.copy \in Task,
         \A kinds : op[a] \in UpdateOp(kinds) => o \in UpdateOp(kinds) \cup {Idle}
  PROVE OpTypes'
BY SetTypes, UpdateTypes DEF WorkerOp, LeadOp, Actors

----------------------------------------------------------------------------
(* The highest of a bounded set of ids. That a set of naturals has a least  *)
(* element comes from the well-foundedness of the strict subset order,      *)
(* since the induction theorems of the library take an operator as a        *)
(* parameter.                                                               *)

\* A set of naturals that is not empty has a least element.
LEMMA LeastNat ==
  ASSUME NEW S, S \subseteq Nat, S # {}
  PROVE  \E n \in S : \A m \in S : n <= m
<1> DEFINE T == {0..n : n \in S}
<1>1. T \subseteq FiniteSubsetsOf(Nat) /\ T # {}
  <2>1. \A n \in S : IsFiniteSet(0..n) /\ 0..n \subseteq Nat
    BY FS_Interval
  <2>2. \A n \in S : 0..n \in FiniteSubsetsOf(Nat)
    BY <2>1 DEF FiniteSubsetsOf
  <2> QED BY <2>2
<1>2. PICK x \in T : \A y \in T : ~ (<<y, x>> \in StrictSubsetOrdering(Nat))
  <2> HIDE DEF T
  <2> QED BY <1>1, FS_StrictSubsetOrderingWellFounded, WFMin
<1>3. PICK n \in S : x = 0..n
  OBVIOUS
<1>4. ASSUME NEW m \in S, m < n PROVE FALSE
  <2>1. 0..m \subseteq x /\ 0..m # x /\ x \subseteq Nat
    BY <1>3, <1>4
  <2> DEFINE y == 0..m
  <2>2. y \in T /\ y \subseteq x /\ y # x /\ x \subseteq Nat
    BY <2>1
  <2> HIDE DEF y, T
  <2>3. <<y, x>> \in StrictSubsetOrdering(Nat)
    BY <2>2 DEF StrictSubsetOrdering
  <2> QED BY <1>2, <2>2, <2>3
<1> QED BY <1>4

\* HighestOf is zero or a member of the set, and no member exceeds it.
LEMMA HighestOfBounded ==
  ASSUME NEW S, NEW m \in Nat, S \subseteq 0..m
  PROVE  /\ HighestOf(S) \in Nat
         /\ HighestOf(S) \in S \cup {0}
         /\ \A n \in S : n <= HighestOf(S)
<1> DEFINE T == S \cup {0}
           bounds == {n \in Nat : \A k \in T : k <= n}
<1>1. PICK n \in bounds : \A k \in bounds : n <= k
  <2>1. m \in bounds
    OBVIOUS
  <2> QED BY <2>1, LeastNat
<1>2. n \in T
  <2> SUFFICES ASSUME n \notin T PROVE FALSE
    OBVIOUS
  <2>1. n \in Nat /\ n # 0 /\ \A k \in T : k \in Nat /\ k < n
    OBVIOUS
  <2>2. n - 1 \in bounds
    BY <2>1
  <2> QED BY <1>1, <2>1, <2>2
<1>3. HighestOf(S) \in T /\ \A k \in T : HighestOf(S) >= k
  BY <1>1, <1>2 DEF HighestOf, Max
<1>4. T \subseteq Nat
  OBVIOUS
<1> QED BY <1>3, <1>4

\* Math.max over the ids on disk.
LEMMA HighestOfIds ==
  ASSUME NEW S, S \subseteq Ids
  PROVE  HighestOf(S) \in Nat /\ \A n \in S : n <= HighestOf(S)
<1>1. S \subseteq 0..MaxId /\ MaxId \in Nat
  BY ActorsAssumption DEF Ids
<1> QED BY <1>1, HighestOfBounded

\* Math.max of two numbers.
LEMMA HighestOfTwo ==
  ASSUME NEW m \in Nat, NEW n \in Nat
  PROVE  HighestOf({m, n}) \in Nat /\ HighestOf({m, n}) >= m /\ HighestOf({m, n}) >= n
<1> DEFINE top == IF m < n THEN n ELSE m
<1>1. {m, n} \subseteq 0..top /\ top \in Nat
  OBVIOUS
<1> HIDE DEF top
<1> QED BY <1>1, HighestOfBounded

\* Math.max of the mark and the ids on disk.
LEMMA HighestOfMarked ==
  ASSUME NEW m \in Nat, NEW S, S \subseteq Ids
  PROVE  /\ HighestOf({m} \cup S) \in Nat
         /\ HighestOf({m} \cup S) >= m /\ \A n \in S : n <= HighestOf({m} \cup S)
<1> DEFINE top == IF m < MaxId THEN MaxId ELSE m
<1>1. top \in Nat /\ m <= top /\ MaxId <= top /\ MaxId \in Nat
  BY ActorsAssumption
<1> HIDE DEF top
<1>2. {m} \cup S \subseteq 0..top
  BY <1>1 DEF Ids
<1> QED BY <1>1, <1>2, HighestOfBounded

----------------------------------------------------------------------------
\* Type correctness.

\* Every step keeps the types.
LEMMA TypesStep ==
  ASSUME Types, [Next]_vars
  PROVE Types'
<1> USE ActorsAssumption DEF Types, FileTypes, Actors
<1>1. ASSUME NEW a \in Workers \cup Leads, Lock(a) PROVE Types'
  <2>1. op[a] \in UpdateOp(WorkerKinds \cup LeadKinds) /\ Updates(a)
    BY <1>1, UpdateTypes DEF Lock
  <2>2. FileTypes'
    BY <1>1, <2>1 DEF UpdateOp, Lock, Fail
  <2>3. CASE Goto(a, IF op[a].do = "claim" THEN "check" ELSE "read")
    <3> DEFINE at == IF op[a].do = "claim" THEN "check" ELSE "read"
               o == [op[a] EXCEPT !.at = at]
    <3>1. at \in {"check", "read"}
      OBVIOUS
    <3>2. Set(a, o)
      BY <2>3 DEF Goto, Set
    <3> HIDE DEF at
    <3>3. o.at # "write" /\ \A kinds : op[a] \in UpdateOp(kinds) => o \in UpdateOp(kinds)
      BY <2>1, <3>1 DEF UpdateOp
    <3> HIDE DEF o
    <3> QED
      BY <2>1, <2>2, <3>2, <3>3, SetUpdateTypes
  <2>4. CASE Fail(a)
    <3>1. PICK o \in {Idle} \cup Following(op[a]) : Set(a, o)
      BY <2>4 DEF Fail, Set
    <3> QED
      BY <2>1, <2>2, <3>1, FollowingTypes, SetUpdateTypes
  <2> QED BY <1>1, <2>3, <2>4 DEF Lock
<1>2. ASSUME NEW a \in Workers \cup Leads, Read(a) PROVE Types'
  <2>1. op[a] \in UpdateOp(WorkerKinds \cup LeadKinds) /\ Updates(a)
    BY <1>2, UpdateTypes DEF Read
  <2>2. op[a].do = "claim" => a \in Workers
    BY <2>1, UpdateTypes DEF LeadKinds, UpdateOp
  <2>3. FileTypes'
    BY <1>2, <2>1, <2>2 DEF UpdateOp, Read, Unlock, Fail
  <2>4. PICK o : Set(a, o) /\ (o.at = "write" => o.copy \in Task)
                 /\ \A kinds : op[a] \in UpdateOp(kinds) /\ (op[a].do = "claim" => kinds = WorkerKinds)
                                 => o \in UpdateOp(kinds) \cup {Idle}
    <3>1. CASE Readable(op[a].id)
      <4> DEFINE o == [op[a] EXCEPT !.at = "write", !.copy = file[op[a].id]]
      <4>1. Set(a, o)
        BY <1>2, <3>1 DEF Read, Set
      <4>2. file[op[a].id] \in Task
        BY <2>1, <3>1 DEF Readable, Exists, UpdateOp
      <4>3. o.at = "write" /\ o.copy \in Task /\ \A kinds : op[a] \in UpdateOp(kinds) =>
              o \in UpdateOp(kinds)
        BY <2>1, <4>2 DEF UpdateOp
      <4> QED BY <4>1, <4>3
    <3>2. CASE ~ Readable(op[a].id) /\ op[a].do = "claim"
      <4>1. PICK o \in AfterClaim(op[a].id) : Set(a, o)
        BY <1>2, <3>2 DEF Read
      <4>2. o \in UpdateOp(WorkerKinds) /\ o.at = "lock"
        BY <2>1, <4>1 DEF AfterClaim, Update, UpdateOp, WorkerKinds
      <4> QED BY <3>2, <4>1, <4>2
    <3>3. CASE ~ Readable(op[a].id) /\ op[a].do # "claim"
      <4>1. PICK o \in {Idle} \cup Following(op[a]) : Set(a, o)
        BY <1>2, <3>3 DEF Read, Fail, Set
      <4> QED
        BY <2>1, <4>1, FollowingTypes
    <3> QED BY <3>1, <3>2, <3>3
  <2> QED
   BY <2>1, <2>2, <2>3, <2>4, SetTypes, UpdateTypes DEF WorkerOp, LeadOp
<1>3. ASSUME NEW a \in Workers \cup Leads, Write(a) PROVE Types'
  <2>1. op[a] \in UpdateOp(WorkerKinds \cup LeadKinds) /\ Updates(a) /\ op[a].copy \in Task
    BY <1>3, UpdateTypes DEF Write, OpTypes
  <2>2. Updated(a, op[a]) \in Task
    BY <2>1, UpdatedTypes
  <2>3. FileTypes'
    BY <1>3, <2>1, <2>2 DEF UpdateOp, Write, Task
  <2> DEFINE o == [op[a] EXCEPT !.at = "fill"]
  <2>4. Set(a, o) /\ o.at = "fill" /\ \A kinds : op[a] \in UpdateOp(kinds) => o \in UpdateOp(kinds)
    BY <1>3, <2>1 DEF Write, Goto, Set, UpdateOp
  <2> HIDE DEF o
  <2> QED BY <2>1, <2>3, <2>4, SetUpdateTypes
<1>4. ASSUME NEW a \in Workers \cup Leads, Fill(a) PROVE Types'
  <2>1. op[a] \in UpdateOp(WorkerKinds \cup LeadKinds) /\ Updates(a)
    BY <1>4, UpdateTypes DEF Fill
  <2>2. op[a].do \in WorkerKinds => a \in Workers
    BY <2>1, UpdateTypes DEF LeadKinds, UpdateOp, WorkerKinds
  <2>3. Filled(op[a].id) \in Task \cup {None}
    <3>1. ASSUME NEW t \in Task PROVE [t EXCEPT !.whole = TRUE] \in Task
      BY DEF Task
    <3> QED BY <2>1, <3>1 DEF Filled, Exists, UpdateOp
  <2>5. holds' \in [Workers -> Ids \cup {None}]
    BY <1>4, <2>1, <2>2 DEF Fill, UpdateOp, WorkerKinds
  <2>6. FileTypes'
    <3>1. op[a].id \in Ids
      BY <2>1 DEF UpdateOp
    <3>2. file' \in [Ids -> Task \cup {None}]
      BY <1>4, <2>3, <3>1 DEF Fill
    <3>3. taskLock' \in [Ids -> Actors \cup {None}]
      BY <1>4, <3>1 DEF Fill, Unlock
    <3> QED BY <1>4, <2>5, <3>2, <3>3 DEF Fill
  <2>4. PICK o : Set(a, o) /\ o.at # "write"
                 /\ \A kinds : op[a] \in UpdateOp(kinds) /\ (op[a].do = "claim" => kinds = WorkerKinds)
                                 => o \in UpdateOp(kinds) \cup {Idle}
    <3>1. CASE op[a].do = "claim"
      <4>1. PICK o \in AfterClaim(op[a].id) : Set(a, o)
        BY <1>4, <3>1 DEF Fill
      <4>2. o \in UpdateOp(WorkerKinds) /\ o.at = "lock"
        BY <2>1, <4>1 DEF AfterClaim, Update, UpdateOp, WorkerKinds
      <4> QED BY <3>1, <4>1, <4>2
    <3>2. CASE op[a].do # "claim"
      <4>1. PICK o \in Following(op[a]) : Set(a, o)
        BY <1>4, <3>2 DEF Fill, Set
      <4> QED
        BY <2>1, <4>1, FollowingTypes
    <3> QED BY <3>1, <3>2
  <2> QED
   BY <2>1, <2>2, <2>6, <2>4, SetTypes, UpdateTypes DEF WorkerOp, LeadOp, WorkerKinds
<1>5. ASSUME NEW w \in Workers, Look(w) PROVE Types'
  <2>1. PICK i \in Listed : Set(w, Update("claim", i, {}, {}))
    BY <1>5 DEF Look
  <2>2. Update("claim", i, {}, {}) \in WorkerOp /\ Update("claim", i, {}, {}).at = "lock"
    BY DEF Update, WorkerOp, UpdateOp, WorkerKinds, Listed
  <2> QED BY <1>5, <2>1, <2>2, SetTypes DEF Look
<1>6. ASSUME NEW w \in Workers, Check(w) PROVE Types'
  <2>1. op[w] \in UpdateOp(WorkerKinds) /\ Updates(w)
    BY <1>6, UpdateTypes DEF Check
  <2>2. FileTypes'
    BY <1>6, <2>1 DEF UpdateOp, Check, Unlock
  <2>3. PICK o \in {Idle, [op[w] EXCEPT !.at = "read"]} : Set(w, o)
    BY <1>6 DEF Check, Goto, Set
  <2>4. o.at # "write" /\ o \in WorkerOp
    BY <2>1 DEF UpdateOp, WorkerOp, Idle
  <2> QED
    BY <2>2, <2>3, <2>4, SetTypes
<1>7. ASSUME NEW w \in Workers, Finish(w) PROVE Types'
  <2> DEFINE o == Update("finish", holds[w], {}, {})
  <2>1. o \in WorkerOp /\ o.at = "lock" /\ Set(w, o)
    BY <1>7 DEF Update, WorkerOp, UpdateOp, WorkerKinds, Finish
  <2> HIDE DEF o
  <2> QED BY <1>7, <2>1, SetTypes DEF Finish
<1>8. ASSUME NEW w \in Workers, Die(w) PROVE Types'
  <2>1. Idle \in WorkerOp /\ Idle.at # "write" /\ Set(w, Idle)
    BY <1>8 DEF WorkerOp, Idle, Die
  <2>2. OpTypes'
    BY <2>1, SetTypes
  <2> QED
    BY <1>8, <2>2 DEF Die
<1>9. ASSUME NEW l \in Leads, Create(l) PROVE Types'
  <2> DEFINE o == [do |-> "create", at |-> "scan", todo |-> {"names", "mark"}, high |-> 0]
  <2>1. o \in LeadOp /\ o.at = "scan" /\ Set(l, o)
    BY <1>9 DEF LeadOp, CreateOp, Create
  <2> HIDE DEF o
  <2> QED BY <1>9, <2>1, SetTypes DEF Create
<1>10. ASSUME NEW l \in Leads, Scan(l) PROVE Types'
  <2>1. op[l] \in [do : {"create"}, at : {"scan"}, todo : SUBSET {"names", "mark"}, high : Nat]
    BY <1>10, UpdateTypes DEF Scan
  <2>2. PICK what \in op[l].todo, seen \in Nat :
           Set(l, [do |-> "create", at |-> "scan", todo |-> op[l].todo \ {what},
                   high |-> HighestOf({op[l].high, seen})])
    <3>1. HighestOf({i \in Ids : Exists(i)}) \in Nat
      BY HighestOfIds
    <3> QED BY <1>10, <3>1 DEF Scan
  <2> DEFINE o == [do |-> "create", at |-> "scan", todo |-> op[l].todo \ {what},
                   high |-> HighestOf({op[l].high, seen})]
  <2>3. HighestOf({op[l].high, seen}) \in Nat
    BY <2>1, HighestOfTwo
  <2>4. o \in CreateOp /\ o.at # "write"
    BY <2>1, <2>3 DEF CreateOp
  <2>5. o \in LeadOp
    BY <2>4 DEF LeadOp
  <2> QED BY <1>10, <2>2, <2>4, <2>5, SetTypes DEF Scan
<1>11. ASSUME NEW l \in Leads, Number(l) PROVE Types'
  <2>1. op[l].high \in Nat
    BY <1>11, UpdateTypes DEF Number
  <2>2. CASE op[l].high < MaxId
    <3> DEFINE i == op[l].high + 1
               o == [do |-> "create", at |-> "fill", id |-> i]
    <3>1. i \in Ids /\ o \in LeadOp /\ o.at = "fill" /\ Set(l, o) 
      BY <1>11, <2>1, <2>2 DEF Number, LeadOp, CreateOp, Ids
    <3>2. NewTask \in Task
      BY DEF NewTask, Task, Status
    <3>3. file' = [file EXCEPT ![i] = NewTask] /\ used' = used \cup {i}
          /\ UNCHANGED <<mark, taskLock, dead, holds>>
      BY <1>11, <2>2 DEF Number
    <3> HIDE DEF i
    <3>4. FileTypes'
      BY <3>1, <3>2, <3>3
    <3> HIDE DEF o
    <3> QED BY <3>1, <3>4, SetTypes
  <2>3. CASE ~ op[l].high < MaxId
    <3>1. Set(l, Idle) /\ FileTypes'
      BY <1>11, <2>3 DEF Number
    <3>2. Idle \in LeadOp /\ Idle.at # "write"
      BY DEF LeadOp, Idle
    <3> QED BY <3>1, <3>2, SetTypes
  <2> QED BY <2>2, <2>3
<1>12. ASSUME NEW l \in Leads, Created(l) PROVE Types'
  <2>1. op[l].id \in Ids
    BY <1>12, UpdateTypes DEF Created
  <2>2. FileTypes'
    BY <1>12, <2>1 DEF Created, Filled, Exists, Task
  <2>3. Idle \in LeadOp /\ Idle.at # "write" /\ Set(l, Idle)
    BY <1>12 DEF LeadOp, Idle, Created
  <2> QED BY <2>2, <2>3, SetTypes
<1>13. ASSUME NEW l \in Leads, RaiseMark(l) PROVE Types'
  <2>1. op[l] \in DeleteOp
    BY <1>13, UpdateTypes DEF RaiseMark
  <2> DEFINE o == [op[l] EXCEPT !.at = "unlink"]
  <2>2. o \in LeadOp /\ o.at # "write" /\ Set(l, o)
    BY <1>13, <2>1 DEF RaiseMark, Goto, Set, LeadOp, DeleteOp
  <2>3. FileTypes'
    BY <1>13, <2>1 DEF RaiseMark, DeleteOp, Ids
  <2> HIDE DEF o
  <2> QED BY <2>2, <2>3, SetTypes
<1>14. ASSUME NEW l \in Leads, Unlink(l) PROVE Types'
  <2>1. op[l] \in DeleteOp
    BY <1>14, UpdateTypes DEF Unlink
  <2>3. FileTypes'
    BY <1>14, <2>1 DEF Unlink, DeleteOp
  <2> DEFINE i == op[l].id
             others == {j \in Listed \ {i} : i \in file[j].blockedBy}
             notes == {[id |-> j, blockers |-> file[j].blockedBy \ {i}] : j \in others}
             first == [do |-> "unblock", todo |-> notes]
  <2>4. PICK o \in {Idle} \cup Following(first) : Set(l, o)
    BY <1>14 DEF Unlink, Following
  <2>5. notes \subseteq Todo
    BY DEF Todo, Listed, Readable, Exists, Task
  <2>6. o \in LeadOp /\ o.at # "write"
    <3> HIDE DEF notes
    <3> QED BY <2>4, <2>5 DEF Following, Update, UpdateOp, LeadKinds, LeadOp, Idle, Todo
  <2> QED BY <2>3, <2>4, <2>6, SetTypes
<1>15. ASSUME NEW l \in Leads, NEW w \in Workers, Unassign(l, w) PROVE Types'
  <2> DEFINE theirs == {i \in Unresolved : file[i].owner = AgentId[w]}
             notes(i) == {[id |-> j, blockers |-> {}] : j \in theirs \ {i}}
  <2>1. PICK i \in theirs : Set(l, Update("unassign", i, {}, notes(i)))
    BY <1>15 DEF Unassign
  <2>2. i \in Ids /\ notes(i) \subseteq Todo
    BY DEF Unresolved, Listed, Todo
  <2>3. FileTypes'
    BY <1>15 DEF Unassign
  <2> HIDE DEF notes
  <2> DEFINE o == Update("unassign", i, {}, notes(i))
  <2>4. o \in LeadOp /\ o.at # "write"
    BY <2>2 DEF Update, UpdateOp, LeadOp, LeadKinds
  <2> QED BY <2>1, <2>3, <2>4, SetTypes
<1>16. ASSUME NEW l \in Leads, NEW i \in Ids, Delete(l, i) PROVE Types'
  <2> DEFINE o == [do |-> "delete", at |-> IF i > mark THEN "mark" ELSE "unlink", id |-> i]
  <2>1. o \in LeadOp /\ o.at # "write" /\ Set(l, o)
    BY <1>16 DEF LeadOp, DeleteOp, Delete
  <2> HIDE DEF o
  <2> QED BY <1>16, <2>1, SetTypes DEF Delete
<1>17. ASSUME NEW l \in Leads, NEW i \in Ids, NEW j \in Ids, Block(l, i, j) PROVE Types'
  <2> DEFINE o == Update("block", j, file[j].blockedBy \cup {i}, {})
  <2>1. file[j] \in Task
    BY <1>17 DEF Block, Listed, Readable, Exists
  <2>2. o \in LeadOp /\ o.at # "write" /\ Set(l, o)
    BY <1>17, <2>1 DEF LeadOp, UpdateOp, Update, Block, LeadKinds, Task
  <2> HIDE DEF o
  <2> QED BY <1>17, <2>2, SetTypes DEF Block
<1>18. ASSUME NEW d \in Display, Verify(d) PROVE Types'
  <2> DEFINE o == [do |-> "reset", at |-> "reset"]
  <2>1. o \in DisplayOp /\ o.at # "write" /\ Set(d, o)
    BY <1>18 DEF DisplayOp, ResetOp, Verify
  <2> HIDE DEF o
  <2> QED BY <1>18, <2>1, SetTypes DEF Verify
<1>19. ASSUME NEW d \in Display, Reset(d) PROVE Types'
  <2> DEFINE o == [op[d] EXCEPT !.at = "mark"]
  <2>1. o \in DisplayOp /\ o.at # "write" /\ Set(d, o)
    BY <1>19, UpdateTypes DEF DisplayOp, ResetOp, Reset, Goto, Set
  <2> HIDE DEF o
  <2> QED BY <1>19, <2>1, SetTypes DEF Reset
<1>20. ASSUME NEW d \in Display, SaveMark(d) PROVE Types'
  <2> DEFINE o == [op[d] EXCEPT !.at = "clear"]
  <2>1. o \in DisplayOp /\ o.at # "write" /\ Set(d, o)
    BY <1>20, UpdateTypes DEF DisplayOp, ResetOp, SaveMark, Goto, Set
  <2>2. mark' \in Nat
    BY <1>20, HighestOfMarked DEF SaveMark
  <2> HIDE DEF o
  <2> QED BY <1>20, <2>1, <2>2, SetTypes DEF SaveMark
<1>21. ASSUME NEW d \in Display, Clear(d) PROVE Types'
  <2>1. Idle \in DisplayOp /\ Idle.at # "write" /\ Set(d, Idle)
    BY <1>21 DEF DisplayOp, Idle, Clear
  <2> QED BY <1>21, <2>1, SetTypes DEF Clear
<1>22. CASE UNCHANGED vars
  BY <1>22 DEF vars, OpTypes, Updates
<1> QED
  BY <1>1, <1>2, <1>3, <1>4, <1>5, <1>6, <1>7, <1>8, <1>9, <1>10, <1>11, <1>12, <1>13,
     <1>14, <1>15, <1>16, <1>17, <1>18, <1>19, <1>20, <1>21, <1>22 DEF Next

----------------------------------------------------------------------------
(* What each action does to the operations, in terms of their fields: the   *)
(* case analysis that the invariants below share.                           *)

\* The operations of the other actors do not change.
Only(a) == \A b \in Actors \ {a} : op'[b] = op[b]

\* The operation of a ends.
Ends(a) == op'[a] = Idle

\* The operation of a goes on at another step.
Moves(a, at) ==
  /\ op'[a].at = at /\ op'[a].do = op[a].do /\ op'[a].id = op[a].id
  /\ op'[a].todo = op[a].todo /\ op'[a].copy = op[a].copy

\* The next update of the same kind begins.
Follows(a) ==
  \E n \in op[a].todo :
     /\ op'[a].at = "lock" /\ op'[a].do = op[a].do /\ op'[a].id = n.id
     /\ op'[a].todo = op[a].todo \ {n}

\* a is told that it has claimed the task, and starts or releases it.
Claims(a) ==
  /\ op'[a].at = "lock" /\ op'[a].do \in {"start", "release"} /\ op'[a].id = op[a].id
  /\ op'[a].todo = {}
  /\ holds' = [holds EXCEPT ![a] = op[a].id]

\* What Fail does to the task a holds.
Lets(a) ==
  /\ a \in Workers /\ op[a].do # "start" => holds' = [holds EXCEPT ![a] = None]
  /\ a \in Leads => holds' = holds
  /\ a \in Workers => holds' \in {holds, [holds EXCEPT ![a] = None]}

\* a is at an update, of a kind that fits its role.
Ongoing(a) ==
  /\ a \in Workers \cup Leads
  /\ Updates(a)
  /\ op[a].id \in Ids /\ op[a].todo \subseteq Todo
  /\ a \in Workers <=> op[a].do \in WorkerKinds
  /\ a \in Leads <=> op[a].do \in LeadKinds

\* The step of a has nothing to do with updates, locks or holders.
Aside(a) ==
  /\ Only(a)
  /\ ~ Updates(a) /\ ~ Updates(a)'
  /\ UNCHANGED <<taskLock, dead, holds>>

\* The steps that, besides, change no file.
Quiet(a) ==
  \/ a \in Leads /\ (Create(a) \/ Scan(a) \/ RaiseMark(a) \/ \E i \in Ids : Delete(a, i))
  \/ a \in Display /\ (Verify(a) \/ Reset(a) \/ SaveMark(a))

\* The steps of updates are taken in updates.
LEMMA OngoingUpdate ==
  ASSUME Types, NEW a \in Actors,
         op[a].at \in {"lock", "check", "read", "write"} \/ Updates(a)
  PROVE  Ongoing(a) /\ op[a] \in UpdateOp(WorkerKinds \cup LeadKinds)
BY UpdateTypes, ActorsAssumption DEF Types, UpdateOp, Ongoing, WorkerKinds, LeadKinds

\* What the types say of the values the cases below range over.
LEMMA Ground ==
  ASSUME Types
  PROVE  /\ \A b \in Workers \cup Leads \cup Display : b \in Actors
         /\ holds \in [Workers -> Ids \cup {None}] /\ file \in [Ids -> Task \cup {None}]
         /\ \A b \in Actors : Updates(b) => op[b].id \in Ids /\ (b \in Workers \/ b \in Leads)
         /\ \A b \in Workers : Updates(b) => op[b].do \in WorkerKinds
         /\ \A b \in Leads : Updates(b) => op[b].do \in LeadKinds
         /\ dead \subseteq Workers
         /\ None \notin Ids
BY OngoingUpdate, Distinct DEF Types, FileTypes, Actors, Ongoing

\* An update is followed by the next of its kind or by nothing.
LEMMA FollowingCases ==
  ASSUME Types, NEW a \in Actors, Ongoing(a), NEW o \in {Idle} \cup Following(op[a]), Set(a, o)
  PROVE  Ends(a) \/ Follows(a)
<1>1. op'[a] = o
  BY SetMeans DEF Types
<1>2. CASE o = Idle
  BY <1>1, <1>2 DEF Ends
<1>3. CASE o # Idle
  <2>1. PICK n \in op[a].todo : o = Update(op[a].do, n.id, n.blockers, op[a].todo \ {n})
    BY <1>3 DEF Following
  <2> QED BY <1>1, <2>1 DEF Follows, Update
<1> QED BY <1>2, <1>3

\* What an update does that finds the file gone.
LEMMA FailCases ==
  ASSUME Types, NEW a \in Actors, Ongoing(a), Fail(a)
  PROVE  Only(a) /\ (Ends(a) \/ Follows(a)) /\ Lets(a)
<1>1. PICK o \in {Idle} \cup Following(op[a]) : Set(a, o)
  BY DEF Fail, Set
<1>2. Lets(a)
  BY ActorsAssumption DEF Fail, Lets, Ongoing, LeadKinds
<1> QED BY <1>1, <1>2, SetMeans, FollowingCases DEF Types, Only

\* Lock takes a free lock, or finds no file that it can read.
LEMMA LockCases ==
  ASSUME Types, NEW a \in Actors, Lock(a)
  PROVE  /\ Ongoing(a) /\ op[a].at = "lock"
         /\ Only(a)
         /\ \/ /\ Moves(a, IF op[a].do = "claim" THEN "check" ELSE "read")
               /\ taskLock[op[a].id] = None
               /\ taskLock' = [taskLock EXCEPT ![op[a].id] = a]
               /\ UNCHANGED holds
            \/ /\ ~ Readable(op[a].id)
               /\ Ends(a) \/ Follows(a)
               /\ Lets(a) /\ UNCHANGED taskLock
         /\ UNCHANGED <<file, mark, listLock, dead, used, broken>>
<1> DEFINE at == IF op[a].do = "claim" THEN "check" ELSE "read"
<1>1. Ongoing(a) /\ op[a] \in UpdateOp(WorkerKinds \cup LeadKinds)
  BY OngoingUpdate DEF Lock
<1>2. /\ op[a].at = "lock" /\ UNCHANGED <<file, mark, listLock, dead, used, broken>>
      /\ \/ /\ taskLock[op[a].id] = None /\ UNCHANGED holds /\ Goto(a, at)
            /\ taskLock' = [taskLock EXCEPT ![op[a].id] = a]
         \/ ~ Readable(op[a].id) /\ Fail(a) /\ UNCHANGED taskLock
  BY DEF Lock
<1>3. Goto(a, at) => Moves(a, at) /\ Only(a)
  BY <1>1 DEF Moves, Only, Goto, UpdateOp, Types, OpTypes
<1>4. Fail(a) => Only(a) /\ (Ends(a) \/ Follows(a)) /\ Lets(a)
  BY <1>1, FailCases
<1> HIDE DEF at
<1>5. Only(a)
  BY <1>2, <1>3, <1>4
<1> QED BY <1>1, <1>2, <1>3, <1>4, <1>5 DEF at

\* What a claim that succeeds is followed by.
LEMMA ClaimCases ==
  ASSUME Types, NEW a \in Actors, Ongoing(a), NEW o \in AfterClaim(op[a].id), Set(a, o),
         holds' = [holds EXCEPT ![a] = op[a].id]
  PROVE  Only(a) /\ Claims(a)
BY SetMeans DEF Types, Only, Claims, AfterClaim, Update

\* Read copies the file, or finds none: a claim succeeds all the same.
LEMMA ReadCases ==
  ASSUME Types, NEW a \in Actors, Read(a)
  PROVE  /\ Ongoing(a) /\ op[a].at = "read"
         /\ Only(a)
         /\ \/ /\ Readable(op[a].id)
               /\ op'[a].at = "write" /\ op'[a].do = op[a].do /\ op'[a].id = op[a].id
               /\ op'[a].todo = op[a].todo /\ op'[a].copy = file[op[a].id]
               /\ UNCHANGED <<taskLock, holds>>
            \/ /\ ~ Readable(op[a].id) /\ Unlock(a)
               /\ op[a].do = "claim" /\ Claims(a)
            \/ /\ ~ Readable(op[a].id) /\ Unlock(a)
               /\ op[a].do # "claim" /\ (Ends(a) \/ Follows(a)) /\ Lets(a)
         /\ UNCHANGED <<file, mark, listLock, dead, used, broken>>
<1>1. Ongoing(a) /\ op[a] \in UpdateOp(WorkerKinds \cup LeadKinds)
  BY OngoingUpdate DEF Read
<1>2. CASE Readable(op[a].id)
  BY <1>1, <1>2 DEF Read, Only, UpdateOp, Types, OpTypes
<1>3. CASE ~ Readable(op[a].id) /\ op[a].do = "claim"
  BY <1>1, <1>3, ClaimCases DEF Read
<1>4. CASE ~ Readable(op[a].id) /\ op[a].do # "claim"
  BY <1>1, <1>4, FailCases DEF Read
<1> QED BY <1>2, <1>3, <1>4 DEF Read

\* Write puts the copy, changed, in the place of the file.
LEMMA WriteCases ==
  ASSUME Types, NEW a \in Actors, Write(a)
  PROVE  /\ Ongoing(a) /\ op[a].at = "write" /\ op[a].copy \in Task
         /\ Only(a) /\ Moves(a, "fill") /\ Updated(a, op[a]) \in Task
         /\ \A i \in Ids \ {op[a].id} : file'[i] = file[i]
         /\ file'[op[a].id] # None /\ file'[op[a].id].owner = Updated(a, op[a]).owner
         /\ file' = [file EXCEPT ![op[a].id] = [Updated(a, op[a]) EXCEPT !.whole = FALSE]]
         /\ UNCHANGED <<mark, taskLock, listLock, dead, holds, used, broken>>
<1>1. Ongoing(a) /\ op[a] \in UpdateOp(WorkerKinds \cup LeadKinds)
  BY OngoingUpdate DEF Write
<1>2. Updated(a, op[a]) \in Task
  BY <1>1, UpdatedTypes, UpdateTypes DEF Types, OpTypes, Write
<1>3. ASSUME NEW t \in Task
      PROVE  [t EXCEPT !.whole = FALSE] \in Task /\ [t EXCEPT !.whole = FALSE].owner = t.owner
  BY DEF Task
<1>4. file \in [Ids -> Task \cup {None}]
  BY DEF Types, FileTypes
<1>5. file' = [file EXCEPT ![op[a].id] = [Updated(a, op[a]) EXCEPT !.whole = FALSE]]
  BY DEF Write
<1>6. /\ \A i \in Ids \ {op[a].id} : file'[i] = file[i]
      /\ file'[op[a].id] # None /\ file'[op[a].id].owner = Updated(a, op[a]).owner
  <2> DEFINE t == [Updated(a, op[a]) EXCEPT !.whole = FALSE]
  <2>1. t # None /\ t.owner = Updated(a, op[a]).owner /\ op[a].id \in Ids
    BY <1>1, <1>2, <1>3, NoFileAssumption DEF Ongoing
  <2>2. file' = [file EXCEPT ![op[a].id] = t]
    BY <1>5
  <2> HIDE DEF t
  <2> QED BY <1>4, <2>1, <2>2 DEF Exists
<1> QED BY <1>1, <1>2, <1>6 DEF Write, Moves, Only, Goto, UpdateOp, Types, OpTypes

\* Fill completes the file and gives the lock back.
LEMMA FillCases ==
  ASSUME Types, NEW a \in Actors, Fill(a)
  PROVE  /\ Ongoing(a) /\ op[a].at = "fill" /\ Only(a) /\ Unlock(a)
         /\ file' = [file EXCEPT ![op[a].id] = Filled(op[a].id)]
         /\ \/ op[a].do = "claim" /\ Claims(a)
            \/ /\ op[a].do \in {"finish", "release"} /\ (Ends(a) \/ Follows(a))
               /\ holds' = [holds EXCEPT ![a] = None]
            \/ /\ op[a].do \notin {"claim", "finish", "release"} /\ (Ends(a) \/ Follows(a))
               /\ UNCHANGED holds
         /\ UNCHANGED <<mark, listLock, dead, used, broken>>
<1>1. Ongoing(a)
  BY UpdateTypes, OngoingUpdate DEF Fill, Types
<1>2. CASE op[a].do = "claim"
  BY <1>1, <1>2, ClaimCases DEF Fill
<1>3. CASE op[a].do # "claim"
  <2>1. PICK o \in Following(op[a]) : Set(a, o)
    BY <1>3 DEF Fill
  <2>2. Only(a) /\ (Ends(a) \/ Follows(a))
    BY <1>1, <2>1, SetMeans, FollowingCases DEF Types, Only
  <2> QED BY <1>1, <1>3, <2>2 DEF Fill
<1> QED BY <1>2, <1>3

\* Look begins a claim of a task it has read.
LEMMA LookCases ==
  ASSUME Types, NEW w \in Workers, Look(w)
  PROVE  \E i \in Listed :
            /\ Only(w) /\ op'[w].do = "claim" /\ op'[w].at = "lock" /\ op'[w].id = i
            /\ op'[w].todo = {}
            /\ w \notin dead /\ op[w] = Idle /\ holds[w] = None
            /\ UNCHANGED <<file, mark, taskLock, listLock, dead, holds, used, broken>>
BY SetMeans DEF Look, Update, Types, Only, Actors, IsIdle

\* Check goes on with a claimable task, or gives the lock back.
LEMMA CheckCases ==
  ASSUME Types, NEW w \in Workers, Check(w)
  PROVE  /\ Ongoing(w) /\ op[w].at = "check" /\ Only(w)
         /\ \/ Claimable(w, op[w].id) /\ Moves(w, "read") /\ UNCHANGED taskLock
            \/ ~ Claimable(w, op[w].id) /\ Ends(w) /\ Unlock(w)
         /\ broken \subseteq broken' /\ broken' \subseteq broken \cup {"jumped"}
         /\ UNCHANGED <<file, mark, listLock, dead, holds, used>>
<1>1. Ongoing(w) /\ op[w] \in UpdateOp(WorkerKinds \cup LeadKinds)
  BY OngoingUpdate DEF Check, Actors
<1> QED BY <1>1, SetMeans DEF Check, Moves, Ends, Only, Goto, UpdateOp, Types, OpTypes, Actors

\* Finish begins an update of the task the worker holds.
LEMMA FinishCases ==
  ASSUME Types, NEW w \in Workers, Finish(w)
  PROVE  /\ Only(w) /\ op'[w].do = "finish" /\ op'[w].at = "lock" /\ op'[w].id = holds[w]
         /\ op'[w].todo = {}
         /\ w \notin dead /\ op[w] = Idle /\ holds[w] \in Ids
         /\ UNCHANGED <<file, mark, taskLock, listLock, dead, holds, used, broken>>
BY SetMeans DEF Finish, Update, Types, FileTypes, Only, Actors, IsIdle

\* Die ends what the worker did, and its locks go stale.
LEMMA DieCases ==
  ASSUME Types, NEW w \in Workers, Die(w)
  PROVE  /\ Only(w) /\ Ends(w) /\ dead' = dead \cup {w} /\ holds' = [holds EXCEPT ![w] = None]
         /\ \A i \in Ids : taskLock'[i] \in {taskLock[i], None} /\ (taskLock[i] # w =>
              taskLock'[i] = taskLock[i])
         /\ UNCHANGED <<file, mark, listLock, used, broken>>
BY SetMeans DEF Die, Types, Only, Actors, Ends

(* Unassign begins an update of one task of a dead worker and notes the     *)
(* others.                                                                  *)
LEMMA UnassignCases ==
  ASSUME Types, NEW l \in Leads, NEW w \in Workers, Unassign(l, w)
  PROVE  LET theirs == {i \in Unresolved : file[i].owner = AgentId[w]}
         IN  \E i \in theirs :
                /\ Only(l) /\ op'[l].do = "unassign" /\ op'[l].at = "lock" /\ op'[l].id = i
                /\ op'[l].todo = {[id |-> j, blockers |-> {}] : j \in theirs \ {i}}
                /\ w \in dead /\ op[l] = Idle
                /\ UNCHANGED <<file, mark, taskLock, listLock, dead, holds, used, broken>>
BY SetMeans DEF Unassign, Update, Types, Only, Actors, IsIdle

\* Block begins an update of a task that exists.
LEMMA BlockCases ==
  ASSUME Types, NEW l \in Leads, NEW i \in Ids, NEW j \in Ids, Block(l, i, j)
  PROVE  /\ Only(l) /\ op'[l].do = "block" /\ op'[l].at = "lock" /\ op'[l].id = j
         /\ op'[l].todo = {} /\ Exists(j) /\ op[l] = Idle
         /\ UNCHANGED <<file, mark, taskLock, listLock, dead, holds, used, broken>>
BY SetMeans DEF Block, Update, Types, Only, Actors, IsIdle, Listed, Readable

\* Unlink removes the file and begins the updates of the tasks it blocked.
LEMMA UnlinkCases ==
  ASSUME Types, NEW l \in Leads, Unlink(l)
  PROVE  /\ op[l].do = "delete" /\ op[l].at = "unlink" /\ op[l].id \in Ids
         /\ Only(l)
         /\ \/ Ends(l)
            \/ /\ op'[l].do = "unblock" /\ op'[l].at = "lock"
               /\ op'[l].id \in Listed \ {op[l].id}
               /\ \A n \in op'[l].todo : n.id \in Listed \ {op[l].id}
         /\ file' = [file EXCEPT ![op[l].id] = None]
         /\ UNCHANGED <<mark, taskLock, listLock, dead, holds, used, broken>>
<1> DEFINE i == op[l].id
           others == {j \in Listed \ {i} : i \in file[j].blockedBy}
           notes == {[id |-> j, blockers |-> file[j].blockedBy \ {i}] : j \in others}
           first == [do |-> "unblock", todo |-> notes]
<1>1. op[l] \in DeleteOp /\ op[l].at = "unlink"
  BY UpdateTypes DEF Types, Unlink, Actors
<1>2. PICK o \in {Idle} \cup Following(first) : Set(l, o)
  BY DEF Unlink, Following
<1>3. op'[l] = o /\ Only(l)
  BY <1>2, SetMeans DEF Types, Only, Actors
<1>4. CASE o = Idle
  BY <1>1, <1>3, <1>4 DEF Unlink, Ends, DeleteOp
<1>5. CASE o # Idle
  <2>1. PICK n \in notes : o = Update("unblock", n.id, n.blockers, notes \ {n})
    BY <1>2, <1>5 DEF Following
  <2>2. \A m \in notes : m.id \in Listed \ {i}
    OBVIOUS
  <2> HIDE DEF notes
  <2> QED BY <1>1, <1>3, <2>1, <2>2 DEF Unlink, DeleteOp, Update
<1> QED BY <1>4, <1>5

\* Scan reads the names or the mark, and keeps the highest.
LEMMA ScanCases ==
  ASSUME Types, NEW l \in Leads, Scan(l)
  PROVE  \E what \in op[l].todo :
            LET seen == IF what = "mark" THEN mark ELSE HighestOf({i \in Ids : Exists(i)})
            IN  /\ op[l].do = "create" /\ op[l].at = "scan" /\ op[l].high \in Nat
                /\ what \in {"names", "mark"} /\ seen \in Nat
                /\ Only(l)
                /\ op'[l].do = "create" /\ op'[l].at = "scan"
                /\ op'[l].todo = op[l].todo \ {what}
                /\ op'[l].high = HighestOf({op[l].high, seen})
<1>1. op[l] \in [do : {"create"}, at : {"scan"}, todo : SUBSET {"names", "mark"}, high : Nat]
  BY UpdateTypes DEF Types, Scan, Actors
<1>2. HighestOf({i \in Ids : Exists(i)}) \in Nat
  BY HighestOfIds
<1> DEFINE seen(what) == IF what = "mark" THEN mark ELSE HighestOf({i \in Ids : Exists(i)})
           o(what) == [do |-> "create", at |-> "scan", todo |-> op[l].todo \ {what},
                       high |-> HighestOf({op[l].high, seen(what)})]
<1>3. PICK what \in op[l].todo : Set(l, o(what))
  BY DEF Scan
<1>4. op'[l] = o(what) /\ Only(l)
  BY <1>3, SetMeans DEF Only, Types, Actors
<1>5. seen(what) \in Nat /\ what \in {"names", "mark"}
  BY <1>1, <1>2, <1>3 DEF Types, FileTypes
<1>6. /\ op'[l].do = "create" /\ op'[l].at = "scan" /\ op'[l].todo = op[l].todo \ {what}
      /\ op'[l].high = HighestOf({op[l].high, seen(what)})
  <2> HIDE DEF seen
  <2> QED BY <1>4
<1>7. op[l].do = "create" /\ op[l].at = "scan" /\ op[l].high \in Nat
  BY <1>1
<1> QED BY <1>4, <1>5, <1>6, <1>7

\* Number hands out the id after the highest.
LEMMA NumberCases ==
  ASSUME Types, NEW l \in Leads, Number(l)
  PROVE  /\ Aside(l)
         /\ \/ op'[l] = Idle /\ UNCHANGED <<file, used, broken>>
            \/ \E i \in Ids :
                  /\ file' = [file EXCEPT ![i] = NewTask] /\ used' = used \cup {i}
                  /\ broken' = IF i \in used THEN broken \cup {"reuse"} ELSE broken
                  /\ i = op[l].high + 1
                  /\ op'[l].do = "create" /\ op'[l].at = "fill" /\ op'[l].id = i
<1>1. op[l] \in [do : {"create"}, at : {"scan"}, todo : SUBSET {"names", "mark"}, high : Nat]
  BY UpdateTypes DEF Types, Number, Actors
<1> USE SetMeans DEF Aside, Only, Updates, WorkerKinds, LeadKinds, Types, Actors
<1>2. CASE op[l].high < MaxId
  <2> DEFINE i == op[l].high + 1
  <2>1. i \in Ids
    BY <1>1, <1>2, ActorsAssumption DEF Ids
  <2> DEFINE o == [do |-> "create", at |-> "fill", id |-> i]
  <2>2. /\ Set(l, o) /\ file' = [file EXCEPT ![i] = NewTask] /\ used' = used \cup {i}
        /\ broken' = IF i \in used THEN broken \cup {"reuse"} ELSE broken
        /\ UNCHANGED <<taskLock, dead, holds>>
    BY <1>2 DEF Number
  <2>3. o.do = "create" /\ o.at = "fill" /\ o.id = i /\ i = op[l].high + 1
    OBVIOUS
  <2> HIDE DEF i, o
  <2>4. Aside(l) /\ op'[l] = o
    BY <1>1, <2>2, <2>3
  <2> QED BY <2>1, <2>2, <2>3, <2>4
<1>3. CASE ~ op[l].high < MaxId
  BY <1>1, <1>3 DEF Number, Idle
<1> QED BY <1>2, <1>3

\* Created completes the new file.
LEMMA CreatedCases ==
  ASSUME Types, NEW l \in Leads, Created(l)
  PROVE  /\ Aside(l) /\ op[l].id \in Ids
         /\ file' = [file EXCEPT ![op[l].id] = Filled(op[l].id)]
         /\ op'[l] = Idle /\ op[l].at = "fill" /\ op[l].do = "create"
         /\ UNCHANGED <<mark, used, broken>>
BY UpdateTypes, SetMeans
   DEF Created, Aside, Only, Updates, WorkerKinds, LeadKinds, Types, Actors, Idle

\* RaiseMark puts the id of the deleted task in the mark.
LEMMA MarkCases ==
  ASSUME Types, NEW l \in Leads, RaiseMark(l)
  PROVE  /\ Aside(l) /\ op[l].do = "delete" /\ op[l].at = "mark" /\ op[l].id \in Ids
         /\ op'[l].do = "delete" /\ op'[l].at = "unlink" /\ op'[l].id = op[l].id
         /\ mark' = op[l].id
         /\ UNCHANGED <<file, used, broken>>
<1>1. op[l] \in DeleteOp
  BY UpdateTypes DEF Types, RaiseMark, Actors
<1> QED BY <1>1
    DEF RaiseMark, Goto, DeleteOp, Aside, Only, Updates, WorkerKinds, LeadKinds, Types, OpTypes,
        Actors

\* The two steps of a reset that take the lock and save the mark.
LEMMA ResetCases ==
  ASSUME Types, NEW d \in Display, Reset(d) \/ SaveMark(d)
  PROVE  /\ Aside(d) /\ op[d].do = "reset" /\ op'[d].do = "reset"
         /\ Reset(d) => op[d].at = "reset" /\ op'[d].at = "mark"
         /\ SaveMark(d) => op[d].at = "mark" /\ op'[d].at = "clear"
         /\ UNCHANGED <<file, used>>
<1>1. op[d] \in ResetOp
  BY UpdateTypes DEF Types, Reset, SaveMark, Actors
<1> QED BY <1>1
    DEF Reset, SaveMark, Goto, ResetOp, Aside, Only, Updates, WorkerKinds, LeadKinds, Types,
        OpTypes, Actors

\* Clear removes every file.
LEMMA ClearCases ==
  ASSUME Types, NEW d \in Display, Clear(d)
  PROVE  /\ Aside(d)
         /\ file' = [i \in Ids |-> None]
         /\ op'[d] = Idle /\ op[d].at = "clear"
         /\ UNCHANGED <<mark, used>> /\ broken' \in {broken, broken \cup {"cleared"}}
BY UpdateTypes, SetMeans
   DEF Clear, Aside, Only, Updates, WorkerKinds, LeadKinds, Types, Actors, Idle, ResetOp

\* What the quiet steps leave alone.
LEMMA QuietCases ==
  ASSUME Types, NEW a \in Actors, Quiet(a)
  PROVE  Aside(a) /\ UNCHANGED <<file, used>> /\ broken' \in {broken, broken \cup {"overlap"}}
<1> USE UpdateTypes, SetMeans DEF Aside, Only, Updates, WorkerKinds, LeadKinds, Types
<1>1. CASE a \in Leads /\ Create(a)
  BY <1>1 DEF Create, IsIdle, Idle, Overlap
<1>2. CASE a \in Leads /\ Scan(a)
  BY <1>2, ScanCases DEF Scan
<1>3. CASE a \in Leads /\ RaiseMark(a)
  BY <1>3 DEF RaiseMark, Goto, OpTypes, DeleteOp
<1>4. CASE a \in Leads /\ \E i \in Ids : Delete(a, i)
  BY <1>4 DEF Delete, IsIdle, Idle, Overlap
<1>5. CASE a \in Display /\ Verify(a)
  BY <1>5 DEF Verify, IsIdle, Idle
<1>6. CASE a \in Display /\ Reset(a)
  BY <1>6 DEF Reset, Goto, OpTypes, ResetOp, Overlap
<1>7. CASE a \in Display /\ SaveMark(a)
  BY <1>7 DEF SaveMark, Goto, OpTypes, ResetOp
<1> QED BY <1>1, <1>2, <1>3, <1>4, <1>5, <1>6, <1>7 DEF Quiet

\* What has gone wrong stays known.
LEMMA BrokenGrows ==
  ASSUME [Next]_vars
  PROVE  broken \subseteq broken'
BY DEF Next, vars, Lock, Read, Write, Fill, Look, Check, Finish, Die, Create, Scan, Number,
   Created, RaiseMark,
   Unlink, Unassign, Delete, Block, Verify, Reset, SaveMark, Clear

----------------------------------------------------------------------------
\* An update that has taken its lock still holds it.

\* The steps an update takes under the lock.
Holding == {"check", "read", "write", "fill"}

LocksOp(o) == o.do \in WorkerKinds \cup LeadKinds /\ o.at \in Holding

Locked == \A a \in Actors : LocksOp(op[a]) => taskLock[op[a].id] = a

\* Two updates under their locks are of different tasks.
LEMMA LocksAlone ==
  ASSUME Types, Locked, NEW a \in Actors, NEW b \in Actors,
         LocksOp(op[a]), LocksOp(op[b]), op[a].id = op[b].id
  PROVE  a = b
BY DEF Locked

\* Every step keeps the locks with the updates that took them.
LEMMA LockedStep ==
  ASSUME Types, Locked, [Next]_vars
  PROVE Locked'
<1>1. \A b \in Actors : LocksOp(op[b]) => op[b].id \in Ids /\ taskLock[op[b].id] = b
  BY UpdateTypes DEF Types, Locked, LocksOp, Holding, Updates, UpdateOp
<1>2. None \notin Actors /\ taskLock \in [Ids -> Actors \cup {None}]
  BY ActorsAssumption DEF Types, FileTypes
<1>0. \A a \in Workers \cup Leads \cup Display : a \in Actors
  BY DEF Actors
<1> HIDE DEF Actors
<1> USE <1>1, <1>2, <1>0
    DEF Locked, LocksOp, Holding, Only, Ends, Moves, Follows, Claims, Idle, Unlock, Updates, Aside
<1>3. ASSUME NEW a \in Workers \cup Leads, Lock(a) PROVE Locked'
  BY <1>3, LockCases DEF Ongoing
<1>4. ASSUME NEW a \in Workers \cup Leads, Read(a) PROVE Locked'
  BY <1>4, ReadCases DEF Ongoing
<1>5. ASSUME NEW a \in Workers \cup Leads, Write(a) PROVE Locked'
  <2>1. LocksOp(op[a]) /\ Only(a) /\ Moves(a, "fill") /\ UNCHANGED taskLock /\ a \in Actors
    BY <1>5, WriteCases DEF Ongoing
  <2> QED BY <2>1
<1>6. ASSUME NEW a \in Workers \cup Leads, Fill(a) PROVE Locked'
  BY <1>6, FillCases DEF Ongoing
<1>7. ASSUME NEW w \in Workers, Look(w) PROVE Locked'
  BY <1>7, LookCases
<1>8. ASSUME NEW w \in Workers, Check(w) PROVE Locked'
  BY <1>8, CheckCases DEF Ongoing
<1>9. ASSUME NEW w \in Workers, Finish(w) PROVE Locked'
  BY <1>9, FinishCases
<1>10. ASSUME NEW w \in Workers, Die(w) PROVE Locked'
  BY <1>10, DieCases
<1>11. ASSUME NEW l \in Leads, NEW w \in Workers, Unassign(l, w) PROVE Locked'
  BY <1>11, UnassignCases
<1>12. ASSUME NEW l \in Leads, NEW i \in Ids, NEW j \in Ids, Block(l, i, j) PROVE Locked'
  BY <1>12, BlockCases
<1>13. ASSUME NEW l \in Leads, Unlink(l) PROVE Locked'
  BY <1>13, UnlinkCases
<1>14. ASSUME NEW l \in Leads, Number(l) PROVE Locked'
  <2>1. Aside(l)
    BY <1>14, NumberCases
  <2> QED BY <2>1
<1>15. ASSUME NEW l \in Leads, Created(l) PROVE Locked'
  BY <1>15, CreatedCases
<1>16. ASSUME NEW d \in Display, Clear(d) PROVE Locked'
  BY <1>16, ClearCases
<1>17. ASSUME NEW a \in Actors, Quiet(a) PROVE Locked'
  BY <1>17, QuietCases
<1>18. CASE UNCHANGED vars
  BY <1>18 DEF vars
<1> QED
  BY <1>3, <1>4, <1>5, <1>6, <1>7, <1>8, <1>9, <1>10, <1>11, <1>12, <1>13, <1>14, <1>15, <1>16,
     <1>17, <1>18 DEF Next, Quiet

----------------------------------------------------------------------------
(* Every id that a file, a holder or an operation refers to has been handed *)
(* out.                                                                     *)

UsedOp(o) ==
  /\ o.do \in WorkerKinds \cup LeadKinds \cup {"delete"} => o.id \in used
  /\ o.do \in WorkerKinds \cup LeadKinds => \A n \in o.todo : n.id \in used

UsedInv ==
  /\ \A i \in Ids : Exists(i) => i \in used
  /\ \A w \in Workers : holds[w] # None => holds[w] \in used
  /\ \A a \in Actors : UsedOp(op[a])

(* The invariant is kept by a step whose new operation refers to ids handed *)
(* out.                                                                     *)
LEMMA UsedSet ==
  ASSUME UsedInv, NEW a \in Actors, Only(a), UsedOp(op[a])',
         used \subseteq used',
         \A i \in Ids : Exists(i)' => Exists(i) \/ i \in used',
         \A w \in Workers : holds'[w] \in {holds[w], None} \cup used'
  PROVE  UsedInv'
<1> HIDE DEF Actors
<1> QED BY DEF UsedInv, UsedOp, Only

\* An update goes on with ids it already referred to.
LEMMA UsedUpdate ==
  ASSUME UsedInv, NEW a \in Actors, Ongoing(a), used \subseteq used',
         \/ Ends(a) \/ Follows(a)
         \/ op'[a].do = op[a].do /\ op'[a].id = op[a].id /\ op'[a].todo = op[a].todo
         \/ op'[a].todo = {} /\ op'[a].id = op[a].id
  PROVE  UsedOp(op[a])' /\ op[a].id \in used
<1> HIDE DEF Actors
<1>1. op[a].id \in used /\ \A n \in op[a].todo : n.id \in used
  BY DEF UsedInv, UsedOp, Ongoing, Updates
<1> QED BY <1>1 DEF UsedOp, Ends, Follows, Idle, WorkerKinds, LeadKinds

\* Every step keeps to the ids handed out.
LEMMA UsedStep ==
  ASSUME Types, UsedInv, [Next]_vars
  PROVE UsedInv'
<1>1. /\ file \in [Ids -> Task \cup {None}] /\ holds \in [Workers -> Ids \cup {None}]
      /\ \A a \in Workers \cup Leads \cup Display : a \in Actors
  BY DEF Types, FileTypes, Actors
<1> HIDE DEF Actors
<1>3. ASSUME NEW a \in Workers \cup Leads, Lock(a) PROVE UsedInv'
  <2>1. /\ Only(a) /\ Ongoing(a) /\ (Ends(a) \/ Follows(a) \/ \E at : Moves(a, at))
        /\ holds' = holds \/ Lets(a)
        /\ UNCHANGED <<file, used>>
    BY <1>1, <1>3, LockCases
  <2> QED BY <1>1, <2>1, UsedSet, UsedUpdate DEF Moves, Lets, Exists, UsedInv
<1>4. ASSUME NEW a \in Workers \cup Leads, Read(a) PROVE UsedInv'
  <2>1. Only(a) /\ Ongoing(a) /\ UNCHANGED <<file, used>> /\ a \in Actors
    BY <1>1, <1>4, ReadCases
  <2>2. UsedOp(op[a])' /\ op[a].id \in used
    BY <1>1, <1>4, <2>1, ReadCases, UsedUpdate DEF Claims
  <2>3. holds' = holds \/ holds' = [holds EXCEPT ![a] = op[a].id] \/ Lets(a)
    BY <1>1, <1>4, ReadCases DEF Claims
  <2> QED BY <1>1, <2>1, <2>2, <2>3, UsedSet DEF Lets, Exists, UsedInv
<1>5. ASSUME NEW a \in Workers \cup Leads, Write(a) PROVE UsedInv'
  <2>1. /\ Only(a) /\ Ongoing(a) /\ Moves(a, "fill") /\ UNCHANGED <<holds, used>> /\ a \in Actors
        /\ \A i \in Ids \ {op[a].id} : file'[i] = file[i]
    BY <1>1, <1>5, WriteCases
  <2>2. UsedOp(op[a])' /\ op[a].id \in used
    BY <2>1, UsedUpdate DEF Moves
  <2> QED BY <1>1, <2>1, <2>2, UsedSet DEF Exists, UsedInv
<1>6. ASSUME NEW a \in Workers \cup Leads, Fill(a) PROVE UsedInv'
  <2>1. Only(a) /\ Ongoing(a) /\ UNCHANGED used /\ a \in Actors
        /\ \A i \in Ids \ {op[a].id} : file'[i] = file[i]
    BY <1>1, <1>6, FillCases
  <2>2. UsedOp(op[a])' /\ op[a].id \in used
    BY <1>6, <2>1, FillCases, UsedUpdate DEF Claims
  <2>3. \A w \in Workers : holds'[w] \in {holds[w], None, op[a].id}
    BY <1>1, <1>6, FillCases DEF Claims
  <2> QED BY <1>1, <2>1, <2>2, <2>3, UsedSet DEF Exists, UsedInv
<1>7. ASSUME NEW w \in Workers, Look(w) PROVE UsedInv'
  <2>1. UsedOp(op[w])' /\ Only(w) /\ UNCHANGED <<file, holds, used>>
    BY <1>1, <1>7, LookCases DEF UsedOp, UsedInv, Listed, Readable
  <2> QED BY <1>1, <2>1, UsedSet DEF Exists
<1>8. ASSUME NEW w \in Workers, Check(w) PROVE UsedInv'
  <2>1. Only(w) /\ Ongoing(w) /\ (Ends(w) \/ Moves(w, "read")) /\ UNCHANGED <<file, holds, used>>
    BY <1>8, CheckCases
  <2> QED BY <1>1, <2>1, UsedSet, UsedUpdate DEF Moves, Exists
<1>9. ASSUME NEW w \in Workers, Finish(w) PROVE UsedInv'
  <2>1. UsedOp(op[w])' /\ Only(w) /\ UNCHANGED <<file, holds, used>>
    BY <1>1, <1>9, FinishCases, Distinct DEF UsedOp, UsedInv
  <2> QED BY <1>1, <2>1, UsedSet DEF Exists
<1>10. ASSUME NEW w \in Workers, Die(w) PROVE UsedInv'
  <2>1. UsedOp(op[w])' /\ Only(w) /\ UNCHANGED <<file, used>> /\ holds' = [holds EXCEPT ![w] = None]
    BY <1>10, DieCases DEF UsedOp, Ends, Idle, WorkerKinds, LeadKinds
  <2> QED BY <1>1, <2>1, UsedSet DEF Exists
<1>11. ASSUME NEW l \in Leads, NEW w \in Workers, Unassign(l, w) PROVE UsedInv'
  <2>1. UsedOp(op[l])' /\ Only(l) /\ UNCHANGED <<file, holds, used>>
    BY <1>1, <1>11, UnassignCases DEF UsedOp, UsedInv, Unresolved, Listed, Readable
  <2> QED BY <1>1, <2>1, UsedSet DEF Exists
<1>12. ASSUME NEW l \in Leads, NEW i \in Ids, NEW j \in Ids, Block(l, i, j) PROVE UsedInv'
  <2>1. UsedOp(op[l])' /\ Only(l) /\ UNCHANGED <<file, holds, used>>
    BY <1>1, <1>12, BlockCases DEF UsedOp, UsedInv
  <2> QED BY <1>1, <2>1, UsedSet DEF Exists
<1>13. ASSUME NEW l \in Leads, Unlink(l) PROVE UsedInv'
  <2>1. UsedOp(op[l])' /\ Only(l) /\ UNCHANGED <<holds, used>>
    BY <1>1, <1>13, UnlinkCases
       DEF UsedOp, UsedInv, Listed, Readable, Ends, Idle, WorkerKinds, LeadKinds
  <2>2. \A i \in Ids : Exists(i)' => Exists(i)
    BY <1>1, <1>13, UnlinkCases DEF Exists
  <2> QED BY <1>1, <2>1, <2>2, UsedSet
<1>14. ASSUME NEW l \in Leads, Number(l) PROVE UsedInv'
  <2>1. ~ Updates(l)' /\ op'[l].do # "delete" /\ Only(l) /\ UNCHANGED holds
    BY <1>14, NumberCases DEF Aside, Idle
  <2>2. used \subseteq used' /\ \A i \in Ids : Exists(i)' => Exists(i) \/ i \in used'
    BY <1>1, <1>14, NumberCases, Distinct DEF Exists
  <2> QED BY <1>1, <2>1, <2>2, UsedSet DEF UsedOp, Updates
<1>15. ASSUME NEW l \in Leads, Created(l) PROVE UsedInv'
  <2>1. UsedOp(op[l])' /\ Only(l) /\ UNCHANGED <<holds, used>>
    BY <1>15, CreatedCases DEF Aside, UsedOp, Idle, Updates
  <2>2. \A i \in Ids : Exists(i)' => Exists(i)
    BY <1>1, <1>15, CreatedCases DEF Exists, Filled
  <2> QED BY <1>1, <2>1, <2>2, UsedSet
<1>16. ASSUME NEW d \in Display, Clear(d) PROVE UsedInv'
  <2>1. UsedOp(op[d])' /\ Only(d) /\ UNCHANGED <<holds, used>>
    BY <1>16, ClearCases DEF Aside, UsedOp, Idle, Updates
  <2>2. \A i \in Ids : Exists(i)' => Exists(i)
    BY <1>16, ClearCases DEF Exists
  <2> QED BY <1>1, <2>1, <2>2, UsedSet
<1>17. ASSUME NEW l \in Leads, NEW i \in Ids, Delete(l, i) PROVE UsedInv'
  <2>1. Only(l) /\ op'[l].do = "delete" /\ op'[l].id = i /\ UNCHANGED <<file, holds, used>>
    BY <1>1, <1>17, SetMeans DEF Delete, Only, Types
  <2>2. i \in used
    BY <1>17 DEF Delete, UsedInv, Readable
  <2> QED BY <1>1, <2>1, <2>2, UsedSet DEF UsedOp, WorkerKinds, LeadKinds, Exists
<1>18. ASSUME NEW l \in Leads, RaiseMark(l) PROVE UsedInv'
  <2>1. Aside(l) /\ op[l].do = "delete" /\ op'[l].id = op[l].id /\ UNCHANGED <<file, used>>
    BY <1>18, MarkCases
  <2> QED BY <1>1, <2>1, UsedSet DEF UsedOp, UsedInv, Aside, Updates, Exists
<1>19. ASSUME NEW a \in Actors, Quiet(a), op'[a].do # "delete" PROVE UsedInv'
  <2>1. Aside(a) /\ UNCHANGED <<file, used>>
    BY <1>19, QuietCases
  <2> QED BY <1>1, <1>19, <2>1, UsedSet DEF UsedOp, Aside, Updates, Exists
<1>20. ASSUME NEW l \in Leads, Create(l) \/ Scan(l) PROVE UsedInv'
  <2>1. op'[l].do # "delete"
    <3>1. CASE Create(l)
      BY <1>1, <3>1, SetMeans DEF Create, Types
    <3>2. CASE Scan(l)
      BY <3>2, ScanCases
    <3> QED BY <1>20, <3>1, <3>2
  <2> QED BY <1>1, <1>19, <1>20, <2>1 DEF Quiet
<1>21. ASSUME NEW d \in Display, Verify(d) \/ Reset(d) \/ SaveMark(d) PROVE UsedInv'
  <2>1. op'[d].do # "delete"
    BY <1>1, <1>21, SetMeans, ResetCases DEF Verify, Types
  <2> QED BY <1>1, <1>19, <1>21, <2>1 DEF Quiet
<1>22. CASE UNCHANGED vars
  BY <1>22 DEF vars, UsedInv, UsedOp, Exists
<1> QED
  BY <1>3, <1>4, <1>5, <1>6, <1>7, <1>8, <1>9, <1>10, <1>11, <1>12, <1>13, <1>14, <1>15,
     <1>16, <1>17, <1>18, <1>20, <1>21, <1>22 DEF Next

----------------------------------------------------------------------------
\* An id names one task: the invariant of the mark.

\* One operation at a time relies on the mark or changes it.
Alone == \A a, b \in Actors : Numbering(a) /\ Numbering(b) => a = b

(* What each step of those operations relies on: a deletion that must raise *)
(* the mark is of a higher id, one that need not is not; a reset that       *)
(* clears has saved the highest id; a creation has read the mark, or all    *)
(* the ids above it.                                                        *)
Numbered(a) ==
  /\ op[a].do = "delete" /\ op[a].at = "mark" => op[a].id > mark
  /\ op[a].do = "delete" /\ op[a].at = "unlink" => op[a].id <= mark
  /\ op[a].at = "clear" => \A i \in used : i <= mark
  /\ op[a].at = "scan" =>
       /\ "mark" \notin op[a].todo => mark <= op[a].high
       /\ "names" \notin op[a].todo => \A i \in used : i <= op[a].high \/ i <= mark

\* An id handed out is on disk or below the mark.
MarkOk ==
  /\ "reuse" \notin broken
  /\ Alone
  /\ \A i \in used : Exists(i) \/ i <= mark
  /\ \A a \in Actors : Numbered(a)

IdInv == "overlap" \notin broken => MarkOk

(* A step after which a relies on the mark no longer, and that removes no   *)
(* file, keeps the invariant.                                               *)
LEMMA MarkKept ==
  ASSUME Types, MarkOk, NEW a \in Actors, Only(a), ~ Numbering(a)', UNCHANGED <<mark, used>>,
         "reuse" \notin broken', \A i \in used : Exists(i) => file'[i] # None
  PROVE  MarkOk'
<1>1. \A b \in Actors : Numbering(b)' => Numbering(b) /\ op'[b] = op[b]
  BY DEF Numbering, Only
<1>2. Alone'
  BY <1>1 DEF MarkOk, Alone
<1>3. \A b \in Actors : Numbered(b)'
  BY <1>1 DEF MarkOk, Numbered, Numbering
<1> QED BY <1>2, <1>3 DEF MarkOk, Exists

\* So does one that begins to rely on the mark while no other does.
LEMMA MarkEntered ==
  ASSUME Types, MarkOk, NEW a \in Actors, Only(a), Overlap(a) = {}, UNCHANGED <<file, mark, used>>,
         "reuse" \notin broken', Numbered(a)'
  PROVE  MarkOk'
<1>1. \A b \in Actors \ {a} : ~ Numbering(b) /\ op'[b] = op[b]
  BY DEF Overlap, Only
<1>2. Alone'
  BY <1>1 DEF Alone, Numbering
<1>3. \A b \in Actors : Numbered(b)'
  BY <1>1 DEF MarkOk, Numbered, Numbering
<1> QED BY <1>2, <1>3 DEF MarkOk, Exists

(* So does one of the operation that relies on the mark, when what it       *)
(* relies on next holds.                                                    *)
LEMMA MarkMoved ==
  ASSUME Types, MarkOk, NEW a \in Actors, Only(a), Numbering(a),
         "reuse" \notin broken', Numbered(a)', \A i \in used' : file'[i] # None \/ i <= mark'
  PROVE  MarkOk'
<1>1. \A b \in Actors \ {a} : ~ Numbering(b) /\ op'[b] = op[b]
  BY DEF MarkOk, Alone, Only
<1>2. Alone'
  BY <1>1 DEF Alone, Numbering
<1>3. \A b \in Actors : Numbered(b)'
  BY <1>1 DEF MarkOk, Numbered, Numbering
<1> QED BY <1>2, <1>3 DEF MarkOk, Exists

\* Every step keeps ids unique, as long as nothing overlapped.
LEMMA IdStep ==
  ASSUME Types, IdInv, [Next]_vars
  PROVE IdInv'
<1> SUFFICES ASSUME "overlap" \notin broken' PROVE MarkOk'
  BY DEF IdInv
<1>0. MarkOk /\ "reuse" \notin broken /\ used \subseteq Ids /\ mark \in Nat
  BY BrokenGrows DEF IdInv, MarkOk, Types, FileTypes
<1>1. \A a \in Workers \cup Leads \cup Display : a \in Actors
  BY Ground
<1>2. ASSUME NEW a \in Workers \cup Leads, Lock(a) \/ Read(a) PROVE MarkOk'
  <2>1. Only(a) /\ op'[a].at \in {"idle", "lock", "check", "read", "write"}
          /\ UNCHANGED <<file, mark, used, broken>>
    BY <1>1, <1>2, LockCases, ReadCases DEF Ends, Follows, Moves, Idle, Claims
  <2> QED BY <1>0, <1>1, <2>1, MarkKept DEF Numbering, Exists
<1>3. ASSUME NEW a \in Workers \cup Leads, Write(a) PROVE MarkOk'
  <2>1. Only(a) /\ op'[a].at = "fill" /\ UNCHANGED <<mark, used, broken>>
    BY <1>1, <1>3, WriteCases DEF Moves
  <2>2. \A i \in used : Exists(i) => file'[i] # None
    BY <1>0, <1>1, <1>3, WriteCases DEF Exists
  <2> QED BY <1>0, <1>1, <2>1, <2>2, MarkKept DEF Numbering
<1>4. \A i \in Ids : Exists(i) => Filled(i) # None
  <2> SUFFICES ASSUME NEW i \in Ids, Exists(i) PROVE Filled(i) # None
    OBVIOUS
  <2>1. file[i] \in Task
    BY Ground DEF Exists
  <2>2. ASSUME NEW t \in Task PROVE [t EXCEPT !.whole = TRUE] \in Task
    BY DEF Task
  <2>3. Filled(i) \in Task
    BY <2>1, <2>2 DEF Filled
  <2> QED BY <2>3, NoFileAssumption
<1>5. ASSUME NEW a \in Workers \cup Leads, Fill(a) PROVE MarkOk'
  <2>1. Only(a) /\ op'[a].at \in {"idle", "lock"} /\ UNCHANGED <<mark, used, broken>>
    BY <1>1, <1>5, FillCases DEF Ends, Follows, Idle, Claims
  <2>2. \A i \in used : Exists(i) => file'[i] # None
    BY <1>0, <1>1, <1>4, <1>5, FillCases DEF Exists, Types, FileTypes, Ongoing
  <2> QED BY <1>0, <1>1, <2>1, <2>2, MarkKept DEF Numbering
<1>6. ASSUME NEW a \in Actors, Only(a), op'[a].at \in {"idle", "lock", "read"},
             UNCHANGED <<file, mark, used>>, "reuse" \notin broken'
      PROVE  MarkOk'
  BY <1>0, <1>6, MarkKept DEF Numbering, Exists
<1>7. ASSUME NEW w \in Workers, Look(w) \/ Check(w) \/ Finish(w) \/ Die(w) PROVE MarkOk'
  BY <1>0, <1>1, <1>6, <1>7, LookCases, CheckCases, FinishCases, DieCases DEF Ends, Moves, Idle
<1>8. ASSUME NEW l \in Leads, NEW w \in Workers, Unassign(l, w) PROVE MarkOk'
  BY <1>0, <1>1, <1>6, <1>8, UnassignCases
<1>9. ASSUME NEW l \in Leads, NEW i \in Ids, NEW j \in Ids, Block(l, i, j) PROVE MarkOk'
  BY <1>0, <1>1, <1>6, <1>9, BlockCases
<1>10. ASSUME NEW a \in Actors PROVE broken' = broken \cup Overlap(a) =>
                Overlap(a) = {} /\ broken' = broken
  BY <1>10 DEF Overlap
<1>11. ASSUME NEW l \in Leads, Create(l) PROVE MarkOk'
  <2>1. /\ Only(l) /\ UNCHANGED <<file, mark, used>> /\ Overlap(l) = {} /\ broken' = broken
        /\ op'[l].do = "create" /\ op'[l].at = "scan" /\ op'[l].todo = {"names", "mark"}
    BY <1>1, <1>10, <1>11, SetMeans DEF Create, Only, Types
  <2> QED BY <1>0, <1>1, <2>1, MarkEntered DEF Numbered
<1>12. ASSUME NEW l \in Leads, NEW i \in Ids, Delete(l, i) PROVE MarkOk'
  <2> DEFINE at == IF i > mark THEN "mark" ELSE "unlink"
  <2>1. /\ Only(l) /\ UNCHANGED <<file, mark, used>> /\ Overlap(l) = {} /\ broken' = broken
        /\ op'[l] = [do |-> "delete", at |-> at, id |-> i]
    BY <1>1, <1>10, <1>12, SetMeans DEF Delete, Only, Types
  <2>2. op'[l].do = "delete" /\ op'[l].at = at /\ op'[l].id = i /\ i \in Nat
    BY <2>1 DEF Ids
  <2> QED BY <1>0, <1>1, <2>1, <2>2, MarkEntered DEF Numbered
<1>13. ASSUME NEW d \in Display, Reset(d) PROVE MarkOk'
  <2>1. /\ Only(d) /\ UNCHANGED <<file, mark, used>> /\ Overlap(d) = {} /\ broken' = broken
        /\ op'[d].do = "reset" /\ op'[d].at = "mark"
    BY <1>1, <1>10, <1>13, ResetCases DEF Reset, Aside
  <2> QED BY <1>0, <1>1, <2>1, MarkEntered DEF Numbered
<1>14. ASSUME NEW d \in Display, Verify(d) PROVE MarkOk'
  <2>1. Only(d) /\ op'[d].at = "reset" /\ UNCHANGED <<file, mark, used, broken>>
    BY <1>1, <1>14, SetMeans DEF Verify, Only, Types
  <2> QED BY <1>0, <1>1, <2>1, MarkKept DEF Numbering, Exists
<1>15. ASSUME NEW l \in Leads, Scan(l) PROVE MarkOk'
  <2> DEFINE seen(what) == IF what = "mark" THEN mark ELSE HighestOf({i \in Ids : Exists(i)})
  <2>1. PICK what \in op[l].todo : 
                /\ op[l].do = "create" /\ op[l].at = "scan" /\ op[l].high \in Nat
                /\ what \in {"names", "mark"} /\ seen(what) \in Nat
                /\ Only(l)
                /\ op'[l].do = "create" /\ op'[l].at = "scan"
                /\ op'[l].todo = op[l].todo \ {what}
                /\ op'[l].high = HighestOf({op[l].high, seen(what)})
    BY <1>15, ScanCases
  <2>2. UNCHANGED <<file, mark, used, broken>>
    BY <1>15 DEF Scan
  <2>3. op'[l].high \in Nat /\ op'[l].high >= op[l].high /\ op'[l].high >= seen(what)
    <3> HIDE DEF seen
    <3> QED BY <2>1, HighestOfTwo
  <2>4. what = "names" => \A i \in used : i <= seen(what) \/ i <= mark
    <3>1. \A i \in {k \in Ids : Exists(k)} : i <= HighestOf({k \in Ids : Exists(k)})
      BY HighestOfIds
    <3> QED BY <1>0, <3>1 DEF MarkOk
  <2>5. Numbered(l)
    BY <1>0, <1>1 DEF MarkOk
  <2>6. Numbered(l)'
    BY <1>0, <2>1, <2>2, <2>3, <2>4, <2>5 DEF Numbered, Ids
  <2> QED BY <1>0, <1>1, <2>1, <2>2, <2>6, MarkMoved DEF MarkOk, Exists, Numbering
<1>16. ASSUME NEW l \in Leads, Number(l) PROVE MarkOk'
  <2>1. op[l].at = "scan" /\ op[l].todo = {} /\ op[l].high \in Nat /\ Only(l) /\ UNCHANGED mark
    BY <1>1, <1>16, NumberCases, UpdateTypes DEF Number, Types, Aside
  <2>2. CASE op'[l] = Idle /\ UNCHANGED <<file, used, broken>>
    BY <1>0, <1>1, <1>6, <2>1, <2>2 DEF Idle
  <2>3. ASSUME NEW i \in Ids, file' = [file EXCEPT ![i] = NewTask], used' = used \cup {i},
               broken' = IF i \in used THEN broken \cup {"reuse"} ELSE broken,
               i = op[l].high + 1, op'[l].at = "fill"
        PROVE  MarkOk'
    <3>1. Numbered(l)
      BY <1>0, <1>1 DEF MarkOk
    <3>2. i \notin used
      BY <1>0, <2>1, <2>3, <3>1 DEF Numbered, Ids
    <3>3. \A j \in used' : file'[j] # None \/ j <= mark'
      BY <1>0, <2>1, <2>3, Distinct DEF MarkOk, Exists, Types, FileTypes
    <3>4. Numbered(l)'
      BY <2>3 DEF Numbered
    <3> QED BY <1>0, <1>1, <2>1, <2>3, <3>2, <3>3, <3>4, MarkMoved DEF Numbering
  <2> QED BY <1>16, <2>2, <2>3, NumberCases
<1>17. ASSUME NEW l \in Leads, Created(l) PROVE MarkOk'
  <2>1. Only(l) /\ op'[l].at = "idle" /\ UNCHANGED <<mark, used, broken>>
    BY <1>17, CreatedCases DEF Aside, Idle
  <2>2. \A i \in used : Exists(i) => file'[i] # None
    BY <1>0, <1>4, <1>17, CreatedCases DEF Exists, Types, FileTypes
  <2> QED BY <1>0, <1>1, <2>1, <2>2, MarkKept DEF Numbering
<1>18. ASSUME NEW l \in Leads, RaiseMark(l) PROVE MarkOk'
  <2>1. /\ Only(l) /\ op[l].do = "delete" /\ op[l].at = "mark" /\ op[l].id \in Ids
        /\ op'[l].do = "delete" /\ op'[l].at = "unlink" /\ op'[l].id = op[l].id
        /\ mark' = op[l].id /\ UNCHANGED <<file, used, broken>>
    BY <1>18, MarkCases DEF Aside
  <2>2. op[l].id > mark
    BY <1>0, <1>1, <2>1 DEF MarkOk, Numbered
  <2>3. Numbered(l)'
    BY <2>1 DEF Numbered, Ids
  <2>4. \A i \in used' : file'[i] # None \/ i <= mark'
    <3> SUFFICES ASSUME NEW i \in used, file[i] = None PROVE i <= mark'
      BY <2>1
    <3>1. i <= mark /\ i \in Nat /\ op[l].id \in Nat
      BY <1>0, <2>1 DEF MarkOk, Exists, Ids
    <3> QED BY <1>0, <2>1, <2>2, <3>1
  <2> QED BY <1>0, <1>1, <2>1, <2>3, <2>4, MarkMoved DEF Numbering
<1>19. ASSUME NEW l \in Leads, Unlink(l) PROVE MarkOk'
  <2>1. /\ Only(l) /\ op[l].do = "delete" /\ op[l].at = "unlink" /\ op[l].id \in Ids
        /\ op'[l].at \in {"idle", "lock"}
        /\ file' = [file EXCEPT ![op[l].id] = None] /\ UNCHANGED <<mark, used, broken>>
    BY <1>19, UnlinkCases DEF Ends, Idle
  <2>2. op[l].id <= mark
    BY <1>0, <1>1, <2>1 DEF MarkOk, Numbered
  <2>3. Numbered(l)'
    BY <2>1 DEF Numbered
  <2>4. \A i \in used' : file'[i] # None \/ i <= mark'
    BY <1>0, <2>1, <2>2 DEF MarkOk, Exists, Types, FileTypes
  <2> QED BY <1>0, <1>1, <2>1, <2>3, <2>4, MarkMoved DEF Numbering
<1>20. ASSUME NEW d \in Display, SaveMark(d) PROVE MarkOk'
  <2>1. /\ Only(d) /\ op[d].at = "mark" /\ op'[d].at = "clear" /\ op'[d].do = "reset"
        /\ mark' = HighestOf({mark} \cup {i \in Ids : Exists(i)})
             /\ UNCHANGED <<file, used, broken>>
    BY <1>20, ResetCases DEF Aside, SaveMark
  <2>2. mark' \in Nat /\ mark' >= mark /\ \A i \in {k \in Ids : Exists(k)} : i <= mark'
    BY <1>0, <2>1, HighestOfMarked
  <2>3. \A i \in used : i <= mark'
    BY <1>0, <2>2 DEF MarkOk, Ids
  <2>4. Numbered(d)'
    BY <2>1, <2>3 DEF Numbered
  <2> QED BY <1>0, <1>1, <2>1, <2>3, <2>4, MarkMoved DEF Numbering
<1>21. ASSUME NEW d \in Display, Clear(d) PROVE MarkOk'
  <2>1. /\ Only(d) /\ op[d].at = "clear" /\ op'[d].at = "idle" /\ UNCHANGED <<mark, used>>
        /\ "reuse" \notin broken'
    BY <1>0, <1>21, ClearCases DEF Aside, Idle
  <2>2. \A i \in used : i <= mark
    BY <1>0, <1>1, <2>1 DEF MarkOk, Numbered
  <2>3. Numbered(d)'
    BY <2>1 DEF Numbered
  <2> QED BY <1>0, <1>1, <2>1, <2>2, <2>3, MarkMoved DEF Numbering
<1>22. CASE UNCHANGED vars
  BY <1>0, <1>22 DEF vars, MarkOk, Alone, Numbered, Numbering, Exists
<1> QED
  BY <1>2, <1>3, <1>5, <1>7, <1>8, <1>9, <1>11, <1>12, <1>13, <1>14, <1>15, <1>16, <1>17, <1>18,
     <1>19, <1>20, <1>21, <1>22 DEF Next

----------------------------------------------------------------------------
(* A task is held by one worker. The invariant follows the owner in the     *)
(* file from the check of a claim to the release.                           *)

\* The workers claim under different names.
OwnNames ==
  /\ \A w \in Workers : AgentId[w] # None
  /\ \A w, v \in Workers : AgentId[w] = AgentId[v] => w = v

(* One process at a time takes the tasks of dead workers away. Two of them  *)
(* may each have picked the task of a dead worker, and the second takes it  *)
(* from the worker that claimed it after the first.                         *)
OneLead == \A l, m \in Leads : l = m

\* The owner that the update of a writes.
OwnerAfter(a) ==
  CASE op[a].do = "claim" -> AgentId[a]
    [] op[a].do \in {"release", "unassign"} -> None
    [] OTHER -> op[a].copy.owner

\* w has found the task claimable and has not yet been told so.
Passed(w, i) == op[w].do = "claim" /\ op[w].at \in {"read", "write", "fill"} /\ op[w].id = i

\* w has written that the task has no owner, and is about to let it go.
Releasing(w) == op[w].do = "release" /\ op[w].at = "fill"

\* What a worker is at fits what it holds.
OwnOk ==
  \A w \in Workers :
    /\ op[w].do \in WorkerKinds => op[w].todo = {}
    /\ op[w].do \in {"start", "finish", "release"} => holds[w] = op[w].id
    /\ op[w].do = "claim" => holds[w] = None
    /\ w \in dead => op[w] = Idle /\ holds[w] = None

(* The copy an update has read, and the task it has written, have the owner *)
(* of the file: nobody else writes it under the lock, and the same id is no *)
(* other task.                                                              *)
CopyOk ==
  \A a \in Actors : Updates(a) /\ Exists(op[a].id) =>
    /\ op[a].at = "write" => file[op[a].id].owner = op[a].copy.owner
    /\ op[a].at = "fill" => file[op[a].id].owner = OwnerAfter(a)

\* The file of a held task names its holder, and so does every copy of it.
HolderOk ==
  \A w \in Workers, i \in Ids : holds[w] = i =>
    /\ Exists(i) => file[i].owner = AgentId[w] \/ Releasing(w)
    /\ \A a \in Actors : Updates(a) /\ op[a].at = "write" /\ op[a].id = i =>
         op[a].copy.owner = AgentId[w]
    /\ \A v \in Workers : holds[v] = i => v = w

(* A task that has passed the check is held by nobody, and until it is      *)
(* written its file has no other owner.                                     *)
PassedOk ==
  \A v \in Workers, i \in Ids : Passed(v, i) =>
    /\ \A w \in Workers : holds[w] # i
    /\ op[v].at \in {"read", "write"} /\ Exists(i) =>
         file[i].whole /\ file[i].owner \in {None, AgentId[v]}

\* The task is held by no worker and has passed no check.
Orphan(j) == \A w \in Workers : holds[w] # j /\ ~ Passed(w, j)

\* Besides, the owner its file names is dead.
Left(j) == Orphan(j) /\ (Exists(j) => \E d \in dead : file[j].owner = AgentId[d])

(* The tasks that are still to be taken away from a dead worker are that    *)
(* worker's.                                                                *)
UnassignOk ==
  \A l \in Leads : op[l].do = "unassign" =>
    /\ \A n \in op[l].todo : n.id # op[l].id /\ Left(n.id)
    /\ \A n, m \in op[l].todo : n.id = m.id => n = m
    /\ Orphan(op[l].id)
    /\ op[l].at # "fill" => Left(op[l].id)

Claim == OwnOk /\ CopyOk /\ HolderOk /\ PassedOk /\ UnassignOk

ClaimInv == "reuse" \notin broken => Claim

\* What the lemmas about single actions assume.
Ctx == Types /\ Locked /\ UsedInv /\ Claim

\* The file is gone, or as it was for all that claims look at.
KeptFile(i) ==
  file'[i] # None =>
    Exists(i) /\ file'[i].owner = file[i].owner /\ (file[i].whole => file'[i].whole)

\* Updated writes the owner that OwnerAfter says.
LEMMA UpdatedOwner ==
  ASSUME Types, NEW a \in Actors, Ongoing(a), op[a] \in UpdateOp(WorkerKinds \cup LeadKinds),
         op[a].copy \in Task
  PROVE  Updated(a, op[a]).owner = OwnerAfter(a)
BY DEF Updated, OwnerAfter, Task, UpdateOp, WorkerKinds, LeadKinds

\* An update that finds no file keeps the invariant.
LEMMA LeaveClaim ==
  ASSUME Ctx, OwnNames, NEW a \in Actors, Ongoing(a), op[a].at \in {"lock", "read"}, Only(a),
         Ends(a) \/ Follows(a), Lets(a), UNCHANGED <<file, dead>>
  PROVE Claim'
<1>1. a \in Workers => Ends(a)
  BY Ground DEF Ctx, Claim, OwnOk, Follows, Ongoing
<1>2. op'[a].at \in {"idle", "lock"} /\ (Updates(a)' => Follows(a) /\ a \in Leads /\ op'[a].do = op[a].do)
  BY <1>1 DEF Ends, Follows, Ongoing, Updates, Idle, WorkerKinds, LeadKinds
<1>3. /\ \A w \in Workers : holds'[w] \in {holds[w], None}
      /\ \A w \in Workers \ {a} : holds'[w] = holds[w]
      /\ a \in Workers => op'[a] = Idle
  BY Ground, <1>1, Distinct DEF Lets, Ctx, Ongoing, Ends
<1>4. OwnOk'
  BY Ground, <1>1, <1>2, <1>3 DEF Ctx, Claim, OwnOk, Only, Idle, WorkerKinds, Ongoing, Updates
<1>5. CopyOk'
  BY Ground, <1>2, <1>3 DEF Ctx, Claim, CopyOk, Only, Updates, Exists, OwnerAfter
<1>6. HolderOk'
  BY Ground, <1>2, <1>3 DEF Ctx, Claim, HolderOk, Only, Updates, Exists, Releasing
<1>7. PassedOk'
  BY Ground, <1>2, <1>3 DEF Ctx, Claim, PassedOk, Passed, Only, Updates, Exists, LeadKinds
<1>8. UnassignOk'
  <2>1. \A j : (Orphan(j) /\ j \in Ids => Orphan(j)') /\ (Left(j) /\ j \in Ids => Left(j)')
    BY Ground, <1>2, <1>3 DEF Ctx, Orphan, Left, Passed, Only, Exists
  <2> SUFFICES ASSUME NEW l \in Leads, op'[l].do = "unassign"
               PROVE  (/\ \A n \in op[l].todo : n.id # op[l].id /\ Left(n.id)
                       /\ \A n, m \in op[l].todo : n.id = m.id => n = m
                       /\ Orphan(op[l].id) /\ (op[l].at # "fill" => Left(op[l].id)))'
    BY DEF UnassignOk
  <2>2. op[l].do = "unassign" /\ (l # a => op'[l] = op[l]) /\ (l = a => Follows(a))
    BY Ground, <1>2 DEF Ctx, Only, Updates, LeadKinds
  <2>3. op[l].id \in Ids /\ \A n \in op[l].todo : n.id \in Ids
    BY <2>2, Ground, OngoingUpdate DEF Ctx, Updates, LeadKinds, Ongoing, Todo
  <2>4. /\ \A n \in op[l].todo : n.id # op[l].id /\ Left(n.id)
        /\ \A n, m \in op[l].todo : n.id = m.id => n = m
        /\ Orphan(op[l].id) /\ (op[l].at # "fill" => Left(op[l].id))
    BY <2>2 DEF Ctx, Claim, UnassignOk
  <2> QED BY <2>1, <2>2, <2>3, <2>4 DEF Follows, Left
<1> QED BY <1>4, <1>5, <1>6, <1>7, <1>8 DEF Claim

(* A claim that succeeds keeps the invariant: nobody holds the task, and    *)
(* its file, if there is one, names the claimer.                            *)
LEMMA ClaimedClaim ==
  ASSUME Ctx, OwnNames, NEW a \in Workers, Ongoing(a), op[a].do = "claim",
         op[a].at \in {"read", "fill"},
         Only(a), Claims(a), UNCHANGED dead,
         \A i \in Ids \ {op[a].id} : file'[i] = file[i],
         file'[op[a].id] # None => Exists(op[a].id) /\ file'[op[a].id].owner = AgentId[a]
  PROVE  Claim'
<1>1. /\ a \in Actors /\ op[a].id \in Ids /\ holds[a] = None /\ LocksOp(op[a]) /\ a \notin Leads
      /\ Passed(a, op[a].id)
  BY Ground, Distinct DEF Ctx, Ongoing, Claim, OwnOk, LocksOp, Holding, Updates, Passed
<1>2. /\ op'[a].at = "lock" /\ op'[a].do \in {"start", "release"} /\ op'[a].id = op[a].id
      /\ op'[a].todo = {} /\ holds' = [holds EXCEPT ![a] = op[a].id]
  BY DEF Claims
<1>3. \A w \in Workers : holds[w] # op[a].id
  BY <1>1 DEF Ctx, Claim, PassedOk
<1>4. \A b \in Actors \ {a} : ~ (LocksOp(op[b]) /\ op[b].id = op[a].id)
  BY <1>1, LocksAlone DEF Ctx
<1>5. OwnOk'
  BY Ground, <1>1, <1>2 DEF Ctx, Claim, OwnOk, Only, Idle, WorkerKinds
<1>6. CopyOk'
  BY Ground, <1>1, <1>2, <1>4
     DEF Ctx, Claim, CopyOk, Only, Updates, Exists, OwnerAfter, LocksOp, Holding
<1>7. HolderOk'
  BY Ground, <1>1, <1>2, <1>3, <1>4
     DEF Ctx, Claim, HolderOk, Only, Updates, Exists, Releasing, LocksOp, Holding
<1>8. PassedOk'
  BY Ground, <1>1, <1>2, <1>3, <1>4
     DEF Ctx, Claim, PassedOk, Passed, Only, Exists, LocksOp, Holding, WorkerKinds
<1>9. UnassignOk'
  <2>1. \A j \in Ids : Orphan(j) => j # op[a].id
    BY <1>1 DEF Orphan
  <2>2. \A j \in Ids : (Orphan(j) => Orphan(j)') /\ (Left(j) => Left(j)')
    BY Ground, <1>1, <1>2, <2>1 DEF Ctx, Orphan, Left, Passed, Only, Exists
  <2>3. \A l \in Leads : op'[l] = op[l]
    BY Ground, <1>1 DEF Ctx, Only
  <2>4. \A l \in Leads : op[l].do = "unassign" =>
          op[l].id \in Ids /\ \A n \in op[l].todo : n.id \in Ids
    BY Ground, OngoingUpdate DEF Ctx, Updates, LeadKinds, Ongoing, Todo
  <2> QED BY <2>2, <2>3, <2>4 DEF Ctx, Claim, UnassignOk
<1> QED BY <1>5, <1>6, <1>7, <1>8, <1>9 DEF Claim

(* So does a step of a lead or a display that leaves the owners in the      *)
(* files.                                                                   *)
LEMMA KeptClaim ==
  ASSUME Ctx, OwnNames, NEW a \in Actors, Only(a), UNCHANGED <<dead, holds>>,
         Updates(a)' => op'[a].at = "lock" /\ op'[a].do \in {"block", "unblock"},
         a \notin Workers,
         \A i \in used : KeptFile(i)
  PROVE  Claim'
<1> USE DEF KeptFile
<1>1. \A b \in Actors : Updates(b) => op[b].id \in used /\ \A n \in op[b].todo : n.id \in used
  BY DEF Ctx, UsedInv, UsedOp, Updates
<1>2. /\ \A w \in Workers : op'[w] = op[w]
      /\ \A w \in Workers : holds[w] # None => holds[w] \in used
  BY Ground DEF Ctx, Only, UsedInv
<1>3. OwnOk'
  BY <1>2 DEF Ctx, Claim, OwnOk
<1>4. CopyOk'
  BY <1>1 DEF Ctx, Claim, CopyOk, Only, Updates, Exists, OwnerAfter
<1>5. HolderOk'
  BY Ground, <1>1, <1>2 DEF Ctx, Claim, HolderOk, Only, Updates, Exists, Releasing
<1>6. PassedOk'
  <2>1. \A v \in Workers, i \in Ids : Passed(v, i) => i \in used
    BY Ground, <1>1 DEF Ctx, Passed, Updates, WorkerKinds
  <2> QED BY <1>2, <2>1 DEF Ctx, Claim, PassedOk, Passed, Exists
<1>7. UnassignOk'
  <2>1. \A j \in used : (Orphan(j) => Orphan(j)') /\ (Left(j) => Left(j)')
    BY <1>2 DEF Orphan, Left, Passed, Exists
  <2>2. \A l \in Leads : op'[l].do = "unassign" => op'[l] = op[l] /\ op[l].do = "unassign"
    BY Ground DEF Ctx, Only, Updates, LeadKinds
  <2>3. \A l \in Leads : op[l].do = "unassign" =>
          op[l].id \in used /\ \A n \in op[l].todo : n.id \in used
    BY Ground, <1>1 DEF Ctx, Updates, LeadKinds
  <2> QED BY <2>1, <2>2, <2>3 DEF Ctx, Claim, UnassignOk
<1> QED BY <1>3, <1>4, <1>5, <1>6, <1>7 DEF Claim

\* So does a worker that begins an update.
LEMMA StartClaim ==
  ASSUME Ctx, OwnNames, NEW w \in Workers, Only(w), UNCHANGED <<file, dead, holds>>, w \notin dead,
         op'[w].do \in {"claim", "finish"}, op'[w].at = "lock", op'[w].todo = {}, op[w] = Idle,
         op'[w].do = "claim" => holds[w] = None,
         op'[w].do = "finish" => holds[w] = op'[w].id
  PROVE Claim'
<1>1. w \in Actors
  BY Ground DEF Ctx
<1>2. OwnOk'
  BY Ground, <1>1 DEF Ctx, Claim, OwnOk, Only, WorkerKinds
<1>3. CopyOk'
  BY Ground DEF Ctx, Claim, CopyOk, Only, Updates, Exists, OwnerAfter
<1>4. HolderOk'
  BY Ground DEF Ctx, Claim, HolderOk, Only, Updates, Exists, Releasing, Idle
<1>5. PassedOk'
  BY Ground DEF Ctx, Claim, PassedOk, Passed, Only, Exists
<1>6. UnassignOk'
  <2>1. \A j : (Orphan(j) => Orphan(j)') /\ (Left(j) => Left(j)')
    BY Ground, <1>1 DEF Ctx, Orphan, Left, Passed, Only, Exists
  <2>2. \A l \in Leads : op'[l] = op[l]
    BY Ground, Distinct, <1>1 DEF Ctx, Only
  <2> QED BY <2>1, <2>2 DEF Ctx, Claim, UnassignOk
<1> QED BY <1>2, <1>3, <1>4, <1>5, <1>6 DEF Claim

\* So does a worker whose operation ends.
LEMMA StopClaim ==
  ASSUME Ctx, OwnNames, NEW w \in Workers, Only(w), op'[w] = Idle, UNCHANGED file,
         dead' = dead \/ (dead' = dead \cup {w} /\ holds'[w] = None),
         ~ Releasing(w) \/ holds'[w] = None,
         \A v \in Workers \ {w} : holds'[v] = holds[v], holds'[w] \in {holds[w], None}
  PROVE Claim'
<1>1. w \in Actors /\ (\A v \in Workers : holds'[v] \in {holds[v], None})
  BY Ground DEF Ctx
<1>2. OwnOk'
  BY Ground, <1>1 DEF Ctx, Claim, OwnOk, Only, WorkerKinds, Idle
<1>3. CopyOk'
  BY Ground, <1>1 DEF Ctx, Claim, CopyOk, Only, Updates, Exists, OwnerAfter, Idle
<1>4. HolderOk'
  <2>1. \A v \in Workers : Releasing(v) /\ holds'[v] # None => Releasing(v)'
    BY Ground DEF Ctx, Releasing, Only
  <2> QED BY Ground, <1>1, <2>1 DEF Ctx, Claim, HolderOk, Only, Updates, Exists, Idle
<1>5. PassedOk'
  BY Ground, <1>1 DEF Ctx, Claim, PassedOk, Passed, Only, Exists, Idle
<1>6. UnassignOk'
  <2>1. \A j \in Ids : (Orphan(j) => Orphan(j)') /\ (Left(j) => Left(j)')
    BY Ground, <1>1 DEF Ctx, Orphan, Left, Passed, Only, Exists, Idle
  <2>2. \A l \in Leads : op'[l] = op[l]
    BY Ground, Distinct, <1>1 DEF Ctx, Only
  <2>3. \A l \in Leads : op[l].do = "unassign" =>
          op[l].id \in Ids /\ \A n \in op[l].todo : n.id \in Ids
    BY Ground, OngoingUpdate DEF Ctx, Updates, LeadKinds, Ongoing, Todo
  <2> QED BY <2>1, <2>2, <2>3 DEF Ctx, Claim, UnassignOk
<1> QED BY <1>2, <1>3, <1>4, <1>5, <1>6 DEF Claim

\* Lock keeps the invariant.
LEMMA LockClaim ==
  ASSUME Ctx, OwnNames, NEW a \in Workers \cup Leads, Lock(a)
  PROVE Claim'
<1>1. /\ a \in Actors /\ Ongoing(a) /\ op[a].at = "lock" /\ Only(a) /\ UNCHANGED <<file, dead>>
  BY Ground, LockCases DEF Ctx
<1>2. CASE Moves(a, IF op[a].do = "claim" THEN "check" ELSE "read") /\ UNCHANGED holds
  <2>1. op'[a].at \in {"check", "read"} /\ (op'[a].at = "read" => op'[a].do # "claim")
        /\ op'[a].do = op[a].do /\ op'[a].id = op[a].id /\ op'[a].todo = op[a].todo
             /\ op'[a].copy = op[a].copy
    BY <1>2 DEF Moves
  <2>2. OwnOk'
    BY Ground, <1>1, <1>2, <2>1 DEF Ctx, Claim, OwnOk, Only, Idle
  <2>3. CopyOk'
    BY Ground, <1>1, <1>2, <2>1 DEF Ctx, Claim, CopyOk, Only, Updates, Exists, OwnerAfter
  <2>4. HolderOk'
    BY Ground, <1>1, <1>2, <2>1 DEF Ctx, Claim, HolderOk, Only, Updates, Exists, Releasing
  <2>5. PassedOk'
    BY Ground, <1>1, <1>2, <2>1 DEF Ctx, Claim, PassedOk, Passed, Only, Updates, Exists
  <2>6. UnassignOk'
    BY Ground, <1>1, <1>2, <2>1
       DEF Ctx, Claim, UnassignOk, Left, Orphan, Passed, Only, Updates, Exists
  <2> QED BY <2>2, <2>3, <2>4, <2>5, <2>6 DEF Claim
<1>3. CASE (Ends(a) \/ Follows(a)) /\ Lets(a)
  BY <1>1, <1>3, LeaveClaim DEF Ctx
<1> QED BY <1>2, <1>3, LockCases, Ground DEF Ctx

\* Read keeps the invariant: a holder that is releasing has the lock.
LEMMA ReadClaim ==
  ASSUME Ctx, OwnNames, NEW a \in Workers \cup Leads, Read(a)
  PROVE Claim'
<1>1. /\ a \in Actors /\ Ongoing(a) /\ op[a].at = "read" /\ Only(a) /\ UNCHANGED <<file, dead>>
  BY Ground, ReadCases DEF Ctx
<1>2. CASE /\ Readable(op[a].id)
           /\ op'[a].at = "write" /\ op'[a].do = op[a].do /\ op'[a].id = op[a].id
           /\ op'[a].todo = op[a].todo /\ op'[a].copy = file[op[a].id]
           /\ UNCHANGED <<taskLock, holds>>
  <2>1. LocksOp(op[a]) /\ Updates(a) /\ op[a].id \in Ids
    BY <1>1 DEF Ongoing, LocksOp, Updates, Holding
  <2>2. OwnOk'
    BY Ground, <1>1, <1>2, <2>1 DEF Ctx, Claim, OwnOk, Only, Idle
  <2>3. CopyOk'
    BY Ground, <1>1, <1>2, <2>1 DEF Ctx, Claim, CopyOk, Only, Updates, Exists, OwnerAfter
  <2>4. HolderOk'
    <3>1. ASSUME NEW w \in Workers, holds[w] = op[a].id, Releasing(w) PROVE FALSE
      <4>1. op[w].id = op[a].id /\ LocksOp(op[w]) /\ w \in Actors
        BY Ground, <3>1 DEF Ctx, Claim, OwnOk, Releasing, LocksOp, WorkerKinds, Holding
      <4>2. w = a
        BY <1>1, <2>1, <4>1, LocksAlone DEF Ctx
      <4> QED BY <1>1, <3>1, <4>2 DEF Releasing
    <3>2. \A w \in Workers : holds[w] = op[a].id => file[op[a].id].owner = AgentId[w]
      BY <1>2, <2>1, <3>1 DEF Ctx, Claim, HolderOk, Readable
    <3>3. \A w \in Workers : Releasing(w) => Releasing(w)'
      BY Ground, <1>1 DEF Ctx, Releasing, Only
    <3> QED BY Ground, <1>1, <1>2, <2>1, <3>2, <3>3 DEF Ctx, Claim, HolderOk, Only, Updates, Exists
  <2>5. PassedOk'
    BY Ground, <1>1, <1>2, <2>1 DEF Ctx, Claim, PassedOk, Passed, Only, Updates, Exists
  <2>6. UnassignOk'
    BY Ground, <1>1, <1>2, <2>1
       DEF Ctx, Claim, UnassignOk, Left, Orphan, Passed, Only, Updates, Exists
  <2> QED BY <2>2, <2>3, <2>4, <2>5, <2>6 DEF Claim
<1>3. CASE /\ ~ Readable(op[a].id) /\ op[a].do = "claim" /\ Claims(a)
  <2>1. a \in Workers /\ op[a].id \in Ids
    BY <1>1, <1>3 DEF Ongoing, WorkerKinds
  <2>2. ~ Exists(op[a].id)
    BY <1>1, <1>3, <2>1 DEF Ctx, Claim, PassedOk, Passed, Readable
  <2>3. file'[op[a].id] = None
    BY <1>1, <2>2 DEF Exists
  <2> QED BY <1>1, <1>3, <2>1, <2>3, ClaimedClaim
<1>4. CASE (Ends(a) \/ Follows(a)) /\ Lets(a)
  BY <1>1, <1>4, LeaveClaim
<1> QED BY <1>2, <1>3, <1>4, ReadCases, Ground DEF Ctx

(* Write keeps the invariant: a worker writes a task it holds or has passed *)
(* the check of, a lead writes the owner it has read or takes an orphan     *)
(* away.                                                                    *)
LEMMA WriteClaim ==
  ASSUME Ctx, OwnNames, OneLead, NEW a \in Workers \cup Leads, Write(a)
  PROVE Claim'
<1>1. /\ a \in Actors /\ Ongoing(a) /\ op[a].at = "write" /\ Only(a) /\ UNCHANGED <<holds, dead>>
      /\ op'[a].at = "fill" /\ op'[a].do = op[a].do /\ op'[a].id = op[a].id
      /\ op'[a].todo = op[a].todo /\ op'[a].copy = op[a].copy
  BY Ground, WriteCases DEF Ctx, Moves
<1>2. /\ \A i \in Ids \ {op[a].id} : file'[i] = file[i]
      /\ file'[op[a].id] # None /\ file'[op[a].id].owner = OwnerAfter(a)
  BY <1>1, WriteCases, UpdatedOwner, OngoingUpdate DEF Ctx
<1>3. LocksOp(op[a]) /\ Updates(a) /\ op[a].id \in Ids
  BY <1>1 DEF Ongoing, LocksOp, Updates, Holding
<1>4. \A b \in Actors \ {a} : ~ (LocksOp(op[b]) /\ op[b].id = op[a].id)
  BY <1>1, <1>3, LocksAlone DEF Ctx
<1>5. OwnOk'
  BY Ground, <1>1, <1>3 DEF Ctx, Claim, OwnOk, Only, Idle
<1>6. CopyOk'
  <2>1. OwnerAfter(a)' = OwnerAfter(a)
    BY <1>1 DEF OwnerAfter
  <2>2. file'[op'[a].id].owner = OwnerAfter(a)'
    BY <1>1, <1>2, <2>1
  <2>3. \A b \in Actors \ {a} : Updates(b) /\ op[b].at \in {"write", "fill"} =>
          op[b].id \in Ids \ {op[a].id}
    BY Ground, <1>4 DEF Ctx, LocksOp, Updates, Holding
  <2> QED BY Ground, <1>1, <1>2, <2>2, <2>3
      DEF Ctx, Claim, CopyOk, Only, Updates, Exists, OwnerAfter
<1>7. HolderOk'
  <2>1. ASSUME NEW w \in Workers, holds[w] = op[a].id
        PROVE  OwnerAfter(a) = AgentId[w] \/ Releasing(w)'
    <3>1. CASE a \in Leads
      <4>1. op[a].do # "unassign"
        BY <2>1, <3>1 DEF Ctx, Claim, UnassignOk, Orphan
      <4> QED BY <1>1, <1>3, <2>1, <3>1, <4>1
          DEF Ctx, Claim, HolderOk, OwnerAfter, Ongoing, LeadKinds
    <3>2. CASE a \in Workers
      <4>1. op[a].do # "claim"
        BY <1>1, <1>3, <2>1, <3>2 DEF Ctx, Claim, PassedOk, Passed
      <4>2. holds[a] = op[a].id /\ op[a].do \in {"start", "finish", "release"}
        BY <1>1, <3>2, <4>1 DEF Ctx, Claim, OwnOk, Ongoing, WorkerKinds
      <4>3. w = a
        BY <1>3, <2>1, <3>2, <4>2 DEF Ctx, Claim, HolderOk
      <4> QED BY <1>1, <1>3, <2>1, <4>2, <4>3 DEF Ctx, Claim, HolderOk, OwnerAfter, Releasing
    <3> QED BY <3>1, <3>2
  <2>2. \A w \in Workers : Releasing(w) => Releasing(w)'
    BY Ground, <1>1 DEF Ctx, Releasing, Only
  <2> QED BY Ground, <1>1, <1>2, <1>3, <2>1, <2>2 DEF Ctx, Claim, HolderOk, Only, Updates, Exists
<1>8. PassedOk'
  <2>1. \A v \in Workers \ {a}, i \in Ids : Passed(v, i) => i # op[a].id
    BY Ground, <1>4 DEF Ctx, Passed, LocksOp, Holding, WorkerKinds
  <2>2. \A v \in Workers, i \in Ids : Passed(v, i)' => Passed(v, i)
    BY Ground, <1>1 DEF Ctx, Passed, Only
  <2> QED BY Ground, <1>1, <1>2, <2>1, <2>2 DEF Ctx, Claim, PassedOk, Passed, Only, Exists
<1>9. UnassignOk'
  <2>1. \A j \in Ids : Orphan(j) => Orphan(j)'
    BY Ground, <1>1 DEF Ctx, Orphan, Passed, Only
  <2>2. \A j \in Ids : Left(j) /\ j # op[a].id => Left(j)'
    BY <1>1, <1>2, <2>1 DEF Left, Exists
  <2>3. CASE a \in Workers
    <3>1. holds[a] = op[a].id \/ Passed(a, op[a].id)
      BY <1>1, <2>3 DEF Ctx, Claim, OwnOk, Ongoing, WorkerKinds, Passed
    <3>2. \A j \in Ids : Left(j) => Left(j)'
      BY <1>1, <2>2, <2>3, <3>1 DEF Left, Orphan
    <3>3. \A l \in Leads : op'[l] = op[l]
      BY Ground, Distinct, <1>1, <2>3 DEF Ctx, Only
    <3>4. \A l \in Leads : op[l].do = "unassign" =>
            op[l].id \in Ids /\ \A n \in op[l].todo : n.id \in Ids
      BY Ground, OngoingUpdate DEF Ctx, Updates, LeadKinds, Ongoing, Todo
    <3> QED BY <2>1, <3>2, <3>3, <3>4 DEF Ctx, Claim, UnassignOk
  <2>4. CASE a \in Leads
    <3>1. \A l \in Leads : l = a
      BY <2>4 DEF OneLead
    <3>2. op[a].id \in Ids /\ \A n \in op[a].todo : n.id \in Ids
      BY <1>1 DEF Ongoing, Todo
    <3> QED BY <1>1, <2>1, <2>2, <3>1, <3>2 DEF Ctx, Claim, UnassignOk
  <2> QED BY <2>3, <2>4
<1> QED BY <1>5, <1>6, <1>7, <1>8, <1>9 DEF Claim

\* Fill keeps the invariant.
LEMMA FillClaim ==
  ASSUME Ctx, OwnNames, NEW a \in Workers \cup Leads, Fill(a)
  PROVE Claim'
<1>1. /\ a \in Actors /\ Ongoing(a) /\ op[a].at = "fill" /\ Only(a) /\ UNCHANGED dead
      /\ file' = [file EXCEPT ![op[a].id] = Filled(op[a].id)] /\ op[a].id \in Ids
  BY Ground, FillCases DEF Ctx, Ongoing
<1>2. /\ \A i \in Ids \ {op[a].id} : file'[i] = file[i]
      /\ \A i \in Ids : file'[i] # None =>
           Exists(i) /\ file'[i].owner = file[i].owner /\ (file[i].whole => file'[i].whole)
  <2>1. ASSUME Exists(op[a].id)
        PROVE  Filled(op[a].id).owner = file[op[a].id].owner /\ Filled(op[a].id).whole
    BY Ground, <1>1, <2>1 DEF Filled, Exists, Task, Ctx
  <2>2. ~ Exists(op[a].id) => Filled(op[a].id) = None
    BY DEF Filled
  <2> QED BY Ground, <1>1, <2>1, <2>2 DEF Ctx, Exists
<1>3. LocksOp(op[a]) /\ Updates(a)
  BY <1>1 DEF Ongoing, LocksOp, Updates, Holding
<1>4. \A b \in Actors \ {a} : ~ (LocksOp(op[b]) /\ op[b].id = op[a].id)
  BY <1>1, <1>3, LocksAlone DEF Ctx
<1>5. CASE op[a].do = "claim" /\ Claims(a)
  <2>1. Exists(op[a].id) => file[op[a].id].owner = AgentId[a]
    BY <1>1, <1>3, <1>5 DEF Ctx, Claim, CopyOk, OwnerAfter
  <2>2. a \in Workers
    BY <1>1, <1>5 DEF Ongoing, WorkerKinds
  <2> QED BY <1>1, <1>2, <1>5, <2>1, <2>2, ClaimedClaim
<1>6. CASE /\ op[a].do # "claim" /\ (Ends(a) \/ Follows(a))
           /\ holds' = [holds EXCEPT ![a] = None] \/ holds' = holds
           /\ op[a].do \in {"finish", "release"} => holds' = [holds EXCEPT ![a] = None]
  <2>1. a \in Workers => op'[a] = Idle
    BY <1>1, <1>6 DEF Ctx, Claim, OwnOk, Follows, Ends, Ongoing
  <2>2. op'[a].at \in {"idle", "lock"} /\ (Updates(a)' => Follows(a) /\ a \in Leads /\ op'[a].do = op[a].do)
    BY <1>1, <1>6, <2>1 DEF Ends, Follows, Ongoing, Updates, Idle, WorkerKinds, LeadKinds
  <2>3. /\ \A w \in Workers : holds'[w] \in {holds[w], None}
        /\ \A w \in Workers \ {a} : holds'[w] = holds[w]
    BY Ground, <1>6 DEF Ctx
  <2>4. OwnOk'
    BY Ground, <1>1, <2>1, <2>2, <2>3
       DEF Ctx, Claim, OwnOk, Only, Idle, WorkerKinds, Ongoing, Updates
  <2>5. CopyOk'
    BY Ground, <1>1, <1>2, <2>2 DEF Ctx, Claim, CopyOk, Only, Updates, Exists, OwnerAfter
  <2>6. HolderOk'
    <3>1. \A w \in Workers : Releasing(w) /\ holds'[w] # None => Releasing(w)'
      BY Ground, <1>1, <1>6 DEF Ctx, Releasing, Only
    <3> QED BY Ground, <1>1, <1>2, <2>2, <2>3, <3>1 DEF Ctx, Claim, HolderOk, Only, Updates, Exists
  <2>7. PassedOk'
    BY Ground, <1>1, <1>2, <2>2, <2>3
       DEF Ctx, Claim, PassedOk, Passed, Only, Updates, Exists, LeadKinds
  <2>8. UnassignOk'
    <3>1. \A j \in Ids : (Orphan(j) => Orphan(j)') /\ (Left(j) => Left(j)')
      BY Ground, <1>1, <1>2, <2>2, <2>3 DEF Ctx, Orphan, Left, Passed, Only, Exists
    <3> SUFFICES ASSUME NEW l \in Leads, op'[l].do = "unassign"
                 PROVE  (/\ \A n \in op[l].todo : n.id # op[l].id /\ Left(n.id)
                         /\ \A n, m \in op[l].todo : n.id = m.id => n = m
                         /\ Orphan(op[l].id) /\ (op[l].at # "fill" => Left(op[l].id)))'
      BY DEF UnassignOk
    <3>2. op[l].do = "unassign" /\ (l # a => op'[l] = op[l]) /\ (l = a => Follows(a))
      BY Ground, <1>1, <2>2 DEF Ctx, Only, Updates, LeadKinds
    <3>3. op[l].id \in Ids /\ \A n \in op[l].todo : n.id \in Ids
      BY <3>2, Ground, OngoingUpdate DEF Ctx, Updates, LeadKinds, Ongoing, Todo
    <3>4. /\ \A n \in op[l].todo : n.id # op[l].id /\ Left(n.id)
          /\ \A n, m \in op[l].todo : n.id = m.id => n = m
          /\ Orphan(op[l].id) /\ (op[l].at # "fill" => Left(op[l].id))
      BY <3>2 DEF Ctx, Claim, UnassignOk
    <3> QED BY <3>1, <3>2, <3>3, <3>4 DEF Follows, Left
  <2> QED BY <2>4, <2>5, <2>6, <2>7, <2>8 DEF Claim
<1> QED BY <1>5, <1>6, FillCases, Ground DEF Ctx

(* Check keeps the invariant: a task that is held or about to be taken from *)
(* a dead worker names an owner that is not the claimer, and one that is    *)
(* being released or unassigned is locked.                                  *)
LEMMA CheckClaim ==
  ASSUME Ctx, OwnNames, NEW w \in Workers, Check(w)
  PROVE Claim'
<1>1. w \in Actors /\ Ongoing(w) /\ op[w].at = "check" /\ Only(w)
        /\ UNCHANGED <<file, dead, holds>> /\ op[w].id \in Ids
  BY Ground, CheckCases DEF Ctx, Ongoing
<1>2. CASE Claimable(w, op[w].id) /\ Moves(w, "read")
  <2>1. LocksOp(op[w]) /\ Updates(w)
    BY <1>1 DEF Ongoing, LocksOp, Updates, Holding
  <2>2. op'[w].at = "read" /\ op'[w].do = op[w].do /\ op'[w].id = op[w].id
          /\ op'[w].todo = op[w].todo /\ op'[w].copy = op[w].copy
    BY <1>2 DEF Moves
  <2>3. Exists(op[w].id) /\ file[op[w].id].whole /\ file[op[w].id].owner \in {None, AgentId[w]}
          /\ w \notin dead
    BY <1>1, <1>2 DEF Claimable, Readable, Ctx, Claim, OwnOk, Idle
  <2>4. OwnOk'
    BY Ground, <1>1, <2>2 DEF Ctx, Claim, OwnOk, Only, Idle
  <2>5. CopyOk'
    BY Ground, <1>1, <2>2 DEF Ctx, Claim, CopyOk, Only, Updates, Exists, OwnerAfter
  <2>6. HolderOk'
    BY Ground, <1>1, <2>2 DEF Ctx, Claim, HolderOk, Only, Updates, Exists, Releasing
  <2>7. \A v \in Workers : op[w].do = "claim" => holds[v] # op[w].id
    <3> SUFFICES ASSUME NEW v \in Workers, op[w].do = "claim", holds[v] = op[w].id PROVE FALSE
      OBVIOUS
    <3>1. v # w
      BY Ground, <1>1 DEF Ctx, Claim, OwnOk
    <3>2. Releasing(v)
      BY <1>1, <2>3, <3>1 DEF Ctx, Claim, HolderOk, OwnNames
    <3>3. LocksOp(op[v]) /\ op[v].id = op[w].id /\ v \in Actors
      BY Ground, <3>2 DEF Ctx, Claim, OwnOk, Releasing, LocksOp, WorkerKinds, Holding
    <3> QED BY <1>1, <2>1, <3>1, <3>3, LocksAlone DEF Ctx
  <2>8. PassedOk'
    BY Ground, <1>1, <2>2, <2>3, <2>7 DEF Ctx, Claim, PassedOk, Passed, Only, Exists
  <2>9. UnassignOk'
    <3>1. \A j \in Ids : Left(j) => j # op[w].id
      BY Ground, <1>1, <2>3 DEF Left, OwnNames, Ctx
    <3>2. \A j \in Ids : (Orphan(j) /\ j # op[w].id => Orphan(j)') /\ (Left(j) => Left(j)')
      BY Ground, <1>1, <2>2, <3>1 DEF Ctx, Orphan, Left, Passed, Only, Exists
    <3>3. \A l \in Leads : op'[l] = op[l]
      BY Ground, Distinct, <1>1 DEF Ctx, Only
    <3>4. \A l \in Leads : op[l].do = "unassign" =>
             op[l].id \in Ids /\ op[l].id # op[w].id /\ \A n \in op[l].todo : n.id \in Ids
      <4> SUFFICES ASSUME NEW l \in Leads, op[l].do = "unassign"
                   PROVE  op[l].id \in Ids /\ op[l].id # op[w].id
                            /\ \A n \in op[l].todo : n.id \in Ids
        OBVIOUS
      <4>1. op[l].id \in Ids /\ (\A n \in op[l].todo : n.id \in Ids) /\ Updates(l)
              /\ l \in Actors /\ l # w
        BY Ground, Distinct, OngoingUpdate DEF Ctx, Updates, LeadKinds, Ongoing, Todo
      <4>2. CASE op[l].at = "fill"
        BY <1>1, <2>1, <4>1, <4>2, LocksAlone DEF Ctx, LocksOp, Updates, Holding
      <4>3. CASE op[l].at # "fill"
        BY <3>1, <4>1, <4>3 DEF Ctx, Claim, UnassignOk
      <4> QED BY <4>1, <4>2, <4>3
    <3> QED BY <3>2, <3>3, <3>4 DEF Ctx, Claim, UnassignOk
  <2> QED BY <2>4, <2>5, <2>6, <2>8, <2>9 DEF Claim
<1>3. CASE Ends(w)
  BY <1>1, <1>3, StopClaim, Ground DEF Ctx, Ends, Releasing
<1> QED BY <1>2, <1>3, CheckCases DEF Ctx

(* Unassign keeps the invariant: a task that names a dead worker is held by *)
(* nobody.                                                                  *)
LEMMA UnassignClaim ==
  ASSUME Ctx, OwnNames, NEW l \in Leads, NEW w \in Workers, Unassign(l, w)
  PROVE Claim'
<1> DEFINE theirs == {i \in Unresolved : file[i].owner = AgentId[w]}
<1>1. PICK i \in theirs :
                /\ Only(l) /\ op'[l].do = "unassign" /\ op'[l].at = "lock" /\ op'[l].id = i
                /\ op'[l].todo = {[id |-> j, blockers |-> {}] : j \in theirs \ {i}}
                /\ w \in dead /\ op[l] = Idle
                /\ UNCHANGED <<file, mark, taskLock, listLock, dead, holds, used, broken>>
  BY UnassignCases DEF Ctx
<1>2. l \in Actors /\ l \notin Workers
  BY Ground, Distinct DEF Ctx
<1>3. \A j \in theirs : j \in Ids /\ Left(j)
  <2> SUFFICES ASSUME NEW j \in theirs PROVE j \in Ids /\ Left(j)
    OBVIOUS
  <2>1. j \in Ids /\ Exists(j) /\ file[j].owner = AgentId[w]
    BY DEF Unresolved, Listed, Readable
  <2>2. ASSUME NEW v \in Workers, holds[v] = j PROVE FALSE
    <3>1. v # w
      BY Ground, <1>1, <2>1, <2>2 DEF Ctx, Claim, OwnOk
    <3>2. Releasing(v)
      BY <2>1, <2>2, <3>1 DEF Ctx, Claim, HolderOk, OwnNames
    <3>3. op[v].id = j /\ Updates(v) /\ v \in Actors /\ OwnerAfter(v) = None
      BY Ground, <2>2, <3>2 DEF Ctx, Claim, OwnOk, Releasing, Updates, WorkerKinds, OwnerAfter
    <3>4. file[j].owner = None
      BY <2>1, <3>2, <3>3 DEF Ctx, Claim, CopyOk, Releasing
    <3> QED BY <2>1, <3>4 DEF OwnNames
  <2>3. ASSUME NEW v \in Workers, Passed(v, j) PROVE FALSE
    <3>1. v # w
      BY <1>1, <2>3 DEF Ctx, Claim, OwnOk, Passed, Idle
    <3>2. op[v].id = j /\ Updates(v) /\ v \in Actors
      BY Ground, <2>3 DEF Ctx, Passed, Updates, WorkerKinds
    <3>3. file[j].owner \in {None, AgentId[v]}
      <4>1. CASE op[v].at \in {"read", "write"}
        BY <2>1, <2>3, <4>1 DEF Ctx, Claim, PassedOk
      <4>2. CASE op[v].at = "fill"
        BY <2>1, <2>3, <3>2, <4>2 DEF Ctx, Claim, CopyOk, OwnerAfter, Passed
      <4> QED BY <2>3, <4>1, <4>2 DEF Passed
    <3> QED BY <2>1, <3>1, <3>3 DEF OwnNames
  <2> QED BY <1>1, <2>1, <2>2, <2>3 DEF Left, Orphan
<1>4. /\ \A n \in op'[l].todo : n.id \in theirs /\ n.id # i /\ n = [id |-> n.id, blockers |-> {}]
      /\ i \in theirs
  BY <1>1
<1> HIDE DEF theirs
<1>5. OwnOk'
  BY Ground, <1>1, <1>2 DEF Ctx, Claim, OwnOk, Only
<1>6. CopyOk'
  BY Ground, <1>1, <1>2 DEF Ctx, Claim, CopyOk, Only, Updates, Exists, OwnerAfter
<1>7. HolderOk'
  BY Ground, <1>1, <1>2 DEF Ctx, Claim, HolderOk, Only, Updates, Exists, Releasing
<1>8. PassedOk'
  BY Ground, <1>1, <1>2 DEF Ctx, Claim, PassedOk, Passed, Only, Exists
<1>9. UnassignOk'
  <2>1. \A j : (Orphan(j) => Orphan(j)') /\ (Left(j) => Left(j)')
    BY Ground, <1>1, <1>2 DEF Ctx, Orphan, Left, Passed, Only, Exists
  <2>2. \A m \in Leads \ {l} : op'[m] = op[m]
    BY Ground, <1>1 DEF Ctx, Only
  <2>3. /\ \A n \in op'[l].todo : n.id # op'[l].id /\ Left(n.id)'
        /\ \A n, m \in op'[l].todo : n.id = m.id => n = m
        /\ Orphan(i)' /\ Left(i)'
    BY <1>1, <1>3, <1>4, <2>1 DEF Left
  <2> QED BY <1>1, <2>1, <2>2, <2>3 DEF Ctx, Claim, UnassignOk
<1> QED BY <1>5, <1>6, <1>7, <1>8, <1>9 DEF Claim

\* Every step keeps a task with one holder.
LEMMA ClaimStep ==
  ASSUME Types, Locked, UsedInv, ClaimInv, OwnNames, OneLead, [Next]_vars
  PROVE ClaimInv'
<1> SUFFICES ASSUME "reuse" \notin broken' PROVE Claim'
  BY DEF ClaimInv
<1>0. Ctx
  <2>1. broken \subseteq broken'
    BY BrokenGrows
  <2> QED BY <2>1 DEF Ctx, ClaimInv
<1>1. ASSUME NEW a \in Workers \cup Leads, Lock(a) PROVE Claim'
  BY <1>0, <1>1, LockClaim
<1>2. ASSUME NEW a \in Workers \cup Leads, Read(a) PROVE Claim'
  BY <1>0, <1>2, ReadClaim
<1>3. ASSUME NEW a \in Workers \cup Leads, Write(a) PROVE Claim'
  BY <1>0, <1>3, WriteClaim
<1>4. ASSUME NEW a \in Workers \cup Leads, Fill(a) PROVE Claim'
  BY <1>0, <1>4, FillClaim
<1>5. ASSUME NEW w \in Workers, Look(w) PROVE Claim'
  BY <1>0, <1>5, LookCases, StartClaim
<1>6. ASSUME NEW w \in Workers, Check(w) PROVE Claim'
  BY <1>0, <1>6, CheckClaim
<1>7. ASSUME NEW w \in Workers, Finish(w) PROVE Claim'
  BY <1>0, <1>7, FinishCases, StartClaim
<1>8. ASSUME NEW w \in Workers, Die(w) PROVE Claim'
  <2>1. /\ Only(w) /\ op'[w] = Idle /\ dead' = dead \cup {w} /\ holds' = [holds EXCEPT ![w] = None]
        /\ UNCHANGED file
    BY <1>8, DieCases DEF Ends
  <2>2. holds'[w] = None /\ \A v \in Workers \ {w} : holds'[v] = holds[v]
    BY <1>0, <2>1, Ground DEF Ctx
  <2> QED BY <1>0, <2>1, <2>2, StopClaim
<1>9. ASSUME NEW l \in Leads, NEW w \in Workers, Unassign(l, w) PROVE Claim'
  BY <1>0, <1>9, UnassignClaim
<1>10. \A l \in Leads \cup Display : l \in Actors /\ l \notin Workers
  BY Ground, Distinct
<1>11. \A i \in Ids : Filled(i) # None =>
         Exists(i) /\ Filled(i).owner = file[i].owner /\ (file[i].whole => Filled(i).whole)
  <2> SUFFICES ASSUME NEW i \in Ids, Exists(i) 
               PROVE  Filled(i).owner = file[i].owner /\ Filled(i).whole
    BY DEF Filled
  <2>1. file[i] \in Task
    BY Ground DEF Exists
  <2> QED BY <2>1 DEF Filled, Task
<1>12. ASSUME NEW l \in Leads, NEW i \in Ids, NEW j \in Ids, Block(l, i, j) PROVE Claim'
  <2>1. \A k \in used : KeptFile(k)
    BY <1>12, BlockCases DEF KeptFile, Exists
  <2> QED BY <1>0, <1>10, <1>12, <2>1, BlockCases, KeptClaim
<1>13. ASSUME NEW l \in Leads, Unlink(l) PROVE Claim'
  <2>1. \A i \in used : KeptFile(i)
    BY <1>13, Ground, UnlinkCases DEF KeptFile, Exists, Types, FileTypes
  <2>2. Updates(l)' => op'[l].at = "lock" /\ op'[l].do \in {"block", "unblock"}
    <3>1. op'[l] = Idle \/ (op'[l].at = "lock" /\ op'[l].do = "unblock")
      BY <1>13, UnlinkCases DEF Ends
    <3> QED BY <3>1 DEF Idle, Updates, WorkerKinds, LeadKinds
  <2>3. Only(l) /\ UNCHANGED <<dead, holds>>
    BY <1>13, UnlinkCases
  <2> QED BY <1>0, <1>10, <2>1, <2>2, <2>3, KeptClaim
<1>14. ASSUME NEW a \in Leads \cup Display, Aside(a), \A i \in used : KeptFile(i) PROVE Claim'
  BY <1>0, <1>10, <1>14, KeptClaim DEF Aside
<1>15. ASSUME NEW l \in Leads, Number(l) PROVE Claim'
  <2>1. \A i \in used : file'[i] = file[i]
    BY <1>15, Ground, NumberCases DEF Types, FileTypes
  <2>2. Aside(l) /\ \A i \in used : KeptFile(i)
    BY <1>15, <2>1, NumberCases DEF KeptFile, Exists
  <2> QED BY <1>14, <2>2
<1>16. ASSUME NEW l \in Leads, Created(l) PROVE Claim'
  <2>1. \A i \in used : KeptFile(i)
    BY <1>11, <1>16, Ground, CreatedCases DEF KeptFile, Exists, Types, FileTypes
  <2> QED BY <1>14, <1>16, <2>1, CreatedCases
<1>17. ASSUME NEW d \in Display, Clear(d) PROVE Claim'
  <2>1. \A i \in used : KeptFile(i)
    BY <1>17, ClearCases DEF Types, FileTypes, KeptFile
  <2> QED BY <1>14, <1>17, <2>1, ClearCases
<1>19. ASSUME NEW a \in Leads \cup Display, Quiet(a) PROVE Claim'
  <2>1. Aside(a) /\ \A i \in used : KeptFile(i)
    BY <1>10, <1>19, QuietCases DEF KeptFile, Exists
  <2> QED BY <1>14, <2>1
<1>18. CASE UNCHANGED vars
  BY <1>0, <1>18
     DEF vars, Ctx, Claim, OwnOk, CopyOk, HolderOk, PassedOk, UnassignOk, Updates, Exists,
         OwnerAfter, Releasing, Passed, Orphan, Left
<1> QED
  BY <1>1, <1>2, <1>3, <1>4, <1>5, <1>6, <1>7, <1>8, <1>9, <1>12, <1>13, <1>15, <1>16, <1>17,
     <1>18, <1>19 DEF Next, Quiet

----------------------------------------------------------------------------
\* The theorems.

\* The initial state satisfies the invariants.
LEMMA InitInv ==
  ASSUME Init
  PROVE  Types /\ Locked /\ UsedInv /\ ClaimInv /\ IdInv
<1>1. /\ \A a \in Actors : op[a] = Idle /\ Idle.do = "idle" /\ Idle.at = "idle"
      /\ \A i \in Ids : file[i] = None
      /\ \A w \in Workers : holds[w] = None
      /\ used = {} /\ dead = {} /\ broken = {} /\ mark = 0
      /\ Workers \subseteq Actors /\ Leads \subseteq Actors
  BY DEF Init, Idle, Actors
<1>2. Types
  <2>1. FileTypes
    BY DEF Init, FileTypes
  <2>2. OpTypes
    BY <1>1 DEF Init, OpTypes, Actors, WorkerOp, LeadOp, DisplayOp
  <2> QED BY <2>1, <2>2 DEF Types
<1> HIDE DEF Actors
<1>3. \A a \in Actors : ~ Updates(a) /\ ~ Numbering(a)
  BY <1>1 DEF Updates, WorkerKinds, LeadKinds, Numbering
<1>4. Locked
  BY <1>1 DEF Locked, LocksOp, WorkerKinds, LeadKinds
<1>5. UsedInv
  BY <1>1 DEF UsedInv, UsedOp, Exists, WorkerKinds, LeadKinds
<1>6. Claim
  <2>1. OwnOk
    BY <1>1 DEF OwnOk, WorkerKinds
  <2>2. CopyOk
    BY <1>3 DEF CopyOk
  <2>3. HolderOk
    BY <1>1, Distinct DEF HolderOk
  <2>4. PassedOk
    BY <1>1 DEF PassedOk, Passed
  <2>5. UnassignOk
    BY <1>1 DEF UnassignOk
  <2> QED BY <2>1, <2>2, <2>3, <2>4, <2>5 DEF Claim
<1>7. MarkOk
  BY <1>1, <1>3 DEF MarkOk, Alone, Numbered, Numbering
<1> QED BY <1>2, <1>4, <1>5, <1>6, <1>7 DEF ClaimInv, IdInv

\* THEOREM. The variables of TaskList keep their types.
THEOREM TypeCorrect == Spec => []Types
<1>1. Init => Types
  BY InitInv
<1>2. Types /\ [Next]_vars => Types'
  BY TypesStep
<1> QED BY <1>1, <1>2, PTL DEF Spec

(* THEOREM. createTask never hands out an id twice, unless a deletion or a  *)
(* reset overlapped with another one or with a creation (IdsNotReused): the *)
(* highest of the names and the mark exceeds every id ever handed out.      *)
THEOREM IdsStayUnique == Spec => []IdsNotReused
<1>1. Init => IdInv
  BY InitInv
<1>2. Types /\ IdInv /\ [Next]_vars => IdInv'
  BY IdStep
<1>3. IdInv => IdsNotReused
  BY DEF IdInv, MarkOk, IdsNotReused
<1> QED BY <1>1, <1>2, <1>3, TypeCorrect, PTL DEF Spec

(* THEOREM. As long as no id was handed out twice, no two workers are told  *)
(* they have claimed the same task (ClaimedOnce), when the workers have     *)
(* names of their own and one lead takes the tasks of dead workers away.    *)
THEOREM OneHolder ==
  ASSUME OwnNames, OneLead
  PROVE  Spec => []ClaimedOnce
<1> DEFINE Inv == Types /\ Locked /\ UsedInv /\ ClaimInv
<1>1. Init => Inv
  BY InitInv
<1>2. Inv /\ [Next]_vars => Inv'
  BY TypesStep, LockedStep, UsedStep, ClaimStep
<1>3. Inv => ClaimedOnce
  <2> SUFFICES ASSUME Types, Claim, NEW w \in Workers, NEW v \in Workers, holds[w] # None,
                      holds[w] = holds[v]
               PROVE  w = v
    BY DEF ClaimInv, ClaimedOnce
  <2>1. holds[w] \in Ids
    BY DEF Types, FileTypes
  <2> QED BY <2>1 DEF Claim, HolderOk
<1> QED BY <1>1, <1>2, <1>3, PTL DEF Spec
=============================================================================
