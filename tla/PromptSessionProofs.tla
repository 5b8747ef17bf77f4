------------------------ MODULE PromptSessionProofs ------------------------
(* Proofs about PromptSession: the guard and the controller, the queue and  *)
(* the run records, for any set of commands and any number of turns.        *)
EXTENDS PromptSession, FiniteSetTheorems, SequenceTheorems, TLAPS

Phases == {"free"} \cup PreQuery \cup Querying \cup Finalizing

\* The types of what the guard depends on.
ControlTypes ==
    /\ status \in {"idle", "dispatching", "running"}
    /\ holder \in Turns \cup {NoTurn}
    /\ controller \in Turns \cup {NoTurn}
    /\ aborted \in [Turns -> BOOLEAN]
    /\ pc \in [Turns -> Phases]
    /\ crossed \in BOOLEAN

\* A turn on its way to onQuery is alone there, and no query is running.
AloneBefore ==
    \A t \in Turns : ~crossed /\ pc[t] \in PreQuery =>
        /\ status # "running"
        /\ \A u \in Turns : pc[u] \in PreQuery => u = t

\* Esc reaches it, too.
PublishedBefore ==
    \A t \in Turns : ~crossed /\ pc[t] \in PreQuery /\ ~aborted[t] => controller = t

IInv == ControlTypes /\ AloneBefore /\ PublishedBefore /\ QueryStaysCancellable

\* What the invariant speaks of.
control == <<status, holder, controller, aborted, pc, crossed>>

\* At the start there is no turn.
LEMMA InitIInv == Init => IInv
BY DEF Init, IInv, ControlTypes, Phases, AloneBefore, PublishedBefore,
       QueryStaysCancellable, PreQuery, Querying

\* A turn that is started through executeUserInput publishes its controller; if
\* it does not cross another one it is alone before onQuery.
LEMMA ExecuteStep ==
    ASSUME IInv, NEW t \in Turns, NEW entries, ~IsActive, Execute(t, entries)
    PROVE  IInv'
<1>1. /\ status = "idle" /\ status' = "dispatching"
      /\ pc[t] = "free" /\ pc' \in [Turns -> Phases] /\ pc'[t] \in PreQuery
      /\ \A u \in Turns \ {t} : pc'[u] = pc[u]
      /\ aborted' = [aborted EXCEPT ![t] = FALSE]
      /\ controller' = t /\ holder' = holder /\ crossed' = Crosses
  BY DEF Execute, Slot, IsActive, AfterReserve, IInv, ControlTypes, Phases, PreQuery
<1>2. ControlTypes'
  BY <1>1 DEF IInv, ControlTypes, Crosses
<1>3. ~crossed' => ~crossed /\ \A u \in Turns : pc[u] \notin PreQuery
  BY <1>1 DEF Crosses
<1>4. AloneBefore' /\ PublishedBefore'
  BY <1>1, <1>3 DEF AloneBefore, PublishedBefore, IInv, ControlTypes
<1>5. QueryStaysCancellable'
  BY <1>1, <1>3 DEF QueryStaysCancellable, IInv, ControlTypes, PreQuery, Querying
<1> QED
  BY <1>2, <1>4, <1>5 DEF IInv

\* The end of executeUserInput gives back no guard but a reservation.
LEMMA LeaveEffect ==
    ASSUME NEW t \in Turns, NEW how \in Finalizing, NEW s, Leave(t, how, s),
           pc \in [Turns -> Phases]
    PROVE  /\ pc' \in [Turns -> Phases]
           /\ pc'[t] \in Finalizing \cup {"free"}
           /\ \A u \in Turns \ {t} : pc'[u] = pc[u]
           /\ status' = s \/ (s = "dispatching" /\ status' = "idle")
BY DEF Leave, AfterCancelReservation, Phases, Finalizing

\* A turn that has not reached onQuery leaves without a query.
LEMMA LeaveBefore ==
    ASSUME IInv, NEW t \in Turns, pc[t] \in PreQuery,
           pc' \in [Turns -> Phases], pc'[t] \notin PreQuery \cup Querying,
           \A u \in Turns \ {t} : pc'[u] = pc[u],
           status' = status \/ (status' = "idle" /\ status # "running"),
           holder' = holder \/ (holder' = NoTurn /\ status # "running"),
           controller' \in {controller, NoTurn},
           UNCHANGED <<aborted, crossed>>
    PROVE  IInv'
<1>1. ControlTypes'
  BY DEF IInv, ControlTypes
<1>2. ~crossed => /\ status # "running"
                  /\ \A u \in Turns : pc'[u] \notin PreQuery
                  /\ \A u \in Turns : pc'[u] \in Querying => pc[u] \in Querying
  BY DEF IInv, AloneBefore, ControlTypes
<1>3. AloneBefore' /\ PublishedBefore'
  BY <1>2 DEF AloneBefore, PublishedBefore
<1>4. QueryStaysCancellable'
  BY <1>2 DEF QueryStaysCancellable, IInv, AloneBefore
<1> QED
  BY <1>1, <1>3, <1>4 DEF IInv

\* Every action leaves the invariant in place.
LEMMA StepIInv == IInv /\ [Next]_vars => IInv'
<1> SUFFICES ASSUME IInv, [Next]_vars PROVE IInv'
  OBVIOUS
<1> USE DEF guardVars, turnVars, history
<1>0. /\ status \in {"idle", "dispatching", "running"}
      /\ holder \in Turns \cup {NoTurn} /\ controller \in Turns \cup {NoTurn}
      /\ aborted \in [Turns -> BOOLEAN] /\ pc \in [Turns -> Phases] /\ crossed \in BOOLEAN
  BY DEF IInv, ControlTypes
<1>1. ASSUME UNCHANGED control PROVE IInv'
  BY <1>1 DEF control, IInv, ControlTypes, AloneBefore, PublishedBefore, QueryStaysCancellable
<1>2. ASSUME NEW c \in Commands, NEW t \in Turns, SubmitNow(c, t) PROVE IInv'
  BY <1>2, ExecuteStep DEF SubmitNow
<1>3. ASSUME NEW t \in Turns, ProcessQueue(t) PROVE IInv'
  BY <1>3, ExecuteStep DEF ProcessQueue
<1>4. ASSUME NEW c \in Commands, SubmitQueued(c) PROVE IInv'
  <2>1. /\ UNCHANGED <<status, holder, controller, pc, crossed>>
        /\ aborted' \in [Turns -> BOOLEAN]
        /\ \A t \in Turns : aborted[t] => aborted'[t]
    BY <1>0, <1>4 DEF SubmitQueued
  <2> QED
    BY <1>0, <2>1 DEF IInv, ControlTypes, AloneBefore, PublishedBefore, QueryStaysCancellable
<1>5. ASSUME NEW c \in Commands, NEW t \in Turns, AcceptIncoming(c, t) PROVE IInv'
  <2>1. /\ status = "idle" /\ status' = "running" /\ holder' = t /\ controller' = t
        /\ pc[t] = "free" /\ pc'[t] = "querying" /\ pc' \in [Turns -> Phases]
        /\ \A u \in Turns \ {t} : pc'[u] = pc[u]
        /\ aborted' \in [Turns -> BOOLEAN]
        /\ \A u \in Turns \ {t} : aborted'[u] = aborted[u]
        /\ crossed' = Crosses
    BY <1>0, <1>5 DEF AcceptIncoming, Slot, IsActive, Phases, Querying
  <2>2. ~crossed' => ~crossed /\ \A u \in Turns : pc[u] \notin PreQuery
    BY <2>1 DEF Crosses
  <2>3. ControlTypes' /\ AloneBefore' /\ PublishedBefore'
    BY <1>0, <2>1, <2>2 DEF ControlTypes, AloneBefore, PublishedBefore, Crosses, PreQuery
  <2>4. QueryStaysCancellable'
    BY <2>1, <2>2 DEF IInv, QueryStaysCancellable
  <2> QED
    BY <2>3, <2>4 DEF IInv
<1>6. ASSUME NEW t \in Turns, Claim(t) PROVE IInv'
  <2>1. /\ pc[t] = "claiming" /\ UNCHANGED <<holder, aborted, crossed>>
        /\ \/ UNCHANGED <<status, controller>> /\ pc' = [pc EXCEPT ![t] = "processing"]
           \/ /\ controller' = NoTurn /\ status' = AfterCancelReservation(status)
              /\ pc' = [pc EXCEPT ![t] = "free"]
    BY <1>6 DEF Claim
  <2>2. CASE UNCHANGED <<status, controller>> /\ pc' = [pc EXCEPT ![t] = "processing"]
    <3>1. /\ pc' \in [Turns -> Phases]
          /\ \A u \in Turns : /\ pc'[u] \in PreQuery <=> pc[u] \in PreQuery
                              /\ pc'[u] \in Querying <=> pc[u] \in Querying
      BY <1>0, <2>1, <2>2 DEF Phases, PreQuery, Querying
    <3> QED
      BY <2>1, <2>2, <3>1
      DEF IInv, ControlTypes, AloneBefore, PublishedBefore, QueryStaysCancellable
  <2>3. CASE /\ controller' = NoTurn /\ status' = AfterCancelReservation(status)
             /\ pc' = [pc EXCEPT ![t] = "free"]
    <3>1. /\ pc[t] \in PreQuery /\ pc' \in [Turns -> Phases]
          /\ pc'[t] \notin PreQuery \cup Querying
          /\ \A u \in Turns \ {t} : pc'[u] = pc[u]
      BY <1>0, <2>1, <2>3 DEF Phases, PreQuery, Querying
    <3> QED
      BY <2>1, <2>3, <3>1, LeaveBefore DEF AfterCancelReservation
  <2> QED
    BY <2>1, <2>2, <2>3
<1>7. ASSUME NEW t \in Turns, StartQuery(t) PROVE IInv'
  <2>1. /\ pc[t] = "processing" /\ status # "running"
        /\ status' = "running" /\ holder' = t /\ pc'[t] = "querying"
        /\ pc' \in [Turns -> Phases] /\ \A u \in Turns \ {t} : pc'[u] = pc[u]
        /\ UNCHANGED <<controller, aborted, crossed>>
    BY <1>0, <1>7 DEF StartQuery, Phases, Querying
  <2>2. ~crossed => \A u \in Turns \ {t} : pc[u] \notin PreQuery
    BY <2>1 DEF IInv, AloneBefore, PreQuery
  <2>3. ControlTypes' /\ AloneBefore' /\ PublishedBefore'
    BY <1>0, <2>1, <2>2 DEF ControlTypes, AloneBefore, PublishedBefore, PreQuery
  <2>4. QueryStaysCancellable'
    BY <2>1 DEF IInv, QueryStaysCancellable, PublishedBefore, PreQuery
  <2> QED
    BY <2>3, <2>4 DEF IInv
<1>8. ASSUME NEW t \in Turns,
             Refused(t) \/ AnswerLocally(t) \/ NoMessages(t) \/ InputFails(t)
      PROVE  IInv'
  <2>1. /\ pc[t] = "processing" /\ UNCHANGED <<aborted, crossed>>
        /\ controller' \in {controller, NoTurn}
        /\ holder' = holder \/ (holder' = NoTurn /\ status # "running")
    BY <1>8 DEF Refused, AnswerLocally, NoMessages, InputFails
  <2>2. PICK how \in Finalizing, s \in {status, "idle", AfterCancelReservation(status)} :
          /\ Leave(t, how, s)
          /\ s = "idle" => status # "running" \/ s = status
    BY <1>8 DEF Refused, AnswerLocally, NoMessages, InputFails, Finalizing,
                AfterCancelReservation
  <2>3. /\ pc' \in [Turns -> Phases]
        /\ pc'[t] \in Finalizing \cup {"free"}
        /\ \A u \in Turns \ {t} : pc'[u] = pc[u]
        /\ status' = s \/ (s = "dispatching" /\ status' = "idle")
    BY <1>0, <2>2, LeaveEffect
  <2>4. status' = status \/ (status' = "idle" /\ status # "running")
    BY <1>0, <2>2, <2>3 DEF AfterCancelReservation
  <2> QED
    BY <2>1, <2>3, <2>4, LeaveBefore DEF PreQuery, Querying, Finalizing
<1>9. ASSUME NEW t \in Turns, BeginDrain(t) \/ EndDrain(t) PROVE IInv'
  <2>1. /\ UNCHANGED <<status, holder, controller, aborted, crossed>>
        /\ pc' \in [Turns -> Phases]
        /\ \A u \in Turns : /\ pc'[u] \in PreQuery <=> pc[u] \in PreQuery
                            /\ pc'[u] \in Querying <=> pc[u] \in Querying
    BY <1>0, <1>9 DEF BeginDrain, EndDrain, Phases, PreQuery, Querying
  <2> QED
    BY <2>1 DEF IInv, ControlTypes, AloneBefore, PublishedBefore, QueryStaysCancellable
<1>10. ASSUME NEW t \in Turns, NEW how \in Finalizing, EndQuery(t, how) PROVE IInv'
  <2>1. /\ pc[t] = "querying" /\ UNCHANGED <<aborted, crossed>>
        /\ pc' \in [Turns -> Phases]
        /\ pc'[t] \in Finalizing \cup {"free"}
        /\ \A u \in Turns \ {t} : pc'[u] = pc[u]
    BY <1>0, <1>10, LeaveEffect DEF EndQuery
  <2>2. CASE Ends(t)
    <3>1. holder = t /\ status = "running" /\ status' = "idle"
          /\ holder' = NoTurn /\ controller' = NoTurn
      BY <1>10, <2>2, <1>0, LeaveEffect DEF EndQuery, Ends
    <3>2. ~crossed => /\ \A u \in Turns : pc[u] \notin PreQuery
                      /\ \A u \in Turns \ {t} : pc[u] \in Querying => aborted[u]
      BY <3>1 DEF IInv, AloneBefore, QueryStaysCancellable
    <3> QED
      BY <1>0, <2>1, <3>1, <3>2
      DEF IInv, ControlTypes, AloneBefore, PublishedBefore, QueryStaysCancellable,
          PreQuery, Querying, Finalizing
  <2>3. CASE ~Ends(t)
    <3>1. /\ UNCHANGED <<holder, controller>>
          /\ status' = status \/ (status = "dispatching" /\ status' = "idle")
      BY <1>10, <2>3, <1>0, LeaveEffect DEF EndQuery
    <3> QED
      BY <1>0, <2>1, <3>1
      DEF IInv, ControlTypes, AloneBefore, PublishedBefore, QueryStaysCancellable,
          PreQuery, Querying, Finalizing
  <2> QED
    BY <2>2, <2>3
<1>11. ASSUME NEW t \in Turns, Finalize(t) PROVE IInv'
  <2>1. /\ UNCHANGED <<holder, controller, aborted, crossed>>
        /\ status' = status \/ (status = "dispatching" /\ status' = "idle")
        /\ pc' \in [Turns -> Phases] /\ pc'[t] = "free"
        /\ \A u \in Turns \ {t} : pc'[u] = pc[u]
    BY <1>0, <1>11 DEF Finalize, AfterCancelReservation, Phases
  <2> QED
    BY <1>0, <2>1
    DEF IInv, ControlTypes, AloneBefore, PublishedBefore, QueryStaysCancellable,
        PreQuery, Querying
<1>12. ASSUME Cancel PROVE IInv'
  <2>1. /\ controller \in Turns /\ status' = "idle" /\ holder' = NoTurn
        /\ controller' = NoTurn /\ UNCHANGED <<pc, crossed>>
        /\ aborted' = [aborted EXCEPT ![controller] = TRUE]
    BY <1>0, <1>12 DEF Cancel
  <2>2. ~crossed => \A t \in Turns \ {controller} :
                       pc[t] \in PreQuery \cup Querying => aborted[t]
    BY DEF IInv, PublishedBefore, QueryStaysCancellable
  <2> QED
    BY <1>0, <2>1, <2>2
    DEF IInv, ControlTypes, AloneBefore, PublishedBefore, QueryStaysCancellable
<1>13. ASSUME \/ \E c \in Commands : Notify(c) \/ SubagentTakes(c) \/ KillAgents(c)
              \/ \E c \in CronRuns : CancelRun(c)
              \/ PopAllEditable
              \/ UNCHANGED vars
       PROVE  IInv'
  <2>1. UNCHANGED control
    BY <1>13 DEF Notify, SubagentTakes, KillAgents, CancelRun, PopAllEditable, vars, control
  <2> QED
    BY <1>1, <2>1
<1> QED
  BY <1>2, <1>3, <1>4, <1>5, <1>6, <1>7, <1>8, <1>9, <1>10, <1>11, <1>12, <1>13
  DEF Next, TurnStep

THEOREM Invariance == Spec => []IInv
<1>1. Init => IInv
  BY InitIInv
<1>2. IInv /\ [Next]_vars => IInv'
  BY StepIInv
<1> QED
  BY <1>1, <1>2, PTL DEF Spec

(* For any number of turns in flight: unless a turn was started beside one  *)
(* that had not reached onQuery, Esc reaches every query that goes on.      *)
THEOREM EscReachesQueries == Spec => []QueryStaysCancellable
<1>1. IInv => QueryStaysCancellable
  BY DEF IInv
<1> QED
  BY <1>1, Invariance, PTL

\* Only EndQuery(t) ends the query of t.
LEMMA StaleEndStep == IInv /\ [Next]_vars => StaleEndKeeps
<1> SUFFICES ASSUME IInv, [Next]_vars, NEW t \in Turns, NEW u \in Turns,
                    t # u, pc[t] = "querying", pc'[t] \in Finalizing \cup {"free"},
                    status = "running", holder = u
             PROVE  status' = "running" /\ holder' = u /\ controller' = controller
  BY DEF StaleEndKeeps
<1>0. pc \in [Turns -> Phases]
  BY DEF IInv, ControlTypes
<1>1. \E how \in Finalizing : EndQuery(t, how)
  <2> USE DEF guardVars, turnVars, history, Finalizing
  <2>1. ASSUME NEW v \in Turns,
               \/ Claim(v) \/ StartQuery(v) \/ EndDrain(v) \/ Finalize(v) \/ BeginDrain(v)
               \/ ProcessQueue(v)
        PROVE  pc'[t] \notin Finalizing \cup {"free"}
    BY <1>0, <2>1 DEF Claim, StartQuery, EndDrain, Finalize, BeginDrain, ProcessQueue,
                      Execute, Slot
  <2>2. ASSUME NEW v \in Turns,
               Refused(v) \/ AnswerLocally(v) \/ NoMessages(v) \/ InputFails(v)
        PROVE  pc'[t] = "querying"
    <3>1. pc[v] = "processing" /\ \E how \in Finalizing : \E s : Leave(v, how, s)
      BY <2>2 DEF Refused, AnswerLocally, NoMessages, InputFails
    <3> QED
      BY <1>0, <3>1, LeaveEffect
  <2>3. ASSUME NEW c \in Commands, NEW v \in Turns, SubmitNow(c, v) \/ AcceptIncoming(c, v)
        PROVE  pc'[t] = "querying"
    BY <1>0, <2>3 DEF SubmitNow, AcceptIncoming, Execute, Slot
  <2>4. ASSUME \/ \E c \in Commands : SubmitQueued(c) \/ Notify(c) \/ SubagentTakes(c)
                                        \/ KillAgents(c)
               \/ \E c \in CronRuns : CancelRun(c)
               \/ Cancel \/ PopAllEditable \/ UNCHANGED vars
        PROVE  pc'[t] = "querying"
    BY <2>4 DEF SubmitQueued, Notify, SubagentTakes, KillAgents, CancelRun, Cancel,
                PopAllEditable, vars
  <2>5. ASSUME NEW v \in Turns, NEW how \in Finalizing, EndQuery(v, how)
        PROVE  v = t
    BY <1>0, <2>5, LeaveEffect DEF EndQuery
  <2> QED
    BY <2>1, <2>2, <2>3, <2>4, <2>5 DEF Next, TurnStep
<1>2. PICK how \in Finalizing : EndQuery(t, how)
  BY <1>1
<1>3. ~Ends(t)
  BY DEF Ends
<1> QED
  BY <1>0, <1>2, <1>3, LeaveEffect DEF EndQuery

THEOREM StaleEnds == Spec => [][StaleEndKeeps]_vars
<1>1. IInv /\ [Next]_vars => [StaleEndKeeps]_vars
  BY StaleEndStep
<1> QED
  BY <1>1, Invariance, PTL DEF Spec

(* For any number of turns in flight: the late end of a cancelled query     *)
(* leaves the guard and the controller of the query that replaced it alone. *)
THEOREM StaleEndsAreHarmless == Spec => StaleEndHarmless
BY StaleEnds DEF StaleEndHarmless

----------------------------------------------------------------------------
\* The queue and the run records.

\* Filtering a list of commands keeps exactly the entries asked for.
LEMMA OnlyIs ==
    ASSUME NEW T, NEW q \in Seq(T), NEW S
    PROVE  Only(q, S) \in Seq(T) /\ Range(Only(q, S)) = Range(q) \cap S
<1> DEFINE kept == {i \in DOMAIN q : q[i] \in S}
           those(i) == {j \in kept : j <= i}
           m == Cardinality(kept)
           r == [i \in kept |-> Cardinality(those(i))]
           at(n) == CHOOSE i \in kept : Cardinality(those(i)) = n
<1>1. /\ Len(q) \in Nat /\ DOMAIN q = 1..Len(q) /\ \A i \in DOMAIN q : q[i] \in T
      /\ kept \subseteq 1..Len(q)
  BY LenProperties, ElementOfSeq
<1> HIDE DEF kept
<1>2. IsFiniteSet(kept) /\ m \in Nat
  <2>1. IsFiniteSet(1..Len(q))
    BY <1>1, FS_Interval
  <2> QED BY <1>1, <2>1, FS_Subset, FS_CardinalityType
<1>3. \A i \in kept : i \in Nat /\ those(i) \subseteq kept /\ i \in those(i)
  BY <1>1
<1>4. ASSUME NEW i \in kept
      PROVE  IsFiniteSet(those(i)) /\ Cardinality(those(i)) \in 1..m
  <2>1. IsFiniteSet(those(i)) /\ Cardinality(those(i)) <= m /\ Cardinality(those(i)) \in Nat
    BY <1>2, <1>3, FS_Subset, FS_CardinalityType
  <2>2. Cardinality(those(i)) # 0
    BY <1>3, <2>1, FS_EmptySet
  <2> HIDE DEF those
  <2> QED BY <1>2, <2>1, <2>2
<1>5. ASSUME NEW i \in kept, NEW j \in kept, i < j
      PROVE  Cardinality(those(i)) # Cardinality(those(j))
  <2>1. those(i) \subseteq those(j) /\ j \notin those(i) /\ j \in those(j)
    BY <1>3, <1>5
  <2>2. IsFiniteSet(those(j))
    BY <1>4
  <2> HIDE DEF those
  <2> QED BY <2>1, <2>2, FS_Subset
<1>6. \A n \in 1..m : \E i \in kept : Cardinality(those(i)) = n
  <2>1. r \in [kept -> 1..m]
    BY <1>4
  <2>2. \A i, j \in kept : r[i] = r[j] => i = j
    <3> SUFFICES ASSUME NEW i \in kept, NEW j \in kept, r[i] = r[j], i # j PROVE FALSE
      OBVIOUS
    <3>1. i < j \/ j < i
      BY <1>3
    <3> HIDE DEF those
    <3> QED BY <1>5, <3>1
  <2>3. r \in Injection(kept, 1..m)
    BY <2>1, <2>2 DEF Injection, IsInjective
  <2>4. IsFiniteSet(1..m) /\ Cardinality(1..m) = Cardinality(kept)
    BY <1>2, FS_Interval
  <2>5. r \in Surjection(kept, 1..m)
    BY <2>3, <2>4, FS_Injection
  <2> HIDE DEF those
  <2> QED BY <2>5 DEF Surjection
<1>7. Only(q, S) = [n \in 1..m |-> q[at(n)]]
  BY DEF Only, kept
<1>8. /\ \A n \in 1..m : at(n) \in kept
      /\ \A i \in kept : \E n \in 1..m : at(n) = i
  <2>1. \A n \in 1..m : at(n) \in kept /\ Cardinality(those(at(n))) = n
    BY <1>6
  <2>2. ASSUME NEW i \in kept PROVE at(Cardinality(those(i))) = i
    <3> DEFINE n == Cardinality(those(i))
    <3>1. n \in 1..m
      BY <1>4
    <3>2. at(n) \in kept /\ Cardinality(those(at(n))) = n
      BY <2>1, <3>1
    <3>3. at(n) \in Nat /\ i \in Nat
      BY <1>3, <3>2
    <3> HIDE DEF those, at
    <3> QED BY <1>5, <3>2, <3>3
  <2> HIDE DEF those, at
  <2> QED BY <1>4, <2>1, <2>2
<1>9. \A i \in kept : q[i] \in T /\ q[i] \in S /\ q[i] \in Range(q)
  BY <1>1 DEF kept, Range
<1>10. \A e \in Range(q) \cap S : \E i \in kept : q[i] = e
  BY DEF kept, Range
<1> HIDE DEF at, m
<1>11. Only(q, S) \in Seq(T)
  BY <1>2, <1>7, <1>8, <1>9, IsASeq
<1>12. Range(Only(q, S)) = {q[at(n)] : n \in 1..m}
  BY <1>7 DEF Range
<1> QED BY <1>8, <1>9, <1>10, <1>11, <1>12

\* The lists, the records and the fates have their types.
ListTypes ==
    /\ batch \in [Turns -> Seq(Entries)]
    /\ snap \in [Turns -> SUBSET Entries]
    /\ queue \in Seq(Entries)
    /\ run \in [CronRuns -> RunStates]
    /\ fate \in [Commands -> {"unborn", "open", "sent", "returned"}]

\* The mid-turn drain does not see scheduled prompts: they wait at priority 'later'.
CronWaits ==
    /\ \A e \in Range(queue) : e.cmd \in CronRuns => e.copy = 0
    /\ \A t \in Turns : \A e \in snap[t] : e.cmd \notin CronRuns

\* What has not come in is nowhere.
Born ==
    \A c \in CronRuns : fate[c] = "unborn" =>
        /\ run[c] = "none"
        /\ c \notin CommandsOf(queue)
        /\ \A t \in Turns : c \notin CommandsOf(batch[t])

\* A turn that is past the claim works on runs that were claimed.
Claimed ==
    \A t \in Turns, c \in CronRuns :
        pc[t] \in {"processing"} \cup Querying \cup Finalizing /\ c \in CommandsOf(batch[t])
            => run[c] \notin {"none", "queued", "cancelled"}

\* What a turn will record as completed was sent.
Delivered ==
    \A t \in Turns, c \in CronRuns :
        pc[t] \in Querying \cup {"completing"} /\ c \in CommandsOf(batch[t])
            => fate[c] = "sent" \/ crossed

(* What the lists, the records and the fates say together.  The two         *)
(* properties are not inductive alone: a record is true because what will   *)
(* be recorded as completed was sent, and what was not sent is in the       *)
(* queue, in a batch, or was dropped by a turn that crossed another one.    *)
ListInv ==
    /\ ListTypes /\ CronWaits /\ Born /\ Claimed /\ Delivered
    /\ RunRecordTrue /\ NothingForgotten

\* The commands of what a filter leaves.
LEMMA OnlyCommands ==
    ASSUME NEW q \in Seq(Entries), NEW S
    PROVE  /\ Only(q, S) \in Seq(Entries)
           /\ \A e \in Range(q) : e \in Entries
           /\ Range(Only(q, S)) = Range(q) \cap S
           /\ CommandsOf(Only(q, S)) = {e.cmd : e \in Range(q) \cap S}
BY OnlyIs, RangeOfSeq DEF CommandsOf

\* An entry that is made for a command is a fresh one of it.
LEMMA EntryIs ==
    ASSUME NEW c \in Commands
    PROVE  Entry(c) \in Entries /\ Entry(c).cmd = c /\ Entry(c).copy = 0
BY DEF Entry, Entries, Modes

\* enqueue: the queue and what is put at its end.
LEMMA AppendIs ==
    ASSUME NEW q \in Seq(Entries), NEW e \in Entries
    PROVE  /\ Append(q, e) \in Seq(Entries)
           /\ Range(Append(q, e)) = Range(q) \cup {e}
           /\ <<e>> \in Seq(Entries) /\ Range(<<e>>) = {e}
<1>1. <<e>> \in Seq(Entries) /\ Range(<<e>>) = {e}
  BY DEF Range
<1>2. Append(q, e) = q \o <<e>> /\ Append(q, e) \in Seq(Entries)
  BY AppendIsConcat, AppendProperties
<1>3. Range(q \o <<e>>) = Range(q) \cup Range(<<e>>)
  BY <1>1, RangeConcatenation
<1> QED BY <1>1, <1>2, <1>3

\* Scheduled prompts are no other commands.
LEMMA CronApart ==
    ASSUME NEW c \in CronRuns
    PROVE  c \in Commands /\ c \notin Typed /\ c \notin Notifications /\ c \notin Incoming
BY KindsDisjoint DEF Commands

\* What onQuery puts back is the batch without its scheduled prompts.
LEMMA PutBackIs ==
    ASSUME NEW t \in Turns, batch[t] \in Seq(Entries)
    PROVE  /\ PutBack(t) \in Seq(Entries)
           /\ \A e \in Range(PutBack(t)) : e.cmd \notin CronRuns
           /\ CommandsOf(PutBack(t)) = CommandsOf(batch[t]) \ CronRuns
<1> DEFINE S == {e \in Range(batch[t]) : ~IsMeta(e)}
           text == Only(batch[t], S)
<1>1. /\ text \in Seq(Entries) /\ Range(text) = S /\ Len(text) \in Nat
      /\ DOMAIN text = 1..Len(text) /\ \A i \in 1..Len(text) : text[i] \in Entries
  BY OnlyCommands, LenProperties, ElementOfSeq
<1>2. PutBack(t) = [i \in 1..Len(text) |-> Again(text[i])]
  BY <1>1 DEF PutBack
<1>3. \A e \in Entries : Again(e) \in Entries /\ Again(e).cmd = e.cmd
  BY DEF Again, Entries, Modes
<1>4. \A i \in 1..Len(text) : Again(text[i]) \in Entries /\ text[i] \in S
  BY <1>1, <1>3 DEF Range
<1> HIDE DEF text
<1>5. PutBack(t) \in Seq(Entries)
  BY <1>1, <1>2, <1>4, IsASeq
<1>6. Range(PutBack(t)) = {Again(text[i]) : i \in 1..Len(text)}
  BY <1>2 DEF Range
<1>7. \A e \in S : \E i \in 1..Len(text) : text[i] = e
  BY <1>1 DEF Range
<1>8. \A e \in Range(PutBack(t)) : \E f \in S : e.cmd = f.cmd
  BY <1>1, <1>3, <1>4, <1>6
<1>9. \A f \in S : \E e \in Range(PutBack(t)) : e.cmd = f.cmd
  BY <1>1, <1>3, <1>6, <1>7
<1> QED BY <1>5, <1>8, <1>9 DEF IsMeta, CommandsOf

\* The end of executeUserInput ends the turn, or leaves it its batch to finalize.
LEMMA LeaveLists ==
    ASSUME ListTypes, pc \in [Turns -> Phases],
           NEW t \in Turns, NEW how \in Finalizing, NEW s, Leave(t, how, s)
    PROVE  /\ batch' \in [Turns -> Seq(Entries)]
           /\ \A u \in Turns \ {t} : batch'[u] = batch[u] /\ pc'[u] = pc[u]
           /\ pc'[t] = "free" \/ pc'[t] = how
           /\ CommandsOf(batch'[t]) \subseteq CommandsOf(batch[t])
<1>1. batch \in [Turns -> Seq(Entries)] /\ <<>> \in Seq(Entries)
  BY EmptySeq DEF ListTypes
<1>2. CommandsOf(<<>>) = {}
  BY DEF CommandsOf, Range
<1>3. CASE HasRuns(t)
  BY <1>1, <1>3 DEF Leave
<1>4. CASE ~HasRuns(t)
  BY <1>1, <1>2, <1>4 DEF Leave
<1> QED BY <1>3, <1>4

\* What the start of a turn does to the lists.
LEMMA ExecuteLists ==
    ASSUME ListTypes, pc \in [Turns -> Phases],
           NEW t \in Turns, NEW entries \in Seq(Entries), Execute(t, entries)
    PROVE  /\ batch' \in [Turns -> Seq(Entries)] /\ snap' = snap
           /\ batch'[t] = entries /\ pc[t] = "free" /\ pc'[t] \in PreQuery
           /\ CommandsOf(entries) \cap CronRuns # {} => pc'[t] = "claiming"
           /\ \A u \in Turns \ {t} : batch'[u] = batch[u] /\ pc'[u] = pc[u]
           /\ crossed => crossed'
BY DEF ListTypes, Execute, Slot, PreQuery, Crosses

\* Steps that keep every record and every command where it is.
LEMMA SameLists ==
    ASSUME ListInv, UNCHANGED <<batch, snap, queue, run, fate>>, crossed => crossed',
           pc \in [Turns -> Phases], pc' = pc
    PROVE  ListInv'
BY DEF ListInv, ListTypes, CronWaits, Born, Claimed, Delivered, RunRecordTrue,
       NothingForgotten, CommandsOf

\* A prompt is typed while nothing runs.
LEMMA SubmitNowLists ==
    ASSUME IInv, ListInv, NEW c \in Commands, NEW t \in Turns, SubmitNow(c, t)
    PROVE  ListInv'
<1>1. /\ c \in Typed /\ fate[c] = "unborn" /\ fate' = [fate EXCEPT ![c] = "open"]
      /\ Execute(t, <<Entry(c)>>) /\ queue' = queue /\ run' = run
      /\ fate \in [Commands -> {"unborn", "open", "sent", "returned"}]
  BY DEF SubmitNow, Unborn, Opened, ListInv, ListTypes
<1>2. /\ <<Entry(c)>> \in Seq(Entries) /\ CommandsOf(<<Entry(c)>>) = {c}
  <2>1. <<Entry(c)>> \in Seq(Entries) /\ Range(<<Entry(c)>>) = {Entry(c)}
    BY EntryIs, AppendIs, EmptySeq
  <2> QED BY <2>1, EntryIs DEF CommandsOf
<1>3. c \notin CronRuns
  BY <1>1, CronApart
<1>4. /\ batch' \in [Turns -> Seq(Entries)] /\ snap' = snap
      /\ batch'[t] = <<Entry(c)>> /\ pc[t] = "free" /\ pc'[t] \in PreQuery
      /\ \A u \in Turns \ {t} : batch'[u] = batch[u] /\ pc'[u] = pc[u]
      /\ crossed => crossed'
  BY <1>1, <1>2, ExecuteLists DEF IInv, ControlTypes, ListInv
<1>5. /\ CommandsOf(queue') = CommandsOf(queue) /\ CommandsOf(batch'[t]) = {c}
      /\ \A u \in Turns \ {t} : CommandsOf(batch'[u]) = CommandsOf(batch[u])
  BY <1>1, <1>2, <1>4
<1>6. ListTypes'
  BY <1>1, <1>4 DEF ListInv, ListTypes
<1>7. CronWaits' /\ Born'
  BY <1>1, <1>3, <1>4, <1>5, CronApart DEF ListInv, CronWaits, Born
<1>8. Claimed' /\ Delivered' /\ RunRecordTrue'
  BY <1>1, <1>3, <1>4, <1>5, CronApart DEF ListInv, Claimed, Delivered, RunRecordTrue
<1>9. NothingForgotten'
  BY <1>1, <1>4, <1>5 DEF ListInv, NothingForgotten, PreQuery
<1> QED BY <1>6, <1>7, <1>8, <1>9 DEF ListInv

\* The queue is processed: what is taken is in the batch, the rest stays.
LEMMA ProcessQueueLists ==
    ASSUME IInv, ListInv, NEW t \in Turns, ProcessQueue(t)
    PROVE  ListInv'
<1> DEFINE S == Taken(queue)
           entries == Only(queue, S)
<1>1. /\ Execute(t, entries) /\ queue' = Without(queue, S) /\ run' = run /\ fate' = fate
      /\ queue \in Seq(Entries)
  BY DEF ProcessQueue, ListInv, ListTypes
<1>2. /\ entries \in Seq(Entries) /\ Range(entries) = Range(queue) \cap S
      /\ queue' \in Seq(Entries) /\ Range(queue') = Range(queue) \ S
  BY <1>1, OnlyCommands DEF Without
<1> HIDE DEF entries, S
<1>3. /\ batch' \in [Turns -> Seq(Entries)] /\ snap' = snap
      /\ batch'[t] = entries /\ pc[t] = "free" /\ pc'[t] \in PreQuery
      /\ CommandsOf(entries) \cap CronRuns # {} => pc'[t] = "claiming"
      /\ \A u \in Turns \ {t} : batch'[u] = batch[u] /\ pc'[u] = pc[u]
      /\ crossed => crossed'
  BY <1>1, <1>2, ExecuteLists DEF IInv, ControlTypes, ListInv
<1>4. /\ CommandsOf(queue') \subseteq CommandsOf(queue)
      /\ CommandsOf(batch'[t]) \subseteq CommandsOf(queue)
      /\ CommandsOf(queue) \subseteq CommandsOf(queue') \cup CommandsOf(batch'[t])
      /\ \A u \in Turns \ {t} : CommandsOf(batch'[u]) = CommandsOf(batch[u])
  BY <1>2, <1>3 DEF CommandsOf
<1>5. ListTypes'
  BY <1>1, <1>2, <1>3 DEF ListInv, ListTypes
<1>6. CronWaits'
  BY <1>2, <1>3 DEF ListInv, CronWaits
<1>7. Born'
  BY <1>1, <1>4 DEF ListInv, Born
<1>8. Claimed' /\ Delivered' /\ RunRecordTrue'
  BY <1>1, <1>3, <1>4, CronApart
     DEF ListInv, Claimed, Delivered, RunRecordTrue, PreQuery, Querying, Finalizing
<1>9. NothingForgotten'
  BY <1>1, <1>3, <1>4 DEF ListInv, NothingForgotten, PreQuery
<1> QED BY <1>5, <1>6, <1>7, <1>8, <1>9 DEF ListInv

\* A prompt of a peer goes straight to its query.
LEMMA IncomingLists ==
    ASSUME IInv, ListInv, NEW c \in Commands, NEW t \in Turns, AcceptIncoming(c, t)
    PROVE  ListInv'
<1>1. /\ c \in Incoming /\ fate' = Sent({c}) /\ UNCHANGED <<snap, queue, run>>
      /\ pc[t] = "free" /\ pc' = [pc EXCEPT ![t] = "querying"]
      /\ batch' = [batch EXCEPT ![t] = <<Entry(c)>>]
      /\ crossed => crossed'
  BY DEF AcceptIncoming, Slot, Crosses
<1>2. <<Entry(c)>> \in Seq(Entries) /\ CommandsOf(<<Entry(c)>>) = {c}
  <2>1. <<Entry(c)>> \in Seq(Entries) /\ Range(<<Entry(c)>>) = {Entry(c)}
    BY EntryIs, AppendIs, EmptySeq
  <2> QED BY <2>1, EntryIs DEF CommandsOf
<1>3. c \notin CronRuns
  BY <1>1, CronApart
<1>4. pc \in [Turns -> Phases] /\ ListTypes
  BY DEF IInv, ControlTypes, ListInv
<1>5. /\ batch' \in [Turns -> Seq(Entries)]
      /\ CommandsOf(queue') = CommandsOf(queue) /\ CommandsOf(batch'[t]) = {c}
      /\ \A u \in Turns \ {t} : CommandsOf(batch'[u]) = CommandsOf(batch[u])
      /\ pc'[t] = "querying" /\ \A u \in Turns \ {t} : pc'[u] = pc[u]
  BY <1>1, <1>2, <1>4 DEF ListTypes
<1>6. /\ fate' \in [Commands -> {"unborn", "open", "sent", "returned"}]
      /\ \A d \in Commands : fate'[d] = IF d = c THEN "sent" ELSE fate[d]
  BY <1>1, <1>4 DEF Sent, ListTypes
<1>7. ListTypes'
  BY <1>1, <1>4, <1>5, <1>6 DEF ListTypes
<1>8. CronWaits' /\ Born'
  BY <1>1, <1>3, <1>5, <1>6, CronApart DEF ListInv, CronWaits, Born
<1>9. Claimed' /\ Delivered' /\ RunRecordTrue'
  BY <1>1, <1>3, <1>5, <1>6, CronApart DEF ListInv, Claimed, Delivered, RunRecordTrue
<1>10. NothingForgotten'
  BY <1>1, <1>5, <1>6 DEF ListInv, NothingForgotten, PreQuery
<1> QED BY <1>7, <1>8, <1>9, <1>10 DEF ListInv

\* A command comes into the queue; the older notification of its task may make room for it.
LEMMA EnqueueLists ==
    ASSUME ListInv, NEW c \in Commands, fate[c] = "unborn",
           NEW old \in SUBSET Commands,
           queue' \in Seq(Entries), Range(queue') \subseteq Range(queue) \cup {Entry(c)},
           CommandsOf(queue) \ old \subseteq CommandsOf(queue'), c \in CommandsOf(queue'),
           fate' = [Returned(old) EXCEPT ![c] = "open"],
           run' = IF c \in CronRuns THEN [run EXCEPT ![c] = "queued"] ELSE run,
           UNCHANGED <<pc, batch, snap, crossed>>
    PROVE  ListInv'
<1>1. ListTypes /\ \A d \in CronRuns : d \in Commands
  BY CronApart DEF ListInv
<1>2. /\ fate' \in [Commands -> {"unborn", "open", "sent", "returned"}]
      /\ fate'[c] = "open"
      /\ \A d \in Commands \ {c} :
             fate'[d] = IF d \in old /\ fate[d] = "open" THEN "returned" ELSE fate[d]
  BY <1>1 DEF ListTypes, Returned
<1>3. /\ run' \in [CronRuns -> RunStates]
      /\ \A d \in CronRuns : run'[d] = IF d = c THEN "queued" ELSE run[d]
  BY <1>1 DEF ListTypes, RunStates
<1>4. /\ CommandsOf(queue') \subseteq CommandsOf(queue) \cup {c}
      /\ \A t \in Turns : CommandsOf(batch'[t]) = CommandsOf(batch[t])
  BY EntryIs DEF CommandsOf
<1>5. c \in CronRuns => \A t \in Turns : c \notin CommandsOf(batch[t])
  BY DEF ListInv, Born
<1>6. ListTypes'
  BY <1>1, <1>2, <1>3 DEF ListTypes
<1>7. CronWaits'
  BY EntryIs DEF ListInv, CronWaits
<1>8. Born'
  BY <1>1, <1>2, <1>3, <1>4 DEF ListInv, Born
<1>9. Claimed' /\ Delivered'
  BY <1>1, <1>2, <1>3, <1>4, <1>5 DEF ListInv, Claimed, Delivered
<1>10. RunRecordTrue'
  BY <1>1, <1>2, <1>3 DEF ListInv, RunRecordTrue
<1>11. NothingForgotten'
  BY <1>1, <1>2, <1>4 DEF ListInv, NothingForgotten
<1> QED BY <1>6, <1>7, <1>8, <1>9, <1>10, <1>11 DEF ListInv

\* A command is typed while something runs.
LEMMA SubmitQueuedLists ==
    ASSUME IInv, ListInv, NEW c \in Commands, SubmitQueued(c)
    PROVE  ListInv'
<1>1. /\ c \in Typed /\ fate[c] = "unborn" /\ fate' = [fate EXCEPT ![c] = "open"]
      /\ queue' = Append(queue, Entry(c))
      /\ UNCHANGED <<pc, batch, snap, run, crossed>>
  BY DEF SubmitQueued, Unborn, Opened
<1>2. queue \in Seq(Entries) /\ fate \in [Commands -> {"unborn", "open", "sent", "returned"}]
  BY DEF ListInv, ListTypes
<1>3. queue' \in Seq(Entries) /\ Range(queue') = Range(queue) \cup {Entry(c)}
  BY <1>1, <1>2, EntryIs, AppendIs
<1>4. CommandsOf(queue') = CommandsOf(queue) \cup {c}
  BY <1>3, EntryIs DEF CommandsOf
<1>5. fate' = [Returned({}) EXCEPT ![c] = "open"]
  BY <1>1, <1>2 DEF Returned
<1>6. c \notin CronRuns
  BY <1>1, CronApart
<1>7. /\ {} \in SUBSET Commands
      /\ CommandsOf(queue) \ {} \subseteq CommandsOf(queue') /\ c \in CommandsOf(queue')
      /\ Range(queue') \subseteq Range(queue) \cup {Entry(c)}
      /\ run' = IF c \in CronRuns THEN [run EXCEPT ![c] = "queued"] ELSE run
  BY <1>1, <1>3, <1>4, <1>6
<1> QED BY <1>1, <1>3, <1>5, <1>7, EnqueueLists

\* A notification comes in, at the end of the queue or in the place of an older one.
LEMMA NotifyLists ==
    ASSUME IInv, ListInv, NEW c \in Commands, Notify(c)
    PROVE  ListInv'
<1> DEFINE older == {i \in DOMAIN queue :
                        queue[i].mode = "notice" /\ {c, queue[i].cmd} \in SameTask}
<1>1. /\ fate[c] = "unborn"
      /\ run' = IF c \in CronRuns THEN [run EXCEPT ![c] = "queued"] ELSE run
      /\ UNCHANGED <<pc, batch, snap, crossed>>
  BY DEF Notify, Unborn, turnVars
<1>2. /\ queue \in Seq(Entries) /\ fate \in [Commands -> {"unborn", "open", "sent", "returned"}]
      /\ DOMAIN queue = 1..Len(queue) /\ \A i \in 1..Len(queue) : queue[i] \in Entries
  BY LenProperties, ElementOfSeq DEF ListInv, ListTypes
<1>3. CASE older = {}
  <2>1. queue' = Append(queue, Entry(c)) /\ fate' = [fate EXCEPT ![c] = "open"]
    BY <1>3 DEF Notify, Opened
  <2>2. queue' \in Seq(Entries) /\ Range(queue') = Range(queue) \cup {Entry(c)}
    BY <1>2, <2>1, EntryIs, AppendIs
  <2>3. CommandsOf(queue') = CommandsOf(queue) \cup {c}
    BY <2>2, EntryIs DEF CommandsOf
  <2>4. fate' = [Returned({}) EXCEPT ![c] = "open"]
    BY <1>2, <2>1 DEF Returned
  <2> QED BY <1>1, <2>2, <2>3, <2>4, EnqueueLists
<1>4. CASE older # {}
  <2>1. PICK i \in older : /\ queue' = [queue EXCEPT ![i] = Entry(c)]
                           /\ fate' = [Returned({queue[i].cmd}) EXCEPT ![c] = "open"]
    BY <1>4 DEF Notify
  <2>2. i \in 1..Len(queue) /\ queue[i].cmd \in Commands
    BY <1>2, <2>1 DEF Entries
  <2>3. /\ queue' \in Seq(Entries) /\ Len(queue') = Len(queue)
        /\ \A j \in 1..Len(queue) : queue'[j] = IF j = i THEN Entry(c) ELSE queue[j]
    BY <1>2, <2>1, <2>2, EntryIs, ExceptSeq
  <2>4. DOMAIN queue' = 1..Len(queue)
    BY <2>3, LenProperties
  <2>5. /\ Range(queue') \subseteq Range(queue) \cup {Entry(c)}
        /\ \A e \in Range(queue) : e # queue[i] => e \in Range(queue')
        /\ Entry(c) \in Range(queue')
    BY <1>2, <2>2, <2>3, <2>4 DEF Range
  <2>6. CommandsOf(queue) \ {queue[i].cmd} \subseteq CommandsOf(queue') /\ c \in CommandsOf(queue')
    BY <2>5, EntryIs DEF CommandsOf
  <2>7. PICK old \in SUBSET Commands : old = {queue[i].cmd}
    BY <2>2
  <2> HIDE DEF older
  <2> QED BY <1>1, <2>1, <2>3, <2>5, <2>6, <2>7, EnqueueLists
<1> QED BY <1>3, <1>4

\* All agents are killed: the queue is emptied and one notification takes its place.
LEMMA KillAgentsLists ==
    ASSUME IInv, ListInv, NEW c \in Commands, KillAgents(c)
    PROVE  ListInv'
<1>1. /\ c \in Notices /\ fate[c] = "unborn" /\ queue' = <<Entry(c)>>
      /\ fate' = [Returned(CommandsOf(queue)) EXCEPT ![c] = "open"]
      /\ UNCHANGED <<pc, batch, snap, run, crossed>>
  BY DEF KillAgents, Unborn, turnVars
<1>2. queue' \in Seq(Entries) /\ Range(queue') = {Entry(c)}
  BY <1>1, EntryIs, AppendIs, EmptySeq
<1>3. c \in CommandsOf(queue') /\ CommandsOf(queue) \subseteq Commands
  <2>1. \A e \in Range(queue) : e \in Entries
    BY RangeOfSeq DEF ListInv, ListTypes
  <2> QED BY <1>2, <2>1, EntryIs DEF CommandsOf, Entries
<1>4. c \notin CronRuns
  BY <1>1, CronApart DEF Notifications
<1> QED BY <1>1, <1>2, <1>3, <1>4, EnqueueLists

\* Commands leave the queue, as messages of a conversation or back to the user.
LEMMA DequeueLists ==
    ASSUME ListInv, NEW S, Range(queue') = Range(queue) \ S, queue' \in Seq(Entries),
           NEW gone, \A e \in Range(queue) \cap S : e.cmd \in gone,
           \/ fate' = Returned(gone)
           \/ fate' = Sent(gone) /\ gone \cap CronRuns = {},
           pc \in [Turns -> Phases], pc' \in [Turns -> Phases],
           \A t \in Turns : pc'[t] = pc[t] \/ {pc[t], pc'[t]} \subseteq Querying,
           \A t \in Turns : snap'[t] \subseteq snap[t], snap' \in [Turns -> SUBSET Entries],
           UNCHANGED <<batch, run, crossed>>
    PROVE  ListInv'
<1>1. ListTypes /\ \A d \in CronRuns : d \in Commands
  BY CronApart DEF ListInv
<1>2. /\ fate' \in [Commands -> {"unborn", "open", "sent", "returned"}]
      /\ \A d \in Commands : fate'[d] = "unborn" => fate[d] = "unborn"
      /\ \A d \in Commands : fate[d] = "sent" => fate'[d] = "sent"
      /\ \A d \in Commands : fate'[d] = "open" => fate[d] = "open" /\ d \notin gone
      /\ \A d \in CronRuns : fate'[d] = "sent" => fate[d] = "sent"
  BY <1>1 DEF ListTypes, Returned, Sent
<1>3. /\ CommandsOf(queue') \subseteq CommandsOf(queue)
      /\ CommandsOf(queue) \subseteq CommandsOf(queue') \cup gone
      /\ \A t \in Turns : CommandsOf(batch'[t]) = CommandsOf(batch[t])
  BY DEF CommandsOf
<1>4. /\ \A t \in Turns : pc[t] \in PreQuery => pc'[t] = pc[t]
      /\ \A t \in Turns : pc'[t] = pc[t] \/ (pc[t] \in Querying /\ pc'[t] \in Querying)
  BY DEF PreQuery, Querying
<1>5. ListTypes'
  BY <1>1, <1>2 DEF ListTypes
<1>6. CronWaits'
  BY DEF ListInv, CronWaits
<1>7. Born'
  BY <1>1, <1>2, <1>3 DEF ListInv, Born
<1>8. Claimed' /\ Delivered'
  BY <1>1, <1>2, <1>3, <1>4 DEF ListInv, Claimed, Delivered
<1>9. RunRecordTrue'
  BY <1>1, <1>2 DEF ListInv, RunRecordTrue
<1>10. NothingForgotten'
  BY <1>2, <1>3, <1>4 DEF ListInv, NothingForgotten
<1> QED BY <1>5, <1>6, <1>7, <1>8, <1>9, <1>10 DEF ListInv

\* A subagent takes its notification off the queue.
LEMMA SubagentLists ==
    ASSUME IInv, ListInv, NEW c \in Commands, SubagentTakes(c)
    PROVE  ListInv'
<1> DEFINE S == {e \in Range(queue) : e.cmd = c}
           R == {e \in Range(queue) : e.cmd # c}
<1>1. /\ c \in SubNotices /\ fate' = Sent({c}) /\ queue' = Only(queue, R)
      /\ UNCHANGED <<pc, batch, snap, run, crossed>>
      /\ queue \in Seq(Entries) /\ snap \in [Turns -> SUBSET Entries] /\ pc \in [Turns -> Phases]
  BY DEF SubagentTakes, turnVars, ListInv, ListTypes, IInv, ControlTypes
<1>2. queue' \in Seq(Entries) /\ Range(queue') = Range(queue) \ S
  BY <1>1, OnlyCommands
<1>3. {c} \cap CronRuns = {}
  BY <1>1, CronApart DEF Notifications
<1>4. \A e \in Range(queue) \cap S : e.cmd \in {c}
  OBVIOUS
<1> HIDE DEF S, R
<1> QED BY <1>1, <1>2, <1>3, <1>4, DequeueLists

\* The up arrow takes what may be edited off the queue.
LEMMA PopLists ==
    ASSUME IInv, ListInv, PopAllEditable
    PROVE  ListInv'
<1> DEFINE S == {e \in Range(queue) : Editable(e)}
<1>1. /\ fate' = Returned({e.cmd : e \in S}) /\ queue' = Without(queue, S)
      /\ UNCHANGED <<pc, batch, snap, run, crossed>>
      /\ queue \in Seq(Entries) /\ snap \in [Turns -> SUBSET Entries] /\ pc \in [Turns -> Phases]
  BY DEF PopAllEditable, turnVars, ListInv, ListTypes, IInv, ControlTypes
<1>2. queue' \in Seq(Entries) /\ Range(queue') = Range(queue) \ S
  BY <1>1, OnlyCommands DEF Without
<1>3. \A e \in Range(queue) \cap S : e.cmd \in {f.cmd : f \in S}
  OBVIOUS
<1> HIDE DEF S
<1> QED BY <1>1, <1>2, <1>3, DequeueLists

\* The drain removes what it has read, and no scheduled prompt is among it.
LEMMA EndDrainLists ==
    ASSUME IInv, ListInv, NEW t \in Turns, EndDrain(t)
    PROVE  ListInv'
<1> DEFINE gone == {e.cmd : e \in snap[t]}
<1>1. /\ pc[t] = "draining" /\ pc' = [pc EXCEPT ![t] = "querying"]
      /\ fate' = Sent(gone) /\ queue' = Without(queue, snap[t])
      /\ snap' = [snap EXCEPT ![t] = {}] /\ UNCHANGED <<batch, run, crossed>>
      /\ queue \in Seq(Entries) /\ snap \in [Turns -> SUBSET Entries] /\ pc \in [Turns -> Phases]
  BY DEF EndDrain, ListInv, ListTypes, IInv, ControlTypes
<1>2. queue' \in Seq(Entries) /\ Range(queue') = Range(queue) \ snap[t]
  BY <1>1, OnlyCommands DEF Without
<1>3. gone \cap CronRuns = {} /\ \A e \in Range(queue) \cap snap[t] : e.cmd \in gone
  BY DEF ListInv, CronWaits
<1>4. /\ \A u \in Turns : snap'[u] \subseteq snap[u]
      /\ snap' \in [Turns -> SUBSET Entries]
      /\ pc' \in [Turns -> Phases]
      /\ \A u \in Turns : pc'[u] = pc[u] \/ {pc[u], pc'[u]} \subseteq Querying
  BY <1>1 DEF Phases, Querying
<1>5. PICK S, left : S = snap[t] /\ left = gone
  OBVIOUS
<1>6. /\ Range(queue') = Range(queue) \ S /\ queue' \in Seq(Entries)
      /\ \A e \in Range(queue) \cap S : e.cmd \in left
      /\ fate' = Sent(left) /\ left \cap CronRuns = {}
      /\ pc \in [Turns -> Phases] /\ UNCHANGED <<batch, run, crossed>>
  BY <1>1, <1>2, <1>3, <1>5
<1> HIDE DEF gone
<1> QED BY <1>4, <1>6, DequeueLists

\* A run is cancelled by another path: only its record changes.
LEMMA CancelRunLists ==
    ASSUME IInv, ListInv, NEW c \in CronRuns, CancelRun(c)
    PROVE  ListInv'
<1>1. /\ UNCHANGED <<pc, batch, snap, queue, fate, crossed>>
      /\ run[c] \in {"queued", "running"}
      /\ run \in [CronRuns -> RunStates]
      /\ run' = [run EXCEPT ![c] = IF run[c] = "queued" THEN "cancelled" ELSE "stopped"]
  BY DEF CancelRun, turnVars, history, ListInv, ListTypes
<1>2. /\ run' \in [CronRuns -> RunStates]
      /\ run'[c] = (IF run[c] = "queued" THEN "cancelled" ELSE "stopped")
      /\ \A d \in CronRuns \ {c} : run'[d] = run[d]
  BY <1>1 DEF RunStates
<1>3. /\ CommandsOf(queue') = CommandsOf(queue)
      /\ \A t \in Turns : CommandsOf(batch'[t]) = CommandsOf(batch[t])
  BY <1>1
<1>4. ListTypes' /\ CronWaits'
  BY <1>1, <1>2 DEF ListInv, ListTypes, CronWaits
<1>5. Born'
  BY <1>1, <1>2, <1>3 DEF ListInv, Born
<1>6. Claimed' /\ Delivered'
  BY <1>1, <1>2, <1>3 DEF ListInv, Claimed, Delivered
<1>7. RunRecordTrue' /\ NothingForgotten'
  BY <1>1, <1>2, <1>3 DEF ListInv, RunRecordTrue, NothingForgotten
<1> QED BY <1>4, <1>5, <1>6, <1>7 DEF ListInv

\* The claim drops what is no longer queued; what it keeps is recorded as running.
LEMMA ClaimLists ==
    ASSUME IInv, ListInv, NEW t \in Turns, Claim(t)
    PROVE  ListInv'
<1> DEFINE S == {e \in Range(batch[t]) : Consumable(e.cmd)}
           kept == Only(batch[t], S)
           dropped == CommandsOf(batch[t]) \ CommandsOf(kept)
<1>1. /\ pc[t] = "claiming" /\ UNCHANGED <<snap, queue, crossed>>
      /\ run' = [c \in CronRuns |-> IF c \in CommandsOf(kept) /\ run[c] = "queued"
                                    THEN "running" ELSE run[c]]
      /\ fate' = Returned(dropped)
      /\ batch' = [batch EXCEPT ![t] = kept]
      /\ pc' = [pc EXCEPT ![t] = IF kept = <<>> THEN "free" ELSE "processing"]
  BY DEF Claim
<1>2. /\ ListTypes /\ pc \in [Turns -> Phases] /\ batch[t] \in Seq(Entries)
      /\ \A d \in CronRuns : d \in Commands
  BY CronApart DEF ListInv, ListTypes, IInv, ControlTypes
<1>3. /\ kept \in Seq(Entries) /\ CommandsOf(kept) \subseteq CommandsOf(batch[t])
      /\ \A c \in CommandsOf(kept) \cap CronRuns : run[c] = "queued"
  <2>1. /\ kept \in Seq(Entries)
        /\ CommandsOf(kept) = {e.cmd : e \in Range(batch[t]) \cap S}
    BY <1>2, OnlyCommands
  <2>2. {e.cmd : e \in Range(batch[t]) \cap S} \subseteq CommandsOf(batch[t])
    BY DEF CommandsOf
  <2>3. \A e \in S : e.cmd \in CronRuns => run[e.cmd] = "queued"
    BY DEF Consumable
  <2> QED BY <2>1, <2>2, <2>3
<1>4. kept = <<>> => CommandsOf(kept) = {}
  BY DEF CommandsOf, Range
<1> HIDE DEF kept, dropped
<1>5. /\ batch' \in [Turns -> Seq(Entries)]
      /\ CommandsOf(queue') = CommandsOf(queue) /\ CommandsOf(batch'[t]) = CommandsOf(kept)
      /\ \A u \in Turns \ {t} : CommandsOf(batch'[u]) = CommandsOf(batch[u]) /\ pc'[u] = pc[u]
      /\ kept # <<>> => pc'[t] = "processing"
      /\ kept = <<>> => pc'[t] = "free"
  BY <1>1, <1>2, <1>3 DEF ListTypes
<1>6. /\ fate' \in [Commands -> {"unborn", "open", "sent", "returned"}]
      /\ \A d \in Commands :
             fate'[d] = IF d \in dropped /\ fate[d] = "open" THEN "returned" ELSE fate[d]
      /\ run' \in [CronRuns -> RunStates]
      /\ \A d \in CronRuns : run'[d] = IF d \in CommandsOf(kept) THEN "running" ELSE run[d]
  BY <1>1, <1>2, <1>3 DEF ListTypes, Returned, RunStates
<1>7. ListTypes' /\ CronWaits'
  BY <1>1, <1>2, <1>5, <1>6 DEF ListInv, ListTypes, CronWaits
<1>8. Born'
  BY <1>2, <1>3, <1>5, <1>6 DEF ListInv, Born
<1>9. Claimed'
  BY <1>3, <1>4, <1>5, <1>6 DEF ListInv, Claimed
<1>10. Delivered'
  BY <1>1, <1>2, <1>5, <1>6 DEF ListInv, Delivered, Querying
<1>11. RunRecordTrue'
  BY <1>1, <1>2, <1>6 DEF ListInv, RunRecordTrue
<1>12. NothingForgotten'
  <2> SUFFICES ASSUME NEW c \in Commands, fate'[c] = "open"
               PROVE  \/ c \in CommandsOf(queue')
                      \/ \E u \in Turns : pc'[u] \in PreQuery /\ c \in CommandsOf(batch'[u])
                      \/ c \in CronRuns /\ crossed
    BY <1>1 DEF NothingForgotten
  <2>1. fate[c] = "open" /\ c \notin dropped
    BY <1>6
  <2>2. CASE c \in CommandsOf(batch[t])
    BY <1>4, <1>5, <2>1, <2>2 DEF dropped, PreQuery
  <2>3. CASE c \notin CommandsOf(batch[t])
    BY <1>5, <2>1, <2>3 DEF ListInv, NothingForgotten
  <2> QED BY <2>2, <2>3
<1> QED BY <1>7, <1>8, <1>9, <1>10, <1>11, <1>12 DEF ListInv

\* The turn reaches its query with all it has.
LEMMA StartQueryLists ==
    ASSUME IInv, ListInv, NEW t \in Turns, StartQuery(t)
    PROVE  ListInv'
<1>1. /\ pc[t] = "processing" /\ pc' = [pc EXCEPT ![t] = "querying"]
      /\ fate' = Sent(CommandsOf(batch[t])) /\ UNCHANGED <<batch, snap, queue, run, crossed>>
      /\ ListTypes /\ pc \in [Turns -> Phases]
      /\ \A d \in CronRuns : d \in Commands
  BY CronApart DEF StartQuery, ListInv, IInv, ControlTypes
<1>2. /\ CommandsOf(queue') = CommandsOf(queue)
      /\ \A u \in Turns : CommandsOf(batch'[u]) = CommandsOf(batch[u])
      /\ pc'[t] = "querying" /\ \A u \in Turns \ {t} : pc'[u] = pc[u]
  BY <1>1
<1>3. /\ fate' \in [Commands -> {"unborn", "open", "sent", "returned"}]
      /\ \A d \in Commands : fate'[d] = IF d \in CommandsOf(batch[t]) THEN "sent" ELSE fate[d]
  BY <1>1 DEF ListTypes, Sent
<1>4. ListTypes' /\ CronWaits' /\ Born'
  BY <1>1, <1>2, <1>3 DEF ListInv, ListTypes, CronWaits, Born
<1>5. Claimed' /\ Delivered'
  BY <1>1, <1>2, <1>3 DEF ListInv, Claimed, Delivered
<1>6. RunRecordTrue'
  BY <1>1, <1>2, <1>3 DEF ListInv, RunRecordTrue, Claimed
<1>7. NothingForgotten'
  BY <1>1, <1>2, <1>3 DEF ListInv, NothingForgotten
<1> QED BY <1>4, <1>5, <1>6, <1>7 DEF ListInv

\* A turn ends without a query of its own, or after it.
LEMMA LeavingLists ==
    ASSUME IInv, ListInv, NEW t \in Turns, NEW how \in Finalizing, NEW s, Leave(t, how, s),
           UNCHANGED <<snap, run, crossed>>,
           NEW back, queue' \in Seq(Entries),
           \A e \in Range(queue') : e \in Range(queue) \/ e.cmd \notin CronRuns,
           CommandsOf(queue') = CommandsOf(queue) \cup back, back \cap CronRuns = {},
           \/ pc[t] = "querying" /\ fate' = fate
           \/ pc[t] = "processing" /\ fate' = Sent(CommandsOf(batch[t]))
           \/ pc[t] = "processing" /\ fate' = Returned(CommandsOf(batch[t])) /\ how = "failing"
           \/ pc[t] = "processing" /\ fate' = fate /\ crossed
              /\ CommandsOf(batch[t]) \subseteq back \cup CronRuns
    PROVE  ListInv'
<1> DEFINE C == CommandsOf(batch[t])
<1>1. /\ ListTypes /\ pc \in [Turns -> Phases] /\ pc[t] \in {"querying", "processing"}
      /\ \A d \in CronRuns : d \in Commands
  BY CronApart DEF ListInv, IInv, ControlTypes
<1>2. /\ batch' \in [Turns -> Seq(Entries)]
      /\ \A u \in Turns \ {t} : CommandsOf(batch'[u]) = CommandsOf(batch[u]) /\ pc'[u] = pc[u]
      /\ pc'[t] = "free" \/ pc'[t] = how
      /\ CommandsOf(batch'[t]) \subseteq C
  BY <1>1, LeaveLists
<1>3. /\ fate' \in [Commands -> {"unborn", "open", "sent", "returned"}]
      /\ \A d \in Commands : /\ fate'[d] = "unborn" => fate[d] = "unborn"
                             /\ fate[d] = "sent" => fate'[d] = "sent"
                             /\ fate'[d] = "open" => fate[d] = "open"
                             /\ fate'[d] = "sent" => fate[d] = "sent" \/
                                    (d \in C /\ pc[t] = "processing")
                             /\ d \in C /\ fate'[d] = "open" => pc[t] = "querying" \/
                                    (crossed /\ d \in back \cup CronRuns)
                             /\ d \in C /\ how = "completing" =>
                                    pc[t] = "querying" \/ fate'[d] = "sent" \/ crossed
  BY <1>1 DEF ListTypes, Returned, Sent
<1> HIDE DEF C
<1>4. ListTypes' /\ CronWaits'
  BY <1>1, <1>2, <1>3 DEF ListInv, ListTypes, CronWaits
<1>5. Born'
  BY <1>1, <1>2, <1>3 DEF ListInv, Born, C
<1>6. Claimed'
  BY <1>1, <1>2, <1>3 DEF ListInv, Claimed, C, Querying, Finalizing
<1>7. Delivered'
  BY <1>1, <1>2, <1>3 DEF ListInv, Delivered, C, Querying, Finalizing
<1>8. RunRecordTrue'
  BY <1>1, <1>3 DEF ListInv, RunRecordTrue, Claimed, C
<1>9. NothingForgotten'
  BY <1>1, <1>2, <1>3 DEF ListInv, NothingForgotten, C, PreQuery
<1> QED BY <1>4, <1>5, <1>6, <1>7, <1>8, <1>9 DEF ListInv

\* The ends of a turn, one by one.  A turn that is refused has crossed another one.
LEMMA EndsLists ==
    ASSUME IInv, ListInv, NEW t \in Turns,
           \/ Refused(t) \/ AnswerLocally(t) \/ NoMessages(t) \/ InputFails(t)
           \/ \E how \in Finalizing : EndQuery(t, how)
    PROVE  ListInv'
<1>1. queue \in Seq(Entries) /\ batch[t] \in Seq(Entries) /\ {} \cap CronRuns = {}
  BY DEF ListInv, ListTypes
<1>2. CASE AnswerLocally(t) \/ NoMessages(t)
  <2>1. PICK s : /\ Leave(t, "completing", s) /\ pc[t] = "processing"
                 /\ fate' = Sent(CommandsOf(batch[t])) /\ UNCHANGED <<snap, queue, run, crossed>>
    BY <1>2 DEF AnswerLocally, NoMessages
  <2>2. CommandsOf(queue') = CommandsOf(queue) \cup {} /\ "completing" \in Finalizing
    BY <2>1 DEF Finalizing
  <2> QED BY <1>1, <2>1, <2>2, LeavingLists
<1>3. CASE InputFails(t)
  <2>1. /\ Leave(t, "failing", status) /\ pc[t] = "processing"
        /\ fate' = Returned(CommandsOf(batch[t])) /\ UNCHANGED <<snap, queue, run, crossed>>
    BY <1>3 DEF InputFails
  <2>2. CommandsOf(queue') = CommandsOf(queue) \cup {} /\ "failing" \in Finalizing
    BY <2>1 DEF Finalizing
  <2> QED BY <1>1, <2>1, <2>2, LeavingLists
<1>4. ASSUME NEW how \in Finalizing, EndQuery(t, how) PROVE ListInv'
  <2>1. PICK s : /\ Leave(t, how, s) /\ pc[t] = "querying"
                 /\ UNCHANGED <<fate, snap, queue, run, crossed>>
    BY <1>4 DEF EndQuery, history
  <2>2. CommandsOf(queue') = CommandsOf(queue) \cup {}
    BY <2>1
  <2> QED BY <1>1, <2>1, <2>2, LeavingLists
<1>5. CASE Refused(t)
  <2>1. /\ Leave(t, "completing", status) /\ pc[t] = "processing" /\ status = "running"
        /\ queue' = queue \o PutBack(t) /\ UNCHANGED <<fate, snap, run, crossed>>
    BY <1>5 DEF Refused
  <2>2. crossed
    BY <2>1 DEF IInv, AloneBefore, PreQuery
  <2> DEFINE back == CommandsOf(PutBack(t))
  <2>3. /\ PutBack(t) \in Seq(Entries)
        /\ \A e \in Range(PutBack(t)) : e.cmd \notin CronRuns
        /\ back = CommandsOf(batch[t]) \ CronRuns
    BY <1>1, PutBackIs
  <2>4. queue' \in Seq(Entries) /\ Range(queue') = Range(queue) \cup Range(PutBack(t))
    BY <1>1, <2>1, <2>3, ConcatProperties, RangeConcatenation
  <2>5. CommandsOf(queue') = CommandsOf(queue) \cup back
    BY <2>4 DEF CommandsOf
  <2>6. /\ back \cap CronRuns = {} /\ CommandsOf(batch[t]) \subseteq back \cup CronRuns
        /\ \A e \in Range(queue') : e \in Range(queue) \/ e.cmd \notin CronRuns
        /\ "completing" \in Finalizing
    BY <2>3, <2>4 DEF Finalizing
  <2> HIDE DEF back
  <2> QED BY <2>1, <2>2, <2>4, <2>5, <2>6, LeavingLists
<1> QED BY <1>2, <1>3, <1>4, <1>5

\* The drain reads what waits at the priority 'next'.
LEMMA BeginDrainLists ==
    ASSUME IInv, ListInv, NEW t \in Turns, BeginDrain(t)
    PROVE  ListInv'
<1> DEFINE ready == {e \in Range(queue) : IsMain(e) /\ Next_(e) /\ Inline(e)}
<1>1. /\ pc[t] = "querying" /\ pc' = [pc EXCEPT ![t] = "draining"]
      /\ snap' = [snap EXCEPT ![t] = ready]
      /\ UNCHANGED <<batch, queue, run, fate, crossed>>
      /\ ListTypes /\ pc \in [Turns -> Phases]
  BY DEF BeginDrain, history, ListInv, IInv, ControlTypes
<1>2. ready \subseteq Entries
  BY <1>1, RangeOfSeq DEF ListTypes
<1>3. \A e \in ready : e.cmd \notin CronRuns
  <2> SUFFICES ASSUME NEW e \in ready, e.cmd \in CronRuns PROVE FALSE
    OBVIOUS
  <2>1. e.copy = 0 /\ Next_(e)
    BY DEF ListInv, CronWaits
  <2> QED BY <2>1, CronApart DEF Next_, Notifications
<1> HIDE DEF ready
<1>4. /\ CommandsOf(queue') = CommandsOf(queue)
      /\ \A u \in Turns : CommandsOf(batch'[u]) = CommandsOf(batch[u])
      /\ pc'[t] = "draining" /\ \A u \in Turns \ {t} : pc'[u] = pc[u]
  BY <1>1
<1>5. ListTypes' /\ CronWaits'
  BY <1>1, <1>2, <1>3 DEF ListInv, ListTypes, CronWaits
<1>6. Born' /\ Claimed' /\ Delivered'
  BY <1>1, <1>4 DEF ListInv, Born, Claimed, Delivered, Querying
<1>7. RunRecordTrue' /\ NothingForgotten'
  BY <1>1, <1>4 DEF ListInv, RunRecordTrue, NothingForgotten, PreQuery
<1> QED BY <1>5, <1>6, <1>7 DEF ListInv

\* The runs of a turn that ends are recorded.
LEMMA FinalizeLists ==
    ASSUME IInv, ListInv, NEW t \in Turns, Finalize(t)
    PROVE  ListInv'
<1>1. /\ pc[t] \in Finalizing /\ pc' = [pc EXCEPT ![t] = "free"]
      /\ batch' = [batch EXCEPT ![t] = <<>>]
      /\ UNCHANGED <<snap, queue, fate, crossed>>
      /\ ListTypes /\ pc \in [Turns -> Phases]
  BY DEF Finalize, history, ListInv, IInv, ControlTypes
<1>2. /\ run' \in [CronRuns -> RunStates]
      /\ \A d \in CronRuns :
             \/ run'[d] = run[d]
             \/ /\ d \in CommandsOf(batch[t]) /\ run'[d] \in {"completed", "failed"}
                /\ run'[d] = "completed" => pc[t] = "completing"
  BY <1>1 DEF Finalize, ListTypes, RunStates
<1>3. /\ CommandsOf(queue') = CommandsOf(queue) /\ CommandsOf(batch'[t]) = {}
      /\ \A u \in Turns \ {t} : CommandsOf(batch'[u]) = CommandsOf(batch[u]) /\ pc'[u] = pc[u]
      /\ pc'[t] = "free" /\ batch' \in [Turns -> Seq(Entries)]
  <2>1. CommandsOf(<<>>) = {} /\ <<>> \in Seq(Entries)
    BY EmptySeq DEF CommandsOf, Range
  <2> QED BY <1>1, <2>1 DEF ListTypes
<1>4. ListTypes' /\ CronWaits'
  BY <1>1, <1>2, <1>3 DEF ListInv, ListTypes, CronWaits
<1>5. Born'
  BY <1>1, <1>2, <1>3 DEF ListInv, Born
<1>6. Claimed' /\ Delivered'
  BY <1>1, <1>2, <1>3 DEF ListInv, Claimed, Delivered, Querying, Finalizing
<1>7. RunRecordTrue'
  BY <1>1, <1>2 DEF ListInv, RunRecordTrue, Delivered
<1>8. NothingForgotten'
  BY <1>1, <1>3 DEF ListInv, NothingForgotten, PreQuery, Finalizing
<1> QED BY <1>4, <1>5, <1>6, <1>7, <1>8 DEF ListInv

\* Every step keeps the invariant.
LEMMA ListStep ==
    ASSUME IInv, ListInv, [Next]_vars
    PROVE  ListInv'
<1>1. ASSUME NEW c \in Commands,
             \/ SubmitQueued(c) \/ Notify(c) \/ SubagentTakes(c) \/ KillAgents(c)
             \/ \E t \in Turns : SubmitNow(c, t) \/ AcceptIncoming(c, t)
      PROVE  ListInv'
  BY <1>1, SubmitQueuedLists, NotifyLists, SubagentLists, KillAgentsLists, SubmitNowLists,
     IncomingLists
<1>2. ASSUME NEW c \in CronRuns, CancelRun(c) PROVE ListInv'
  BY <1>2, CancelRunLists
<1>3. ASSUME NEW t \in Turns, ProcessQueue(t) \/ BeginDrain(t) \/ TurnStep(t) PROVE ListInv'
  BY <1>3, ProcessQueueLists, BeginDrainLists, ClaimLists, StartQueryLists, EndsLists,
     EndDrainLists, FinalizeLists DEF TurnStep
<1>4. CASE Cancel
  BY <1>4, SameLists DEF Cancel, history, IInv, ControlTypes
<1>5. CASE PopAllEditable
  BY <1>5, PopLists
<1>6. CASE UNCHANGED vars
  BY <1>6, SameLists DEF vars, turnVars, history, IInv, ControlTypes
<1> QED BY <1>1, <1>2, <1>3, <1>4, <1>5, <1>6 DEF Next

\* At the start there is nothing.
LEMMA ListInit == Init => ListInv
<1> SUFFICES ASSUME Init PROVE ListInv
  OBVIOUS
<1>1. /\ batch = [t \in Turns |-> <<>>] /\ snap = [t \in Turns |-> {}] /\ queue = <<>>
      /\ run = [c \in CronRuns |-> "none"] /\ fate = [c \in Commands |-> "unborn"]
      /\ pc = [t \in Turns |-> "free"]
  BY DEF Init
<1>2. Range(<<>>) = {} /\ CommandsOf(<<>>) = {} /\ <<>> \in Seq(Entries)
  BY EmptySeq DEF CommandsOf, Range
<1>3. ListTypes /\ CronWaits
  BY <1>1, <1>2 DEF ListTypes, CronWaits, RunStates
<1>4. Born /\ Claimed /\ Delivered
  BY <1>1, <1>2, CronApart DEF Born, Claimed, Delivered, Querying, Finalizing
<1>5. RunRecordTrue /\ NothingForgotten
  BY <1>1, CronApart DEF RunRecordTrue, NothingForgotten
<1> QED BY <1>3, <1>4, <1>5 DEF ListInv

\* The lists are what the invariant says.
THEOREM ListInvariance == Spec => []ListInv
<1>1. IInv /\ ListInv /\ [Next]_vars => ListInv'
  BY ListStep
<1> QED BY <1>1, ListInit, Invariance, PTL DEF Spec

\* Every variable has its type, for any commands, any kinds of them and any number of turns.
THEOREM TypeCorrect == Spec => []TypeOK
<1>1. IInv /\ ListInv => TypeOK
  BY DEF IInv, ControlTypes, Phases, ListInv, ListTypes, TypeOK
<1> QED BY <1>1, Invariance, ListInvariance, PTL

(* For any commands and any number of turns: a run that                     *)
(* finalizeAutonomyCommandsForTurn has recorded as completed was a message  *)
(* of a conversation, unless its turn has crossed another one.              *)
THEOREM RecordsAreTrue == Spec => []RunRecordTrue
<1>1. ListInv => RunRecordTrue
  BY DEF ListInv
<1> QED BY <1>1, ListInvariance, PTL

(* For any commands and any number of turns: what enqueue or                *)
(* handlePromptSubmit took and nothing has answered is in the queue or in a *)
(* turn that will query with it, unless turns have crossed and it is a      *)
(* scheduled prompt, which a refused onQuery does not put back.             *)
THEOREM NoCommandForgotten == Spec => []NothingForgotten
<1>1. ListInv => NothingForgotten
  BY DEF ListInv
<1> QED BY <1>1, ListInvariance, PTL
=============================================================================
