--------------------------- MODULE PromptSession ---------------------------
(* The prompt session of the terminal UI: the query guard, the command      *)
(* queue, and the turns that are started from the keyboard, from the queue  *)
(* and by peers.  Every action is what one macrotask does: between two      *)
(* awaits of real work nothing else runs, and awaits that only wait for     *)
(* resolved promises (a claim without autonomy runs, the hooks around a     *)
(* query, which are stubs in this build) end within it.                     *)
EXTENDS Naturals, FiniteSets, SequencesExt

CONSTANTS
    Prompts,     \* typed prompts
    Slashes,     \* typed slash commands
    Bashes,      \* typed shell commands
    Notices,     \* task notifications at priority 'later'
    Alerts,      \* task notifications at priority 'next'
    SubNotices,  \* task notifications addressed to a subagent
    CronRuns,    \* scheduled prompts, each with an autonomy run on disk
    Incoming,    \* prompts of peers that skip the queue
    SameTask,    \* pairs of notifications of one task
    Turns,       \* slots for turns in flight (bounds how many there are)
    NoTurn

Typed == Prompts \cup Slashes \cup Bashes
Notifications == Notices \cup Alerts \cup SubNotices
Commands == Typed \cup Notifications \cup CronRuns \cup Incoming

ASSUME KindsDisjoint ==
    /\ Typed \cap (Notifications \cup CronRuns \cup Incoming) = {}
    /\ CronRuns \cap (Notifications \cup Incoming) = {}
ASSUME NoTurnAssumption == NoTurn \notin Turns

VARIABLES
    status,      \* QueryGuard._status
    holder,      \* the turn whose generation is the guard's, while it runs
    controller,  \* the turn whose abort controller Esc would abort
    aborted,     \* aborted[t]: that controller's signal
    pc,          \* where the async chain of a turn waits
    batch,       \* batch[t]: the commands it was started with
    snap,        \* snap[t]: the queue entries its mid-turn drain has read
    queue,       \* commandQueue
    run,         \* run[c]: the record of an autonomy run
    fate,        \* fate[c]: "unborn", then "open" until the command is "sent",
                 \* as a message of a conversation, or "returned": handed
                 \* back, discarded on request, or failed with an error
    crossed      \* a turn was started beside one that had not reached onQuery

guardVars == <<status, holder, controller>>
turnVars == <<aborted, pc, batch, snap>>
history == <<fate, crossed>>
vars == <<guardVars, turnVars, queue, run, history>>

----------------------------------------------------------------------------
(* Queue entries. `copy` tells a command that was put back from the object  *)
(* it was before: removal from the queue goes by reference.                 *)

Entry(c) ==
    [cmd |-> c, copy |-> 0,
     mode |-> IF c \in Bashes THEN "bash"
              ELSE IF c \in Slashes THEN "slash"
              ELSE IF c \in Notifications THEN "notice"
              ELSE IF c \in Incoming THEN "incoming"
              ELSE "prompt"]

\* What onQuery puts back when it finds the guard running: plain text.
Again(e) == [cmd |-> e.cmd, copy |-> e.copy + 1, mode |-> "prompt"]

IsMain(e) == e.cmd \notin SubNotices
IsMeta(e) == e.cmd \in CronRuns
Editable(e) == e.mode # "notice" /\ ~IsMeta(e)
Next_(e) == e.copy > 0 \/ e.cmd \in Typed \cup Alerts \cup SubNotices
Inline(e) == e.mode \in {"prompt", "notice"}

CommandsOf(s) == {e.cmd : e \in Range(s)}

\* The entries of q that are in S, each at the place its rank among them gives it.
Only(q, S) ==
    LET kept == {i \in DOMAIN q : q[i] \in S}
        rank(i) == Cardinality({j \in kept : j <= i})
    IN  [n \in 1..Cardinality(kept) |-> q[CHOOSE i \in kept : rank(i) = n]]
Without(q, S) == Only(q, Range(q) \ S)

\* The first entry of the highest priority among those at the positions I.
First(q, I) ==
    LET next == {i \in I : Next_(q[i])}
    IN  q[Min(IF next # {} THEN next ELSE I)]

\* Mutant: the peek looks at the entries of subagents too.
PeekUnfiltered(q) == First(q, DOMAIN q)

\* The first entry of the highest priority among those of the main thread.
Peek(q) == First(q, {i \in DOMAIN q : IsMain(q[i])})

\* What processQueueIfReady takes: a slash or shell command alone, otherwise
\* everything of the mode of the first entry.
Taken(q) ==
    LET first == Peek(q)
    IN  IF first.mode \in {"slash", "bash"}
        THEN {first}
        ELSE {e \in Range(q) : IsMain(e) /\ e.mode = first.mode}

----------------------------------------------------------------------------
(* The guard.                                                               *)

IsActive == status # "idle"
AfterReserve == IF status = "idle" THEN "dispatching" ELSE status
AfterCancelReservation(s) == IF s = "dispatching" THEN "idle" ELSE s
\* Mutant: end() does not look at the generation.
EndsAnyTurn(t) == status = "running" /\ t \in Turns

\* end(generation) takes effect for the current generation only.
Ends(t) == status = "running" /\ holder = t

PreQuery == {"claiming", "processing"}
Querying == {"querying", "draining"}
Finalizing == {"completing", "failing"}

HasRuns(t) == CommandsOf(batch[t]) \cap CronRuns # {}
ViaSubmit(t) == Head(batch[t]).mode # "incoming"

Sent(S) == [c \in Commands |-> IF c \in S THEN "sent" ELSE fate[c]]
Returned(S) ==
    [c \in Commands |-> IF c \in S /\ fate[c] = "open" THEN "returned" ELSE fate[c]]
Unborn(c) == fate[c] = "unborn"
Opened(c) == [fate EXCEPT ![c] = "open"]
\* The slot of the next turn.
Slot(t) ==
    /\ pc[t] = "free"
    /\ t = CHOOSE u \in Turns : pc[u] = "free"

Crosses == crossed \/ \E u \in Turns : pc[u] \in PreQuery

\* executeUserInput up to its first await of real work.
Execute(t, entries) ==
    /\ Slot(t)
    /\ controller' = t
    /\ aborted' = [aborted EXCEPT ![t] = FALSE]
    /\ status' = AfterReserve
    /\ batch' = [batch EXCEPT ![t] = entries]
    /\ pc' = [pc EXCEPT ![t] = IF CommandsOf(entries) \cap CronRuns # {}
                               THEN "claiming" ELSE "processing"]
    /\ crossed' = Crosses
    /\ UNCHANGED <<holder, snap>>

\* The rest of executeUserInput once onQuery is over or was skipped, with the
\* guard in status s: claimed runs are finalized first, and the finally block
\* gives a reservation back whoever made it.
Leave(t, how, s) ==
    IF HasRuns(t)
    THEN /\ pc' = [pc EXCEPT ![t] = how]
         /\ status' = s
         /\ UNCHANGED batch
    ELSE /\ pc' = [pc EXCEPT ![t] = "free"]
         /\ status' = IF ViaSubmit(t) THEN AfterCancelReservation(s) ELSE s
         /\ batch' = [batch EXCEPT ![t] = <<>>]

----------------------------------------------------------------------------
Init ==
    /\ status = "idle"
    /\ holder = NoTurn
    /\ controller = NoTurn
    /\ aborted = [t \in Turns |-> FALSE]
    /\ pc = [t \in Turns |-> "free"]
    /\ batch = [t \in Turns |-> <<>>]
    /\ snap = [t \in Turns |-> {}]
    /\ queue = <<>>
    /\ run = [c \in CronRuns |-> "none"]
    /\ fate = [c \in Commands |-> "unborn"]
    /\ crossed = FALSE

(* handlePromptSubmit with the guard idle: the turn starts at once.         *)
SubmitNow(c, t) ==
    /\ c \in Typed /\ Unborn(c)
    /\ ~IsActive
    /\ fate' = Opened(c)
    /\ Execute(t, <<Entry(c)>>)
    /\ UNCHANGED <<queue, run>>

(* handlePromptSubmit with the guard active: the command is queued, and the *)
(* current turn is aborted when its tools may be interrupted.               *)
SubmitQueued(c) ==
    /\ c \in Typed /\ Unborn(c)
    /\ IsActive
    /\ fate' = Opened(c)
    /\ queue' = Append(queue, Entry(c))
    /\ \/ aborted' = aborted
       \/ /\ controller # NoTurn
          /\ pc[controller] \in Querying
          /\ aborted' = [aborted EXCEPT ![controller] = TRUE]
    /\ UNCHANGED <<guardVars, pc, batch, snap, run, crossed>>

(* enqueuePendingNotification: a newer notification of the same task takes  *)
(* the place of the older one.                                              *)
Notify(c) ==
    /\ c \in Notifications \cup CronRuns /\ Unborn(c)
    /\ LET older == {i \in DOMAIN queue :
                        /\ queue[i].mode = "notice"
                        /\ {c, queue[i].cmd} \in SameTask}
       IN  IF older = {}
           THEN /\ queue' = Append(queue, Entry(c))
                /\ fate' = Opened(c)
           ELSE \E i \in older :
                /\ \A j \in older : i <= j
                /\ queue' = [queue EXCEPT ![i] = Entry(c)]
                /\ fate' = [Returned({queue[i].cmd}) EXCEPT ![c] = "open"]
    /\ run' = IF c \in CronRuns THEN [run EXCEPT ![c] = "queued"] ELSE run
    /\ UNCHANGED <<guardVars, turnVars, crossed>>

(* The run is cancelled by another path; a record that was started keeps    *)
(* its start time, which tells "stopped" from "cancelled".                  *)
CancelRun(c) ==
    /\ run[c] \in {"queued", "running"}
    /\ run' = [run EXCEPT ![c] = IF @ = "queued" THEN "cancelled" ELSE "stopped"]
    /\ UNCHANGED <<guardVars, turnVars, queue, history>>

(* useQueueProcessor and processQueueIfReady.                               *)
ProcessQueue(t) ==
    /\ ~IsActive
    /\ \E i \in DOMAIN queue : IsMain(queue[i])
    /\ Taken(queue) # {}
    /\ Execute(t, Only(queue, Taken(queue)))
    /\ queue' = Without(queue, Taken(queue))
    /\ UNCHANGED <<run, fate>>

(* handleIncomingPrompt accepts: no reservation, straight to onQuery.       *)
AcceptIncoming(c, t) ==
    /\ c \in Incoming /\ Unborn(c)
    /\ ~IsActive
    /\ \A i \in DOMAIN queue : queue[i].mode = "notice"
    /\ Slot(t)
    /\ fate' = Sent({c})
    /\ controller' = t
    /\ aborted' = [aborted EXCEPT ![t] = FALSE]
    /\ status' = "running"
    /\ holder' = t
    /\ pc' = [pc EXCEPT ![t] = "querying"]
    /\ batch' = [batch EXCEPT ![t] = <<Entry(c)>>]
    /\ crossed' = Crosses
    /\ UNCHANGED <<snap, queue, run>>

\* Mutant: only runs that are over are skipped, as if cancellation were not.
ConsumableUnlessOver(c) ==
    c \notin CronRuns \/ run[c] \notin {"completed", "failed"}

Consumable(c) == c \notin CronRuns \/ run[c] = "queued"

(* claimConsumableQueuedAutonomyCommands: a command whose run is no longer  *)
(* queued is dropped; a turn left without commands is over.                 *)
Claim(t) ==
    /\ pc[t] = "claiming"
    /\ LET kept == Only(batch[t], {e \in Range(batch[t]) : Consumable(e.cmd)})
       IN  /\ run' = [c \in CronRuns |->
                        IF c \in CommandsOf(kept) /\ run[c] = "queued"
                        THEN "running" ELSE run[c]]
           /\ fate' = Returned(CommandsOf(batch[t]) \ CommandsOf(kept))
           /\ batch' = [batch EXCEPT ![t] = kept]
           /\ IF kept = <<>>
              THEN /\ controller' = NoTurn
                   /\ status' = AfterCancelReservation(status)
                   /\ pc' = [pc EXCEPT ![t] = "free"]
              ELSE /\ pc' = [pc EXCEPT ![t] = "processing"]
                   /\ UNCHANGED <<status, controller>>
    /\ UNCHANGED <<holder, aborted, snap, queue, crossed>>

(* processUserInput yielded messages to query with and tryStart succeeded.  *)
StartQuery(t) ==
    /\ pc[t] = "processing"
    /\ Head(batch[t]).mode # "bash"
    /\ status # "running"
    /\ status' = "running"
    /\ holder' = t
    /\ pc' = [pc EXCEPT ![t] = "querying"]
    /\ fate' = Sent(CommandsOf(batch[t]))
    /\ UNCHANGED <<controller, aborted, batch, snap, queue, run, crossed>>

\* Mutant: the wrong messages are skipped: the meta ones go back.
PutNothingBack(t) == Only(batch[t], {e \in Range(batch[t]) : IsMeta(e)})

PutBack(t) ==
    LET text == Only(batch[t], {e \in Range(batch[t]) : ~IsMeta(e)})
    IN  [i \in DOMAIN text |-> Again(text[i])]

(* tryStart failed: onQuery puts the text of the user's messages back and   *)
(* returns false, which executeUserInput does not look at.                  *)
Refused(t) ==
    /\ pc[t] = "processing"
    /\ status = "running"
    /\ queue' = queue \o PutBack(t)
    /\ Leave(t, "completing", status)
    /\ UNCHANGED <<holder, controller, aborted, snap, run, fate, crossed>>

(* The messages need no answer (a shell command, a hook that blocks): onQuery *)
(* starts, clears the controller and ends.                                  *)
AnswerLocally(t) ==
    /\ pc[t] = "processing"
    /\ status # "running"
    /\ holder' = NoTurn
    /\ controller' = NoTurn
    /\ fate' = Sent(CommandsOf(batch[t]))
    /\ Leave(t, "completing", "idle")
    /\ UNCHANGED <<aborted, snap, queue, run, crossed>>

(* A slash command without messages: the reservation goes back first.       *)
NoMessages(t) ==
    /\ pc[t] = "processing"
    /\ Head(batch[t]).mode = "slash"
    /\ controller' = NoTurn
    /\ fate' = Sent(CommandsOf(batch[t]))
    /\ Leave(t, "completing", AfterCancelReservation(status))
    /\ UNCHANGED <<holder, aborted, snap, queue, run, crossed>>

(* processUserInput throws: the controller stays published.                 *)
InputFails(t) ==
    /\ pc[t] = "processing"
    /\ fate' = Returned(CommandsOf(batch[t]))
    /\ Leave(t, "failing", status)
    /\ UNCHANGED <<holder, controller, aborted, snap, queue, run, crossed>>

(* The mid-turn drain of query.ts reads the queue ...                       *)
BeginDrain(t) ==
    /\ pc[t] = "querying"
    /\ ~aborted[t]
    /\ LET ready == {e \in Range(queue) : IsMain(e) /\ Next_(e) /\ Inline(e)}
       IN  /\ ready # {}
           /\ snap' = [snap EXCEPT ![t] = ready]
    /\ pc' = [pc EXCEPT ![t] = "draining"]
    /\ UNCHANGED <<guardVars, aborted, batch, queue, run, history>>

(* ... and, once the attachments are built, removes what it has read.       *)
EndDrain(t) ==
    /\ pc[t] = "draining"
    /\ fate' = Sent({e.cmd : e \in snap[t]})
    /\ queue' = Without(queue, snap[t])
    /\ snap' = [snap EXCEPT ![t] = {}]
    /\ pc' = [pc EXCEPT ![t] = "querying"]
    /\ UNCHANGED <<guardVars, aborted, batch, run, crossed>>

(* A subagent drains what is addressed to it, or is gone and its commands   *)
(* with it.                                                                 *)
SubagentTakes(c) ==
    /\ c \in SubNotices
    /\ \E i \in DOMAIN queue : queue[i].cmd = c
    /\ queue' = Only(queue, {e \in Range(queue) : e.cmd # c})
    /\ fate' = Sent({c})
    /\ UNCHANGED <<guardVars, turnVars, run, crossed>>

(* The query is over, and so is onQuery: its finally block.                 *)
EndQuery(t, how) ==
    /\ pc[t] = "querying"
    /\ holder' = IF Ends(t) THEN NoTurn ELSE holder
    /\ controller' = IF Ends(t) THEN NoTurn ELSE controller
    /\ Leave(t, how, IF Ends(t) THEN "idle" ELSE status)
    /\ UNCHANGED <<aborted, snap, queue, run, history>>

(* finalizeAutonomyCommandsForTurn, then executeUserInput's finally block.  *)
Finalize(t) ==
    /\ pc[t] \in Finalizing
    /\ run' = [c \in CronRuns |->
                  IF c \in CommandsOf(batch[t]) /\ run[c] \in {"queued", "running"}
                  THEN IF pc[t] = "completing" THEN "completed" ELSE "failed"
                  ELSE run[c]]
    /\ status' = AfterCancelReservation(status)
    /\ pc' = [pc EXCEPT ![t] = "free"]
    /\ batch' = [batch EXCEPT ![t] = <<>>]
    /\ UNCHANGED <<holder, controller, aborted, snap, queue, history>>

(* Esc while a controller is live: onCancel.                                *)
Cancel ==
    /\ controller # NoTurn
    /\ ~aborted[controller]
    /\ status' = "idle"
    /\ holder' = NoTurn
    /\ aborted' = [aborted EXCEPT ![controller] = TRUE]
    /\ controller' = NoTurn
    /\ UNCHANGED <<pc, batch, snap, queue, run, history>>

(* Esc at rest, or the up arrow: the editable commands go back to the input. *)
PopAllEditable ==
    LET editable == {e \in Range(queue) : Editable(e)}
    IN  /\ editable # {}
        /\ queue' = Without(queue, editable)
        /\ fate' = Returned({e.cmd : e \in editable})
        /\ UNCHANGED <<guardVars, turnVars, run, crossed>>

(* The second press of the key that kills all agents: the queue is cleared  *)
(* and one notification says what was stopped.                              *)
KillAgents(c) ==
    /\ c \in Notices /\ Unborn(c)
    /\ fate' = [Returned(CommandsOf(queue)) EXCEPT ![c] = "open"]
    /\ queue' = <<Entry(c)>>
    /\ UNCHANGED <<guardVars, turnVars, run, crossed>>

----------------------------------------------------------------------------
TurnStep(t) ==
    \/ Claim(t)
    \/ StartQuery(t) \/ Refused(t) \/ AnswerLocally(t) \/ NoMessages(t)
    \/ InputFails(t)
    \/ EndDrain(t)
    \/ \E how \in Finalizing : EndQuery(t, how)
    \/ Finalize(t)

Next ==
    \/ \E c \in Commands :
        \/ SubmitQueued(c) \/ Notify(c) \/ SubagentTakes(c) \/ KillAgents(c)
        \/ \E t \in Turns : SubmitNow(c, t) \/ AcceptIncoming(c, t)
    \/ \E c \in CronRuns : CancelRun(c)
    \/ \E t \in Turns : ProcessQueue(t) \/ BeginDrain(t) \/ TurnStep(t)
    \/ Cancel
    \/ PopAllEditable

Spec == Init /\ [][Next]_vars

(* Every await of a turn settles (a query ends, a hook or a file operation  *)
(* returns) and the effect of the queue runs after every change of the      *)
(* guard or the queue.  Keys, peers and subagents owe nothing.              *)
Fairness ==
    /\ \A t \in Turns : WF_vars(TurnStep(t))
    /\ WF_vars(\E t \in Turns : ProcessQueue(t))

FairSpec == Spec /\ Fairness

----------------------------------------------------------------------------
RunStates == {"none", "queued", "running", "completed", "failed", "cancelled",
              "stopped"}
Modes == {"prompt", "slash", "bash", "notice", "incoming"}
Entries == [cmd : Commands, copy : Nat, mode : Modes]

TypeOK ==
    /\ status \in {"idle", "dispatching", "running"}
    /\ holder \in Turns \cup {NoTurn}
    /\ controller \in Turns \cup {NoTurn}
    /\ aborted \in [Turns -> BOOLEAN]
    /\ pc \in [Turns -> {"free"} \cup PreQuery \cup Querying \cup Finalizing]
    /\ batch \in [Turns -> Seq(Entries)]
    /\ snap \in [Turns -> SUBSET Entries]
    /\ queue \in Seq(Entries)
    /\ run \in [CronRuns -> RunStates]
    /\ fate \in [Commands -> {"unborn", "open", "sent", "returned"}]
    /\ crossed \in BOOLEAN

(* As long as no turn was started beside one that had not reached onQuery,  *)
(* Esc reaches every query: a query that is not aborted is the one the      *)
(* guard is running, and the published controller is its own.  In           *)
(* particular there is at most one.                                         *)
QueryStaysCancellable ==
    \A t \in Turns :
        /\ ~crossed
        /\ pc[t] \in Querying
        /\ ~aborted[t]
        => /\ status = "running"
           /\ holder = t
           /\ controller = t

(* A query that was cancelled and ends late (the finally block of onQuery)  *)
(* leaves the query that has replaced it alone: the guard goes on running   *)
(* for it and its controller stays published.                               *)
StaleEndKeeps ==
    \A t, u \in Turns :
        (t # u /\ pc[t] = "querying" /\ pc'[t] \in Finalizing \cup {"free"}
            /\ status = "running" /\ holder = u)
        => /\ status' = "running"
           /\ holder' = u
           /\ controller' = controller
StaleEndHarmless == [][StaleEndKeeps]_vars

(* The record of an autonomy run tells what happened: a prompt is only sent *)
(* for a run that was claimed while it was queued, and a run is recorded as *)
(* completed only if its prompt was sent (or turns have crossed).           *)
RunRecordTrue ==
    \A c \in CronRuns :
        /\ fate[c] = "sent" => run[c] \notin {"none", "queued", "cancelled"}
        /\ run[c] = "completed" => fate[c] = "sent" \/ crossed

(* No command is forgotten: it is in the queue, in a turn that will query   *)
(* with it, part of a conversation, or was handed back or discarded by the  *)
(* user.  Only a scheduled prompt may be lost, and only if turns crossed.   *)
NothingForgotten ==
    \A c \in Commands : fate[c] = "open" =>
        \/ c \in CommandsOf(queue)
        \/ \E t \in Turns : pc[t] \in PreQuery /\ c \in CommandsOf(batch[t])
        \/ c \in CronRuns /\ crossed

(* Whatever the user cancels, a command for the main thread leaves the      *)
(* queue: it does not stall behind a subagent's notification or a guard     *)
(* that nobody releases.                                                    *)
QueueDrains ==
    \A c \in Commands \ SubNotices :
        c \in CommandsOf(queue) ~> c \notin CommandsOf(queue)

(* handlePromptSubmit.ts:413: "queryGuard guarantees no concurrent          *)
(* executeUserInput call".                                                  *)
NoConcurrentExecution == ~crossed

(* handlePromptSubmit.ts, finally block: "No-op if onQuery already ran": a  *)
(* turn that ends gives back no reservation but its own.                    *)
ReservationKept ==
    [][\A t, u \in Turns :
        (t # u /\ pc[t] \in Querying \cup Finalizing /\ pc'[t] = "free"
            /\ pc[u] \in PreQuery /\ ~aborted[u] /\ status = "dispatching")
        => status' = "dispatching"]_vars

(* At rest no controller is published, so that ctrl+c reaches the exit      *)
(* flow (the comment at the end of onQuery).                                *)
NoStaleController ==
    status = "idle" /\ (\A t \in Turns : pc[t] = "free") => controller = NoTurn
=============================================================================
