------------------------------ MODULE AITasks ------------------------------
(***************************************************************************)
(* Background AI tasks (Manager in internal/ai/runtime.go): a chat or a    *)
(* round-table discussion is queued, started when there is capacity, may   *)
(* be cancelled, times out, and its outcome is recorded.  The manager's    *)
(* state is written to one file as a whole; a write may fail, and all but  *)
(* one of the callers ignore that.  The program may stop at any moment and *)
(* start again from the file.                                              *)
(*                                                                         *)
(* Each action is what happens under one acquisition of the manager's      *)
(* mutex.  What a task asks and what providers answer are left out; the    *)
(* requests a task makes are the subject of AIRequests.  Retention is left *)
(* out too: memory keeps 200 finished tasks, the file the newest 100 of    *)
(* all; Task is meant to be smaller.                                       *)
(***************************************************************************)
EXTENDS Naturals, Sequences, FiniteSets

CONSTANTS
    Task,         \* task identifiers
    Limits,       \* the values MaxConcurrent may be given
    QueueSizes,   \* the values MaxQueued may be given
    Turns,        \* how many turns a discussion has: rounds times agents
    MaxChanges,   \* bound: how often the configuration is changed
    MaxRestarts   \* bound: how often the program starts again

ASSUME TasksAssumption ==
    /\ IsFiniteSet(Task)
    /\ Limits \subseteq Nat \ {0} /\ Limits # {}
    /\ QueueSizes \subseteq Nat /\ QueueSizes # {}
    /\ Turns \in Nat \ {0}
    /\ MaxChanges \in Nat /\ MaxRestarts \in Nat

VARIABLES
    limit,         \* Config.MaxConcurrent
    queueSize,     \* Config.MaxQueued
    status,        \* task -> Task.Status, or "absent"
    kind,          \* task -> "chat" or "discussion"
    pending,       \* the queue
    running,       \* the tasks that have a cancel function
    context,       \* task -> "live", "cancelled" or "expired"
    stage,         \* task -> where its goroutine is
    turns,         \* task -> the turns its discussion still has to take
    contributed,   \* task -> has an agent completed a turn?
    outcome,       \* task -> the status its goroutine will record
    disk,          \* the file
    changes,
    restarts

vars == <<limit, queueSize, status, kind, pending, running, context, stage, turns,
          contributed, outcome, disk, changes, restarts>>

config == <<limit, queueSize>>

bodyVars == <<context, stage, turns, contributed, outcome>>

bounds == <<changes, restarts>>

Finished == {"completed", "partial", "failed", "cancelled"}

Status == {"absent", "pending", "running"} \cup Finished

Kind == {"chat", "discussion"}

\* persistLocked: the file becomes what the manager holds.
Saved(st, l, q) == [status |-> st, limit |-> l, queueSize |-> q]

Init ==
    /\ limit \in Limits
    /\ queueSize \in QueueSizes
    /\ status = [t \in Task |-> "absent"]
    /\ kind = [t \in Task |-> "chat"]
    /\ pending = <<>>
    /\ running = {}
    /\ context = [t \in Task |-> "live"]
    /\ stage = [t \in Task |-> "none"]
    /\ turns = [t \in Task |-> 0]
    /\ contributed = [t \in Task |-> FALSE]
    /\ outcome = [t \in Task |-> "failed"]
    /\ disk = Saved(status, limit, queueSize)
    /\ changes = 0
    /\ restarts = 0

-----------------------------------------------------------------------------
(* The queue                                                               *)

\* dispatchLocked, given the queue q, the running tasks run, the statuses st
\* and the limit l: the first of the queue start while there is capacity.
\* The code skips queued tasks that are no longer pending; there are none
\* (QueueMatchesStatus).
StartableOneMore(q, run, l) ==
    LET free == IF Cardinality(run) <= l THEN l + 1 - Cardinality(run) ELSE 0
    IN  IF free < Len(q) THEN free ELSE Len(q)

Startable(q, run, l) ==
    LET free == IF Cardinality(run) < l THEN l - Cardinality(run) ELSE 0
    IN  IF free < Len(q) THEN free ELSE Len(q)

Dispatch(q, run, st, l) ==
    LET n       == Startable(q, run, l)
        started == {q[k] : k \in 1 .. n}
    IN  /\ pending' = SubSeq(q, n + 1, Len(q))
        /\ running' = run \cup started
        /\ status' = [t \in Task |-> IF t \in started THEN "running" ELSE st[t]]
        /\ stage' = [t \in Task |-> IF t \in started THEN "generating"
                                    ELSE IF t \in run THEN stage[t] ELSE "none"]

\* When a task starts or leaves, what its goroutine keeps is as at the start.
FreshBody(t, n) ==
    /\ context' = [context EXCEPT ![t] = "live"]
    /\ turns' = [turns EXCEPT ![t] = n]
    /\ contributed' = [contributed EXCEPT ![t] = FALSE]
    /\ outcome' = [outcome EXCEPT ![t] = "failed"]

\* The task is refused when both the queue and the running tasks are at their
\* limits.  It is saved before it is accepted; if that fails nothing has
\* happened.  The second write, in dispatchLocked, may fail unnoticed.
Room == Len(pending) < queueSize \/ Cardinality(running) < limit

SavedOrIgnored(written) == disk' \in {disk, written}

SavedFirstOrIgnored(written) == disk' \in {disk, written, Saved(status', limit, queueSize)}

SavedFirst(written) == disk' \in {written, Saved(status', limit, queueSize)}

Enqueue(t, k) ==
    LET queuedStatus == [status EXCEPT ![t] = "pending"]
    IN  /\ status[t] = "absent"
        /\ Room
        /\ kind' = [kind EXCEPT ![t] = k]
        /\ Dispatch(Append(pending, t), running, queuedStatus, limit)
        /\ FreshBody(t, IF k = "discussion" THEN Turns ELSE 0)
        /\ SavedFirst(Saved(queuedStatus, limit, queueSize))
        /\ UNCHANGED <<config, bounds>>

\* A task still in the queue is taken out; a running one has its context
\* cancelled and goes on until it notices.
CancelPendingKeptInQueue(t) ==
    /\ status[t] = "pending"
    /\ status' = [status EXCEPT ![t] = "cancelled"]
    /\ SavedOrIgnored(Saved(status', limit, queueSize))
    /\ UNCHANGED <<config, kind, pending, running, bodyVars, bounds>>

CancelPending(t) ==
    /\ status[t] \notin Finished
    /\ \E k \in 1 .. Len(pending) :
         /\ pending[k] = t
         /\ pending' = SubSeq(pending, 1, k - 1) \o SubSeq(pending, k + 1, Len(pending))
    /\ status' = [status EXCEPT ![t] = "cancelled"]
    /\ SavedOrIgnored(Saved(status', limit, queueSize))
    /\ UNCHANGED <<config, kind, running, bodyVars, bounds>>

CancelRunning(t) ==
    /\ t \in running
    /\ context[t] = "live"
    /\ context' = [context EXCEPT ![t] = "cancelled"]
    /\ UNCHANGED <<config, status, kind, pending, running, stage, turns, contributed,
                   outcome, disk, bounds>>

\* The end of runJob: the outcome is recorded and saved, the place is given
\* back and the next tasks start, which is saved again.
Record(t) ==
    LET recorded == [status EXCEPT ![t] = outcome[t]]
    IN  /\ stage[t] = "returned"
        /\ Dispatch(pending, running \ {t}, recorded, limit)
        /\ FreshBody(t, 0)
        /\ disk' \in {disk, Saved(recorded, limit, queueSize), Saved(status', limit, queueSize)}
        /\ UNCHANGED <<config, kind, bounds>>

\* A raised limit starts more at once.
UpdateRuntimeConfigOnly(l, q) ==
    /\ changes < MaxChanges
    /\ changes' = changes + 1
    /\ limit' = l
    /\ queueSize' = q
    /\ SavedOrIgnored(Saved(status, l, q))
    /\ UNCHANGED <<status, kind, pending, running, bodyVars, restarts>>

UpdateRuntimeConfig(l, q) ==
    /\ changes < MaxChanges
    /\ changes' = changes + 1
    /\ limit' = l
    /\ queueSize' = q
    /\ Dispatch(pending, running, status, l)
    /\ SavedOrIgnored(Saved(status', l, q))
    /\ UNCHANGED <<kind, context, turns, contributed, outcome, restarts>>

-----------------------------------------------------------------------------
(* The goroutine of a task                                                 *)

Return(t, s) ==
    /\ stage' = [stage EXCEPT ![t] = "returned"]
    /\ outcome' = [outcome EXCEPT ![t] = s]
    /\ UNCHANGED <<config, status, kind, pending, running, context, turns, contributed,
                   disk, bounds>>

\* A chat is one request.  Cancelled while a provider works on it, it ends as
\* cancelled; cancelled while it waits for capacity, as failed.
Chat(t) ==
    /\ stage[t] = "generating" /\ kind[t] = "chat"
    /\ \/ \E s \in {"completed", "failed"} : Return(t, s)
       \/ context[t] = "cancelled" /\ Return(t, "cancelled")

\* The agents, or the roles chosen for them, are refused.
RefuseDiscussion(t) ==
    /\ stage[t] = "generating" /\ kind[t] = "discussion"
    /\ turns[t] = Turns
    /\ Return(t, "failed")

\* One agent's turn; what was said is saved as it goes.
Turn(t) ==
    /\ stage[t] = "generating" /\ turns[t] > 0
    /\ context[t] = "live"
    /\ turns' = [turns EXCEPT ![t] = @ - 1]
    /\ \E success \in BOOLEAN : contributed' = [contributed EXCEPT ![t] = @ \/ success]
    /\ SavedOrIgnored(Saved(status, limit, queueSize))
    /\ UNCHANGED <<config, status, kind, pending, running, context, stage, outcome, bounds>>

\* After the last turn, or the first that finds the context ended: nothing to
\* conclude from, an ended context, no synthesis wanted, or the synthesis.
ConcludeTurns(t) ==
    /\ stage[t] = "generating" /\ kind[t] = "discussion"
    /\ turns[t] = 0 \/ context[t] # "live"
    /\ \/ context[t] = "cancelled" /\ Return(t, "cancelled")
       \/ context[t] = "expired" /\ Return(t, IF contributed[t] THEN "partial" ELSE "failed")
       \/ context[t] = "live" /\ ~contributed[t] /\ Return(t, "failed")
       \/ context[t] = "live" /\ contributed[t] /\ Return(t, "completed")
       \/ /\ context[t] = "live" /\ contributed[t]
          /\ stage' = [stage EXCEPT ![t] = "synthesis"]
          /\ UNCHANGED <<config, status, kind, pending, running, context, turns,
                         contributed, outcome, disk, bounds>>

\* The contributions are kept when the synthesis fails.
Synthesis(t) ==
    /\ stage[t] = "synthesis"
    /\ \/ \E s \in {"completed", "partial"} : Return(t, s)
       \/ context[t] = "cancelled" /\ Return(t, "cancelled")

\* The workflow's deadline.
Expire(t) ==
    /\ t \in running
    /\ context[t] = "live"
    /\ context' = [context EXCEPT ![t] = "expired"]
    /\ UNCHANGED <<config, status, kind, pending, running, stage, turns, contributed,
                   outcome, disk, bounds>>

-----------------------------------------------------------------------------
(* Stopping and starting                                                   *)

\* Close, when the server has stopped listening: queued tasks are cancelled,
\* running ones told to stop.
Close ==
    /\ status' = [t \in Task |-> IF status[t] = "pending" THEN "cancelled" ELSE status[t]]
    /\ pending' = <<>>
    /\ context' = [t \in Task |-> IF t \in running /\ context[t] = "live"
                                  THEN "cancelled" ELSE context[t]]
    /\ SavedOrIgnored(Saved(status', limit, queueSize))
    /\ UNCHANGED <<config, kind, running, stage, turns, contributed, outcome, bounds>>

\* The program stops, at any point, and NewManager reads the file: what was
\* not finished has failed.  The file is written back before it goes on.
InterruptedForgotten(st) == st

InterruptedEvenFinished(st) == [t \in Task |-> IF st[t] # "absent" THEN "failed" ELSE "absent"]

Interrupted(st) ==
    [t \in Task |-> IF st[t] \in {"pending", "running"} THEN "failed" ELSE st[t]]

Restart ==
    /\ restarts < MaxRestarts
    /\ restarts' = restarts + 1
    /\ limit' = disk.limit
    /\ queueSize' = disk.queueSize
    /\ status' = Interrupted(disk.status)
    /\ disk' = [disk EXCEPT !.status = status']
    /\ pending' = <<>>
    /\ running' = {}
    /\ context' = [t \in Task |-> "live"]
    /\ stage' = [t \in Task |-> "none"]
    /\ turns' = [t \in Task |-> 0]
    /\ contributed' = [t \in Task |-> FALSE]
    /\ outcome' = [t \in Task |-> "failed"]
    /\ UNCHANGED <<kind, changes>>

Body(t) ==
    Chat(t) \/ RefuseDiscussion(t) \/ Turn(t) \/ ConcludeTurns(t) \/ Synthesis(t)

Next ==
    \/ \E t \in Task :
         \/ \E k \in Kind : Enqueue(t, k)
         \/ CancelPending(t) \/ CancelRunning(t)
         \/ Body(t) \/ Record(t) \/ Expire(t)
    \/ \E l \in Limits, q \in QueueSizes : UpdateRuntimeConfig(l, q)
    \/ Close \/ Restart

\* Goroutines run, and every request a task makes ends: its context has a
\* deadline and AIRequests ends with it.
Fairness == \A t \in Task : WF_vars(Body(t)) /\ WF_vars(Record(t))

Spec == Init /\ [][Next]_vars

FairSpec == Spec /\ Fairness

-----------------------------------------------------------------------------
(* Properties                                                              *)

\* Queue, statuses and cancel functions agree: the queue holds each pending
\* task once and nothing else, and exactly the running tasks can be told to
\* stop; CancelTask finds every unfinished task in one of the two.
QueueMatchesStatus ==
    /\ {pending[k] : k \in 1 .. Len(pending)} = {t \in Task : status[t] = "pending"}
    /\ \A j, k \in 1 .. Len(pending) : pending[j] = pending[k] => j = k
    /\ running = {t \in Task : status[t] = "running"}
    /\ \A t \in Task : stage[t] # "none" <=> t \in running

\* No task is left in the queue while there is capacity, after whichever step
\* made room: a task that ended or a raised limit (dispatchLocked).
NoIdleCapacity == pending # <<>> => Cardinality(running) >= limit

\* Tasks start in the order they were accepted and only within the limit then
\* in force (dispatchLocked).
StartsInOrderWithinLimit ==
    [][\A t \in Task : status[t] # "running" /\ status'[t] = "running" =>
         /\ Cardinality(running') <= limit'
         /\ \A k \in 1 .. Len(pending) :
              (\A j \in 1 .. k : pending[j] # t) => status'[pending[k]] = "running"]_vars

\* An accepted task survives a crash, if only as a failed one: it is in the
\* file as long as it is in memory, and a refused one is in neither (enqueue).
AcceptedIsSaved == \A t \in Task : status[t] = "absent" <=> disk.status[t] = "absent"

\* A finished task stays as it is: neither a late cancellation nor its own
\* goroutine changes it, and neither does a restart unless the write of the
\* outcome had failed.
FinishedForGood ==
    [][\A t \in Task :
         status[t] \in Finished /\ (restarts' = restarts \/ disk.status[t] = status[t])
            => status'[t] = status[t]]_vars

\* Every accepted task ends, whatever is cancelled, changed or restarted.
EveryTaskEnds ==
    \A t \in Task : status[t] \in {"pending", "running"} ~> status[t] \in Finished
=============================================================================
