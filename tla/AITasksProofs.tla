---------------------------- MODULE AITasksProofs ----------------------------
(***************************************************************************)
(* Queue, statuses and running tasks agree, no capacity is idle, tasks     *)
(* start in order and within the limit, accepted tasks are saved and       *)
(* finished ones stay as they are, for any finite set of tasks and any     *)
(* limits, queue sizes and bounds.  In the settings of the runtime, the    *)
(* verdict of a model's test survives a refresh of the catalogue, and the  *)
(* chair is the last of the chosen agents.  In the discussions of a book,  *)
(* every round ends with the chair and the thread keeps its order.         *)
(***************************************************************************)
EXTENDS AITasks, Functions, FiniteSetTheorems, FunctionTheorems, SequenceTheorems, WellFoundedInduction,
        TLAPS

CONSTANTS Providers, Local, Models, Of, MaxRefreshes, MaxEdits, \* of the catalogue
          Agents, Chair, Defaults, Allowed, MaxCalls, MaxRuns,  \* of the settings
          Core, MaxAgents, KeptTurns, Rounds, MaxPanels,        \* of the discussions, with Agents
          Nothing

VARIABLES catalogue, stock, refresh, checks,                    \* of the catalogue
          settings, kernel, calls,                              \* of the settings
          room, roster, runs                                    \* of the discussions

Catalogue == INSTANCE ModelCatalogue WITH MaxChanges <- MaxEdits

Settings == INSTANCE AgentSettings WITH Limits <- Allowed, pending <- calls

Discussion == INSTANCE AgentDiscussion

TasksTyped ==
    /\ limit \in Limits /\ queueSize \in QueueSizes
    /\ status \in [Task -> Status]
    /\ pending \in Seq(Task)
    /\ stage \in [Task -> {"none", "generating", "synthesis", "returned"}]
    /\ outcome \in [Task -> Finished]
    /\ disk \in [status : [Task -> Status], limit : Limits, queueSize : QueueSizes]
    /\ restarts \in Nat


\* A queue of given statuses: each task that is pending, once.
IsQueueOf(q, st) ==
    /\ q \in Seq(Task)
    /\ {q[k] : k \in 1 .. Len(q)} = {t \in Task : st[t] = "pending"}
    /\ \A j, k \in 1 .. Len(q) : q[j] = q[k] => j = k

RunningMatches ==
    /\ running = {t \in Task : status[t] = "running"}
    /\ \A t \in Task : stage[t] # "none" <=> t \in running

TasksInv ==
    TasksTyped /\ IsQueueOf(pending, status) /\ RunningMatches /\ NoIdleCapacity /\ AcceptedIsSaved

\* What a step may do to the statuses.
StartInOrder ==
    \A t \in Task : status[t] # "running" /\ status'[t] = "running" =>
        /\ Cardinality(running') <= limit'
        /\ \A k \in 1 .. Len(pending) :
             (\A j \in 1 .. k : pending[j] # t) => status'[pending[k]] = "running"

FinishedKept ==
    \A t \in Task :
        status[t] \in Finished /\ (restarts' = restarts \/ disk.status[t] = status[t])
            => status'[t] = status[t]

Preserved == TasksInv' /\ StartInOrder /\ FinishedKept

-----------------------------------------------------------------------------
(* Sequences and sets                                                      *)

\* The first n members of a sequence without repetition are n.
LEMMA FirstMembers ==
    ASSUME NEW q \in Seq(Task), NEW n \in 0 .. Len(q),
           \A j, k \in 1 .. Len(q) : q[j] = q[k] => j = k
    PROVE  /\ IsFiniteSet({q[k] : k \in 1 .. n})
           /\ Cardinality({q[k] : k \in 1 .. n}) = n
<1> DEFINE first == {q[k] : k \in 1 .. n}
           f == [k \in 1 .. n |-> q[k]]
<1>1. n \in Nat /\ IsFiniteSet(1 .. n) /\ Cardinality(1 .. n) = n
  BY LenProperties, FS_Interval
<1>2. f \in [1 .. n -> first] /\ \A x \in first : \E k \in 1 .. n : f[k] = x
  OBVIOUS
<1>3. \A j, k \in 1 .. n : f[j] = f[k] => j = k
  BY LenProperties
<1>4. ExistsBijection(1 .. n, first)
  BY <1>2, <1>3 DEF ExistsBijection, Bijection, Injection, Surjection, IsInjective
<1> QED BY <1>1, <1>4, FS_Bijection

\* A sequence without its member at k: those behind it move one place up.
Without(q, k) == SubSeq(q, 1, k - 1) \o SubSeq(q, k + 1, Len(q))

Members(q, n) == {q[i] : i \in 1 .. n}

OneToOne(q, n) == \A i, j \in 1 .. n : q[i] = q[j] => i = j

MovedUp(r, q, n, k) == \A i \in 1 .. n - 1 : r[i] = IF i < k THEN q[i] ELSE q[i + 1]

LEMMA WithoutOne ==
    ASSUME NEW q \in Seq(Task), NEW n \in Nat, n = Len(q), NEW k \in 1 .. n
    PROVE  /\ Without(q, k) \in Seq(Task) /\ Len(Without(q, k)) = n - 1
           /\ MovedUp(Without(q, k), q, n, k)
<1> DEFINE before == SubSeq(q, 1, k - 1)
           after == SubSeq(q, k + 1, n)
           both == before \o after
<1>1. \A i \in 1 .. n : q[i] \in Task
  BY ElementOfSeq
<1>2. /\ before \in Seq(Task) /\ Len(before) = k - 1
      /\ \A i \in 1 .. k - 1 : before[i] = q[i]
  BY <1>1, SubSeqProperties
<1>3. /\ after \in Seq(Task) /\ Len(after) = n - k
      /\ \A i \in 1 .. n - k : after[i] = q[k + i]
  <2>1. \A i \in k + 1 .. n : q[i] \in Task
    BY <1>1
  <2>2. k + 1 \in Int /\ n \in Int
    OBVIOUS
  <2>3. /\ after \in Seq(Task)
        /\ Len(after) = IF k + 1 <= n THEN n - (k + 1) + 1 ELSE 0
        /\ \A i \in 1 .. n - (k + 1) + 1 : after[i] = q[(k + 1) + i - 1]
    BY <2>1, <2>2, SubSeqProperties
  <2> HIDE DEF after
  <2> QED BY <2>3
<1>4. Without(q, k) = both
  BY DEF Without
<1> HIDE DEF before, after
<1>5. /\ both \in Seq(Task) /\ Len(both) = Len(before) + Len(after)
      /\ \A i \in 1 .. Len(before) + Len(after) :
           both[i] = IF i <= Len(before) THEN before[i] ELSE after[i - Len(before)]
  BY <1>2, <1>3, ConcatProperties
<1> HIDE DEF both
<1>6. Len(before) + Len(after) = n - 1
  BY <1>2, <1>3
<1>7. ASSUME NEW i \in 1 .. n - 1 PROVE both[i] = IF i < k THEN q[i] ELSE q[i + 1]
  <2>1. both[i] = IF i <= k - 1 THEN before[i] ELSE after[i - (k - 1)]
    BY <1>2, <1>5, <1>6
  <2>2. CASE i < k
    BY <1>2, <2>1, <2>2
  <2>3. CASE ~(i < k)
    <3>1. i - (k - 1) \in 1 .. n - k /\ k + (i - (k - 1)) = i + 1
      BY <2>3
    <3> QED BY <1>3, <2>1, <2>3, <3>1
  <2> QED BY <2>2, <2>3
<1> QED BY <1>4, <1>5, <1>6, <1>7 DEF MovedUp

\* The others are left, once each.
LEMMA OthersAreLeft ==
    ASSUME NEW q, NEW n \in Nat, NEW k \in 1 .. n, OneToOne(q, n),
           NEW r, MovedUp(r, q, n, k)
    PROVE  Members(r, n - 1) = Members(q, n) \ {q[k]} /\ OneToOne(r, n - 1)
<1> USE DEF Members, OneToOne, MovedUp
<1>2. ASSUME NEW i \in 1 .. n, i # k PROVE \E j \in 1 .. n - 1 : r[j] = q[i]
  <2>1. CASE i < k
    <3>1. i \in 1 .. n - 1
      BY <2>1
    <3> QED BY <2>1, <3>1
  <2>2. CASE i > k
    <3>1. i - 1 \in 1 .. n - 1 /\ ~(i - 1 < k) /\ (i - 1) + 1 = i
      BY <2>2
    <3>2. r[i - 1] = q[i]
      BY <3>1
    <3> QED BY <3>1, <3>2
  <2> QED BY <1>2, <2>1, <2>2
<1>3. ASSUME NEW j \in 1 .. n - 1 PROVE \E i \in 1 .. n : i # k /\ r[j] = q[i]
  <2>1. CASE j < k
    <3>1. j \in 1 .. n /\ j # k
      BY <2>1
    <3> QED BY <2>1, <3>1
  <2>2. CASE ~(j < k)
    <3>1. j + 1 \in 1 .. n /\ j + 1 # k
      BY <2>2
    <3>2. r[j] = q[j + 1]
      BY <2>2
    <3> QED BY <3>1, <3>2
  <2> QED BY <2>1, <2>2
<1>4. ASSUME NEW i \in 1 .. n - 1, NEW j \in 1 .. n - 1, r[i] = r[j] PROVE i = j
  <2> DEFINE place(m) == IF m < k THEN m ELSE m + 1
  <2>1. place(i) \in 1 .. n /\ place(j) \in 1 .. n
    OBVIOUS
  <2>2. q[place(i)] = q[place(j)]
    BY <1>4
  <2>3. place(i) = place(j)
    <3> HIDE DEF place
    <3> QED BY <2>1, <2>2
  <2> QED BY <2>3
<1>5. {r[j] : j \in 1 .. n - 1} = {q[j] : j \in 1 .. n} \ {q[k]}
  BY <1>2, <1>3
<1> QED BY <1>4, <1>5

LEMMA QueueWithoutOne ==
    ASSUME NEW q, NEW st, IsQueueOf(q, st), NEW k \in 1 .. Len(q), NEW r, r = Without(q, k),
           NEW stAfter,
           {u \in Task : stAfter[u] = "pending"} = {u \in Task : st[u] = "pending"} \ {q[k]}
    PROVE  IsQueueOf(r, stAfter)
<1>1. q \in Seq(Task) /\ Len(q) \in Nat
  BY LenProperties DEF IsQueueOf
<1>2. PICK n \in Nat : n = Len(q)
  BY <1>1
<1>3. k \in 1 .. n /\ OneToOne(q, n)
  BY <1>2 DEF IsQueueOf, OneToOne
<1>4. /\ Without(q, k) \in Seq(Task) /\ Len(Without(q, k)) = n - 1
      /\ MovedUp(Without(q, k), q, n, k)
  BY <1>1, <1>2, <1>3, WithoutOne
<1>5. r \in Seq(Task) /\ Len(r) = n - 1 /\ MovedUp(r, q, n, k)
  BY <1>4
<1>6. Members(r, n - 1) = Members(q, n) \ {q[k]} /\ OneToOne(r, n - 1)
  BY <1>3, <1>5, OthersAreLeft
<1>7. Members(r, Len(r)) = {u \in Task : stAfter[u] = "pending"} /\ OneToOne(r, Len(r))
  BY <1>2, <1>5, <1>6 DEF IsQueueOf, Members
<1> QED BY <1>5, <1>7 DEF IsQueueOf, Members, OneToOne

-----------------------------------------------------------------------------
(* dispatchLocked                                                          *)

\* A queue, running tasks and statuses that dispatchLocked may be called with.
Ready(q, run, st) ==
    /\ st \in [Task -> Status]
    /\ IsQueueOf(q, st)
    /\ run = {t \in Task : st[t] = "running"}
    /\ stage \in [Task -> {"none", "generating", "synthesis", "returned"}]
    /\ \A t \in run : stage[t] # "none"

\* What it leaves.
Served(q, st, l) ==
    /\ status' \in [Task -> Status]
    /\ stage' \in [Task -> {"none", "generating", "synthesis", "returned"}]
    /\ IsQueueOf(pending', status')
    /\ running' = {t \in Task : status'[t] = "running"}
    /\ \A t \in Task : stage'[t] # "none" <=> t \in running'
    /\ pending' # <<>> => Cardinality(running') >= l
    /\ \A t \in Task : status'[t] = st[t] \/ (st[t] = "pending" /\ status'[t] = "running")
    /\ \A t \in Task : st[t] # "running" /\ status'[t] = "running" =>
         /\ Cardinality(running') <= l
         /\ \A k \in 1 .. Len(q) :
              (\A j \in 1 .. k : q[j] # t) => status'[q[k]] = "running"

LEMMA Dispatched ==
    ASSUME NEW q, NEW run, NEW st, NEW l \in Nat \ {0}, Ready(q, run, st), Dispatch(q, run, st, l)
    PROVE  Served(q, st, l)
<1> USE DEF Ready
<1> DEFINE n == Startable(q, run, l)
           started == {q[k] : k \in 1 .. n}
<1>1. q \in Seq(Task) /\ Len(q) \in Nat /\ \A k \in 1 .. Len(q) : q[k] \in Task
  BY LenProperties, ElementOfSeq DEF IsQueueOf
<1>2. IsFiniteSet(run) /\ Cardinality(run) \in Nat
  BY TasksAssumption, FS_Subset, FS_CardinalityType
<1>3. /\ n \in 0 .. Len(q)
      /\ n < Len(q) => n + Cardinality(run) >= l
      /\ n > 0 => n + Cardinality(run) <= l
  BY <1>1, <1>2 DEF Startable
<1> HIDE DEF n
<1>4. /\ pending' = SubSeq(q, n + 1, Len(q)) /\ running' = run \cup started
      /\ status' = [t \in Task |-> IF t \in started THEN "running" ELSE st[t]]
      /\ stage' = [t \in Task |-> IF t \in started THEN "generating"
                                  ELSE IF t \in run THEN stage[t] ELSE "none"]
  BY DEF Dispatch, n
<1>5. /\ pending' \in Seq(Task) /\ Len(pending') = Len(q) - n
      /\ \A i \in 1 .. Len(q) - n : pending'[i] = q[n + i]
  BY <1>1, <1>3, <1>4, SubSeqProperties
<1>6. started \subseteq {t \in Task : st[t] = "pending"}
  BY <1>1, <1>3 DEF IsQueueOf
<1>7. status' \in [Task -> Status]
  BY <1>4 DEF Status
<1>8. running' = {t \in Task : status'[t] = "running"}
  BY <1>4, <1>6
<1>9. /\ stage' \in [Task -> {"none", "generating", "synthesis", "returned"}]
      /\ \A t \in Task : stage'[t] # "none" <=> t \in running'
  BY <1>4
<1>10. \A t \in Task : status'[t] = st[t] \/ (st[t] = "pending" /\ status'[t] = "running")
  BY <1>4, <1>6
<1>11. IsQueueOf(pending', status')
  <2>1. \A j, k \in 1 .. Len(pending') : pending'[j] = pending'[k] => j = k
    BY <1>1, <1>3, <1>5 DEF IsQueueOf
  <2>2. ASSUME NEW i \in 1 .. Len(pending') PROVE pending'[i] \in Task /\ status'[pending'[i]] = "pending"
    <3>1. n + i \in 1 .. Len(q) /\ pending'[i] = q[n + i] /\ \A k \in 1 .. n : k # n + i
      BY <1>1, <1>3, <1>5
    <3>2. q[n + i] \notin started
      BY <1>1, <1>3, <3>1 DEF IsQueueOf
    <3>3. st[q[n + i]] = "pending"
      BY <1>1, <3>1 DEF IsQueueOf
    <3> QED BY <1>1, <1>4, <3>1, <3>2, <3>3
  <2>3. ASSUME NEW t \in Task, status'[t] = "pending" PROVE \E i \in 1 .. Len(pending') : pending'[i] = t
    <3>1. st[t] = "pending" /\ t \notin started
      BY <1>4, <2>3
    <3>2. PICK k \in 1 .. Len(q) : q[k] = t
      BY <3>1 DEF IsQueueOf
    <3>3. k > n
      BY <1>3, <3>1, <3>2
    <3>4. k - n \in 1 .. Len(pending') /\ pending'[k - n] = t
      BY <1>1, <1>3, <1>5, <3>2, <3>3
    <3> QED BY <3>4
  <2> QED BY <1>5, <2>1, <2>2, <2>3 DEF IsQueueOf
<1>12. Cardinality(running') = Cardinality(run) + n
  <2>1. IsFiniteSet(started) /\ Cardinality(started) = n
    BY <1>1, <1>3, FirstMembers DEF IsQueueOf
  <2>2. run \cap started = {}
    BY <1>6
  <2>3. Cardinality(run \cap started) = 0
    BY <2>2, FS_EmptySet
  <2>4. Cardinality(run \cup started) = Cardinality(run) + Cardinality(started) - Cardinality(run \cap started)
    BY <1>2, <2>1, FS_Union
  <2> QED BY <1>2, <1>3, <1>4, <2>1, <2>3, <2>4
<1>13. pending' # <<>> => Cardinality(running') >= l
  <2> SUFFICES ASSUME pending' # <<>> PROVE Cardinality(running') >= l
    OBVIOUS
  <2>1. Len(pending') # 0
    BY <1>5, EmptySeq
  <2>2. n < Len(q)
    BY <1>1, <1>3, <1>5, <2>1
  <2> QED BY <1>2, <1>3, <1>12, <2>2
<1>14. ASSUME NEW t \in Task, st[t] # "running", status'[t] = "running"
       PROVE  /\ Cardinality(running') <= l
              /\ \A k \in 1 .. Len(q) : (\A j \in 1 .. k : q[j] # t) => status'[q[k]] = "running"
  <2>1. PICK m \in 1 .. n : q[m] = t
    BY <1>4, <1>14
  <2>2. n > 0
    BY <1>1, <1>3, <2>1
  <2>3. Cardinality(running') <= l
    BY <1>2, <1>3, <1>12, <2>2
  <2>4. ASSUME NEW k \in 1 .. Len(q), \A j \in 1 .. k : q[j] # t PROVE status'[q[k]] = "running"
    <3>1. k < m
      BY <1>1, <1>3, <2>1, <2>4
    <3>2. k \in 1 .. n
      BY <1>1, <1>3, <2>1, <3>1
    <3> QED BY <1>1, <1>4, <3>2
  <2> QED BY <2>3, <2>4
<1> QED BY <1>7, <1>8, <1>9, <1>10, <1>11, <1>13, <1>14 DEF Served

-----------------------------------------------------------------------------
(* The actions                                                             *)

LEMMA InitEstablishes == Init => TasksInv
<1> SUFFICES ASSUME Init PROVE TasksInv
  OBVIOUS
<1>1. IsQueueOf(pending, status)
  <2>1. pending \in Seq(Task) /\ Len(pending) = 0
    BY EmptySeq DEF Init
  <2> QED BY <2>1 DEF Init, IsQueueOf
<1>2. TasksTyped
  BY <1>1 DEF Init, TasksTyped, IsQueueOf, Status, Finished, Saved
<1>3. RunningMatches /\ NoIdleCapacity /\ AcceptedIsSaved
  BY DEF Init, RunningMatches, NoIdleCapacity, AcceptedIsSaved, Saved
<1> QED BY <1>1, <1>2, <1>3 DEF TasksInv

LEMMA EnqueuePreserves ==
    ASSUME TasksInv, NEW t \in Task, NEW k \in Kind, Enqueue(t, k)
    PROVE  Preserved
<1> DEFINE q == Append(pending, t)
           st == [status EXCEPT ![t] = "pending"]
<1>1. /\ status[t] = "absent" /\ Dispatch(q, running, st, limit)
      /\ disk' \in {Saved(st, limit, queueSize), Saved(status', limit, queueSize)}
      /\ limit' = limit /\ queueSize' = queueSize /\ restarts' = restarts
      /\ outcome' = [outcome EXCEPT ![t] = "failed"]
  BY DEF Enqueue, FreshBody, SavedFirst, config, bounds
<1>2. /\ pending \in Seq(Task) /\ Len(pending) \in Nat
      /\ \A i \in 1 .. Len(pending) : pending[i] \in Task /\ status[pending[i]] = "pending"
  BY LenProperties, ElementOfSeq DEF TasksInv, IsQueueOf
<1>3. /\ q \in Seq(Task) /\ Len(q) = Len(pending) + 1 /\ q[Len(pending) + 1] = t
      /\ \A i \in 1 .. Len(pending) : q[i] = pending[i]
  BY <1>2, AppendProperties
<1> HIDE DEF q
<1>4. st \in [Task -> Status] /\ limit \in Nat \ {0}
  BY TasksAssumption DEF TasksInv, TasksTyped, Status
<1>5. IsQueueOf(q, st)
  <2>1. ASSUME NEW i \in 1 .. Len(q), NEW j \in 1 .. Len(q), q[i] = q[j] PROVE i = j
    BY <1>1, <1>2, <1>3, <2>1 DEF TasksInv, IsQueueOf
  <2>2. ASSUME NEW i \in 1 .. Len(q) PROVE q[i] \in Task /\ st[q[i]] = "pending"
    BY <1>2, <1>3 DEF TasksInv, TasksTyped
  <2>3. ASSUME NEW u \in Task, st[u] = "pending" PROVE \E i \in 1 .. Len(q) : q[i] = u
    <3>1. CASE u = t
      BY <1>2, <1>3, <3>1
    <3>2. CASE u # t
      <4>1. PICK i \in 1 .. Len(pending) : pending[i] = u
        BY <2>3, <3>2 DEF TasksInv, TasksTyped, IsQueueOf
      <4> QED BY <1>2, <1>3, <4>1
    <3> QED BY <3>1, <3>2
  <2> QED BY <1>3, <2>1, <2>2, <2>3 DEF IsQueueOf
<1>6. Ready(q, running, st)
  BY <1>1, <1>4, <1>5 DEF Ready, TasksInv, TasksTyped, RunningMatches
<1>7. Served(q, st, limit)
  <2> HIDE DEF st
  <2> QED BY <1>1, <1>4, <1>6, Dispatched
<1>8. TasksTyped'
  <2>1. /\ status' \in [Task -> Status] /\ pending' \in Seq(Task)
        /\ stage' \in [Task -> {"none", "generating", "synthesis", "returned"}]
    BY <1>7 DEF Served, IsQueueOf
  <2>2. disk' \in [status : [Task -> Status], limit : Limits, queueSize : QueueSizes]
    <3> HIDE DEF st
    <3> QED BY <1>1, <1>4, <2>1 DEF Saved, TasksInv, TasksTyped
  <2>3. outcome' \in [Task -> Finished]
    BY <1>1 DEF TasksInv, TasksTyped, Finished
  <2> QED BY <1>1, <2>1, <2>2, <2>3 DEF TasksInv, TasksTyped
<1>9. RunningMatches' /\ NoIdleCapacity'
  BY <1>1, <1>7 DEF Served, RunningMatches, NoIdleCapacity
<1>10. AcceptedIsSaved'
  <2>1. \A u \in Task : status'[u] = "absent" <=> st[u] = "absent"
    BY <1>7 DEF Served
  <2>2. disk'.status = st \/ disk'.status = status'
    BY <1>1 DEF Saved
  <2> HIDE DEF st
  <2> QED BY <2>1, <2>2 DEF AcceptedIsSaved
<1>11. StartInOrder
  <2> SUFFICES ASSUME NEW u \in Task, status[u] # "running", status'[u] = "running"
               PROVE  /\ Cardinality(running') <= limit'
                      /\ \A m \in 1 .. Len(pending) :
                           (\A j \in 1 .. m : pending[j] # u) => status'[pending[m]] = "running"
    BY DEF StartInOrder
  <2>1. st[u] # "running"
    BY DEF TasksInv, TasksTyped
  <2>2. /\ Cardinality(running') <= limit
        /\ \A m \in 1 .. Len(q) : (\A j \in 1 .. m : q[j] # u) => status'[q[m]] = "running"
    <3> HIDE DEF st
    <3> QED BY <1>7, <2>1 DEF Served
  <2>3. ASSUME NEW m \in 1 .. Len(pending), \A j \in 1 .. m : pending[j] # u
        PROVE  status'[pending[m]] = "running"
    <3>1. m \in 1 .. Len(q) /\ q[m] = pending[m] /\ \A j \in 1 .. m : q[j] # u
      BY <1>2, <1>3, <2>3
    <3> QED BY <2>2, <3>1
  <2> QED BY <1>1, <2>2, <2>3
<1>12. FinishedKept
  BY <1>1, <1>7 DEF Served, FinishedKept, Finished, TasksInv, TasksTyped
<1> QED BY <1>7, <1>8, <1>9, <1>10, <1>11, <1>12 DEF Served, Preserved, TasksInv

LEMMA RecordPreserves ==
    ASSUME TasksInv, NEW t \in Task, Record(t)
    PROVE  Preserved
<1> DEFINE st == [status EXCEPT ![t] = outcome[t]]
           run == running \ {t}
<1>1. /\ stage[t] = "returned" /\ Dispatch(pending, run, st, limit)
      /\ disk' \in {disk, Saved(st, limit, queueSize), Saved(status', limit, queueSize)}
      /\ limit' = limit /\ queueSize' = queueSize /\ restarts' = restarts
      /\ outcome' = [outcome EXCEPT ![t] = "failed"]
  BY DEF Record, FreshBody, config, bounds
<1>2. status[t] = "running" /\ outcome[t] \in Finished
  BY <1>1 DEF TasksInv, TasksTyped, RunningMatches
<1>3. st \in [Task -> Status] /\ limit \in Nat \ {0}
  BY <1>2, TasksAssumption DEF TasksInv, TasksTyped, Status
<1>4. {u \in Task : st[u] = "pending"} = {u \in Task : status[u] = "pending"}
  BY <1>2 DEF TasksInv, TasksTyped, Finished
<1>5. IsQueueOf(pending, st)
  BY <1>4 DEF TasksInv, IsQueueOf
<1>6. Ready(pending, run, st)
  BY <1>2, <1>3, <1>5 DEF Ready, TasksInv, TasksTyped, RunningMatches, Finished
<1>7. Served(pending, st, limit)
  <2> HIDE DEF st, run
  <2> QED BY <1>1, <1>3, <1>6, Dispatched
<1>8. TasksTyped'
  <2>1. /\ status' \in [Task -> Status] /\ pending' \in Seq(Task)
        /\ stage' \in [Task -> {"none", "generating", "synthesis", "returned"}]
    BY <1>7 DEF Served, IsQueueOf
  <2>2. disk' \in [status : [Task -> Status], limit : Limits, queueSize : QueueSizes]
    <3> HIDE DEF st
    <3> QED BY <1>1, <1>3, <2>1 DEF Saved, TasksInv, TasksTyped
  <2>3. outcome' \in [Task -> Finished]
    BY <1>1 DEF TasksInv, TasksTyped, Finished
  <2> QED BY <1>1, <2>1, <2>2, <2>3 DEF TasksInv, TasksTyped
<1>9. RunningMatches' /\ NoIdleCapacity'
  BY <1>1, <1>7 DEF Served, RunningMatches, NoIdleCapacity
<1>10. AcceptedIsSaved'
  <2>1. \A u \in Task : /\ status'[u] = "absent" <=> status[u] = "absent"
                        /\ st[u] = "absent" <=> status[u] = "absent"
    BY <1>2, <1>7 DEF Served, TasksInv, TasksTyped, Finished
  <2>2. disk'.status = disk.status \/ disk'.status = st \/ disk'.status = status'
    BY <1>1 DEF Saved
  <2> HIDE DEF st
  <2> QED BY <2>1, <2>2 DEF AcceptedIsSaved, TasksInv
<1>11. StartInOrder
  BY <1>1, <1>2, <1>7 DEF Served, StartInOrder, TasksInv, TasksTyped, Finished
<1>12. FinishedKept
  BY <1>1, <1>2, <1>7 DEF Served, FinishedKept, Finished, TasksInv, TasksTyped
<1> QED BY <1>7, <1>8, <1>9, <1>10, <1>11, <1>12 DEF Served, Preserved, TasksInv

LEMMA ConfigPreserves ==
    ASSUME TasksInv, NEW l \in Limits, NEW s \in QueueSizes, UpdateRuntimeConfig(l, s)
    PROVE  Preserved
<1>1. /\ Dispatch(pending, running, status, l)
      /\ disk' \in {disk, Saved(status', l, s)}
      /\ limit' = l /\ queueSize' = s /\ restarts' = restarts /\ outcome' = outcome
  BY DEF UpdateRuntimeConfig, SavedOrIgnored
<1>2. l \in Nat \ {0} /\ Ready(pending, running, status)
  BY TasksAssumption DEF Ready, TasksInv, TasksTyped, RunningMatches
<1>3. Served(pending, status, l)
  BY <1>1, <1>2, Dispatched
<1>4. TasksTyped'
  BY <1>1, <1>3 DEF Served, TasksInv, TasksTyped, IsQueueOf, Saved
<1>5. RunningMatches' /\ NoIdleCapacity' /\ StartInOrder
  BY <1>1, <1>3 DEF Served, RunningMatches, NoIdleCapacity, StartInOrder
<1>6. AcceptedIsSaved' /\ FinishedKept
  BY <1>1, <1>3 DEF Served, AcceptedIsSaved, TasksInv, Saved, FinishedKept, Finished
<1> QED BY <1>3, <1>4, <1>5, <1>6 DEF Served, Preserved, TasksInv

LEMMA CancelPendingPreserves ==
    ASSUME TasksInv, NEW t \in Task, CancelPending(t)
    PROVE  Preserved
<1>1. PICK k \in 1 .. Len(pending) : pending[k] = t /\ pending' = Without(pending, k)
  BY DEF CancelPending, Without
<1>2. /\ status' = [status EXCEPT ![t] = "cancelled"] /\ status[t] \notin Finished
      /\ disk' \in {disk, Saved(status', limit, queueSize)}
      /\ limit' = limit /\ queueSize' = queueSize /\ restarts' = restarts
      /\ running' = running /\ stage' = stage /\ outcome' = outcome
  BY DEF CancelPending, SavedOrIgnored, config, bounds, bodyVars
<1>3. /\ pending \in Seq(Task) /\ status[t] = "pending"
  BY <1>1, ElementOfSeq DEF TasksInv, IsQueueOf
<1>7. {u \in Task : status'[u] = "pending"} = {u \in Task : status[u] = "pending"} \ {t}
  BY <1>2 DEF TasksInv, TasksTyped
<1>8. IsQueueOf(pending', status')
  BY <1>1, <1>7, QueueWithoutOne DEF TasksInv
<1>9. TasksTyped'
  <2>1. status' \in [Task -> Status]
    BY <1>2 DEF TasksInv, TasksTyped, Status, Finished
  <2>2. disk' \in [status : [Task -> Status], limit : Limits, queueSize : QueueSizes]
    BY SMTT(20), <1>2, <2>1 DEF TasksInv, TasksTyped, Saved
  <2> QED BY <1>2, <1>8, <2>1, <2>2 DEF TasksInv, TasksTyped, IsQueueOf
<1>10. NoIdleCapacity'
  <2>1. pending # <<>>
    BY <1>1, <1>3, EmptySeq
  <2> QED BY <1>2, <2>1 DEF TasksInv, NoIdleCapacity
<1>11. RunningMatches' /\ AcceptedIsSaved' /\ StartInOrder /\ FinishedKept
  BY <1>2, <1>3 DEF TasksInv, TasksTyped, RunningMatches, AcceptedIsSaved, Saved, StartInOrder,
     FinishedKept, Finished
<1> QED BY <1>8, <1>9, <1>10, <1>11 DEF Preserved, TasksInv

\* A goroutine, a cancellation and a deadline leave queue and statuses alone.
LEMMA BodyPreserves ==
    ASSUME TasksInv, NEW t \in Task, Body(t) \/ CancelRunning(t) \/ Expire(t)
    PROVE  Preserved
<1>1. /\ status' = status /\ pending' = pending /\ running' = running
      /\ limit' = limit /\ queueSize' = queueSize /\ restarts' = restarts
      /\ disk' \in {disk, Saved(status, limit, queueSize)}
  BY DEF Body, Chat, RefuseDiscussion, Turn, ConcludeTurns, Synthesis, Return, CancelRunning,
     Expire, SavedOrIgnored, config, bounds
<1>2. /\ outcome' \in [Task -> Finished]
      /\ \/ stage' = stage
         \/ stage[t] # "none" /\ \E s \in {"synthesis", "returned"} : stage' = [stage EXCEPT ![t] = s]
  BY DEF Body, Chat, RefuseDiscussion, Turn, ConcludeTurns, Synthesis, Return, CancelRunning,
     Expire, TasksInv, TasksTyped, Finished
<1>3. TasksTyped'
  BY <1>1, <1>2 DEF TasksInv, TasksTyped, Saved
<1>4. RunningMatches'
  BY <1>1, <1>2 DEF TasksInv, TasksTyped, RunningMatches
<1>5. NoIdleCapacity' /\ AcceptedIsSaved' /\ StartInOrder /\ FinishedKept
  BY <1>1 DEF TasksInv, NoIdleCapacity, AcceptedIsSaved, Saved, StartInOrder, FinishedKept
<1>6. IsQueueOf(pending', status')
  BY <1>1 DEF TasksInv
<1> QED BY <1>3, <1>4, <1>5, <1>6 DEF Preserved, TasksInv

\* Close and Restart empty the queue.
LEMMA EmptyQueue ==
    ASSUME NEW st, \A t \in Task : st[t] # "pending"
    PROVE  IsQueueOf(<<>>, st)
<1>1. <<>> \in Seq(Task) /\ Len(<<>>) = 0
  BY EmptySeq
<1> QED BY <1>1 DEF IsQueueOf

LEMMA ClosePreserves == TasksInv /\ Close => Preserved
<1> SUFFICES ASSUME TasksInv, Close PROVE Preserved
  OBVIOUS
<1>1. /\ status' = [t \in Task |-> IF status[t] = "pending" THEN "cancelled" ELSE status[t]]
      /\ pending' = <<>> /\ disk' \in {disk, Saved(status', limit, queueSize)}
      /\ running' = running /\ stage' = stage /\ outcome' = outcome
      /\ limit' = limit /\ queueSize' = queueSize /\ restarts' = restarts
  BY DEF Close, SavedOrIgnored, config, bounds
<1>2. IsQueueOf(pending', status')
  BY <1>1, EmptyQueue
<1>3. TasksTyped'
  BY <1>1, <1>2 DEF TasksInv, TasksTyped, IsQueueOf, Saved, Status, Finished
<1>4. RunningMatches' /\ NoIdleCapacity' /\ AcceptedIsSaved' /\ StartInOrder /\ FinishedKept
  BY <1>1 DEF TasksInv, TasksTyped, RunningMatches, NoIdleCapacity, AcceptedIsSaved, Saved,
     StartInOrder, FinishedKept, Finished
<1> QED BY <1>2, <1>3, <1>4 DEF Preserved, TasksInv

LEMMA RestartPreserves == TasksInv /\ Restart => Preserved
<1> SUFFICES ASSUME TasksInv, Restart PROVE Preserved
  OBVIOUS
<1>1. /\ status' = [t \in Task |-> IF disk.status[t] \in {"pending", "running"} THEN "failed"
                                   ELSE disk.status[t]]
      /\ limit' = disk.limit /\ queueSize' = disk.queueSize
      /\ disk' = [disk EXCEPT !.status = status']
      /\ pending' = <<>> /\ running' = {} /\ stage' = [t \in Task |-> "none"]
      /\ outcome' = [t \in Task |-> "failed"] /\ restarts' = restarts + 1
  BY DEF Restart, Interrupted
<1>2. IsQueueOf(pending', status')
  BY <1>1, EmptyQueue
<1>3. TasksTyped'
  BY <1>1, <1>2 DEF TasksInv, TasksTyped, IsQueueOf, Status, Finished
<1>4. RunningMatches' /\ NoIdleCapacity' /\ StartInOrder
  BY <1>1 DEF RunningMatches, NoIdleCapacity, StartInOrder
<1>5. AcceptedIsSaved'
  BY <1>1 DEF AcceptedIsSaved, TasksInv, TasksTyped
<1>6. FinishedKept
  BY <1>1 DEF FinishedKept, Finished, TasksInv, TasksTyped
<1> QED BY <1>2, <1>3, <1>4, <1>5, <1>6 DEF Preserved, TasksInv

LEMMA StutterPreserves == TasksInv /\ UNCHANGED vars => Preserved
<1> SUFFICES ASSUME TasksInv, UNCHANGED vars PROVE Preserved
  OBVIOUS
<1>1. TasksTyped' /\ RunningMatches'
  BY DEF TasksInv, TasksTyped, RunningMatches, vars
<1>2. IsQueueOf(pending', status')
  BY DEF TasksInv, vars
<1>3. NoIdleCapacity' /\ AcceptedIsSaved' /\ StartInOrder /\ FinishedKept
  BY DEF TasksInv, NoIdleCapacity, AcceptedIsSaved, StartInOrder, FinishedKept, vars
<1> QED BY <1>1, <1>2, <1>3 DEF Preserved, TasksInv

LEMMA StepPreserves == TasksInv /\ [Next]_vars => Preserved
<1> SUFFICES ASSUME TasksInv, [Next]_vars PROVE Preserved
  OBVIOUS
<1>1. CASE \E t \in Task : \E k \in Kind : Enqueue(t, k)
  BY <1>1, EnqueuePreserves
<1>2. CASE \E t \in Task : CancelPending(t)
  BY <1>2, CancelPendingPreserves
<1>3. CASE \E t \in Task : Body(t) \/ CancelRunning(t) \/ Expire(t)
  BY <1>3, BodyPreserves
<1>4. CASE \E t \in Task : Record(t)
  BY <1>4, RecordPreserves
<1>5. CASE \E l \in Limits, s \in QueueSizes : UpdateRuntimeConfig(l, s)
  BY <1>5, ConfigPreserves
<1>6. CASE Close
  BY <1>6, ClosePreserves
<1>7. CASE Restart
  BY <1>7, RestartPreserves
<1>8. CASE UNCHANGED vars
  BY <1>8, StutterPreserves
<1> QED BY <1>1, <1>2, <1>3, <1>4, <1>5, <1>6, <1>7, <1>8 DEF Next

LEMMA Invariant == Spec => []TasksInv
<1>1. TasksInv /\ [Next]_vars => TasksInv'
  BY StepPreserves DEF Preserved
<1> QED BY InitEstablishes, <1>1, PTL DEF Spec

-----------------------------------------------------------------------------
(* Theorems                                                                *)

\* The queue holds each pending task once and nothing else, and exactly the
\* running tasks have a cancel function (Manager.queue and Manager.running).
THEOREM QueueAndStatusesAgree == Spec => []QueueMatchesStatus
<1>1. TasksInv => QueueMatchesStatus
  BY DEF TasksInv, IsQueueOf, RunningMatches, QueueMatchesStatus
<1> QED BY Invariant, <1>1, PTL

\* dispatchLocked is called wherever room is made: nothing waits while there
\* is capacity.
THEOREM CapacityIsUsed == Spec => []NoIdleCapacity
<1>1. TasksInv => NoIdleCapacity
  BY DEF TasksInv
<1> QED BY Invariant, <1>1, PTL

\* An accepted task is in the file, whatever writes fail and restarts happen.
THEOREM AcceptedSurvives == Spec => []AcceptedIsSaved
<1>1. TasksInv => AcceptedIsSaved
  BY DEF TasksInv
<1> QED BY Invariant, <1>1, PTL

\* Tasks start in the order of the queue and only within the limit in force.
THEOREM QueueIsServedInOrder == Spec => StartsInOrderWithinLimit
<1>1. TasksInv /\ [Next]_vars =>
        [\A t \in Task : status[t] # "running" /\ status'[t] = "running" =>
             /\ Cardinality(running') <= limit'
             /\ \A k \in 1 .. Len(pending) :
                  (\A j \in 1 .. k : pending[j] # t) => status'[pending[k]] = "running"]_vars
  BY StepPreserves DEF Preserved, StartInOrder
<1> QED BY Invariant, <1>1, PTL DEF Spec, StartsInOrderWithinLimit

\* The status of a finished task is final.
THEOREM FinishedStaysFinished == Spec => FinishedForGood
<1>1. TasksInv /\ [Next]_vars =>
        [\A t \in Task :
             status[t] \in Finished /\ (restarts' = restarts \/ disk.status[t] = status[t])
                => status'[t] = status[t]]_vars
  BY StepPreserves DEF Preserved, FinishedKept
<1> QED BY Invariant, <1>1, PTL DEF Spec, FinishedForGood

-----------------------------------------------------------------------------
(* The catalogue of models                                                 *)

Verdict == {"unknown", "blocked", "available", "unavailable"}

\* Tables of models with a verdict each.
Tables == UNION {[S -> Verdict] : S \in SUBSET Models}

StockKnown ==
    stock \in [mode : Catalogue!Modes, providers : SUBSET Providers, enabled : SUBSET Providers,
               healthy : SUBSET Providers, rows : Tables, changes : Nat]

Calls == {Nothing} \cup [op : {"load"}, of : {Nothing}]
                   \cup [op : {"save", "test", "delete"}, of : Providers]

PageKnown ==
    catalogue \in [mode : Catalogue!Modes, providers : SUBSET Providers,
                   enabled : SUBSET Providers, healthy : SUBSET Providers, rows : Tables,
                   checking : SUBSET Models, call : Calls, refreshes : Nat]

RefreshKnown ==
    /\ refresh \in [step : {"idle", "asked", "listing", "found", "turn", "checking", "reading"},
                    of : Providers \cup {Nothing}, mode : Catalogue!Modes \cup {Nothing},
                    todo : Seq(Models), found : Tables]
    /\ refresh.step # "idle" => refresh.of \in Providers
    /\ refresh.step = "checking" => refresh.todo # <<>>

ChecksKnown ==
    /\ DOMAIN checks \subseteq Models
    /\ \A m \in DOMAIN checks : checks[m] \in {"asked"} \cup Verdict

CatalogueInv == StockKnown /\ PageKnown /\ RefreshKnown /\ ChecksKnown

CatalogueKept == CatalogueInv' /\ Catalogue!VerdictStep

LEMMA TableFacts ==
    ASSUME NEW t \in Tables
    PROVE  DOMAIN t \subseteq Models /\ \A m \in DOMAIN t : t[m] \in Verdict
BY DEF Tables

LEMMA TableChanged ==
    ASSUME NEW t \in Tables, NEW n, NEW v \in Verdict
    PROVE  [t EXCEPT ![n] = v] \in Tables
<1>1. t = [m \in DOMAIN t |-> t[m]]
  BY DEF Tables
<1>2. [t EXCEPT ![n] = v] \in [DOMAIN t -> Verdict]
  BY <1>1, TableFacts
<1> QED BY <1>2, TableFacts DEF Tables

LEMMA FoundInOrder ==
    ASSUME NEW S \in SUBSET Models, Catalogue!CatalogueAssumption
    PROVE  Catalogue!SetToSeq(S) \in Seq(Models)
<1>1. Catalogue!IsFiniteSet(Models)
  BY DEF Catalogue!CatalogueAssumption
<1>2. IsFiniteSet(Models)
  BY <1>1, Zenon DEF IsFiniteSet, Catalogue!IsFiniteSet
<1>3. IsFiniteSet(S)
  BY <1>2, FS_Subset
<1>4. Cardinality(S) \in Nat /\ ExistsBijection(1 .. Cardinality(S), S)
  BY <1>3, FS_CardinalityType
<1>5. \E f \in [1 .. Cardinality(S) -> S] : Catalogue!IsInjective(f)
  BY <1>4 DEF ExistsBijection, Bijection, Injection, IsInjective, Catalogue!IsInjective
<1>6. Cardinality(S) = Catalogue!Cardinality(S)
  BY Zenon DEF Cardinality, Catalogue!Cardinality
<1> DEFINE n == Cardinality(S)
<1>7. Catalogue!SetToSeq(S) = CHOOSE f \in [1 .. n -> S] : Catalogue!IsInjective(f)
  BY <1>6, Zenon DEF Catalogue!SetToSeq
<1> HIDE DEF n
<1>8. Catalogue!SetToSeq(S) \in [1 .. n -> S]
  BY <1>5, <1>7, Zenon DEF n
<1> QED BY <1>4, <1>8 DEF n

LEMMA VerdictsAre ==
    ASSUME NEW m PROVE Catalogue!Verdicts(m) \subseteq {"blocked", "available", "unavailable"}
BY DEF Catalogue!Verdicts

LEMMA MergedKeeps ==
    ASSUME StockKnown, NEW p, NEW found \in SUBSET Models, NEW mode
    PROVE  /\ Catalogue!Merged(p, found, mode) \in Tables
           /\ \A m \in DOMAIN stock.rows \cap DOMAIN Catalogue!Merged(p, found, mode) :
                stock.rows[m] \in {"available", "unavailable"} =>
                   Catalogue!Merged(p, found, mode)[m] # "unknown"
<1> DEFINE S == {n \in DOMAIN stock.rows : Of[n] \in stock.providers \ {p}} \cup found
           V(m) == CASE m \notin found -> IF Of[m] \notin stock.enabled \/ Catalogue!Blocked(Of[m], mode)
                                          THEN "blocked" ELSE stock.rows[m]
                     [] Catalogue!Blocked(p, mode) -> "blocked"
                     [] m \in DOMAIN stock.rows /\ stock.rows[m] # "blocked" -> stock.rows[m]
                     [] OTHER -> "unknown"
<1>1. Catalogue!Merged(p, found, mode) = [m \in S |-> V(m)]
  BY Zenon DEF Catalogue!Merged
<1>2. stock.rows \in Tables
  BY DEF StockKnown
<1>3. S \in SUBSET Models
  BY <1>2, TableFacts
<1>4. \A m \in S : /\ V(m) \in Verdict
                   /\ m \in DOMAIN stock.rows /\ stock.rows[m] \in {"available", "unavailable"}
                        => V(m) # "unknown"
  <2> SUFFICES ASSUME NEW m \in S
               PROVE  /\ V(m) \in Verdict
                      /\ m \in DOMAIN stock.rows /\ stock.rows[m] \in {"available", "unavailable"}
                           => V(m) # "unknown"
    OBVIOUS
  <2>1. m \in DOMAIN stock.rows => stock.rows[m] \in Verdict
    BY <1>2, TableFacts
  <2>2. CASE m \notin found
    BY <2>1, <2>2 DEF Verdict
  <2>3. CASE m \in found
    BY <2>1, <2>3 DEF Verdict
  <2> QED BY <2>2, <2>3
<1> HIDE DEF S, V
<1>5. [m \in S |-> V(m)] \in [S -> Verdict]
  BY <1>4
<1>6. [m \in S |-> V(m)] \in Tables
  BY <1>3, <1>5, Zenon DEF Tables
<1> QED BY <1>1, <1>4, <1>6

LEMMA KeptKeeps ==
    ASSUME StockKnown, NEW p, NEW mode
    PROVE  /\ Catalogue!Kept(p, mode) \in Tables
           /\ \A m \in DOMAIN stock.rows \cap DOMAIN Catalogue!Kept(p, mode) :
                stock.rows[m] \in {"available", "unavailable"} =>
                   Catalogue!Kept(p, mode)[m] # "unknown"
<1> DEFINE S == {n \in DOMAIN stock.rows : Of[n] \in stock.providers \cup {p}}
           V(m) == IF Catalogue!Blocked(Of[m], mode) \/ (Of[m] # p /\ Of[m] \notin stock.enabled)
                   THEN "blocked" ELSE stock.rows[m]
<1>1. Catalogue!Kept(p, mode) = [m \in S |-> V(m)]
  BY Zenon DEF Catalogue!Kept
<1>2. stock.rows \in Tables
  BY DEF StockKnown
<1>3. S \in SUBSET Models
  BY <1>2, TableFacts
<1>4. \A m \in S : /\ V(m) \in Verdict
                   /\ stock.rows[m] \in {"available", "unavailable"} => V(m) # "unknown"
  BY <1>2, TableFacts DEF Verdict
<1> HIDE DEF S, V
<1>5. [m \in S |-> V(m)] \in [S -> Verdict]
  BY <1>4
<1>6. [m \in S |-> V(m)] \in Tables
  BY <1>3, <1>5, Zenon DEF Tables
<1> QED BY <1>1, <1>4, <1>6

LEMMA VerdictStored ==
    ASSUME StockKnown, NEW m, NEW v \in {"blocked", "available", "unavailable"},
           stock' = Catalogue!StoreVerdict(m, v)
    PROVE  StockKnown' /\ Catalogue!VerdictStep
<1> DEFINE rows == IF m \in DOMAIN stock.rows THEN [stock.rows EXCEPT ![m] = v] ELSE stock.rows
<1>1. stock' = [stock EXCEPT !.rows = rows]
  BY DEF Catalogue!StoreVerdict
<1>2. rows \in Tables
  BY TableChanged DEF StockKnown, Verdict
<1>3. \A n \in DOMAIN stock.rows \cap DOMAIN rows :
         stock.rows[n] \in {"available", "unavailable"} => rows[n] # "unknown"
  BY DEF StockKnown
<1> HIDE DEF rows
<1> QED BY <1>1, <1>2, <1>3 DEF StockKnown, Catalogue!VerdictStep

LEMMA RowsKeep ==
    ASSUME stock'.rows = stock.rows PROVE Catalogue!VerdictStep
BY DEF Catalogue!VerdictStep

LEMMA Frame ==
    ASSUME CatalogueInv
    PROVE  /\ StockKnown /\ PageKnown /\ RefreshKnown /\ ChecksKnown
           /\ UNCHANGED refresh => RefreshKnown'
           /\ UNCHANGED checks => ChecksKnown'
           /\ UNCHANGED stock => StockKnown' /\ Catalogue!VerdictStep
           /\ UNCHANGED catalogue => PageKnown'
BY RowsKeep DEF CatalogueInv, StockKnown, PageKnown, RefreshKnown, ChecksKnown

LEMMA NoModelsIsTable == Catalogue!NoModels \in Tables
BY DEF Tables, Catalogue!NoModels

LEMMA RefreshGone == refresh' = Catalogue!NoRefresh => RefreshKnown'
BY NoModelsIsTable DEF RefreshKnown, Catalogue!NoRefresh

LEMMA CatalogueInitEstablishes ==
    ASSUME Catalogue!CatalogueAssumption, Catalogue!CatalogueInit PROVE CatalogueInv
<1>1. StockKnown /\ PageKnown
  BY NoModelsIsTable DEF Catalogue!CatalogueAssumption, Catalogue!CatalogueInit, StockKnown, PageKnown, Calls
<1>2. RefreshKnown
  BY NoModelsIsTable DEF Catalogue!CatalogueInit, RefreshKnown, Catalogue!NoRefresh
<1>3. ChecksKnown
  BY DEF Catalogue!CatalogueInit, ChecksKnown, Catalogue!NoModels
<1> QED BY <1>1, <1>2, <1>3 DEF CatalogueInv

LEMMA ProviderSteps ==
    ASSUME CatalogueInv,
           \/ Catalogue!SetMode \/ Catalogue!ProviderChanged \/ Catalogue!ChangeFails
           \/ Catalogue!EndLoad
           \/ \E p \in Providers : \E op \in {"save", "test", "delete"} : Catalogue!ChangeProvider(p, op)
    PROVE  CatalogueKept
<1>0. /\ StockKnown /\ PageKnown /\ RefreshKnown /\ ChecksKnown
      /\ UNCHANGED refresh => RefreshKnown'
      /\ UNCHANGED checks => ChecksKnown'
      /\ UNCHANGED stock => StockKnown' /\ Catalogue!VerdictStep
      /\ UNCHANGED catalogue => PageKnown'
  BY Frame
<1>1. UNCHANGED <<refresh, checks>>
  BY Zenon DEF Catalogue!SetMode, Catalogue!ProviderChanged, Catalogue!ChangeFails, Catalogue!EndLoad,
               Catalogue!ChangeProvider
<1>2. StockKnown' /\ stock'.rows = stock.rows
  <2>1. CASE UNCHANGED stock
    BY <1>0, <2>1
  <2>2. CASE Catalogue!SetMode
    <3> PICK mode \in Catalogue!Modes : stock' = [stock EXCEPT !.mode = mode, !.changes = @ + 1]
      BY <2>2 DEF Catalogue!SetMode
    <3> DEFINE n == stock.changes + 1
    <3>1. n \in Nat /\ stock' = [stock EXCEPT !.mode = mode, !.changes = n]
      BY <1>0 DEF StockKnown
    <3> HIDE DEF n
    <3> QED BY <1>0, <3>1 DEF StockKnown
  <2>3. CASE Catalogue!ProviderChanged
    <3>1. catalogue.call.of \in Providers
      BY <1>0, <2>3 DEF Catalogue!ProviderChanged, PageKnown, Calls
    <3>2. stock.changes + 1 \in Nat
      BY <1>0 DEF StockKnown
    <3>3. CASE UNCHANGED stock
      BY <1>0, <3>3
    <3> DEFINE done == [stock EXCEPT !.changes = @ + 1]
    <3>4. /\ done \in [mode : Catalogue!Modes, providers : SUBSET Providers,
                       enabled : SUBSET Providers, healthy : SUBSET Providers, rows : Tables,
                       changes : Nat]
          /\ done.rows = stock.rows
      BY <1>0, <3>2 DEF StockKnown
    <3>5. \/ stock' = done
          \/ \E P, E, H \in SUBSET Providers :
               \/ stock' = [done EXCEPT !.enabled = E, !.healthy = H]
               \/ stock' = [done EXCEPT !.healthy = H]
               \/ stock' = [done EXCEPT !.providers = P, !.enabled = E, !.healthy = H]
      <4> DEFINE at == catalogue.call.of
                 P == done.providers \ {at}
                 E(on) == IF on THEN done.enabled \cup {at} ELSE done.enabled \ {at}
                 E1 == done.enabled \ {at}
                 H == done.healthy \ {at}
                 H1 == done.healthy \cup {at}
      <4>1. /\ P \in SUBSET Providers /\ \A on \in BOOLEAN : E(on) \in SUBSET Providers
            /\ E1 \in SUBSET Providers /\ H \in SUBSET Providers /\ H1 \in SUBSET Providers
        BY <3>1, <3>4
      <4>2. \/ \E on \in BOOLEAN : stock' = [done EXCEPT !.enabled = E(on), !.healthy = H]
            \/ \E well \in BOOLEAN : stock' = [done EXCEPT !.healthy = IF well THEN H1 ELSE H]
            \/ stock' = done
            \/ stock' = [done EXCEPT !.providers = P, !.enabled = E1, !.healthy = H]
        <5> HIDE DEF done
        <5> QED BY <2>3, Zenon DEF Catalogue!ProviderChanged, done
      <4> HIDE DEF done, P, E, E1, H, H1
      <4> QED BY <4>1, <4>2
    <3> HIDE DEF done
    <3> QED BY <3>4, <3>5 DEF StockKnown
  <2> QED BY <2>1, <2>2, <2>3 DEF Catalogue!ChangeFails, Catalogue!EndLoad, Catalogue!ChangeProvider
<1>3. PageKnown'
  <2>1. CASE Catalogue!SetMode
    BY <1>0, <2>1 DEF Catalogue!SetMode
  <2>2. CASE Catalogue!ProviderChanged
    <3>1. catalogue' = [catalogue EXCEPT !.call = [op |-> "load", of |-> Nothing]]
      BY <2>2, Zenon DEF Catalogue!ProviderChanged
    <3> QED BY <1>0, <3>1 DEF PageKnown, Calls
  <2>5. CASE Catalogue!ChangeFails
    BY <1>0, <2>5 DEF Catalogue!ChangeFails, PageKnown, Calls
  <2>3. CASE Catalogue!EndLoad
    BY <1>0, <2>3 DEF Catalogue!EndLoad, PageKnown, StockKnown, Calls
  <2>4. ASSUME NEW p \in Providers, NEW op \in {"save", "test", "delete"},
               Catalogue!ChangeProvider(p, op)
        PROVE  PageKnown'
    BY <1>0, <2>4 DEF Catalogue!ChangeProvider, PageKnown, Calls
  <2> QED BY <2>1, <2>2, <2>3, <2>4, <2>5
<1> QED BY <1>0, <1>1, <1>2, <1>3, RowsKeep DEF CatalogueKept, CatalogueInv

LEMMA RefreshSteps ==
    ASSUME Catalogue!CatalogueAssumption, CatalogueInv,
           \/ Catalogue!BeginRefresh \/ Catalogue!RefreshFails \/ Catalogue!RefreshBegins
           \/ Catalogue!CatalogueFound \/ Catalogue!ShowFound
           \/ Catalogue!CheckNext \/ Catalogue!NextChecked \/ Catalogue!ReadAgain
    PROVE  CatalogueKept
<1>0. /\ StockKnown /\ PageKnown /\ RefreshKnown /\ ChecksKnown
      /\ UNCHANGED refresh => RefreshKnown'
      /\ UNCHANGED checks => ChecksKnown'
      /\ UNCHANGED stock => StockKnown' /\ Catalogue!VerdictStep
      /\ UNCHANGED catalogue => PageKnown'
  BY Frame
<1>9. /\ Catalogue!NoRefresh \in
            [step : {"idle", "asked", "listing", "found", "turn", "checking", "reading"},
             of : Providers \cup {Nothing}, mode : Catalogue!Modes \cup {Nothing},
             todo : Seq(Models), found : Tables]
      /\ Catalogue!NoRefresh.step = "idle"
  BY NoModelsIsTable DEF Catalogue!NoRefresh
<1>1. CASE Catalogue!BeginRefresh
  <2> PICK p \in {q \in catalogue.providers : Catalogue!MayRefresh(q)} :
           /\ refresh' = [Catalogue!NoRefresh EXCEPT !.step = "asked", !.of = p]
           /\ catalogue' = [catalogue EXCEPT !.refreshes = @ + 1]
           /\ UNCHANGED <<stock, checks>>
    BY <1>1 DEF Catalogue!BeginRefresh
  <2>2. p \in Providers
    BY <1>0 DEF PageKnown
  <2>3. PageKnown'
    BY <1>0 DEF PageKnown
  <2>4. RefreshKnown'
    BY <1>9, <2>2 DEF RefreshKnown
  <2>1. PageKnown' /\ RefreshKnown' /\ UNCHANGED <<stock, checks>>
    BY <2>3, <2>4
  <2> QED BY <1>0, <2>1 DEF CatalogueKept, CatalogueInv
<1>2. CASE Catalogue!RefreshFails
  <2>1. PageKnown' /\ RefreshKnown' /\ UNCHANGED <<stock, checks>>
    BY <1>0, <1>2, <1>9, RefreshGone DEF Catalogue!RefreshFails, Catalogue!EndRefresh, PageKnown
  <2> QED BY <1>0, <2>1 DEF CatalogueKept, CatalogueInv
<1>3. CASE Catalogue!RefreshBegins
  <2>1. RefreshKnown' /\ UNCHANGED <<catalogue, stock, checks>>
    BY <1>0, <1>3 DEF Catalogue!RefreshBegins, RefreshKnown, StockKnown
  <2> QED BY <1>0, <2>1 DEF CatalogueKept, CatalogueInv
<1>4. CASE Catalogue!CatalogueFound
  <2>1. StockKnown' /\ Catalogue!VerdictStep
    <3>0. refresh.of \in Providers
      BY <1>0, <1>4 DEF Catalogue!CatalogueFound, RefreshKnown
    <3>1. ASSUME NEW found \in SUBSET {m \in Models : Of[m] = refresh.of},
                 stock' = [stock EXCEPT !.healthy = @ \cup {refresh.of},
                             !.rows = Catalogue!Merged(refresh.of, found, refresh.mode)]
          PROVE  StockKnown' /\ Catalogue!VerdictStep
      <4> DEFINE rows == Catalogue!Merged(refresh.of, found, refresh.mode)
      <4>1. rows \in Tables
              /\ \A m \in DOMAIN stock.rows \cap DOMAIN rows :
                   stock.rows[m] \in {"available", "unavailable"} => rows[m] # "unknown"
        BY <1>0, MergedKeeps
      <4>2. stock' = [stock EXCEPT !.healthy = @ \cup {refresh.of}, !.rows = rows]
        BY <3>1
      <4> HIDE DEF rows
      <4> QED BY <1>0, <3>0, <4>1, <4>2 DEF StockKnown, Catalogue!VerdictStep
    <3>2. ASSUME stock' = [stock EXCEPT !.healthy = @ \ {refresh.of},
                             !.rows = Catalogue!Kept(refresh.of, refresh.mode)]
          PROVE  StockKnown' /\ Catalogue!VerdictStep
      <4> DEFINE rows == Catalogue!Kept(refresh.of, refresh.mode)
      <4>1. rows \in Tables
              /\ \A m \in DOMAIN stock.rows \cap DOMAIN rows :
                   stock.rows[m] \in {"available", "unavailable"} => rows[m] # "unknown"
        BY <1>0, KeptKeeps
      <4>2. stock' = [stock EXCEPT !.healthy = @ \ {refresh.of}, !.rows = rows]
        BY <3>2
      <4> HIDE DEF rows
      <4> QED BY <1>0, <3>0, <4>1, <4>2 DEF StockKnown, Catalogue!VerdictStep
    <3> QED BY <1>4, <3>1, <3>2, Zenon DEF Catalogue!CatalogueFound
  <2>2. /\ refresh' = [refresh EXCEPT !.step = "found", !.found = stock'.rows]
        /\ refresh.step = "listing" /\ UNCHANGED <<catalogue, checks>>
    BY <1>4, Zenon DEF Catalogue!CatalogueFound
  <2>3. RefreshKnown'
    BY <1>0, <2>1, <2>2 DEF RefreshKnown, StockKnown
  <2> QED BY <1>0, <2>1, <2>2, <2>3 DEF CatalogueKept, CatalogueInv
<1>5. CASE Catalogue!ShowFound
  <2>1. PageKnown' /\ UNCHANGED <<stock, checks>>
    BY <1>0, <1>5 DEF Catalogue!ShowFound, PageKnown, RefreshKnown, StockKnown
  <2> DEFINE todo == IF refresh.of \notin Local THEN <<>>
                     ELSE Catalogue!SetToSeq({m \in DOMAIN refresh.found : Of[m] = refresh.of})
  <2>2. todo \in Seq(Models)
    <3>0. refresh.found \in Tables
      BY <1>0 DEF RefreshKnown
    <3>1. {m \in DOMAIN refresh.found : Of[m] = refresh.of} \in SUBSET Models
      BY <3>0, TableFacts
    <3>2. Catalogue!SetToSeq({m \in DOMAIN refresh.found : Of[m] = refresh.of}) \in Seq(Models)
      BY <3>1, FoundInOrder
    <3> QED BY <3>2
  <2>3. refresh.step = "found" /\ refresh' = [refresh EXCEPT !.step = "turn", !.todo = todo]
    BY <1>5, Zenon DEF Catalogue!ShowFound
  <2> HIDE DEF todo
  <2>4. RefreshKnown'
    BY <1>0, <2>2, <2>3 DEF RefreshKnown
  <2> QED BY <1>0, <2>1, <2>4 DEF CatalogueKept, CatalogueInv
<1>6. CASE Catalogue!CheckNext
  <2>1. RefreshKnown' /\ UNCHANGED <<stock, checks>>
    BY <1>0, <1>6 DEF Catalogue!CheckNext, RefreshKnown
  <2>2. refresh.todo # <<>> => Head(refresh.todo) \in Models
    BY <1>0 DEF RefreshKnown
  <2>3. PageKnown'
    BY <1>0, <1>6, <2>2 DEF Catalogue!CheckNext, PageKnown
  <2> QED BY <1>0, <2>1, <2>3 DEF CatalogueKept, CatalogueInv
<1>7. CASE Catalogue!NextChecked
  <2> DEFINE n == Head(refresh.todo)
             after(v) == /\ refresh' = [refresh EXCEPT !.step = "turn", !.todo = Tail(@), !.found[n] = v]
                         /\ catalogue' = [catalogue EXCEPT !.checking = @ \ {n}]
  <2>1. /\ refresh.step = "checking"
        /\ \/ \E v \in Catalogue!Verdicts(n) : stock' = Catalogue!StoreVerdict(n, v) /\ after(v)
           \/ stock' = stock /\ after("unavailable")
        /\ UNCHANGED checks
    BY <1>7, Zenon DEF Catalogue!NextChecked
  <2>2. StockKnown' /\ Catalogue!VerdictStep
    BY <1>0, <2>1, VerdictStored, VerdictsAre DEF StockKnown
  <2>3. \E v \in Verdict : after(v)
    BY <2>1, VerdictsAre DEF Verdict
  <2>4. PageKnown'
    BY <1>0, <2>3 DEF PageKnown
  <2>5. RefreshKnown'
    <3> PICK v \in Verdict : after(v)
      BY <2>3
    <3>1. [refresh.found EXCEPT ![n] = v] \in Tables
      BY <1>0, TableChanged DEF RefreshKnown
    <3>2. Tail(refresh.todo) \in Seq(Models)
      <4>1. refresh.todo \in Seq(Models) /\ refresh.todo # <<>>
        BY <1>0, <2>1 DEF RefreshKnown
      <4> QED BY <4>1
    <3> HIDE DEF n
    <3> QED BY <1>0, <2>1, <3>1, <3>2 DEF RefreshKnown
  <2> QED BY <1>0, <2>1, <2>2, <2>4, <2>5 DEF CatalogueKept, CatalogueInv
<1>8. CASE Catalogue!ReadAgain
  <2>1. PageKnown' /\ RefreshKnown' /\ UNCHANGED <<stock, checks>>
    <3>1. refresh' = Catalogue!NoRefresh /\ UNCHANGED <<stock, checks>>
      BY <1>8, Zenon DEF Catalogue!ReadAgain, Catalogue!EndRefresh
    <3> DEFINE rows == IF DOMAIN stock.rows # {} THEN stock.rows ELSE refresh.found
    <3>2. catalogue' = [catalogue EXCEPT !.checking = {}, !.enabled = stock.enabled,
                          !.healthy = stock.healthy, !.rows = rows]
      BY <1>8, Zenon DEF Catalogue!ReadAgain
    <3>3. rows \in Tables /\ stock.enabled \in SUBSET Providers /\ stock.healthy \in SUBSET Providers
      BY <1>0 DEF StockKnown, RefreshKnown
    <3> HIDE DEF rows
    <3>4. PageKnown'
      BY <1>0, <3>2, <3>3 DEF PageKnown
    <3> QED BY <3>1, <3>4, RefreshGone
  <2> QED BY <1>0, <2>1 DEF CatalogueKept, CatalogueInv
<1> QED BY <1>1, <1>2, <1>3, <1>4, <1>5, <1>6, <1>7, <1>8

LEMMA CheckSteps ==
    ASSUME CatalogueInv,
           \/ Catalogue!BeginCheck
           \/ \E m \in DOMAIN checks : Catalogue!CheckStored(m) \/ Catalogue!CheckAnswered(m)
    PROVE  CatalogueKept
<1>0. /\ StockKnown /\ PageKnown /\ RefreshKnown /\ ChecksKnown
      /\ UNCHANGED refresh => RefreshKnown'
      /\ UNCHANGED checks => ChecksKnown'
      /\ UNCHANGED stock => StockKnown' /\ Catalogue!VerdictStep
      /\ UNCHANGED catalogue => PageKnown'
  BY Frame
<1>1. CASE Catalogue!BeginCheck
  <2> PICK m \in DOMAIN catalogue.rows \ catalogue.checking :
           /\ catalogue' = [catalogue EXCEPT !.checking = @ \cup {m}]
           /\ checks' = [n \in DOMAIN checks \cup {m} |-> IF n = m THEN "asked" ELSE checks[n]]
           /\ UNCHANGED <<stock, refresh>>
    BY <1>1 DEF Catalogue!BeginCheck
  <2>1. m \in Models
    BY <1>0, TableFacts DEF PageKnown
  <2>2. PageKnown'
    BY <1>0, <2>1 DEF PageKnown
  <2>3. ChecksKnown'
    BY <1>0, <2>1 DEF ChecksKnown
  <2> QED BY <1>0, <2>2, <2>3 DEF CatalogueKept, CatalogueInv
<1>2. ASSUME NEW m \in DOMAIN checks, Catalogue!CheckStored(m) PROVE CatalogueKept
  <2>1. \E v \in Catalogue!Verdicts(m) :
          stock' = Catalogue!StoreVerdict(m, v) /\ checks' = [checks EXCEPT ![m] = v]
    BY <1>2 DEF Catalogue!CheckStored
  <2>2. StockKnown' /\ Catalogue!VerdictStep /\ ChecksKnown'
    BY <1>0, <2>1, VerdictStored, VerdictsAre DEF ChecksKnown, Verdict
  <2>3. UNCHANGED <<catalogue, refresh>>
    BY <1>2 DEF Catalogue!CheckStored
  <2> QED BY <1>0, <2>2, <2>3 DEF CatalogueKept, CatalogueInv
<1>3. ASSUME NEW m \in DOMAIN checks, Catalogue!CheckAnswered(m) PROVE CatalogueKept
  <2> PICK v \in {checks[m], "unavailable"} \ {"asked"} :
           catalogue' = [catalogue EXCEPT !.checking = @ \ {m},
                           !.rows = IF Catalogue!Listed(m) THEN [@ EXCEPT ![m] = v] ELSE @]
    BY <1>0, <1>3 DEF Catalogue!CheckAnswered
  <2> DEFINE rows == IF Catalogue!Listed(m) THEN [catalogue.rows EXCEPT ![m] = v] ELSE catalogue.rows
  <2>1. v \in Verdict
    BY <1>0 DEF ChecksKnown, Verdict
  <2>2. rows \in Tables
    BY <1>0, <2>1, TableChanged DEF PageKnown
  <2>3. catalogue' = [catalogue EXCEPT !.checking = @ \ {m}, !.rows = rows]
    OBVIOUS
  <2> HIDE DEF rows
  <2>4. PageKnown'
    BY <1>0, <2>2, <2>3 DEF PageKnown
  <2>5. /\ checks' = [n \in DOMAIN checks \ {m} |-> checks[n]]
        /\ UNCHANGED <<stock, refresh>>
    BY <1>0, <1>3 DEF Catalogue!CheckAnswered
  <2>6. ChecksKnown'
    BY <1>0, <2>5 DEF ChecksKnown
  <2> QED BY <1>0, <2>4, <2>5, <2>6 DEF CatalogueKept, CatalogueInv
<1> QED BY <1>1, <1>2, <1>3

LEMMA CatalogueStep ==
    ASSUME Catalogue!CatalogueAssumption, CatalogueInv,
           [Catalogue!CatalogueNext]_(Catalogue!catalogueVars)
    PROVE  CatalogueKept
<1>1. CASE UNCHANGED Catalogue!catalogueVars
  BY <1>1, RowsKeep
  DEF Catalogue!catalogueVars, CatalogueInv, CatalogueKept, StockKnown, PageKnown, RefreshKnown, ChecksKnown
<1> QED
  BY <1>1, ProviderSteps, RefreshSteps, CheckSteps, Zenon DEF Catalogue!CatalogueNext

\* Whatever the test of a model overlaps with, a refresh of its provider or another test,
\* its verdict never turns into "unknown" while the model is listed.
THEOREM VerdictsStay ==
    ASSUME Catalogue!CatalogueAssumption
    PROVE  Catalogue!CatalogueSpec => []Catalogue!CatalogueTypeOK /\ Catalogue!VerdictsSurviveRefresh
<1>1. Catalogue!CatalogueInit => CatalogueInv
  BY CatalogueInitEstablishes
<1>2. CatalogueInv /\ [Catalogue!CatalogueNext]_(Catalogue!catalogueVars) =>
        CatalogueInv' /\ [Catalogue!VerdictStep]_(Catalogue!catalogueVars)
  BY CatalogueStep DEF CatalogueKept
<1>3. CatalogueInv => Catalogue!CatalogueTypeOK
  BY TableFacts
  DEF CatalogueInv, StockKnown, PageKnown, ChecksKnown, Catalogue!CatalogueTypeOK
<1> QED
  BY <1>1, <1>2, <1>3, PTL DEF Catalogue!CatalogueSpec, Catalogue!VerdictsSurviveRefresh

-----------------------------------------------------------------------------
(* What is picked from a sequence                                          *)

Place(I, k) == CHOOSE i \in I : Cardinality({j \in I : j <= i}) = k
Picked(s, I) == [k \in 1 .. Cardinality(I) |-> s[Place(I, k)]]

\* The k-th of some places: from the first to the last one, each of them, in their order.
LEMMA PlacesInOrder ==
    ASSUME NEW n \in Nat, NEW I \in SUBSET (1 .. n)
    PROVE  /\ Cardinality(I) \in Nat
           /\ \A k \in 1 .. Cardinality(I) : Place(I, k) \in I
           /\ \A k, l \in 1 .. Cardinality(I) : k < l => Place(I, k) < Place(I, l)
           /\ \A i \in I : \E k \in 1 .. Cardinality(I) : Place(I, k) = i
<1> DEFINE UpTo(i) == {j \in I : j <= i}
           rank == [i \in I |-> Cardinality(UpTo(i))]
<1>1. IsFiniteSet(I) /\ Cardinality(I) \in Nat
  <2>1. IsFiniteSet(1 .. n)
    BY FS_Interval
  <2> QED BY <2>1, FS_Subset, FS_CardinalityType
<1>2. ASSUME NEW i \in I PROVE rank[i] \in 1 .. Cardinality(I)
  <2>1. UpTo(i) \subseteq I /\ i \in UpTo(i)
    OBVIOUS
  <2> HIDE DEF UpTo
  <2>2. IsFiniteSet(UpTo(i)) /\ Cardinality(UpTo(i)) <= Cardinality(I) /\ Cardinality(UpTo(i)) \in Nat
    BY <1>1, <2>1, FS_Subset, FS_CardinalityType
  <2>3. Cardinality(UpTo(i)) # 0
    BY <2>1, <2>2, FS_EmptySet
  <2> QED BY <2>2, <2>3
<1>3. ASSUME NEW i \in I, NEW j \in I, i < j PROVE rank[i] < rank[j]
  <2>1. UpTo(i) \subseteq UpTo(j) /\ j \in UpTo(j) /\ j \notin UpTo(i) /\ UpTo(j) \subseteq I
    <3>1. I \subseteq Int /\ i \in Int /\ j \in Int
      OBVIOUS
    <3>2. ASSUME NEW x \in UpTo(i) PROVE x \in UpTo(j)
      BY <1>3, <3>1
    <3>3. j \in UpTo(j) /\ UpTo(j) \subseteq I
      BY <3>1
    <3>4. j \notin UpTo(i)
      BY <1>3, <3>1
    <3> QED BY <3>2, <3>3, <3>4
  <2> HIDE DEF UpTo
  <2>2. IsFiniteSet(UpTo(j)) /\ UpTo(i) # UpTo(j)
    BY <1>1, <2>1, FS_Subset
  <2>3. Cardinality(UpTo(i)) <= Cardinality(UpTo(j)) /\ Cardinality(UpTo(i)) # Cardinality(UpTo(j))
    BY <2>1, <2>2, FS_Subset
  <2>4. rank[i] \in Int /\ rank[j] \in Int
    BY <1>2
  <2> QED BY <2>3, <2>4
<1>4. \A i \in I : rank[i] = Cardinality({j \in I : j <= i})
  OBVIOUS
<1> HIDE DEF rank
<1>5. rank \in Injection(I, 1 .. Cardinality(I))
  <2>1. rank \in [I -> 1 .. Cardinality(I)]
    BY <1>2 DEF rank
  <2>2. ASSUME NEW i \in I, NEW j \in I, rank[i] = rank[j] PROVE i = j
    <3>1. i < j \/ j < i \/ i = j
      OBVIOUS
    <3>2. ~(i < j) /\ ~(j < i)
      BY <1>2, <1>3, <2>2
    <3> QED BY <3>1, <3>2
  <2> QED BY <2>1, <2>2 DEF Injection, IsInjective
<1>6. rank \in Surjection(I, 1 .. Cardinality(I))
  <2>1. IsFiniteSet(1 .. Cardinality(I)) /\ Cardinality(1 .. Cardinality(I)) = Cardinality(I)
    BY <1>1, FS_Interval
  <2> QED BY <1>5, <2>1, FS_Injection
<1>7. \A k \in 1 .. Cardinality(I) : \E i \in I : rank[i] = k
  BY <1>6 DEF Surjection
<1>8. \A k \in 1 .. Cardinality(I) : Place(I, k) \in I /\ rank[Place(I, k)] = k
  <2>1. \A k \in 1 .. Cardinality(I) : \E i \in I : Cardinality({j \in I : j <= i}) = k
    BY <1>4, <1>7
  <2>2. \A k \in 1 .. Cardinality(I) : /\ Place(I, k) \in I
                                       /\ Cardinality({j \in I : j <= Place(I, k)}) = k
    BY <2>1 DEF Place
  <2> QED BY <1>4, <2>2
<1>9. \A i \in I : \E k \in 1 .. Cardinality(I) : Place(I, k) = i
  <2>1. ASSUME NEW i \in I PROVE Place(I, rank[i]) = i
    BY <1>2, <1>5, <1>8 DEF Injection, IsInjective
  <2> QED BY <1>2, <2>1
<1>10. ASSUME NEW k \in 1 .. Cardinality(I), NEW l \in 1 .. Cardinality(I), k < l
       PROVE  Place(I, k) < Place(I, l)
  <2> DEFINE i == Place(I, k)
             j == Place(I, l)
  <2>1. i \in I /\ j \in I /\ rank[i] = k /\ rank[j] = l
    BY <1>8
  <2> HIDE DEF i, j
  <2>2. i # j /\ ~(j < i)
    BY <1>3, <1>10, <2>1
  <2>3. i < j
    BY <2>1, <2>2
  <2> QED BY <2>3 DEF i, j
<1> QED BY <1>1, <1>8, <1>9, <1>10

LEMMA PickedFacts ==
    ASSUME NEW S, NEW s \in Seq(S), NEW I \in SUBSET DOMAIN s
    PROVE  /\ Picked(s, I) \in Seq(S)
           /\ Len(Picked(s, I)) = Cardinality(I) /\ Cardinality(I) \in Nat
           /\ \A k \in 1 .. Cardinality(I) : Place(I, k) \in I /\ Picked(s, I)[k] = s[Place(I, k)]
           /\ \A k, l \in 1 .. Cardinality(I) : k < l => Place(I, k) < Place(I, l)
           /\ \A i \in I : \E k \in 1 .. Cardinality(I) : Place(I, k) = i
<1>1. Len(s) \in Nat /\ I \in SUBSET (1 .. Len(s))
  OBVIOUS
<1>2. /\ Cardinality(I) \in Nat
      /\ \A k \in 1 .. Cardinality(I) : Place(I, k) \in I
      /\ \A k, l \in 1 .. Cardinality(I) : k < l => Place(I, k) < Place(I, l)
      /\ \A i \in I : \E k \in 1 .. Cardinality(I) : Place(I, k) = i
  BY <1>1, PlacesInOrder
<1>3. \A k \in 1 .. Cardinality(I) : s[Place(I, k)] \in S
  BY <1>1, <1>2
<1>4. Picked(s, I) \in Seq(S) /\ Len(Picked(s, I)) = Cardinality(I)
  BY <1>2, <1>3 DEF Picked
<1> QED BY <1>2, <1>4 DEF Picked

-----------------------------------------------------------------------------
(* The agents of the runtime's settings                                    *)

Run == {"running", "ended"}

KernelKnown ==
    kernel \in [agents : Seq(Settings!Agent), limit : Allowed, runs : Seq(Run)]

Watch == [run : Nat, live : BOOLEAN]

SettingsKnown ==
    settings \in [loading : BOOLEAN, agents : Seq(Settings!Agent), drafts : SUBSET Settings!Agent,
                  limit : Allowed, chosen : Seq(Agents), saving : Agents \cup {Nothing},
                  starting : BOOLEAN, run : Nat \cup {Nothing}, status : Run \cup {Nothing},
                  due : BOOLEAN, polls : SUBSET Watch]

Seen == [agents : Seq(Settings!Agent), limit : Allowed]

SettingsCall ==
    [op : {"load", "saveload"}, agent : {Nothing}, seen : Seen \cup {Nothing}]
      \cup [op : {"save"}, agent : Settings!Agent, seen : {Nothing}]
      \cup [op : {"remove"}, agent : Agents, seen : {Nothing}]
      \cup [op : {"policy"}, agent : Allowed, seen : {Nothing}]

CallsKnown == calls \in Seq(SettingsCall) /\ Len(calls) <= MaxCalls

\* Nobody twice, the chair last.
IsRoster(r) ==
    /\ r \in Seq(Agents)
    /\ \A i, j \in 1 .. Len(r) : r[i] = r[j] => i = j
    /\ \A i \in 1 .. Len(r) : r[i] = Chair => i = Len(r)

\* While a start is asked for no run is shown and nothing is heard; else what is heard is of the newest.
NewestIsWatched ==
    /\ settings.run \in {Nothing, Len(kernel.runs)}
    /\ settings.starting => settings.run = Nothing /\ ~settings.due
    /\ settings.due => settings.run = Len(kernel.runs) /\ Len(kernel.runs) > 0
    /\ \A p \in settings.polls :
         p.live => ~settings.starting /\ p.run = Len(kernel.runs) /\ Len(kernel.runs) > 0

SettingsInv ==
    KernelKnown /\ SettingsKnown /\ CallsKnown /\ IsRoster(settings.chosen) /\ NewestIsWatched

LEMMA PickedHere ==
    ASSUME NEW S, NEW s \in Seq(S), NEW I \in SUBSET DOMAIN s
    PROVE  Settings!Picked(s, I) = Picked(s, I)
<1>1. \A T : Settings!Cardinality(T) = Cardinality(T)
  BY Zenon DEF Settings!Cardinality, Cardinality
<1>2. \A k : Settings!Place(I, k) = Place(I, k)
  BY <1>1, Zenon DEF Settings!Place, Place
<1> QED BY <1>1, <1>2 DEF Settings!Picked, Picked

\* Some places of a sequence, in their order.
LEMMA SomeOf ==
    ASSUME NEW S, NEW s \in Seq(S), NEW I \in SUBSET DOMAIN s, NEW p, p = Settings!Picked(s, I)
    PROVE  /\ p \in Seq(S)
           /\ \A k \in 1 .. Len(p) : Place(I, k) \in I /\ p[k] = s[Place(I, k)]
           /\ \A k, l \in 1 .. Len(p) : k < l => Place(I, k) < Place(I, l)
<1>1. p = Picked(s, I)
  BY PickedHere
<1>2. /\ Picked(s, I) \in Seq(S)
      /\ Len(Picked(s, I)) = Cardinality(I) /\ Cardinality(I) \in Nat
      /\ \A k \in 1 .. Cardinality(I) : Place(I, k) \in I /\ Picked(s, I)[k] = s[Place(I, k)]
      /\ \A k, l \in 1 .. Cardinality(I) : k < l => Place(I, k) < Place(I, l)
  BY PickedFacts
<1> QED BY <1>1, <1>2

LEMMA OnlyOf ==
    ASSUME NEW S, NEW s \in Seq(S), NEW T, NEW p, p = Settings!Only(s, T)
    PROVE  p \in Seq(S) /\ \A k \in 1 .. Len(p) : p[k] \in T
<1> DEFINE I == {i \in DOMAIN s : s[i] \in T}
<1>1. p = Settings!Picked(s, I) /\ I \in SUBSET DOMAIN s
  BY DEF Settings!Only
<1>2. \A i \in I : s[i] \in T
  OBVIOUS
<1> HIDE DEF I
<1> QED BY <1>1, <1>2, SomeOf

LEMMA RosterLeaves ==
    ASSUME NEW r, IsRoster(r), NEW T
    PROVE  IsRoster(Settings!Only(r, T))
<1> DEFINE I == {i \in DOMAIN r : r[i] \in T}
           p == Settings!Only(r, T)
<1>1. p = Settings!Picked(r, I) /\ I \in SUBSET DOMAIN r
  BY DEF Settings!Only
<1>2. r \in Seq(Agents) /\ DOMAIN r = 1 .. Len(r) /\ Len(r) \in Nat
  BY DEF IsRoster
<1> HIDE DEF I, p
<1>3. /\ p \in Seq(Agents)
      /\ \A k \in 1 .. Len(p) : Place(I, k) \in I /\ p[k] = r[Place(I, k)]
      /\ \A k, l \in 1 .. Len(p) : k < l => Place(I, k) < Place(I, l)
  BY <1>1, <1>2, SomeOf
<1>4. Len(p) \in Nat /\ \A k \in 1 .. Len(p) : Place(I, k) \in 1 .. Len(r)
  BY <1>1, <1>2, <1>3
<1>5. ASSUME NEW k \in 1 .. Len(p), NEW l \in 1 .. Len(p), p[k] = p[l] PROVE k = l
  <2>1. Place(I, k) = Place(I, l)
    BY <1>3, <1>4, <1>5 DEF IsRoster
  <2> QED BY <1>3, <1>4, <2>1
<1>6. ASSUME NEW k \in 1 .. Len(p), p[k] = Chair PROVE k = Len(p)
  <2>1. Place(I, k) = Len(r)
    BY <1>3, <1>4, <1>6 DEF IsRoster
  <2>2. Len(p) \in 1 .. Len(p)
    BY <1>4
  <2> QED BY <1>2, <1>3, <1>4, <2>1, <2>2
<1> QED BY <1>3, <1>5, <1>6 DEF IsRoster, p

LEMMA DistinctOf ==
    ASSUME NEW S, NEW s \in Seq(S), NEW p, p = Settings!Distinct(s)
    PROVE  /\ p \in Seq(S)
           /\ \A k \in 1 .. Len(p) : \E i \in 1 .. Len(s) : p[k] = s[i]
           /\ \A k, l \in 1 .. Len(p) : p[k] = p[l] => k = l
<1> DEFINE I == {i \in DOMAIN s : \A j \in 1 .. i - 1 : s[j] # s[i]}
<1>1. p = Settings!Picked(s, I) /\ I \in SUBSET DOMAIN s
  BY DEF Settings!Distinct
<1>2. ASSUME NEW i \in I, NEW j \in I, i < j PROVE s[i] # s[j]
  <2>1. i \in 1 .. j - 1
    BY <1>2
  <2> QED BY <2>1
<1> HIDE DEF I
<1>3. /\ p \in Seq(S)
      /\ \A k \in 1 .. Len(p) : Place(I, k) \in I /\ p[k] = s[Place(I, k)]
      /\ \A k, l \in 1 .. Len(p) : k < l => Place(I, k) < Place(I, l)
  BY <1>1, SomeOf
<1>4. ASSUME NEW k \in 1 .. Len(p), NEW l \in 1 .. Len(p), k < l PROVE p[k] # p[l]
  BY <1>2, <1>3, <1>4
<1>5. \A k, l \in 1 .. Len(p) : p[k] = p[l] => k = l
  <2>1. \A k, l \in 1 .. Len(p) : k < l \/ l < k \/ k = l
    OBVIOUS
  <2> QED BY <1>4, <2>1
<1> QED BY <1>1, <1>3, <1>5

LEMMA FirstOnes ==
    ASSUME NEW S, NEW s \in Seq(S), NEW n \in Nat, NEW p, p = Settings!FirstOf(s, n)
    PROVE  p \in Seq(S) /\ Len(p) <= Len(s) /\ \A k \in 1 .. Len(p) : p[k] = s[k]
<1> DEFINE m == IF Len(s) > n THEN n ELSE Len(s)
<1>1. m \in 0 .. Len(s) /\ p = SubSeq(s, 1, m)
  BY DEF Settings!FirstOf
<1> HIDE DEF m
<1> QED BY <1>1

LEMMA NormalizedIsRoster ==
    ASSUME NEW list \in Seq(Settings!Agent), NEW current \in Seq(Agents), NEW n \in Nat \ {0},
           Settings!SettingsAssumption
    PROVE  IsRoster(Settings!Normalized(list, current, n))
<1> DEFINE fit == Settings!Fit(list)
           valid == Settings!Only(current, fit)
           ids == [i \in DOMAIN list |-> list[i].id]
           listed == Settings!Only(ids, fit \ Settings!ToSet(Defaults))
           fresh == Settings!Only(Defaults, fit)
           preferred == IF valid # <<>> THEN valid ELSE fresh \o listed
           met == Settings!Only(preferred, fit \ {Chair})
           others == Settings!Distinct(met)
           r == Settings!Normalized(list, current, n)
<1>1. r = IF Chair \in fit THEN Append(Settings!FirstOf(others, n - 1), Chair)
          ELSE Settings!FirstOf(others, n)
  BY Zenon DEF Settings!Normalized
<1>2. Chair \in Agents /\ Defaults \in Seq(Agents)
  BY DEF Settings!SettingsAssumption
<1>3. ids \in Seq(Agents)
  <2>1. \A i \in DOMAIN list : list[i] \in Settings!Agent
    OBVIOUS
  <2>2. \A a \in Settings!Agent : a.id \in Agents
    BY DEF Settings!Agent
  <2> QED BY <2>1, <2>2
<1> HIDE DEF fit, ids, r
<1>4. valid \in Seq(Agents) /\ fresh \in Seq(Agents) /\ listed \in Seq(Agents)
  BY <1>2, <1>3, OnlyOf
<1> HIDE DEF valid, fresh, listed
<1>5. preferred \in Seq(Agents)
  BY <1>4
<1> HIDE DEF preferred
<1>6. met \in Seq(Agents) /\ \A k \in 1 .. Len(met) : met[k] \in fit \ {Chair}
  BY <1>5, OnlyOf
<1> HIDE DEF met
<1>7. /\ others \in Seq(Agents)
      /\ \A k \in 1 .. Len(others) : others[k] # Chair
      /\ \A k, l \in 1 .. Len(others) : others[k] = others[l] => k = l
  <2>1. /\ others \in Seq(Agents)
        /\ \A k \in 1 .. Len(others) : \E i \in 1 .. Len(met) : others[k] = met[i]
        /\ \A k, l \in 1 .. Len(others) : others[k] = others[l] => k = l
    BY <1>6, DistinctOf
  <2> QED BY <1>6, <2>1
<1> HIDE DEF others
<1>8. ASSUME NEW m \in Nat, NEW p, p = Settings!FirstOf(others, m)
      PROVE  /\ p \in Seq(Agents)
             /\ \A k \in 1 .. Len(p) : p[k] # Chair
             /\ \A k, l \in 1 .. Len(p) : p[k] = p[l] => k = l
  <2>1. p \in Seq(Agents) /\ Len(p) <= Len(others) /\ \A k \in 1 .. Len(p) : p[k] = others[k]
    BY <1>7, <1>8, FirstOnes
  <2>2. \A k \in 1 .. Len(p) : k \in 1 .. Len(others)
    BY <1>7, <2>1
  <2> QED BY <1>7, <2>1, <2>2
<1>9. CASE Chair \in fit
  <2> DEFINE p == Settings!FirstOf(others, n - 1)
  <2>1. /\ p \in Seq(Agents)
        /\ \A k \in 1 .. Len(p) : p[k] # Chair
        /\ \A k, l \in 1 .. Len(p) : p[k] = p[l] => k = l
    BY <1>8, n - 1 \in Nat
  <2>2. r = Append(p, Chair)
    BY <1>1, <1>9
  <2> HIDE DEF p
  <2> QED BY <1>2, <2>1, <2>2 DEF IsRoster, r
<1>10. CASE Chair \notin fit
  <2>1. r = Settings!FirstOf(others, n)
    BY <1>1, <1>10
  <2> QED BY <1>8, <2>1 DEF IsRoster, r
<1> QED BY <1>9, <1>10

LEMMA WithoutOf ==
    ASSUME NEW list \in Seq(Settings!Agent), NEW id
    PROVE  Settings!Without(list, id) \in Seq(Settings!Agent)
<1> DEFINE I == {i \in DOMAIN list : list[i].id # id}
<1>1. Settings!Without(list, id) = Settings!Picked(list, I) /\ I \in SUBSET DOMAIN list
  BY DEF Settings!Without
<1> HIDE DEF I
<1> QED BY <1>1, SomeOf

LEMMA StoredOf ==
    ASSUME NEW list \in Seq(Settings!Agent), NEW a \in Settings!Agent
    PROVE  Settings!Stored(list, a) \in Seq(Settings!Agent)
<1>1. [i \in DOMAIN list |-> IF list[i].id = a.id THEN a ELSE list[i]] \in Seq(Settings!Agent)
  OBVIOUS
<1>2. Append(list, a) \in Seq(Settings!Agent)
  OBVIOUS
<1> QED BY <1>1, <1>2 DEF Settings!Stored

LEMMA CallLeaves ==
    ASSUME CallsKnown, NEW i \in DOMAIN calls
    PROVE  /\ Settings!Others(i) \in Seq(SettingsCall)
           /\ Len(Settings!Others(i)) = Len(calls) - 1
<1> DEFINE head == SubSeq(calls, 1, i - 1)
           tail == SubSeq(calls, i + 1, Len(calls))
<1>1. calls \in Seq(SettingsCall) /\ Len(calls) \in Nat /\ i \in 1 .. Len(calls)
  BY DEF CallsKnown
<1>2. head \in Seq(SettingsCall) /\ Len(head) = i - 1
  BY <1>1
<1>3. tail \in Seq(SettingsCall) /\ Len(tail) = Len(calls) - i
  BY <1>1
<1>4. Settings!Others(i) = head \o tail
  BY DEF Settings!Others, Settings!RemoveAt
<1> HIDE DEF head, tail
<1> QED BY <1>1, <1>2, <1>3, <1>4
LEMMA SettingsInitEstablishes ==
    Settings!SettingsAssumption /\ Settings!AgentSettingsInit => SettingsInv
<1> SUFFICES ASSUME Settings!SettingsAssumption, Settings!AgentSettingsInit PROVE SettingsInv
  OBVIOUS
<1> DEFINE all == {[id |-> a, fits |-> TRUE] : a \in Agents}
           first == Settings!SetToSeq(all)
           none == << >>
<1>1. first \in Seq(Settings!Agent)
  <2>1. Settings!IsFiniteSet(Agents)
    BY DEF Settings!SettingsAssumption
  <2>2. IsFiniteSet(Agents)
    BY <2>1, Zenon DEF IsFiniteSet, Settings!IsFiniteSet
  <2>3. IsFiniteSet(all)
    <3> DEFINE f == [a \in Agents |-> [id |-> a, fits |-> TRUE]]
    <3>1. f \in Surjection(Agents, all)
      <4>1. f \in [Agents -> all]
        OBVIOUS
      <4>2. \A x \in all : \E a \in Agents : f[a] = x
        OBVIOUS
      <4> HIDE DEF f
      <4> QED BY <4>1, <4>2 DEF Surjection
    <3> HIDE DEF f, all
    <3> QED BY <2>2, <3>1, FS_Surjection
  <2>4. all \subseteq Settings!Agent
    <3>1. \A a \in Agents : [id |-> a, fits |-> TRUE] \in Settings!Agent
      BY DEF Settings!Agent
    <3> QED BY <3>1
  <2> HIDE DEF all
  <2>5. Cardinality(all) \in Nat /\ ExistsBijection(1 .. Cardinality(all), all)
    BY <2>3, FS_CardinalityType
  <2>6. \E f \in [1 .. Cardinality(all) -> all] : Settings!IsInjective(f)
    BY <2>5 DEF ExistsBijection, Bijection, Injection, IsInjective, Settings!IsInjective
  <2>7. Settings!Cardinality(all) = Cardinality(all)
    BY Zenon DEF Settings!Cardinality, Cardinality
  <2>8. first \in [1 .. Cardinality(all) -> all]
    BY <2>6, <2>7 DEF Settings!SetToSeq
  <2> HIDE DEF first
  <2> QED BY <2>4, <2>5, <2>8
<1>2. PICK limit_ \in Allowed : kernel = [agents |-> first, limit |-> limit_, runs |-> none]
  <2>1. kernel \in [agents : {first}, limit : Allowed, runs : {none}]
    BY Zenon DEF Settings!AgentSettingsInit
  <2> HIDE DEF first, none
  <2> QED BY <2>1
<1>3. /\ settings = [loading |-> TRUE, agents |-> none, drafts |-> {}, limit |-> kernel.limit,
                     chosen |-> none, saving |-> Nothing, starting |-> FALSE, run |-> Nothing,
                     status |-> Nothing, due |-> FALSE, polls |-> {}]
      /\ calls = <<[op |-> "load", agent |-> Nothing, seen |-> Nothing]>>
  BY Zenon DEF Settings!AgentSettingsInit
<1>4. none \in Seq(Settings!Agent) /\ none \in Seq(Agents) /\ none \in Seq(Run) /\ Len(none) = 0
  OBVIOUS
<1> HIDE DEF none, first
<1>5. KernelKnown /\ kernel.limit \in Allowed
  BY <1>1, <1>2, <1>4 DEF KernelKnown
<1>6. SettingsKnown
  BY <1>3, <1>4, <1>5 DEF SettingsKnown
<1>7. CallsKnown
  <2>1. MaxCalls \in Nat \ {0}
    BY DEF Settings!SettingsAssumption
  <2>2. [op |-> "load", agent |-> Nothing, seen |-> Nothing] \in SettingsCall
    BY DEF SettingsCall
  <2> QED BY <1>3, <2>1, <2>2 DEF CallsKnown
<1>8. IsRoster(settings.chosen) /\ NewestIsWatched
  BY <1>3, <1>4 DEF IsRoster, NewestIsWatched
<1> QED BY <1>5, <1>6, <1>7, <1>8 DEF SettingsInv
LEMMA SettingsFields ==
    ASSUME SettingsInv
    PROVE  /\ settings.loading \in BOOLEAN /\ settings.agents \in Seq(Settings!Agent)
           /\ settings.drafts \in SUBSET Settings!Agent /\ settings.limit \in Allowed
           /\ settings.chosen \in Seq(Agents) /\ settings.saving \in Agents \cup {Nothing}
           /\ settings.starting \in BOOLEAN /\ settings.run \in Nat \cup {Nothing}
           /\ settings.status \in Run \cup {Nothing} /\ settings.due \in BOOLEAN
           /\ settings.polls \in SUBSET Watch
           /\ kernel.agents \in Seq(Settings!Agent) /\ kernel.limit \in Allowed
           /\ kernel.runs \in Seq(Run) /\ Len(kernel.runs) \in Nat
<1>1. /\ settings.loading \in BOOLEAN /\ settings.agents \in Seq(Settings!Agent)
      /\ settings.drafts \in SUBSET Settings!Agent /\ settings.limit \in Allowed
      /\ settings.chosen \in Seq(Agents) /\ settings.saving \in Agents \cup {Nothing}
      /\ settings.starting \in BOOLEAN /\ settings.run \in Nat \cup {Nothing}
      /\ settings.status \in Run \cup {Nothing} /\ settings.due \in BOOLEAN
      /\ settings.polls \in SUBSET Watch
  BY DEF SettingsInv, SettingsKnown
<1>2. /\ kernel.agents \in Seq(Settings!Agent) /\ kernel.limit \in Allowed
      /\ kernel.runs \in Seq(Run)
  BY DEF SettingsInv, KernelKnown
<1> QED BY <1>1, <1>2

\* A call that is made.
LEMMA CallMade ==
    ASSUME CallsKnown, Settings!SettingsAssumption, Len(calls) < MaxCalls,
           NEW c \in SettingsCall, calls' = Append(calls, c)
    PROVE  CallsKnown'
BY DEF CallsKnown, Settings!SettingsAssumption

\* A call that was answered, perhaps followed by a load.
LEMMA CallAnswered ==
    ASSUME CallsKnown, Settings!SettingsAssumption, NEW i \in DOMAIN calls,
           \/ calls' = Settings!Others(i)
           \/ \E c \in SettingsCall : calls' = Append(Settings!Others(i), c)
    PROVE  CallsKnown'
<1>1. /\ Settings!Others(i) \in Seq(SettingsCall)
      /\ Len(Settings!Others(i)) = Len(calls) - 1
      /\ Len(calls) \in Nat /\ Len(calls) <= MaxCalls /\ MaxCalls \in Nat
  BY CallLeaves DEF CallsKnown, Settings!SettingsAssumption
<1>2. CASE calls' = Settings!Others(i)
  BY <1>1, <1>2 DEF CallsKnown
<1>3. CASE \E c \in SettingsCall : calls' = Append(Settings!Others(i), c)
  <2>1. PICK c \in SettingsCall : calls' = Append(Settings!Others(i), c)
    BY <1>3
  <2> DEFINE rest == Settings!Others(i)
  <2>2. Append(rest, c) \in Seq(SettingsCall) /\ Len(Append(rest, c)) = Len(rest) + 1
    BY <1>1
  <2> QED BY <1>1, <2>1, <2>2 DEF CallsKnown
<1> QED BY <1>2, <1>3

\* A load asks for nothing in particular.
LEMMA LoadCalls ==
    /\ Settings!Call("load", Nothing) \in SettingsCall
    /\ Settings!Call("saveload", Nothing) \in SettingsCall
BY DEF Settings!Call, SettingsCall

\* What runs and is watched is untouched.
WatchStays ==
    /\ settings'.run = settings.run /\ settings'.starting = settings.starting
    /\ settings'.due = settings.due /\ settings'.polls = settings.polls
    /\ Len(kernel'.runs) = Len(kernel.runs)

LEMMA WatchFrame == NewestIsWatched /\ WatchStays => NewestIsWatched'
BY DEF NewestIsWatched, WatchStays

LEMMA LoadSteps ==
    ASSUME SettingsInv, Settings!SettingsAssumption,
           \/ Settings!BeginLoad
           \/ \E i \in DOMAIN calls : Settings!LoadRead(i) \/ Settings!EndLoad(i)
    PROVE  SettingsInv'
<1>1. KernelKnown /\ SettingsKnown /\ CallsKnown /\ IsRoster(settings.chosen) /\ NewestIsWatched
  BY DEF SettingsInv
<1>2. CASE Settings!BeginLoad
  <2>1. /\ settings' = [settings EXCEPT !.loading = TRUE] /\ kernel' = kernel
        /\ calls' = Append(calls, Settings!Call("load", Nothing)) /\ Len(calls) < MaxCalls
    BY <1>2 DEF Settings!BeginLoad, Settings!CanCall
  <2>2. SettingsKnown' /\ KernelKnown' /\ settings'.chosen = settings.chosen /\ WatchStays
    BY <1>1, <2>1 DEF SettingsKnown, KernelKnown, WatchStays
  <2>3. CallsKnown'
    BY <1>1, <2>1, CallMade, LoadCalls
  <2> QED BY <1>1, <2>2, <2>3, WatchFrame DEF SettingsInv
<1>3. ASSUME NEW i \in DOMAIN calls, Settings!LoadRead(i) PROVE SettingsInv'
  <2> DEFINE seen == [agents |-> kernel.agents, limit |-> kernel.limit]
             c == [calls[i] EXCEPT !.seen = seen]
  <2>1. /\ calls[i].op \in {"load", "saveload"} /\ settings' = settings /\ kernel' = kernel
        /\ calls' = [calls EXCEPT ![i] = c]
    BY <1>3 DEF Settings!LoadRead
  <2>2. seen \in Seen
    BY SettingsFields DEF Seen
  <2>3. c \in SettingsCall
    <3> HIDE DEF seen
    <3>1. calls[i] \in SettingsCall
      BY <1>1 DEF CallsKnown
    <3>2. calls[i] \in [op : {"load", "saveload"}, agent : {Nothing}, seen : Seen \cup {Nothing}]
      BY <2>1, <3>1 DEF SettingsCall
    <3>3. c \in [op : {"load", "saveload"}, agent : {Nothing}, seen : Seen \cup {Nothing}]
      BY <2>2, <3>2
    <3> HIDE DEF c
    <3> QED BY <3>3 DEF SettingsCall
  <2> HIDE DEF c
  <2>4. CallsKnown'
    BY <1>1, <2>1, <2>3 DEF CallsKnown
  <2>5. SettingsKnown' /\ KernelKnown' /\ WatchStays
    BY <1>1, <2>1 DEF SettingsKnown, KernelKnown, WatchStays
  <2> QED BY <1>1, <2>1, <2>4, <2>5, WatchFrame DEF SettingsInv
<1>4. ASSUME NEW i \in DOMAIN calls, Settings!EndLoad(i) PROVE SettingsInv'
  <2> DEFINE call == calls[i]
             after == IF call.op = "saveload" THEN Nothing ELSE settings.saving
  <2>1. /\ call.op \in {"load", "saveload"} /\ kernel' = kernel /\ calls' = Settings!Others(i)
        /\ \/ /\ call.seen # Nothing
              /\ settings' = [settings EXCEPT !.loading = FALSE, !.agents = call.seen.agents,
                   !.drafts = {}, !.limit = call.seen.limit, !.saving = after,
                   !.chosen = Settings!Normalized(call.seen.agents, settings.chosen, call.seen.limit)]
           \/ settings' = [settings EXCEPT !.loading = FALSE, !.saving = after]
    BY <1>4 DEF Settings!EndLoad
  <2>2. CallsKnown'
    BY <1>1, <2>1, CallAnswered
  <2>3. KernelKnown'
    BY <1>1, <2>1 DEF KernelKnown
  <2>4. after \in Agents \cup {Nothing}
    BY SettingsFields
  <2>5. call \in SettingsCall
    BY <1>1 DEF CallsKnown
  <2> HIDE DEF after, call
  <2>6. CASE settings' = [settings EXCEPT !.loading = FALSE, !.saving = after]
    <3>1. SettingsKnown' /\ settings'.chosen = settings.chosen /\ WatchStays
      BY <1>1, <2>1, <2>4, <2>6 DEF SettingsKnown, WatchStays
    <3> QED BY <1>1, <2>2, <2>3, <3>1, WatchFrame DEF SettingsInv
  <2>7. CASE /\ call.seen # Nothing
             /\ settings' = [settings EXCEPT !.loading = FALSE, !.agents = call.seen.agents,
                  !.drafts = {}, !.limit = call.seen.limit, !.saving = after,
                  !.chosen = Settings!Normalized(call.seen.agents, settings.chosen, call.seen.limit)]
    <3> DEFINE list == call.seen.agents
               most == call.seen.limit
               r == Settings!Normalized(list, settings.chosen, most)
    <3>1. call.seen \in Seen
      BY <2>1, <2>5, <2>7 DEF SettingsCall
    <3>2. list \in Seq(Settings!Agent) /\ most \in Allowed
      BY <3>1 DEF Seen
    <3>3. most \in Nat \ {0}
      BY <3>2 DEF Settings!SettingsAssumption
    <3>4. settings' = [settings EXCEPT !.loading = FALSE, !.agents = list, !.drafts = {},
                                       !.limit = most, !.saving = after, !.chosen = r]
      BY <2>7
    <3>5. settings.chosen \in Seq(Agents)
      BY SettingsFields
    <3> HIDE DEF list, most
    <3>6. IsRoster(r)
      BY <3>2, <3>3, <3>5, NormalizedIsRoster
    <3>7. r \in Seq(Agents)
      BY <3>6 DEF IsRoster
    <3> HIDE DEF r
    <3>8. SettingsKnown' /\ settings'.chosen = r /\ WatchStays
      BY <1>1, <2>1, <2>4, <3>2, <3>4, <3>7 DEF SettingsKnown, WatchStays
    <3> QED BY <1>1, <2>2, <2>3, <3>6, <3>8, WatchFrame DEF SettingsInv
  <2> QED BY <2>1, <2>6, <2>7
<1> QED BY <1>2, <1>3, <1>4

LEMMA AgentSteps ==
    ASSUME SettingsInv, Settings!SettingsAssumption,
           \/ Settings!EditAgent \/ Settings!SaveAgent \/ Settings!RemoveAgent
           \/ \E i \in DOMAIN calls : Settings!SaveAnswered(i) \/ Settings!RemoveAnswered(i)
    PROVE  SettingsInv'
<1>1. KernelKnown /\ SettingsKnown /\ CallsKnown /\ IsRoster(settings.chosen) /\ NewestIsWatched
  BY DEF SettingsInv
<1>2. \A list \in Seq(Settings!Agent) : \A id \in Settings!IdsOf(list) :
        /\ id \in Agents
        /\ \E a \in Settings!ToSet(list) : a.id = id
  <2>1. \A a \in Settings!Agent : a.id \in Agents
    BY DEF Settings!Agent
  <2> QED BY <2>1 DEF Settings!IdsOf, Settings!ToSet
<1>3. CASE Settings!EditAgent
  <2>1. PICK id \in Settings!IdsOf(settings.agents), fits \in BOOLEAN :
          settings' = [settings EXCEPT !.drafts = {d \in @ : d.id # id} \cup {[id |-> id, fits |-> fits]}]
    BY <1>3 DEF Settings!EditAgent
  <2>2. kernel' = kernel /\ calls' = calls
    BY <1>3 DEF Settings!EditAgent
  <2> DEFINE draft == [id |-> id, fits |-> fits]
             drafts == {d \in settings.drafts : d.id # id} \cup {draft}
  <2>3. draft \in Settings!Agent
    BY <1>2, SettingsFields DEF Settings!Agent
  <2> HIDE DEF draft
  <2>4. drafts \in SUBSET Settings!Agent
    BY <2>3, SettingsFields
  <2>5. settings' = [settings EXCEPT !.drafts = drafts]
    BY <2>1 DEF draft
  <2> HIDE DEF drafts
  <2>6. /\ SettingsKnown' /\ KernelKnown' /\ CallsKnown' /\ WatchStays
        /\ settings'.chosen = settings.chosen
    BY <1>1, <2>2, <2>4, <2>5 DEF SettingsKnown, KernelKnown, CallsKnown, WatchStays
  <2> QED BY <1>1, <2>6, WatchFrame DEF SettingsInv
<1>4. CASE Settings!SaveAgent
  <2>1. PICK id \in Settings!IdsOf(settings.agents) :
          /\ settings' = [settings EXCEPT !.saving = id]
          /\ calls' = Append(calls, Settings!Call("save", Settings!Draft(id)))
    BY <1>4 DEF Settings!SaveAgent
  <2>2. kernel' = kernel /\ Len(calls) < MaxCalls
    BY <1>4 DEF Settings!SaveAgent, Settings!CanCall
  <2>3. settings.agents \in Seq(Settings!Agent) /\ settings.drafts \subseteq Settings!Agent
    BY SettingsFields
  <2>4. id \in Agents /\ \E a \in Settings!ToSet(settings.agents) : a.id = id
    BY <1>2, <2>3
  <2>5. Settings!ToSet(settings.agents) \subseteq Settings!Agent
    BY <2>3 DEF Settings!ToSet
  <2>6. Settings!Draft(id) \in Settings!Agent
    BY <2>3, <2>4, <2>5 DEF Settings!Draft
  <2> DEFINE c == Settings!Call("save", Settings!Draft(id))
  <2>7. c \in SettingsCall
    BY <2>6 DEF Settings!Call, SettingsCall
  <2> HIDE DEF c
  <2>8. CallsKnown'
    BY <1>1, <2>1, <2>2, <2>7, CallMade DEF c
  <2>9. /\ SettingsKnown' /\ KernelKnown' /\ WatchStays /\ settings'.chosen = settings.chosen
    BY <1>1, <2>1, <2>2, <2>4 DEF SettingsKnown, KernelKnown, WatchStays
  <2> QED BY <1>1, <2>8, <2>9, WatchFrame DEF SettingsInv
<1>5. CASE Settings!RemoveAgent
  <2>1. PICK id \in Settings!IdsOf(settings.agents) :
          calls' = Append(calls, Settings!Call("remove", id))
    BY <1>5 DEF Settings!RemoveAgent
  <2>2. settings' = settings /\ kernel' = kernel /\ Len(calls) < MaxCalls
    BY <1>5 DEF Settings!RemoveAgent, Settings!CanCall
  <2>3. id \in Agents
    BY <1>2, SettingsFields
  <2>4. Settings!Call("remove", id) \in SettingsCall
    BY <2>3 DEF Settings!Call, SettingsCall
  <2>5. CallsKnown'
    BY <1>1, <2>1, <2>2, <2>4, CallMade
  <2>6. SettingsKnown' /\ KernelKnown' /\ WatchStays
    BY <1>1, <2>2 DEF SettingsKnown, KernelKnown, WatchStays
  <2> QED BY <1>1, <2>2, <2>5, <2>6, WatchFrame DEF SettingsInv
<1>6. ASSUME NEW i \in DOMAIN calls, Settings!SaveAnswered(i) PROVE SettingsInv'
  <2> DEFINE agent == calls[i].agent
  <2>1. calls[i] \in SettingsCall /\ calls[i].op = "save"
    <3>1. calls[i].op = "save"
      BY <1>6 DEF Settings!SaveAnswered
    <3> QED BY <1>1, <3>1 DEF CallsKnown
  <2>2. agent \in Settings!Agent
    BY <2>1 DEF SettingsCall
  <2>3. CASE /\ kernel' = [kernel EXCEPT !.agents = Settings!Stored(@, agent)]
             /\ settings' = [settings EXCEPT !.loading = TRUE,
                  !.agents = Append(Settings!Without(@, agent.id), agent),
                  !.drafts = {d \in @ : d.id # agent.id}]
             /\ calls' = Append(Settings!Others(i), Settings!Call("saveload", Nothing))
    <3> HIDE DEF agent
    <3> DEFINE stored == Settings!Stored(kernel.agents, agent)
               rest == Settings!Without(settings.agents, agent.id)
               list == Append(rest, agent)
               drafts == {d \in settings.drafts : d.id # agent.id}
    <3>1. stored \in Seq(Settings!Agent) /\ rest \in Seq(Settings!Agent)
      BY <2>2, SettingsFields, StoredOf, WithoutOf
    <3>2. drafts \in SUBSET Settings!Agent
      BY SettingsFields
    <3>3. /\ kernel' = [kernel EXCEPT !.agents = stored]
          /\ settings' = [settings EXCEPT !.loading = TRUE, !.agents = list, !.drafts = drafts]
      BY <2>3
    <3> HIDE DEF stored, rest, drafts
    <3>4. list \in Seq(Settings!Agent)
      BY <2>2, <3>1
    <3> HIDE DEF list
    <3>5. CallsKnown'
      BY <1>1, <2>3, CallAnswered, LoadCalls
    <3>6. KernelKnown' /\ kernel'.runs = kernel.runs
      BY <1>1, <3>1, <3>3 DEF KernelKnown
    <3>7. SettingsKnown' /\ WatchStays /\ settings'.chosen = settings.chosen
      BY <1>1, <3>2, <3>3, <3>4, <3>6 DEF SettingsKnown, WatchStays
    <3> QED BY <1>1, <3>5, <3>6, <3>7, WatchFrame DEF SettingsInv
  <2>4. CASE /\ kernel' = kernel /\ settings' = [settings EXCEPT !.saving = Nothing]
             /\ calls' = Settings!Others(i)
    <3>1. CallsKnown'
      BY <1>1, <2>4, CallAnswered
    <3>2. KernelKnown' /\ SettingsKnown' /\ WatchStays /\ settings'.chosen = settings.chosen
      BY <1>1, <2>4 DEF KernelKnown, SettingsKnown, WatchStays
    <3> QED BY <1>1, <3>1, <3>2, WatchFrame DEF SettingsInv
  <2> QED BY <1>6, <2>3, <2>4 DEF Settings!SaveAnswered
<1>7. ASSUME NEW i \in DOMAIN calls, Settings!RemoveAnswered(i) PROVE SettingsInv'
  <2> DEFINE id == calls[i].agent
  <2>1. CallsKnown'
    BY <1>1, <1>7, CallAnswered DEF Settings!RemoveAnswered
  <2>2. CASE /\ kernel' = [kernel EXCEPT !.agents = Settings!Without(@, id)]
             /\ settings' = [settings EXCEPT !.agents = Settings!Without(@, id),
                  !.drafts = {d \in @ : d.id # id},
                  !.chosen = Settings!Only(@, Settings!ToSet(@) \ {id})]
    <3> HIDE DEF id
    <3> DEFINE stored == Settings!Without(kernel.agents, id)
               list == Settings!Without(settings.agents, id)
               drafts == {d \in settings.drafts : d.id # id}
               r == Settings!Only(settings.chosen, Settings!ToSet(settings.chosen) \ {id})
    <3>1. stored \in Seq(Settings!Agent) /\ list \in Seq(Settings!Agent)
      BY SettingsFields, WithoutOf
    <3>2. drafts \in SUBSET Settings!Agent
      BY SettingsFields
    <3>3. IsRoster(r)
      BY <1>1, RosterLeaves
    <3>4. r \in Seq(Agents)
      BY <3>3 DEF IsRoster
    <3>5. /\ kernel' = [kernel EXCEPT !.agents = stored]
          /\ settings' = [settings EXCEPT !.agents = list, !.drafts = drafts, !.chosen = r]
      BY <2>2
    <3> HIDE DEF stored, list, drafts, r
    <3>6. KernelKnown' /\ kernel'.runs = kernel.runs
      BY <1>1, <3>1, <3>5 DEF KernelKnown
    <3>7. SettingsKnown' /\ WatchStays /\ settings'.chosen = r
      BY <1>1, <3>1, <3>2, <3>4, <3>5, <3>6 DEF SettingsKnown, WatchStays
    <3> QED BY <1>1, <2>1, <3>3, <3>6, <3>7, WatchFrame DEF SettingsInv
  <2>3. CASE settings' = settings /\ kernel' = kernel
    <3>1. KernelKnown' /\ SettingsKnown' /\ WatchStays
      BY <1>1, <2>3 DEF KernelKnown, SettingsKnown, WatchStays
    <3> QED BY <1>1, <2>1, <2>3, <3>1, WatchFrame DEF SettingsInv
  <2> QED BY <1>7, <2>2, <2>3 DEF Settings!RemoveAnswered
<1> QED BY <1>3, <1>4, <1>5, <1>6, <1>7
LEMMA PolicySteps ==
    ASSUME SettingsInv, Settings!SettingsAssumption,
           \/ Settings!EditPolicy \/ Settings!SavePolicy \/ Settings!ToggleAgent
           \/ \E i \in DOMAIN calls : Settings!PolicyAnswered(i)
    PROVE  SettingsInv'
<1>1. KernelKnown /\ SettingsKnown /\ CallsKnown /\ IsRoster(settings.chosen) /\ NewestIsWatched
  BY DEF SettingsInv
<1>2. CASE Settings!EditPolicy
  <2>1. PICK n \in Allowed : settings' = [settings EXCEPT !.limit = n]
    BY <1>2 DEF Settings!EditPolicy
  <2>2. kernel' = kernel /\ calls' = calls
    BY <1>2 DEF Settings!EditPolicy
  <2>3. /\ SettingsKnown' /\ KernelKnown' /\ CallsKnown' /\ WatchStays
        /\ settings'.chosen = settings.chosen
    BY <1>1, <2>1, <2>2 DEF SettingsKnown, KernelKnown, CallsKnown, WatchStays
  <2> QED BY <1>1, <2>3, WatchFrame DEF SettingsInv
<1>3. CASE Settings!SavePolicy
  <2>1. /\ calls' = Append(calls, Settings!Call("policy", settings.limit))
        /\ settings' = settings /\ kernel' = kernel /\ Len(calls) < MaxCalls
    BY <1>3 DEF Settings!SavePolicy, Settings!CanCall
  <2>2. settings.limit \in Allowed
    BY SettingsFields
  <2>3. Settings!Call("policy", settings.limit) \in SettingsCall
    BY <2>2 DEF Settings!Call, SettingsCall
  <2>4. CallsKnown'
    BY <1>1, <2>1, <2>3, CallMade
  <2>5. SettingsKnown' /\ KernelKnown' /\ WatchStays
    BY <1>1, <2>1 DEF SettingsKnown, KernelKnown, WatchStays
  <2> QED BY <1>1, <2>1, <2>4, <2>5, WatchFrame DEF SettingsInv
<1>4. CASE Settings!ToggleAgent
  <2>1. PICK id \in Settings!Fit(settings.agents) \ {Chair} :
          settings' = [settings EXCEPT !.chosen =
            Settings!Normalized(settings.agents,
              IF id \in Settings!ToSet(settings.chosen)
              THEN Settings!Only(settings.chosen, Settings!ToSet(settings.chosen) \ {id})
              ELSE Append(settings.chosen, id),
              settings.limit)]
    BY <1>4 DEF Settings!ToggleAgent
  <2>2. kernel' = kernel /\ calls' = calls
    BY <1>4 DEF Settings!ToggleAgent
  <2> DEFINE asked == IF id \in Settings!ToSet(settings.chosen)
                      THEN Settings!Only(settings.chosen, Settings!ToSet(settings.chosen) \ {id})
                      ELSE Append(settings.chosen, id)
             r == Settings!Normalized(settings.agents, asked, settings.limit)
  <2>3. /\ settings.agents \in Seq(Settings!Agent) /\ settings.chosen \in Seq(Agents)
        /\ settings.limit \in Nat \ {0}
    BY SettingsFields DEF Settings!SettingsAssumption
  <2>4. id \in Agents
    <3>1. Settings!ToSet(settings.agents) \subseteq Settings!Agent
      BY <2>3 DEF Settings!ToSet
    <3>2. \A a \in Settings!Agent : a.id \in Agents
      BY DEF Settings!Agent
    <3> QED BY <3>1, <3>2 DEF Settings!Fit
  <2>5. asked \in Seq(Agents)
    <3>1. Settings!Only(settings.chosen, Settings!ToSet(settings.chosen) \ {id}) \in Seq(Agents)
      BY <2>3, OnlyOf
    <3>2. Append(settings.chosen, id) \in Seq(Agents)
      BY <2>3, <2>4
    <3> QED BY <3>1, <3>2
  <2>6. settings' = [settings EXCEPT !.chosen = r]
    BY <2>1
  <2> HIDE DEF asked
  <2>7. IsRoster(r)
    BY <2>3, <2>5, NormalizedIsRoster
  <2>8. r \in Seq(Agents)
    BY <2>7 DEF IsRoster
  <2> HIDE DEF r
  <2>9. /\ SettingsKnown' /\ KernelKnown' /\ CallsKnown' /\ WatchStays /\ settings'.chosen = r
    BY <1>1, <2>2, <2>6, <2>8 DEF SettingsKnown, KernelKnown, CallsKnown, WatchStays
  <2> QED BY <1>1, <2>7, <2>9, WatchFrame DEF SettingsInv
<1>5. ASSUME NEW i \in DOMAIN calls, Settings!PolicyAnswered(i) PROVE SettingsInv'
  <2> DEFINE n == calls[i].agent
  <2>1. calls[i].op = "policy"
    BY <1>5 DEF Settings!PolicyAnswered
  <2>2. calls[i] \in SettingsCall
    BY <1>1 DEF CallsKnown
  <2>3. n \in Allowed
    BY <2>1, <2>2 DEF SettingsCall
  <2>4. CallsKnown'
    BY <1>1, <1>5, CallAnswered, LoadCalls DEF Settings!PolicyAnswered
  <2>5. \/ /\ kernel' = [kernel EXCEPT !.limit = n]
           /\ settings' = [settings EXCEPT !.limit = n, !.loading = TRUE]
        \/ kernel' = kernel /\ settings' = settings
    BY <1>5 DEF Settings!PolicyAnswered
  <2> HIDE DEF n
  <2>6. KernelKnown' /\ kernel'.runs = kernel.runs
    BY <1>1, <2>3, <2>5 DEF KernelKnown
  <2>7. SettingsKnown' /\ WatchStays /\ settings'.chosen = settings.chosen
    BY <1>1, <2>3, <2>5, <2>6 DEF SettingsKnown, WatchStays
  <2> QED BY <1>1, <2>4, <2>6, <2>7, WatchFrame DEF SettingsInv
<1> QED BY <1>2, <1>3, <1>4, <1>5

LEMMA RunSteps ==
    ASSUME SettingsInv, Settings!SettingsAssumption,
           \/ Settings!StartDiscussion \/ Settings!DiscussionStarted \/ Settings!Poll
           \/ Settings!PollAnswered \/ Settings!CancelRun \/ Settings!RunEnds
    PROVE  SettingsInv'
<1>1. KernelKnown /\ SettingsKnown /\ CallsKnown /\ IsRoster(settings.chosen) /\ NewestIsWatched
  BY DEF SettingsInv
<1>2. CASE Settings!StartDiscussion
  <2> DEFINE deaf == Settings!Deaf
  <2>1. /\ settings' = [settings EXCEPT !.starting = TRUE, !.run = Nothing, !.status = Nothing,
                                        !.due = FALSE, !.polls = deaf]
        /\ kernel' = kernel /\ calls' = calls
    BY <1>2 DEF Settings!StartDiscussion
  <2>2. deaf \in SUBSET Watch /\ \A p \in deaf : ~p.live
    <3>1. settings.polls \subseteq Watch
      BY SettingsFields
    <3>2. \A p \in Watch : [p EXCEPT !.live = FALSE] \in Watch /\ ~[p EXCEPT !.live = FALSE].live
      BY DEF Watch
    <3> QED BY <3>1, <3>2 DEF Settings!Deaf
  <2> HIDE DEF deaf
  <2>3. /\ SettingsKnown' /\ KernelKnown' /\ CallsKnown' /\ settings'.chosen = settings.chosen
    BY <1>1, <2>1, <2>2 DEF SettingsKnown, KernelKnown, CallsKnown
  <2>4. /\ settings'.starting = TRUE /\ settings'.run = Nothing /\ settings'.due = FALSE
        /\ settings'.polls = deaf
    BY <1>1, <2>1 DEF SettingsKnown
  <2>5. NewestIsWatched'
    BY <2>2, <2>4 DEF NewestIsWatched
  <2> QED BY <1>1, <2>3, <2>5 DEF SettingsInv
<1>3. CASE Settings!DiscussionStarted
  <2> DEFINE list == Append(kernel.runs, "running")
             n == Len(kernel.runs) + 1
  <2>1. calls' = calls /\ settings.starting
    BY <1>3 DEF Settings!DiscussionStarted
  <2>2. \/ /\ kernel' = [kernel EXCEPT !.runs = list]
           /\ settings' = [settings EXCEPT !.starting = FALSE, !.run = n, !.status = "running",
                                           !.due = TRUE]
        \/ /\ kernel' = [kernel EXCEPT !.runs = list] \/ kernel' = kernel
           /\ settings' = [settings EXCEPT !.starting = FALSE]
    BY <1>3 DEF Settings!DiscussionStarted
  <2>3. list \in Seq(Run) /\ Len(list) = n /\ n \in Nat /\ n > 0
    BY SettingsFields DEF Run
  <2> HIDE DEF list, n
  <2>4. KernelKnown' /\ (kernel'.runs = list \/ kernel' = kernel)
    BY <1>1, <2>2, <2>3 DEF KernelKnown
  <2>5. SettingsKnown' /\ CallsKnown' /\ settings'.chosen = settings.chosen
    BY <1>1, <2>1, <2>2, <2>3 DEF SettingsKnown, CallsKnown, Run
  <2>6. settings.run = Nothing /\ ~settings.due /\ \A p \in settings.polls : ~p.live
    BY <1>1, <2>1 DEF NewestIsWatched
  <2>7. settings'.polls = settings.polls /\ ~settings'.starting
    BY <1>1, <2>2 DEF SettingsKnown
  <2>8. CASE /\ kernel' = [kernel EXCEPT !.runs = list]
             /\ settings' = [settings EXCEPT !.starting = FALSE, !.run = n, !.status = "running",
                                             !.due = TRUE]
    <3>1. settings'.run = n /\ kernel'.runs = list
      BY <1>1, <2>8 DEF SettingsKnown, KernelKnown
    <3> QED BY <1>1, <2>3, <2>4, <2>5, <2>6, <2>7, <3>1 DEF SettingsInv, NewestIsWatched
  <2>9. CASE settings' = [settings EXCEPT !.starting = FALSE]
    <3>1. settings'.run = Nothing /\ ~settings'.due
      BY <1>1, <2>6, <2>9 DEF SettingsKnown
    <3> QED BY <1>1, <2>4, <2>5, <2>6, <2>7, <3>1 DEF SettingsInv, NewestIsWatched
  <2> QED BY <2>2, <2>8, <2>9
<1>4. CASE Settings!Poll
  <2> DEFINE p == [run |-> settings.run, live |-> TRUE]
             polls == settings.polls \cup {p}
  <2>1. /\ settings' = [settings EXCEPT !.due = FALSE, !.polls = polls]
        /\ settings.due /\ kernel' = kernel /\ calls' = calls
    BY <1>4 DEF Settings!Poll
  <2>2. /\ settings.run = Len(kernel.runs) /\ Len(kernel.runs) \in Nat /\ Len(kernel.runs) > 0
        /\ ~settings.starting
    BY <1>1, <2>1, SettingsFields DEF NewestIsWatched
  <2>3. p \in Watch /\ p.run = settings.run
    BY <2>2 DEF Watch
  <2> HIDE DEF p
  <2>4. polls \in SUBSET Watch
    BY <2>3, SettingsFields
  <2>5. \A q \in polls : q \in settings.polls \/ q = p
    OBVIOUS
  <2> HIDE DEF polls
  <2>6. SettingsKnown' /\ KernelKnown' /\ CallsKnown' /\ settings'.chosen = settings.chosen
    BY <1>1, <2>1, <2>4 DEF SettingsKnown, KernelKnown, CallsKnown
  <2>7. /\ ~settings'.due /\ settings'.polls = polls /\ settings'.run = settings.run
        /\ settings'.starting = settings.starting
    BY <1>1, <2>1 DEF SettingsKnown
  <2>8. NewestIsWatched'
    BY <1>1, <2>1, <2>2, <2>3, <2>5, <2>7 DEF NewestIsWatched
  <2> QED BY <1>1, <2>6, <2>8 DEF SettingsInv
<1>5. CASE Settings!PollAnswered
  <2>1. PICK p \in settings.polls :
          \/ settings' = [settings EXCEPT !.polls = @ \ {p}]
          \/ /\ p.live
             /\ settings' = [settings EXCEPT !.polls = @ \ {p}, !.run = p.run, !.due = TRUE,
                                             !.status = kernel.runs[p.run]]
    BY <1>5 DEF Settings!PollAnswered, Settings!Heard
  <2>2. kernel' = kernel /\ calls' = calls
    BY <1>5 DEF Settings!PollAnswered
  <2> DEFINE polls == settings.polls \ {p}
  <2>3. polls \in SUBSET Watch /\ polls \subseteq settings.polls /\ p \in Watch
    BY SettingsFields
  <2> HIDE DEF polls
  <2>4. CASE settings' = [settings EXCEPT !.polls = polls]
    <3>1. SettingsKnown' /\ KernelKnown' /\ CallsKnown' /\ settings'.chosen = settings.chosen
      BY <1>1, <2>2, <2>3, <2>4 DEF SettingsKnown, KernelKnown, CallsKnown
    <3>2. /\ settings'.due = settings.due /\ settings'.polls = polls
          /\ settings'.run = settings.run /\ settings'.starting = settings.starting
      BY <1>1, <2>4 DEF SettingsKnown
    <3>3. NewestIsWatched'
      BY <1>1, <2>2, <2>3, <3>2 DEF NewestIsWatched
    <3> QED BY <1>1, <3>1, <3>3 DEF SettingsInv
  <2>5. CASE /\ p.live
             /\ settings' = [settings EXCEPT !.polls = polls, !.run = p.run, !.due = TRUE,
                                             !.status = kernel.runs[p.run]]
    <3>1. ~settings.starting /\ p.run = Len(kernel.runs) /\ Len(kernel.runs) > 0
      BY <1>1, <2>5 DEF NewestIsWatched
    <3>2. kernel.runs[p.run] \in Run /\ p.run \in Nat
      BY <3>1, SettingsFields
    <3>3. SettingsKnown' /\ KernelKnown' /\ CallsKnown' /\ settings'.chosen = settings.chosen
      BY <1>1, <2>2, <2>3, <2>5, <3>2 DEF SettingsKnown, KernelKnown, CallsKnown
    <3>4. /\ settings'.due /\ settings'.polls = polls
          /\ settings'.run = p.run /\ settings'.starting = settings.starting
      BY <1>1, <2>5 DEF SettingsKnown
    <3>5. NewestIsWatched'
      BY <1>1, <2>2, <2>3, <3>1, <3>4 DEF NewestIsWatched
    <3> QED BY <1>1, <3>3, <3>5 DEF SettingsInv
  <2> QED BY <2>1, <2>4, <2>5 DEF polls
<1>6. CASE Settings!CancelRun \/ Settings!RunEnds
  <2>1. /\ \E id : kernel' = [kernel EXCEPT !.runs[id] = "ended"]
        /\ settings' = settings /\ calls' = calls
    BY <1>6 DEF Settings!CancelRun, Settings!RunEnds
  <2>2. PICK id : kernel' = [kernel EXCEPT !.runs[id] = "ended"]
    BY <2>1
  <2> DEFINE list == [kernel.runs EXCEPT ![id] = "ended"]
  <2>3. list \in Seq(Run) /\ Len(list) = Len(kernel.runs)
    <3>1. kernel.runs \in Seq(Run) /\ "ended" \in Run /\ Len(kernel.runs) \in Nat
      BY SettingsFields DEF Run
    <3>2. kernel.runs \in [1 .. Len(kernel.runs) -> Run]
      BY <3>1
    <3> HIDE DEF Run
    <3>3. list \in [1 .. Len(kernel.runs) -> Run]
      BY <3>1, <3>2
    <3> HIDE DEF list
    <3> QED BY <3>1, <3>3, LenProperties
  <2>4. kernel' = [kernel EXCEPT !.runs = list]
    BY <2>2
  <2> HIDE DEF list
  <2>5. KernelKnown' /\ kernel'.runs = list
    BY <1>1, <2>3, <2>4 DEF KernelKnown
  <2>6. SettingsKnown' /\ CallsKnown' /\ WatchStays
    BY <1>1, <2>1, <2>3, <2>5 DEF SettingsKnown, CallsKnown, WatchStays
  <2> QED BY <1>1, <2>1, <2>5, <2>6, WatchFrame DEF SettingsInv
<1> QED BY <1>2, <1>3, <1>4, <1>5, <1>6

LEMMA SettingsStep ==
    ASSUME SettingsInv, Settings!SettingsAssumption,
           [Settings!AgentSettingsNext]_(Settings!settingsVars)
    PROVE  SettingsInv'
<1>1. CASE Settings!AgentSettingsNext
  BY <1>1, LoadSteps, AgentSteps, PolicySteps, RunSteps, Zenon DEF Settings!AgentSettingsNext
<1>2. CASE UNCHANGED Settings!settingsVars
  <2>1. settings' = settings /\ kernel' = kernel /\ calls' = calls
    BY <1>2 DEF Settings!settingsVars
  <2> QED BY <2>1 DEF SettingsInv, KernelKnown, SettingsKnown, CallsKnown, NewestIsWatched
<1> QED BY <1>1, <1>2

(* The agents of the settings: whatever loads, saves, removals and changes *)
(* of the limit overlap, the roster of a discussion has nobody twice and   *)
(* the chair, where it takes part, last, and the run that is shown is the  *)
(* newest one, for any agents and limits and any number of calls and runs. *)
THEOREM RosterEndsWithChair ==
    ASSUME Settings!SettingsAssumption
    PROVE  Settings!AgentSettingsSpec =>
             [](/\ Settings!AgentSettingsTypeOK /\ Settings!ChairIsLast
                /\ Settings!ShownRunIsNewest)
<1>1. Settings!AgentSettingsInit => SettingsInv
  BY SettingsInitEstablishes
<1>2. SettingsInv /\ [Settings!AgentSettingsNext]_(Settings!settingsVars) => SettingsInv'
  BY SettingsStep
<1>3. SettingsInv => /\ Settings!AgentSettingsTypeOK /\ Settings!ChairIsLast
                     /\ Settings!ShownRunIsNewest
  <2> SUFFICES ASSUME SettingsInv
               PROVE  /\ Settings!AgentSettingsTypeOK /\ Settings!ChairIsLast
                      /\ Settings!ShownRunIsNewest
    OBVIOUS
  <2>1. Settings!AgentSettingsTypeOK
    BY SettingsFields DEF Settings!AgentSettingsTypeOK, Settings!ToSet, SettingsInv, CallsKnown
  <2>2. Settings!ChairIsLast
    BY DEF Settings!ChairIsLast, Settings!IsInjective, SettingsInv, IsRoster
  <2>3. Settings!ShownRunIsNewest
    BY DEF Settings!ShownRunIsNewest, SettingsInv, NewestIsWatched
  <2> QED BY <2>1, <2>2, <2>3
<1> QED BY <1>1, <1>2, <1>3, PTL DEF Settings!AgentSettingsSpec

-----------------------------------------------------------------------------
(* Quotients and remainders                                                *)

LEMMA AtLeastOnce ==
    ASSUME NEW n \in Nat, NEW q \in Int, q >= 1
    PROVE  n * q \in Int /\ n * q >= n
<1>1. q - 1 \in Nat
  OBVIOUS
<1>2. n * (q - 1) >= 0
  BY <1>1
<1>3. n * q = n * (q - 1) + n
  BY SMT
<1> QED BY <1>2, <1>3

LEMMA Divided ==
    ASSUME NEW n \in Nat \ {0}, NEW a \in Nat
    PROVE  /\ a \div n \in Nat /\ a % n \in 0 .. n - 1
           /\ a = n * (a \div n) + (a % n)
BY SMT

LEMMA DividedOnce ==
    ASSUME NEW n \in Nat \ {0}, NEW q \in Int, NEW r \in 0 .. n - 1, NEW p \in Int, NEW s \in 0 .. n - 1,
           n * q + r = n * p + s
    PROVE  q = p /\ r = s
<1>1. n * (q - p) = s - r
  BY SMT
<1>2. ~(q - p >= 1)
  BY <1>1, AtLeastOnce
<1>3. ~(p - q >= 1)
  <2>1. n * (p - q) = r - s
    BY SMT
  <2> QED BY <2>1, AtLeastOnce
<1>4. q = p
  BY <1>2, <1>3
<1> QED BY <1>4

LEMMA Ordered ==
    ASSUME NEW n \in Nat \ {0}, NEW a \in Nat, NEW b \in Nat, a <= b
    PROVE  a \div n <= b \div n
<1> DEFINE q == a \div n
           p == b \div n
           r == a % n
           s == b % n
<1>1. q \in Nat /\ p \in Nat /\ r \in 0 .. n - 1 /\ s \in 0 .. n - 1
      /\ a = n * q + r /\ b = n * p + s
  BY Divided
<1> HIDE DEF q, p, r, s
<1>2. ~(q - p >= 1)
  <2>1. SUFFICES ASSUME q - p >= 1 PROVE FALSE
    OBVIOUS
  <2>2. n * (q - p) >= n
    BY <1>1, <2>1, AtLeastOnce
  <2>3. n * (q - p) = n * q - n * p
    BY <1>1, SMT
  <2>4. n * q \in Int /\ n * p \in Int
    BY <1>1
  <2> QED BY <1>1, <2>2, <2>3, <2>4
<1> QED BY <1>1, <1>2 DEF q, p

\* The last of every n.
LEMMA LastOfEach ==
    ASSUME NEW n \in Nat \ {0}, NEW k \in Nat \ {0}
    PROVE  ((k - 1) % n) + 1 = n <=> k % n = 0
<1> DEFINE q == (k - 1) \div n
           r == (k - 1) % n
           p == k \div n
           s == k % n
<1>1. q \in Nat /\ p \in Nat /\ r \in 0 .. n - 1 /\ s \in 0 .. n - 1
      /\ k - 1 = n * q + r /\ k = n * p + s
  <2>1. k - 1 \in Nat /\ k \in Nat
    OBVIOUS
  <2> QED BY <2>1, Divided
<1> HIDE DEF q, p, r, s
<1>2. n * q \in Int /\ n * p \in Int
  BY <1>1
<1>3. ASSUME r + 1 = n PROVE s = 0
  <2>1. n * (q + 1) = n * q + n
    BY <1>1, SMT
  <2>2. n * (q + 1) + 0 = n * p + s
    BY <1>1, <1>2, <1>3, <2>1
  <2> QED BY <1>1, <2>2, DividedOnce
<1>4. ASSUME s = 0 PROVE r + 1 = n
  <2>1. n * (p - 1) = n * p - n
    BY <1>1, SMT
  <2>2. n * (p - 1) + (n - 1) = n * q + r
    BY <1>1, <1>2, <1>4, <2>1
  <2>3. n - 1 \in 0 .. n - 1 /\ p - 1 \in Int
    BY <1>1
  <2>4. n - 1 = r
    BY <1>1, <2>2, <2>3, DividedOnce
  <2> QED BY <1>1, <2>4
<1> QED BY <1>3, <1>4 DEF r, s

\* From every place to the end of its round.
LEMMA RoundGoesOn ==
    ASSUME NEW n \in Nat \ {0}, NEW m \in Nat, NEW k \in 1 .. m * n
    PROVE  \E e \in k .. m * n : e % n = 0 /\ e - k < n
<1> DEFINE q == (k - 1) \div n
           r == (k - 1) % n
           e == n * (q + 1)
<1>1. q \in Nat /\ r \in 0 .. n - 1 /\ k - 1 = n * q + r
  <2>1. k - 1 \in Nat
    OBVIOUS
  <2> QED BY <2>1, Divided
<1>2. m * n \in Nat
  OBVIOUS
<1> HIDE DEF q, r
<1>3. n * q \in Nat /\ e = n * q + n
  BY <1>1, SMT
<1>4. q + 1 <= m
  <2>1. SUFFICES ASSUME q - m >= 0 PROVE FALSE
    BY <1>1
  <2>2. n * (q - m) >= 0
    <3>1. q - m \in Nat
      BY <1>1, <2>1
    <3> QED BY <3>1, SMT
  <2>3. n * (q - m) = n * q - m * n
    BY <1>1, SMT
  <2> QED BY <1>1, <1>2, <1>3, <2>2, <2>3
<1>5. e <= m * n
  <2>1. m - (q + 1) \in Nat
    BY <1>1, <1>4
  <2>2. n * (m - (q + 1)) >= 0
    BY <2>1, SMT
  <2>3. n * (m - (q + 1)) = m * n - e
    BY <1>1, SMT
  <2>4. e \in Int
    BY <1>3
  <2> HIDE DEF e
  <2> QED BY <1>2, <2>2, <2>3, <2>4
<1>6. e % n = 0
  <2>1. e \in Nat
    BY <1>3
  <2>2. e \div n \in Nat /\ e % n \in 0 .. n - 1 /\ e = n * (e \div n) + (e % n)
    BY <2>1, Divided
  <2> DEFINE p == e \div n
             s == e % n
  <2>3. n * (q + 1) + 0 = n * p + s /\ p \in Int /\ s \in 0 .. n - 1 /\ q + 1 \in Int
        /\ 0 \in 0 .. n - 1
    BY <1>1, <2>1, <2>2
  <2> HIDE DEF p, s
  <2>4. s = 0
    BY <2>3, DividedOnce
  <2> QED BY <2>4 DEF s
<1>7. e - k < n /\ e >= k /\ e \in Int
  <2> HIDE DEF e
  <2> QED BY <1>1, <1>3
<1> QED BY <1>2, <1>5, <1>6, <1>7

-----------------------------------------------------------------------------
(* The discussions of a book                                               *)

Told == {"completed", "resumed", "running", "failed", "not_run"}

Contribution == [of : Nat, agent : Agents, status : Told, asks : BOOLEAN]

Outcome == {"running", "completed", "failed", "cancelled"}

RunRecord == [order : Seq(Agents), said : Seq(Contribution), cancel : BOOLEAN, status : Outcome]

ThreadTurn == [run : Nat, of : Nat, round : Nat, agent : Agents \cup {Nothing},
               status : Told, asks : BOOLEAN]

Begun == [reply : BOOLEAN, agents : Seq(Agents), history : Seq(ThreadTurn)]

BookPanel == [panel : Nat, open : BOOLEAN, loaded : BOOLEAN, usable : SUBSET Agents,
              chosen : Seq(Agents), starting : Begun \cup {Nothing}, run : Nat \cup {Nothing},
              status : Outcome \cup {Nothing}, polling : BOOLEAN, turns : Seq(ThreadTurn)]

EachOnce(s) == \A i, j \in 1 .. Len(s) : s[i] = s[j] => i = j

\* Who speaks in a round: everybody once, the chair last.
OrderKnown(order) ==
    /\ order \in Seq(Agents) /\ EachOnce(order) /\ Len(order) \in 1 .. MaxAgents
    /\ \A i \in 1 .. Len(order) : order[i] = Chair <=> i = Len(order)

\* In which round a word at place k is said, and whose word it is.
RoundAt(order, k) == ((k - 1) \div Len(order)) + 1
SpeakerAt(order, k) == order[((k - 1) % Len(order)) + 1]

\* The last word of a round.
EndsRound(order, k) == k % Len(order) = 0

Spoken(run, k) ==
    run.said[k].of = RoundAt(run.order, k) /\ run.said[k].agent = SpeakerAt(run.order, k)

SaidKnown(run) ==
    /\ Len(run.said) <= Rounds * Len(run.order)
    /\ \A k \in 1 .. Len(run.said) : Spoken(run, k)

RunsKnown ==
    /\ runs \in Seq(RunRecord)
    /\ \A id \in 1 .. Len(runs) : OrderKnown(runs[id].order) /\ SaidKnown(runs[id])

ChosenFit(s) == s \in Seq(Agents) /\ EachOnce(s) /\ Len(s) <= MaxAgents

PanelKnown ==
    /\ room \in BookPanel /\ roster \in Seq(Agents)
    /\ ChosenFit(room.chosen)
    /\ room.starting # Nothing => /\ ChosenFit(room.starting.agents)
                                  /\ \E i \in DOMAIN room.starting.agents :
                                       room.starting.agents[i] = Chair
    /\ room.run # Nothing => room.run \in 1 .. Len(runs)
    /\ room.polling => room.run # Nothing /\ room.status \notin Discussion!Terminal

Before(t, u) ==
    /\ t.round <= u.round /\ t.run <= u.run
    /\ t.run = u.run => t.of # u.of \/ t.agent # u.agent
    /\ t.run < u.run => t.round < u.round

InOrder(list) == \A i, j \in 1 .. Len(list) : i < j => Before(list[i], list[j])

\* The last round of the other runs.
Base(list, id) == Discussion!MaxRound({t \in Discussion!ToSet(list) : t.run # id})

Known(list, id, c) == \E i \in 1 .. Len(list) : Discussion!Same(id, c, list[i])

\* No turn is of a later run, those of the last run are what it said, without a gap, in rounds
\* that go on from the runs before; a reply to it comes first.
Follows(list, id, said) ==
    /\ \A i \in 1 .. Len(list) :
         /\ list[i].run <= id
         /\ list[i].run = id /\ list[i].of = 0 => list[i].round = Base(list, id) + 1
         /\ list[i].run = id /\ list[i].of # 0 =>
              /\ list[i].round = list[i].of + Base(list, id)
              /\ \E k \in 1 .. Len(said) : Discussion!Same(id, said[k], list[i])
    /\ \A k \in 1 .. Len(said) : Known(list, id, said[k]) =>
         \A j \in 1 .. k : Known(list, id, said[j])

ThreadKnown ==
    /\ \A i \in 1 .. Len(room.turns) : room.turns[i].run <= Len(runs)
    /\ InOrder(room.turns)
    /\ room.run # Nothing => Follows(room.turns, room.run, runs[room.run].said)

DiscussionInv == RunsKnown /\ PanelKnown /\ ThreadKnown

-----------------------------------------------------------------------------
(* The last round                                                          *)

LEMMA GreatestOf ==
    ASSUME NEW R \in SUBSET Nat, IsFiniteSet(R), R # {}
    PROVE  \E k \in R : \A j \in R : j <= k
<1> DEFINE Above(k) == {j \in R : j > k}
           T == {Above(k) : k \in R}
<1>1. IsWellFoundedOn(StrictSubsetOrdering(R), SUBSET R)
  BY FS_FiniteSubsetsOfFinite, FS_StrictSubsetOrderingWellFounded
<1>2. T \subseteq SUBSET R /\ T # {}
  OBVIOUS
<1>3. \E x \in T : \A y \in T : ~(<<y, x>> \in StrictSubsetOrdering(R))
  <2> HIDE DEF T
  <2> QED BY <1>1, <1>2, WFMin
<1>4. PICK k \in R : \A y \in T : ~(<<y, Above(k)>> \in StrictSubsetOrdering(R))
  BY <1>3
<1>5. ASSUME NEW j \in R, j > k PROVE FALSE
  <2>1. Above(j) \in T /\ <<Above(j), Above(k)>> \notin StrictSubsetOrdering(R)
    BY <1>4
  <2>2. Above(j) \subseteq Above(k) /\ j \in Above(k) /\ j \notin Above(j)
    <3>1. j \in Nat /\ k \in Nat /\ R \subseteq Nat
      OBVIOUS
    <3>2. ASSUME NEW i \in Above(j) PROVE i \in Above(k)
      BY <1>5, <3>1
    <3>3. j \in Above(k) /\ j \notin Above(j)
      BY <1>5, <3>1
    <3> QED BY <3>2, <3>3
  <2>3. Above(j) \in SUBSET R /\ Above(k) \in SUBSET R /\ Above(j) # Above(k)
    BY <2>2
  <2> HIDE DEF Above
  <2> QED BY <2>1, <2>2, <2>3 DEF StrictSubsetOrdering
<1>6. \A j \in R : j <= k
  BY <1>5
<1> QED BY <1>6

LEMMA LastRound ==
    ASSUME NEW list \in Seq(ThreadTurn), NEW S \in SUBSET Discussion!ToSet(list)
    PROVE  /\ Discussion!MaxRound(S) \in Nat
           /\ \A t \in S : t \in ThreadTurn /\ t.round \in Nat /\ t.round <= Discussion!MaxRound(S)
           /\ Discussion!MaxRound(S) = 0 \/ \E t \in S : t.round = Discussion!MaxRound(S)
<1> DEFINE all == Discussion!ToSet(list)
           rounds == [i \in 1 .. Len(list) |-> list[i].round]
           R == {0} \cup {t.round : t \in S}
<1>1. all \subseteq ThreadTurn /\ all = {list[i] : i \in 1 .. Len(list)} /\ Len(list) \in Nat
  BY DEF Discussion!ToSet
<1>2. \A t \in ThreadTurn : t.round \in Nat
  BY DEF ThreadTurn
<1>3. IsFiniteSet(R)
  <2>1. IsFiniteSet(1 .. Len(list))
    BY <1>1, FS_Interval
  <2> DEFINE places == {i \in 1 .. Len(list) : list[i] \in S}
             f == [i \in places |-> list[i].round]
  <2>2. IsFiniteSet(places)
    BY <2>1, FS_Subset
  <2>3. f \in Surjection(places, {t.round : t \in S})
    <3>1. f \in [places -> {t.round : t \in S}]
      OBVIOUS
    <3>2. ASSUME NEW r \in {t.round : t \in S} PROVE \E i \in places : f[i] = r
      <4>1. PICK t \in S : r = t.round
        OBVIOUS
      <4>2. PICK i \in 1 .. Len(list) : t = list[i]
        BY <1>1
      <4> QED BY <4>1, <4>2
    <3> HIDE DEF f
    <3> QED BY <3>1, <3>2 DEF Surjection
  <2>4. IsFiniteSet({t.round : t \in S})
    <3> HIDE DEF f, places
    <3> QED BY <2>2, <2>3, FS_Surjection
  <2>5. IsFiniteSet({0})
    BY FS_Singleton
  <2> QED BY <2>4, <2>5, FS_Union
<1>4. R \in SUBSET Nat /\ R # {}
  BY <1>1, <1>2
<1>5. \E m \in R : \A j \in R : j <= m
  <2> HIDE DEF R
  <2> QED BY <1>3, <1>4, GreatestOf
<1>6. \E m \in R : \A t \in S : t.round <= m
  BY <1>5
<1>7. Discussion!MaxRound(S) \in R /\ \A t \in S : t.round <= Discussion!MaxRound(S)
  BY <1>6 DEF Discussion!MaxRound
<1>8. \A t \in S : t \in ThreadTurn
  BY <1>1
<1> HIDE DEF all
<1>9. Discussion!MaxRound(S) = 0 \/ \E t \in S : t.round = Discussion!MaxRound(S)
  BY <1>7
<1> QED BY <1>2, <1>4, <1>7, <1>8, <1>9

\* The last round is told by the rounds.
LEMMA SameLastRound ==
    ASSUME NEW list \in Seq(ThreadTurn), NEW S \in SUBSET Discussion!ToSet(list),
           NEW other \in Seq(ThreadTurn), NEW T \in SUBSET Discussion!ToSet(other),
           \A t \in S : \E u \in T : u.round = t.round,
           \A u \in T : \E t \in S : u.round = t.round
    PROVE  Discussion!MaxRound(S) = Discussion!MaxRound(T)
<1> DEFINE m == Discussion!MaxRound(S)
           n == Discussion!MaxRound(T)
<1>1. /\ m \in Nat /\ \A t \in S : t.round \in Nat /\ t.round <= m
      /\ m = 0 \/ \E t \in S : t.round = m
  BY LastRound
<1>2. /\ n \in Nat /\ \A t \in T : t.round \in Nat /\ t.round <= n
      /\ n = 0 \/ \E t \in T : t.round = n
  BY LastRound
<1> HIDE DEF m, n
<1>3. m <= n
  BY <1>1, <1>2
<1>4. n <= m
  BY <1>1, <1>2
<1>5. m = n
  BY <1>1, <1>2, <1>3, <1>4
<1> QED BY <1>5 DEF m, n
-----------------------------------------------------------------------------
(* Choices and orders                                                      *)

\* Both modules pick and cut alike.
LEMMA CutAlike ==
    /\ \A s, I : Discussion!Picked(s, I) = Settings!Picked(s, I)
    /\ \A s, T : Discussion!Only(s, T) = Settings!Only(s, T)
    /\ \A s : Discussion!Distinct(s) = Settings!Distinct(s)
    /\ \A s, n : Discussion!FirstOf(s, n) = Settings!FirstOf(s, n)
    /\ \A s : Discussion!ToSet(s) = Settings!ToSet(s)
<1>1. \A T : Settings!Cardinality(T) = Discussion!Cardinality(T)
  BY Zenon DEF Settings!Cardinality, Discussion!Cardinality
<1>2. \A I, k : Settings!Place(I, k) = Discussion!Place(I, k)
  BY <1>1, Zenon DEF Settings!Place, Discussion!Place
<1>3. \A s, I : Discussion!Picked(s, I) = Settings!Picked(s, I)
  BY <1>1, <1>2 DEF Settings!Picked, Discussion!Picked
<1>4. /\ \A s, T : Discussion!Only(s, T) = Settings!Only(s, T)
      /\ \A s : Discussion!Distinct(s) = Settings!Distinct(s)
  BY <1>3 DEF Settings!Only, Discussion!Only, Settings!Distinct, Discussion!Distinct
<1>5. /\ \A s, n : Discussion!FirstOf(s, n) = Settings!FirstOf(s, n)
      /\ \A s : Discussion!ToSet(s) = Settings!ToSet(s)
  BY DEF Settings!FirstOf, Discussion!FirstOf, Settings!ToSet, Discussion!ToSet
<1> QED BY <1>3, <1>4, <1>5

\* What is kept of a choice: those of a set, each once, all of them in it if it held them.
LEMMA KeptOf ==
    ASSUME NEW S, NEW s \in Seq(S), NEW T, NEW p, p = Discussion!Only(s, T)
    PROVE  /\ p \in Seq(S)
           /\ \A k \in 1 .. Len(p) : p[k] \in T /\ \E i \in 1 .. Len(s) : p[k] = s[i]
           /\ EachOnce(s) => EachOnce(p)
           /\ \A i \in 1 .. Len(s) : s[i] \in T => \E k \in 1 .. Len(p) : p[k] = s[i]
           /\ Len(p) <= Len(s)
           /\ (\E i \in 1 .. Len(s) : s[i] \notin T) => Len(p) < Len(s)
<1> DEFINE I == {i \in DOMAIN s : s[i] \in T}
<1>1. p = Picked(s, I) /\ I \in SUBSET DOMAIN s
  BY CutAlike, PickedHere DEF Settings!Only
<1>2. /\ \A i \in I : s[i] \in T
      /\ \A i \in 1 .. Len(s) : s[i] \in T => i \in I
      /\ DOMAIN s = 1 .. Len(s) /\ Len(s) \in Nat
  OBVIOUS
<1> HIDE DEF I
<1>3. /\ p \in Seq(S) /\ Len(p) = Cardinality(I) /\ Cardinality(I) \in Nat
      /\ \A k \in 1 .. Len(p) : Place(I, k) \in I /\ p[k] = s[Place(I, k)]
      /\ \A k, l \in 1 .. Len(p) : k < l => Place(I, k) < Place(I, l)
      /\ \A i \in I : \E k \in 1 .. Len(p) : Place(I, k) = i
  BY <1>1, PickedFacts
<1>4. ASSUME EachOnce(s) PROVE EachOnce(p)
  <2>1. ASSUME NEW k \in 1 .. Len(p), NEW l \in 1 .. Len(p), p[k] = p[l] PROVE k = l
    <3>1. Place(I, k) = Place(I, l)
      BY <1>1, <1>2, <1>3, <1>4, <2>1 DEF EachOnce
    <3>2. Place(I, k) \in Int /\ Place(I, l) \in Int
      BY <1>1, <1>2, <1>3
    <3> QED BY <1>3, <3>1, <3>2
  <2> QED BY <2>1 DEF EachOnce
<1>5. IsFiniteSet(1 .. Len(s)) /\ Cardinality(1 .. Len(s)) = Len(s)
  BY <1>2, FS_Interval
<1>6. Len(p) <= Len(s)
  BY <1>1, <1>2, <1>3, <1>5, FS_Subset
<1>7. ASSUME NEW i \in 1 .. Len(s), s[i] \notin T PROVE Len(p) < Len(s)
  <2>1. I \subseteq (1 .. Len(s)) \ {i}
    BY <1>1, <1>2, <1>7
  <2>2. /\ IsFiniteSet((1 .. Len(s)) \ {i})
        /\ Cardinality((1 .. Len(s)) \ {i}) = Len(s) - 1
    BY <1>5, FS_RemoveElement
  <2>3. Cardinality(I) <= Cardinality((1 .. Len(s)) \ {i})
    BY <2>1, <2>2, FS_Subset
  <2> QED BY <1>2, <1>3, <2>2, <2>3
<1> QED BY <1>1, <1>2, <1>3, <1>4, <1>6, <1>7

\* Each member of a sequence once.
LEMMA OnceOf ==
    ASSUME NEW S, NEW s \in Seq(S), NEW p, p = Discussion!Distinct(s)
    PROVE  /\ p \in Seq(S) /\ EachOnce(p)
           /\ \A k \in 1 .. Len(p) : \E i \in 1 .. Len(s) : p[k] = s[i]
BY CutAlike, DistinctOf DEF EachOnce

LEMMA FirstFew ==
    ASSUME NEW s, s \in Seq(Agents), EachOnce(s), NEW n \in Nat, NEW p, p = Discussion!FirstOf(s, n)
    PROVE  /\ p \in Seq(Agents) /\ EachOnce(p) /\ Len(p) <= n
           /\ \A k \in 1 .. Len(p) : k \in 1 .. Len(s) /\ p[k] = s[k]
           /\ Len(s) <= n => Len(p) = Len(s)
<1>1. /\ p = SubSeq(s, 1, IF Len(s) > n THEN n ELSE Len(s))
      /\ Len(s) \in Nat
  BY DEF Discussion!FirstOf
<1>2. /\ p \in Seq(Agents) /\ Len(p) = IF Len(s) > n THEN n ELSE Len(s)
      /\ \A k \in 1 .. Len(p) : p[k] = s[k]
  BY <1>1
<1> QED BY <1>1, <1>2 DEF EachOnce

\* A choice without repetition from another one is not longer.
LEMMA NoLonger ==
    ASSUME NEW s \in Seq(Agents), NEW p \in Seq(Agents), EachOnce(p),
           \A k \in 1 .. Len(p) : \E i \in 1 .. Len(s) : p[k] = s[i]
    PROVE  Len(p) <= Len(s)
<1> DEFINE f == [k \in 1 .. Len(p) |-> CHOOSE i \in 1 .. Len(s) : p[k] = s[i]]
<1>1. \A k \in 1 .. Len(p) : f[k] \in 1 .. Len(s) /\ p[k] = s[f[k]]
  OBVIOUS
<1>2. f \in [1 .. Len(p) -> 1 .. Len(s)]
  OBVIOUS
<1> HIDE DEF f
<1>3. f \in Injection(1 .. Len(p), 1 .. Len(s))
  <2>1. \A k, l \in 1 .. Len(p) : f[k] = f[l] => k = l
    BY <1>1 DEF EachOnce
  <2>2. DOMAIN f = 1 .. Len(p)
    BY <1>2
  <2> QED BY <1>2, <2>1, <2>2, Zenon DEF Injection, IsInjective
<1>4. /\ IsFiniteSet(1 .. Len(s)) /\ Cardinality(1 .. Len(s)) = Len(s)
      /\ IsFiniteSet(1 .. Len(p)) /\ Cardinality(1 .. Len(p)) = Len(p)
  <2>1. ASSUME NEW n \in Nat PROVE IsFiniteSet(1 .. n) /\ Cardinality(1 .. n) = n
    BY FS_Interval
  <2>2. Len(s) \in Nat /\ Len(p) \in Nat
    OBVIOUS
  <2> QED BY <2>1, <2>2
<1> QED BY <1>3, <1>4, FS_Injection

\* The chair behind some others.
LEMMA ChairBehind ==
    ASSUME NEW s \in Seq(Agents), EachOnce(s), \A i \in 1 .. Len(s) : s[i] # Chair, Chair \in Agents,
           NEW p, p = Append(s, Chair)
    PROVE  /\ p \in Seq(Agents) /\ EachOnce(p) /\ Len(p) = Len(s) + 1
           /\ \A i \in 1 .. Len(p) : p[i] = Chair <=> i = Len(p)
<1>1. /\ p \in Seq(Agents) /\ Len(p) = Len(s) + 1 /\ Len(s) \in Nat
      /\ \A i \in 1 .. Len(s) : p[i] = s[i]
      /\ p[Len(s) + 1] = Chair
  OBVIOUS
<1>2. \A i \in 1 .. Len(p) : i \in 1 .. Len(s) \/ i = Len(s) + 1
  BY <1>1
<1>3. \A i \in 1 .. Len(p) : p[i] = Chair <=> i = Len(p)
  <2>1. \A i \in 1 .. Len(s) : i # Len(p)
    BY <1>1
  <2> QED BY <1>1, <1>2, <2>1
<1>4. EachOnce(p)
  <2> SUFFICES ASSUME NEW i \in 1 .. Len(p), NEW j \in 1 .. Len(p), p[i] = p[j] PROVE i = j
    BY DEF EachOnce
  <2>1. CASE i \in 1 .. Len(s) /\ j \in 1 .. Len(s)
    BY <1>1, <2>1 DEF EachOnce
  <2>2. CASE i = Len(s) + 1 \/ j = Len(s) + 1
    BY <1>1, <1>3, <2>2
  <2> QED BY <1>2, <2>1, <2>2
<1> QED BY <1>1, <1>3, <1>4
-----------------------------------------------------------------------------
(* The runs of the runtime                                                 *)

IsRun(run) == run \in RunRecord /\ OrderKnown(run.order) /\ SaidKnown(run)

\* What a run has said, it goes on from.
Continues(run, next) ==
    IsRun(next) /\ next.order = run.order /\ Len(run.said) <= Len(next.said)

LEMMA RunFields ==
    ASSUME NEW run, IsRun(run)
    PROVE  /\ run \in RunRecord /\ run.order \in Seq(Agents) /\ run.said \in Seq(Contribution)
           /\ run.cancel \in BOOLEAN /\ run.status \in Outcome
           /\ Len(run.order) \in Nat \ {0} /\ Len(run.said) \in Nat
<1>1. /\ run \in RunRecord /\ run.order \in Seq(Agents) /\ run.said \in Seq(Contribution)
      /\ run.cancel \in BOOLEAN /\ run.status \in Outcome
  BY DEF IsRun, RunRecord
<1>2. Len(run.order) \in Nat /\ Len(run.order) # 0
  <2>1. Len(run.order) \in Nat
    BY <1>1
  <2>2. Len(run.order) \in 1 .. MaxAgents
    BY DEF IsRun, OrderKnown
  <2> QED BY <2>1, <2>2
<1>3. Len(run.said) \in Nat
  BY <1>1
<1> QED BY <1>1, <1>2, <1>3

\* Who speaks when: the words of a run differ, in the order of its rounds, the chair's at their ends.
LEMMA Words ==
    ASSUME NEW run, IsRun(run)
    PROVE  /\ \A k \in 1 .. Len(run.said) :
                /\ run.said[k] \in Contribution /\ run.said[k].of \in Nat /\ run.said[k].of > 0
                /\ run.said[k].agent \in Agents
                /\ run.said[k].agent = Chair <=> EndsRound(run.order, k)
           /\ \A j, k \in 1 .. Len(run.said) : j <= k => run.said[j].of <= run.said[k].of
           /\ \A j, k \in 1 .. Len(run.said) :
                /\ run.said[j].of = run.said[k].of /\ run.said[j].agent = run.said[k].agent
                => j = k
<1> DEFINE n == Len(run.order)
           m == Len(run.said)
           said == run.said
<1>1. /\ n \in Nat \ {0} /\ m \in Nat /\ said \in Seq(Contribution)
      /\ \A k \in 1 .. m : said[k] \in Contribution
  BY RunFields
<1>2. /\ \A i, j \in 1 .. n : run.order[i] = run.order[j] => i = j
      /\ \A i \in 1 .. n : run.order[i] = Chair <=> i = n
      /\ \A i \in 1 .. n : run.order[i] \in Agents
  BY RunFields DEF IsRun, OrderKnown, EachOnce
<1>3. \A k \in 1 .. m : /\ said[k].of = ((k - 1) \div n) + 1
                        /\ said[k].agent = run.order[((k - 1) % n) + 1]
  BY DEF IsRun, SaidKnown, Spoken, RoundAt, SpeakerAt
<1> HIDE DEF n, m, said
<1>4. ASSUME NEW k \in 1 .. m
      PROVE  /\ k - 1 \in Nat /\ (k - 1) \div n \in Nat /\ (k - 1) % n \in 0 .. n - 1
             /\ k - 1 = n * ((k - 1) \div n) + ((k - 1) % n)
             /\ ((k - 1) % n) + 1 \in 1 .. n
             /\ ((k - 1) % n) + 1 = n <=> k % n = 0
  <2>1. k - 1 \in Nat /\ k \in Nat \ {0}
    BY <1>1
  <2>2. /\ (k - 1) \div n \in Nat /\ (k - 1) % n \in 0 .. n - 1
        /\ k - 1 = n * ((k - 1) \div n) + ((k - 1) % n)
    BY <1>1, <2>1, Divided
  <2>3. ((k - 1) % n) + 1 = n <=> k % n = 0
    BY <1>1, <2>1, LastOfEach
  <2>4. ((k - 1) % n) + 1 \in 1 .. n
    BY <1>1, <2>2
  <2> QED BY <2>1, <2>2, <2>3, <2>4
<1>5. ASSUME NEW k \in 1 .. m
      PROVE  /\ said[k] \in Contribution /\ said[k].of \in Nat /\ said[k].of > 0
             /\ said[k].agent \in Agents
             /\ said[k].agent = Chair <=> k % n = 0
  <2>1. said[k].of \in Nat /\ said[k].of > 0
    BY <1>3, <1>4
  <2> QED BY <1>1, <1>2, <1>3, <1>4, <2>1
<1>6. ASSUME NEW j \in 1 .. m, NEW k \in 1 .. m, j <= k PROVE said[j].of <= said[k].of
  <2>1. j - 1 \in Nat /\ k - 1 \in Nat /\ j - 1 <= k - 1
    BY <1>1, <1>6
  <2>2. (j - 1) \div n <= (k - 1) \div n
    BY <1>1, <2>1, Ordered
  <2>3. (j - 1) \div n \in Nat /\ (k - 1) \div n \in Nat
    BY <1>4
  <2> QED BY <1>3, <2>2, <2>3
<1>7. ASSUME NEW j \in 1 .. m, NEW k \in 1 .. m,
             said[j].of = said[k].of, said[j].agent = said[k].agent
      PROVE  j = k
  <2> DEFINE q == (j - 1) \div n
             p == (k - 1) \div n
             r == (j - 1) % n
             s == (k - 1) % n
  <2>1. /\ j - 1 = n * q + r /\ k - 1 = n * p + s /\ q \in Nat /\ p \in Nat
        /\ r + 1 \in 1 .. n /\ s + 1 \in 1 .. n /\ r \in 0 .. n - 1 /\ s \in 0 .. n - 1
    BY <1>4
  <2>2. q + 1 = p + 1 /\ run.order[r + 1] = run.order[s + 1]
    BY <1>3, <1>7
  <2> HIDE DEF q, p, r, s
  <2>3. q = p /\ r = s
    BY <1>2, <2>1, <2>2
  <2>4. j - 1 = k - 1
    BY <2>1, <2>3
  <2> QED BY <1>1, <2>4
<1>8. /\ \A k \in 1 .. m :
           /\ said[k] \in Contribution /\ said[k].of \in Nat /\ said[k].of > 0
           /\ said[k].agent \in Agents
           /\ said[k].agent = Chair <=> EndsRound(run.order, k)
      /\ \A j, k \in 1 .. m : j <= k => said[j].of <= said[k].of
      /\ \A j, k \in 1 .. m :
           /\ said[j].of = said[k].of /\ said[j].agent = said[k].agent
           => j = k
  <2>1. \A k \in 1 .. m : EndsRound(run.order, k) <=> k % n = 0
    BY DEF EndsRound, n
  <2> QED BY <1>5, <1>6, <1>7, <2>1
<1> QED BY <1>8, Zenon DEF n, m, said

LEMMA SpeechIs ==
    ASSUME NEW run, IsRun(run), NEW k \in Nat \ {0}, NEW how \in Told
    PROVE  /\ Discussion!Speech(run, k, how) \in Contribution
           /\ Discussion!Speech(run, k, how).of = RoundAt(run.order, k)
           /\ Discussion!Speech(run, k, how).agent = SpeakerAt(run.order, k)
<1> DEFINE n == Len(run.order)
           of == ((k - 1) \div n) + 1
           who == run.order[((k - 1) % n) + 1]
<1>1. n \in Nat \ {0} /\ run.order \in Seq(Agents) /\ k - 1 \in Nat
  BY RunFields
<1> HIDE DEF n
<1>2. (k - 1) \div n \in Nat /\ (k - 1) % n \in 0 .. n - 1
  BY <1>1, Divided
<1>3. of \in Nat /\ who \in Agents
  <2>1. ((k - 1) % n) + 1 \in 1 .. n
    BY <1>1, <1>2
  <2>2. \A i \in 1 .. n : run.order[i] \in Agents
    BY <1>1 DEF n
  <2> QED BY <1>2, <2>1, <2>2
<1>4. Discussion!Speech(run, k, how) = [of |-> of, agent |-> who, status |-> how, asks |-> FALSE]
  BY DEF Discussion!Speech, n
<1> HIDE DEF of, who
<1>5. Discussion!Speech(run, k, how) \in Contribution
  BY <1>3, <1>4 DEF Contribution
<1>6. Discussion!Speech(run, k, how).of = of /\ Discussion!Speech(run, k, how).agent = who
  BY <1>4
<1> QED BY <1>5, <1>6 DEF of, who, n, RoundAt, SpeakerAt

\* A run with more of what its order says.
LEMMA Extended ==
    ASSUME NEW run, IsRun(run), NEW said \in Seq(Contribution), NEW how \in Outcome,
           Len(run.said) <= Len(said), Len(said) <= Rounds * Len(run.order),
           \A k \in 1 .. Len(said) :
             /\ said[k].of = RoundAt(run.order, k)
             /\ said[k].agent = SpeakerAt(run.order, k)
    PROVE  Continues(run, [run EXCEPT !.said = said, !.status = how])
<1> DEFINE next == [run EXCEPT !.said = said, !.status = how]
<1>1. run \in RunRecord
  BY RunFields
<1>2. next \in RunRecord
  BY <1>1 DEF RunRecord
<1>3. next.said = said /\ next.order = run.order
  BY <1>1 DEF RunRecord
<1> HIDE DEF next
<1>4. SaidKnown(next)
  BY <1>3 DEF SaidKnown, Spoken
<1>5. OrderKnown(next.order)
  BY <1>3 DEF IsRun
<1>6. Continues(run, next)
  BY <1>2, <1>3, <1>4, <1>5 DEF Continues, IsRun
<1> QED BY <1>6 DEF next

LEMMA Itself ==
    ASSUME NEW run, IsRun(run)
    PROVE  /\ run = [run EXCEPT !.said = run.said, !.status = run.status]
           /\ Continues(run, run)
<1>1. run \in RunRecord /\ Len(run.said) \in Nat
  BY RunFields
<1>2. run = [run EXCEPT !.said = run.said, !.status = run.status]
  BY <1>1 DEF RunRecord
<1>3. Continues(run, run)
  BY <1>1 DEF Continues
<1> QED BY <1>2, <1>3

LEMMA NextWord ==
    ASSUME NEW run, IsRun(run), Len(run.said) < Rounds * Len(run.order), Rounds \in Nat \ {0}
    PROVE  Continues(run, Discussion!WithNext(run))
<1> DEFINE n == Len(run.order)
           m == Len(run.said)
           c == Discussion!Speech(run, m + 1, "running")
           said == Append(run.said, c)
<1>1. /\ run \in RunRecord /\ run.said \in Seq(Contribution) /\ m \in Nat /\ n \in Nat \ {0}
      /\ run.status \in Outcome
  BY RunFields
<1>2. /\ c \in Contribution /\ c.of = RoundAt(run.order, m + 1)
      /\ c.agent = SpeakerAt(run.order, m + 1)
  <2> DEFINE j == m + 1
  <2>1. j \in Nat \ {0} /\ "running" \in Told
    BY <1>1 DEF Told
  <2> HIDE DEF j, m
  <2>2. /\ Discussion!Speech(run, j, "running") \in Contribution
        /\ Discussion!Speech(run, j, "running").of = RoundAt(run.order, j)
        /\ Discussion!Speech(run, j, "running").agent = SpeakerAt(run.order, j)
    BY <2>1, SpeechIs
  <2> QED BY <2>2, Zenon DEF j
<1> HIDE DEF c
<1>3. /\ said \in Seq(Contribution) /\ Len(said) = m + 1
      /\ \A k \in 1 .. m : said[k] = run.said[k]
      /\ said[m + 1] = c
  BY <1>1, <1>2
<1> HIDE DEF said
<1>4. \A k \in 1 .. Len(said) : /\ said[k].of = RoundAt(run.order, k)
                                /\ said[k].agent = SpeakerAt(run.order, k)
  <2>1. \A k \in 1 .. m : /\ said[k].of = RoundAt(run.order, k)
                          /\ said[k].agent = SpeakerAt(run.order, k)
    BY <1>3 DEF IsRun, SaidKnown, Spoken
  <2>2. \A k \in 1 .. Len(said) : k \in 1 .. m \/ k = m + 1
    BY <1>1, <1>3
  <2>3. ASSUME NEW k, k = m + 1
        PROVE  /\ said[k].of = RoundAt(run.order, k)
               /\ said[k].agent = SpeakerAt(run.order, k)
    <3>1. said[k] = c
      BY <1>3, <2>3
    <3> HIDE DEF n, m
    <3> QED BY <1>2, <2>3, <3>1, Zenon
  <2> QED BY <2>1, <2>2, <2>3
<1>5. m < Rounds * n /\ Len(said) <= Rounds * n
  <2>1. m < Rounds * n
    OBVIOUS
  <2> HIDE DEF n, m
  <2>2. m + 1 <= Rounds * n
    <3>1. Rounds * n \in Int
      BY <1>1
    <3> QED BY <1>1, <2>1, <3>1
  <2> QED BY <1>3, <2>1, <2>2
<1>6. Discussion!WithNext(run) = [run EXCEPT !.said = said, !.status = run.status]
  BY <1>1 DEF Discussion!WithNext, said, c, RunRecord
<1>7. m <= Len(said)
  BY <1>1, <1>3
<1> HIDE DEF n, m
<1>8. Continues(run, [run EXCEPT !.said = said, !.status = run.status])
  BY <1>1, <1>3, <1>4, <1>5, <1>7, Extended DEF n, m
<1> QED BY <1>6, <1>8

LEMMA CutShort ==
    ASSUME NEW run, IsRun(run), Rounds \in Nat \ {0}
    PROVE  Continues(run, Discussion!Cancelled(run))
<1> DEFINE n == Len(run.order)
           k == Len(run.said)
           end == IF k = 0 THEN 0 ELSE Discussion!RoundEnd(run, k) - k
           missing == [i \in 1 .. end |-> Discussion!Speech(run, k + i, "not_run")]
           said == run.said \o missing
<1>1. /\ run \in RunRecord /\ run.said \in Seq(Contribution) /\ k \in Nat /\ n \in Nat \ {0}
      /\ k <= Rounds * n
  BY RunFields DEF IsRun, SaidKnown
<1>2. Rounds * n \in Nat
  BY <1>1
<1>3. end \in Nat /\ k + end <= Rounds * n
  <2>1. CASE k = 0
    BY <1>1, <1>2, <2>1
  <2>2. CASE k # 0
    <3>1. k \in 1 .. Rounds * n
      BY <1>1, <1>2, <2>2
    <3>2. \E e \in k .. Rounds * n : e % n = 0 /\ e - k < n
      <4> HIDE DEF n, k
      <4> QED BY <1>1, <3>1, RoundGoesOn
    <3>3. Discussion!RoundEnd(run, k) \in k .. Rounds * n
      BY <3>2 DEF Discussion!RoundEnd, Discussion!Planned
    <3> QED BY <1>1, <1>2, <2>2, <3>3
  <2> QED BY <2>1, <2>2
<1> HIDE DEF end
<1>4. \A i \in 1 .. end : /\ missing[i] \in Contribution
                          /\ missing[i].of = RoundAt(run.order, k + i)
                          /\ missing[i].agent = SpeakerAt(run.order, k + i)
  <2> TAKE i \in 1 .. end
  <2>1. k + i \in Nat \ {0}
    BY <1>1, <1>3
  <2> DEFINE j == k + i
  <2>2. missing[i] = Discussion!Speech(run, j, "not_run")
    OBVIOUS
  <2>3. "not_run" \in Told
    BY DEF Told
  <2>4. j \in Nat \ {0}
    BY <2>1
  <2> HIDE DEF missing, j
  <2>5. /\ missing[i] \in Contribution
        /\ missing[i].of = RoundAt(run.order, j)
        /\ missing[i].agent = SpeakerAt(run.order, j)
    BY <2>2, <2>3, <2>4, SpeechIs
  <2> QED BY <2>5 DEF j
<1>5. missing \in Seq(Contribution) /\ Len(missing) = end
  <2>1. missing \in [1 .. end -> Contribution]
    BY <1>4
  <2>2. missing \in Seq(Contribution)
    BY <1>3, <2>1, SeqDef
  <2>3. Len(missing) = end
    BY <1>3, <2>2
  <2> QED BY <2>2, <2>3
<1> HIDE DEF missing
<1>6. /\ said \in Seq(Contribution) /\ Len(said) = k + end
      /\ \A j \in 1 .. k : said[j] = run.said[j]
      /\ \A j \in 1 .. end : said[k + j] = missing[j]
  BY <1>1, <1>3, <1>5
<1> HIDE DEF said
<1>7. \A j \in 1 .. Len(said) : /\ said[j].of = RoundAt(run.order, j)
                                /\ said[j].agent = SpeakerAt(run.order, j)
  <2>1. \A j \in 1 .. k : /\ said[j].of = RoundAt(run.order, j)
                          /\ said[j].agent = SpeakerAt(run.order, j)
    BY <1>6 DEF IsRun, SaidKnown, Spoken
  <2>2. ASSUME NEW j \in 1 .. Len(said), j \notin 1 .. k
        PROVE  /\ said[j].of = RoundAt(run.order, j)
               /\ said[j].agent = SpeakerAt(run.order, j)
    <3> DEFINE i == j - k
    <3>1. i \in 1 .. end /\ k + i = j
      BY <1>1, <1>3, <1>6, <2>2
    <3> HIDE DEF i
    <3>2. said[j] = missing[i]
      BY <1>6, <3>1
    <3> QED BY <1>4, <3>1, <3>2
  <2> QED BY <2>1, <2>2
<1>8. Discussion!Cancelled(run) = [run EXCEPT !.said = said, !.status = "cancelled"]
  BY DEF Discussion!Cancelled, said, missing, end
<1>9. k <= Len(said) /\ Len(said) <= Rounds * n
  <2> HIDE DEF k, n
  <2>1. k <= k + end
    BY <1>1, <1>3
  <2> QED BY <1>3, <1>6, <2>1
<1>10. Continues(run, [run EXCEPT !.said = said, !.status = "cancelled"])
  <2>1. "cancelled" \in Outcome /\ said \in Seq(Contribution)
    BY <1>6 DEF Outcome
  <2>2. Len(run.said) <= Len(said) /\ Len(said) <= Rounds * Len(run.order)
    BY <1>9
  <2> QED BY <1>7, <2>1, <2>2, Extended
<1> QED BY <1>8, <1>10

LEMMA LastWord ==
    ASSUME NEW run, IsRun(run)
    PROVE  Continues(run, Discussion!Ended(run))
<1>1. /\ run \in RunRecord /\ run.said \in Seq(Contribution) /\ Len(run.said) \in Nat
  BY RunFields
<1> DEFINE how == IF \A c \in Discussion!ToSet(run.said) : c.status = "failed" THEN "failed"
                  ELSE "completed"
<1>2. how \in Outcome
  BY DEF Outcome
<1>3. Discussion!Ended(run) = [run EXCEPT !.said = run.said, !.status = how]
  BY <1>1 DEF Discussion!Ended, RunRecord
<1> HIDE DEF how
<1>4. \A k \in 1 .. Len(run.said) :
        /\ run.said[k].of = RoundAt(run.order, k)
        /\ run.said[k].agent = SpeakerAt(run.order, k)
  BY DEF IsRun, SaidKnown, Spoken
<1>5. Len(run.said) <= Rounds * Len(run.order) /\ Len(run.said) <= Len(run.said)
  BY <1>1 DEF IsRun, SaidKnown
<1>6. Continues(run, [run EXCEPT !.said = run.said, !.status = how])
  BY <1>1, <1>2, <1>4, <1>5, Extended
<1> QED BY <1>3, <1>6

LEMMA Onwards ==
    ASSUME NEW run, NEW next, NEW then, Continues(run, next), Continues(next, then),
           Len(run.said) \in Nat
    PROVE  Continues(run, then)
<1>1. Len(next.said) \in Nat /\ Len(then.said) \in Nat
  BY RunFields DEF Continues
<1> QED BY <1>1 DEF Continues
-----------------------------------------------------------------------------
(* The thread of a discussion                                              *)

LEMMA TurnFields ==
    ASSUME NEW t \in ThreadTurn
    PROVE  t.run \in Nat /\ t.of \in Nat /\ t.round \in Nat /\ t.agent \in Agents \cup {Nothing}
BY DEF ThreadTurn

LEMMA TurnsAre ==
    ASSUME NEW list \in Seq(ThreadTurn)
    PROVE  /\ Discussion!ToSet(list) = {list[i] : i \in 1 .. Len(list)} /\ Len(list) \in Nat
           /\ \A i \in 1 .. Len(list) : list[i] \in ThreadTurn
BY DEF Discussion!ToSet

\* The same word, perhaps told otherwise.
SameWord(t, u) == t.run = u.run /\ t.of = u.of /\ t.agent = u.agent /\ t.round = u.round

\* What is true of a thread is true of it when its turns are told otherwise.
LEMMA ToldOtherwise ==
    ASSUME NEW list \in Seq(ThreadTurn), NEW other \in Seq(ThreadTurn), Len(other) = Len(list),
           \A i \in 1 .. Len(list) : SameWord(list[i], other[i])
    PROVE  /\ InOrder(list) => InOrder(other)
           /\ \A id : Base(list, id) = Base(other, id)
           /\ \A id, said : Follows(list, id, said) => Follows(other, id, said)
<1>1. InOrder(list) => InOrder(other)
  BY DEF InOrder, Before, SameWord
<1>2. ASSUME NEW id PROVE Base(list, id) = Base(other, id)
  <2> DEFINE S == {t \in Discussion!ToSet(list) : t.run # id}
             T == {t \in Discussion!ToSet(other) : t.run # id}
  <2>1. S \subseteq Discussion!ToSet(list) /\ T \subseteq Discussion!ToSet(other)
    OBVIOUS
  <2>2. ASSUME NEW t \in S PROVE \E u \in T : u.round = t.round
    <3>1. PICK i \in 1 .. Len(list) : t = list[i]
      BY TurnsAre
    <3>2. other[i] \in Discussion!ToSet(other)
      BY TurnsAre
    <3>3. other[i].run # id /\ other[i].round = t.round
      BY <3>1 DEF SameWord
    <3> QED BY <3>2, <3>3
  <2>3. ASSUME NEW u \in T PROVE \E t \in S : u.round = t.round
    <3>1. PICK i \in 1 .. Len(list) : u = other[i]
      BY TurnsAre
    <3>2. list[i] \in Discussion!ToSet(list)
      BY TurnsAre
    <3>3. list[i].run # id /\ list[i].round = u.round
      BY <3>1 DEF SameWord
    <3> QED BY <3>2, <3>3
  <2> HIDE DEF S, T
  <2>4. Discussion!MaxRound(S) = Discussion!MaxRound(T)
    BY <2>1, <2>2, <2>3, SameLastRound
  <2> QED BY <2>4 DEF Base, S, T
<1>3. ASSUME NEW id, NEW said, Follows(list, id, said) PROVE Follows(other, id, said)
  <2>1. \A c : Known(list, id, c) <=> Known(other, id, c)
    BY DEF Known, Discussion!Same, SameWord
  <2>2. ASSUME NEW i \in 1 .. Len(list)
        PROVE  /\ other[i].run <= id
               /\ other[i].run = id /\ other[i].of = 0 => other[i].round = Base(other, id) + 1
               /\ other[i].run = id /\ other[i].of # 0 =>
                    /\ other[i].round = other[i].of + Base(other, id)
                    /\ \E k \in 1 .. Len(said) : Discussion!Same(id, said[k], other[i])
    <3>1. SameWord(list[i], other[i])
      OBVIOUS
    <3>2. \A c : Discussion!Same(id, c, list[i]) <=> Discussion!Same(id, c, other[i])
      BY <3>1 DEF SameWord, Discussion!Same
    <3>3. /\ list[i].run <= id
          /\ list[i].run = id /\ list[i].of = 0 => list[i].round = Base(list, id) + 1
          /\ list[i].run = id /\ list[i].of # 0 =>
               /\ list[i].round = list[i].of + Base(list, id)
               /\ \E k \in 1 .. Len(said) : Discussion!Same(id, said[k], list[i])
      BY <1>3 DEF Follows
    <3> QED BY <1>2, <3>1, <3>2, <3>3 DEF SameWord
  <2>3. \A k \in 1 .. Len(said) : Known(other, id, said[k]) =>
          \A j \in 1 .. k : Known(other, id, said[j])
    BY <1>3, <2>1 DEF Follows
  <2> QED BY <2>2, <2>3 DEF Follows
<1> QED BY <1>1, <1>2, <1>3

\* What a run goes on from is known of it.
LEMMA SaidStays ==
    ASSUME NEW run, NEW next, IsRun(run), Continues(run, next)
    PROVE  \A k \in 1 .. Len(run.said) :
             /\ k \in 1 .. Len(next.said)
             /\ next.said[k].of = run.said[k].of /\ next.said[k].agent = run.said[k].agent
<1>1. Len(run.said) \in Nat /\ Len(next.said) \in Nat /\ Len(run.said) <= Len(next.said)
  BY RunFields DEF Continues
<1>2. \A k \in 1 .. Len(run.said) : Spoken(run, k)
  BY DEF IsRun, SaidKnown
<1>3. \A k \in 1 .. Len(next.said) : Spoken(next, k)
  BY DEF Continues, IsRun, SaidKnown
<1>4. next.order = run.order
  BY DEF Continues
<1> QED BY <1>1, <1>2, <1>3, <1>4 DEF Spoken

LEMMA FollowsOn ==
    ASSUME NEW list \in Seq(ThreadTurn), NEW id, NEW run, NEW next, IsRun(run), Continues(run, next),
           Follows(list, id, run.said)
    PROVE  Follows(list, id, next.said)
<1>1. \A k \in 1 .. Len(run.said) :
        /\ k \in 1 .. Len(next.said)
        /\ next.said[k].of = run.said[k].of /\ next.said[k].agent = run.said[k].agent
  BY SaidStays
<1>2. \A k \in 1 .. Len(run.said), i \in 1 .. Len(list) :
        Discussion!Same(id, run.said[k], list[i]) <=> Discussion!Same(id, next.said[k], list[i])
  BY <1>1 DEF Discussion!Same
<1>3. ASSUME NEW i \in 1 .. Len(list)
      PROVE  /\ list[i].run <= id
             /\ list[i].run = id /\ list[i].of = 0 => list[i].round = Base(list, id) + 1
             /\ list[i].run = id /\ list[i].of # 0 =>
                  /\ list[i].round = list[i].of + Base(list, id)
                  /\ \E k \in 1 .. Len(next.said) : Discussion!Same(id, next.said[k], list[i])
  BY <1>1, <1>2 DEF Follows
<1>4. ASSUME NEW k \in 1 .. Len(next.said), Known(list, id, next.said[k])
      PROVE  k \in 1 .. Len(run.said)
  <2>1. PICK i \in 1 .. Len(list) : Discussion!Same(id, next.said[k], list[i])
    BY <1>4 DEF Known
  <2>2. list[i].run = id /\ list[i].of = next.said[k].of /\ list[i].agent = next.said[k].agent
    BY <2>1 DEF Discussion!Same
  <2>3. IsRun(next)
    BY DEF Continues
  <2>4. next.said[k].of > 0
    BY <2>3, Words
  <2>5. PICK j \in 1 .. Len(run.said) : Discussion!Same(id, run.said[j], list[i])
    BY <2>2, <2>4 DEF Follows
  <2>6. /\ j \in 1 .. Len(next.said) /\ next.said[j].of = next.said[k].of
        /\ next.said[j].agent = next.said[k].agent
    BY <1>1, <2>2, <2>5 DEF Discussion!Same
  <2>7. j = k
    BY <2>3, <2>6, Words
  <2> QED BY <2>7
<1>5. ASSUME NEW k \in 1 .. Len(next.said), Known(list, id, next.said[k]), NEW j \in 1 .. k
      PROVE  Known(list, id, next.said[j])
  <2>1. k \in 1 .. Len(run.said) /\ Len(run.said) \in Nat
    BY <1>4, <1>5, RunFields
  <2>2. j \in 1 .. Len(run.said)
    BY <2>1
  <2>3. Known(list, id, run.said[k])
    BY <1>2, <1>5, <2>1 DEF Known
  <2>4. Known(list, id, run.said[j])
    BY <2>1, <2>3 DEF Follows
  <2> QED BY <1>2, <2>2, <2>4 DEF Known
<1> QED BY <1>3, <1>5 DEF Follows
LEMMA Joined ==
    ASSUME NEW S, NEW a \in Seq(S), NEW b \in Seq(S), NEW m, m = a \o b
    PROVE  /\ m \in Seq(S) /\ Len(m) = Len(a) + Len(b) /\ Len(a) \in Nat /\ Len(b) \in Nat
           /\ \A i \in 1 .. Len(a) : i \in 1 .. Len(m) /\ m[i] = a[i]
           /\ \A k \in 1 .. Len(b) : Len(a) + k \in 1 .. Len(m) /\ m[Len(a) + k] = b[k]
           /\ \A i \in 1 .. Len(m) : i \notin 1 .. Len(a) =>
                i - Len(a) \in 1 .. Len(b) /\ m[i] = b[i - Len(a)]
<1>1. m \in Seq(S) /\ Len(m) = Len(a) + Len(b) /\ Len(a) \in Nat /\ Len(b) \in Nat
  OBVIOUS
<1>2. \A i \in 1 .. Len(a) : i \in 1 .. Len(m) /\ m[i] = a[i]
  BY <1>1
<1>3. \A k \in 1 .. Len(b) : Len(a) + k \in 1 .. Len(m) /\ m[Len(a) + k] = b[k]
  BY <1>1
<1>4. ASSUME NEW i \in 1 .. Len(m), i \notin 1 .. Len(a)
      PROVE  i - Len(a) \in 1 .. Len(b) /\ m[i] = b[i - Len(a)]
  <2>1. i - Len(a) \in 1 .. Len(b) /\ Len(a) + (i - Len(a)) = i
    BY <1>1, <1>4
  <2> QED BY <1>3, <2>1
<1> QED BY <1>1, <1>2, <1>3, <1>4

\* Two threads, one after the other.
LEMMA JoinedInOrder ==
    ASSUME NEW a \in Seq(ThreadTurn), NEW b \in Seq(ThreadTurn), InOrder(a), InOrder(b),
           \A i \in 1 .. Len(a), k \in 1 .. Len(b) : Before(a[i], b[k])
    PROVE  InOrder(a \o b)
<1> DEFINE m == a \o b
<1>1. /\ m \in Seq(ThreadTurn) /\ Len(m) = Len(a) + Len(b) /\ Len(a) \in Nat /\ Len(b) \in Nat
      /\ \A i \in 1 .. Len(a) : i \in 1 .. Len(m) /\ m[i] = a[i]
      /\ \A i \in 1 .. Len(m) : i \notin 1 .. Len(a) =>
           i - Len(a) \in 1 .. Len(b) /\ m[i] = b[i - Len(a)]
  BY Joined
<1> HIDE DEF m
<1>2. ASSUME NEW i \in 1 .. Len(m), NEW j \in 1 .. Len(m), i < j PROVE Before(m[i], m[j])
  <2>1. CASE i \in 1 .. Len(a) /\ j \in 1 .. Len(a)
    BY <1>1, <1>2, <2>1 DEF InOrder
  <2>2. CASE i \in 1 .. Len(a) /\ j \notin 1 .. Len(a)
    BY <1>1, <2>2
  <2>3. CASE i \notin 1 .. Len(a)
    <3>1. j \notin 1 .. Len(a)
      BY <1>1, <1>2, <2>3
    <3>2. i - Len(a) < j - Len(a)
      BY <1>1, <1>2
    <3> QED BY <1>1, <2>3, <3>1, <3>2 DEF InOrder
  <2> QED BY <2>1, <2>2, <2>3
<1> QED BY <1>2 DEF InOrder, m

LEMMA MergedFollows ==
    ASSUME room.turns \in Seq(ThreadTurn), NEW id \in Nat, NEW run, IsRun(run),
           InOrder(room.turns), Follows(room.turns, id, run.said),
           NEW m, m = Discussion!Merge(id, run.said)
    PROVE  m \in Seq(ThreadTurn) /\ InOrder(m) /\ Follows(m, id, run.said)
<1> DEFINE list == room.turns
           said == run.said
           base == Base(list, id)
           I == {k \in DOMAIN said : \A t \in Discussion!ToSet(list) : ~Discussion!Same(id, said[k], t)}
           new == Discussion!Picked(said, I)
           told(i) == \E c \in Discussion!ToSet(said) : Discussion!Same(id, c, list[i])
           a == [i \in DOMAIN list |->
                   IF told(i)
                   THEN Discussion!Shown(id, CHOOSE c \in Discussion!ToSet(said) :
                                                 Discussion!Same(id, c, list[i]))
                   ELSE list[i]]
           b == [k \in DOMAIN new |-> Discussion!Shown(id, new[k])]
<1>1. m = a \o b
  BY Zenon DEF Discussion!Merge
<1>2. /\ list \in Seq(ThreadTurn) /\ Len(list) \in Nat /\ DOMAIN list = 1 .. Len(list)
      /\ \A i \in 1 .. Len(list) : list[i] \in ThreadTurn
      /\ Discussion!ToSet(list) = {list[i] : i \in 1 .. Len(list)}
  BY TurnsAre
<1>3. /\ said \in Seq(Contribution) /\ Len(said) \in Nat /\ DOMAIN said = 1 .. Len(said)
      /\ Discussion!ToSet(said) = {said[k] : k \in 1 .. Len(said)}
  BY RunFields DEF Discussion!ToSet
<1>4. \A k \in 1 .. Len(said) : said[k] \in Contribution /\ said[k].of \in Nat /\ said[k].of > 0
  BY Words
<1>5. /\ base \in Nat
      /\ \A i \in 1 .. Len(list) : list[i].run # id => list[i].round <= base
  <2> DEFINE S == {t \in Discussion!ToSet(list) : t.run # id}
  <2>1. base = Discussion!MaxRound(S) /\ S \subseteq Discussion!ToSet(list)
    BY DEF Base
  <2>2. \A i \in 1 .. Len(list) : list[i].run # id => list[i] \in S
    BY <1>2
  <2> HIDE DEF S, base
  <2> QED BY <1>2, <2>1, <2>2, LastRound
<1>6. ASSUME NEW c \in Contribution
      PROVE  /\ Discussion!Shown(id, c) \in ThreadTurn
             /\ Discussion!Shown(id, c).run = id /\ Discussion!Shown(id, c).of = c.of
             /\ Discussion!Shown(id, c).agent = c.agent
             /\ Discussion!Shown(id, c).round = c.of + base
  <2>1. Discussion!Offset(id) = base
    BY DEF Discussion!Offset, Base
  <2>2. Discussion!Shown(id, c) = [run |-> id, of |-> c.of, round |-> c.of + base, agent |-> c.agent,
                                   status |-> c.status, asks |-> c.asks]
    BY <2>1 DEF Discussion!Shown
  <2>3. c.of \in Nat /\ c.agent \in Agents /\ c.status \in Told /\ c.asks \in BOOLEAN
    BY DEF Contribution
  <2>4. c.of + base \in Nat
    BY <1>5, <2>3
  <2> HIDE DEF base
  <2>5. Discussion!Shown(id, c) \in ThreadTurn
    BY <2>2, <2>3, <2>4 DEF ThreadTurn
  <2> QED BY <2>2, <2>5
<1>7. ASSUME NEW i \in 1 .. Len(list) PROVE a[i] \in ThreadTurn /\ SameWord(list[i], a[i])
  <2>1. CASE told(i)
    <3> DEFINE c == CHOOSE d \in Discussion!ToSet(said) : Discussion!Same(id, d, list[i])
    <3>1. c \in Discussion!ToSet(said) /\ Discussion!Same(id, c, list[i])
      BY <2>1
    <3>2. a[i] = Discussion!Shown(id, c)
      BY <1>2, <2>1
    <3> HIDE DEF c, a
    <3>3. c \in Contribution /\ c.of > 0 /\ c.of \in Nat
      BY <1>3, <1>4, <3>1
    <3>4. list[i].run = id /\ list[i].of = c.of /\ list[i].agent = c.agent
      BY <3>1 DEF Discussion!Same
    <3>5. list[i].round = c.of + base
      BY <3>3, <3>4 DEF Follows
    <3> QED BY <1>6, <3>2, <3>3, <3>4, <3>5 DEF SameWord
  <2>2. CASE ~told(i)
    <3>1. a[i] = list[i]
      BY <1>2, <2>2
    <3> QED BY <1>2, <3>1 DEF SameWord
  <2> QED BY <2>1, <2>2
<1>8. a \in Seq(ThreadTurn) /\ Len(a) = Len(list)
  <2>1. a \in [1 .. Len(list) -> ThreadTurn]
    <3>1. DOMAIN a = 1 .. Len(list) /\ a = [i \in 1 .. Len(list) |-> a[i]]
      BY <1>2
    <3> HIDE DEF a
    <3> QED BY <1>7, <3>1
  <2> HIDE DEF a
  <2>2. a \in Seq(ThreadTurn)
    BY <1>2, <2>1, SeqDef
  <2> QED BY <1>2, <2>1, <2>2
<1>9. InOrder(a) /\ Base(a, id) = base /\ Follows(a, id, said)
  <2> HIDE DEF a
  <2> QED BY <1>2, <1>7, <1>8, ToldOtherwise
<1>10. /\ new \in Seq(Contribution) /\ Len(new) \in Nat
       /\ \A k \in 1 .. Len(new) : Place(I, k) \in I /\ new[k] = said[Place(I, k)]
       /\ \A k, l \in 1 .. Len(new) : k < l => Place(I, k) < Place(I, l)
       /\ \A p \in I : \E k \in 1 .. Len(new) : Place(I, k) = p
  <2>1. new = Picked(said, I) /\ I \in SUBSET DOMAIN said
    <3>1. I \in SUBSET DOMAIN said
      OBVIOUS
    <3>2. new = Settings!Picked(said, I)
      BY CutAlike
    <3> HIDE DEF I, new, said
    <3> QED BY <1>3, <3>1, <3>2, PickedHere
  <2> HIDE DEF I, new, said
  <2>2. /\ Picked(said, I) \in Seq(Contribution)
        /\ Len(Picked(said, I)) = Cardinality(I) /\ Cardinality(I) \in Nat
        /\ \A k \in 1 .. Cardinality(I) : Place(I, k) \in I /\ Picked(said, I)[k] = said[Place(I, k)]
        /\ \A k, l \in 1 .. Cardinality(I) : k < l => Place(I, k) < Place(I, l)
        /\ \A p \in I : \E k \in 1 .. Cardinality(I) : Place(I, k) = p
    BY <1>3, <2>1, PickedFacts
  <2> QED BY <2>1, <2>2
<1>11. \A p \in I : p \in 1 .. Len(said) /\ ~Known(list, id, said[p])
  BY <1>2, <1>3 DEF Known
<1>12. \A p \in 1 .. Len(said) : p \notin I => Known(list, id, said[p])
  BY <1>2, <1>3 DEF Known
<1> HIDE DEF I, new
<1>13. /\ b \in Seq(ThreadTurn) /\ Len(b) = Len(new)
       /\ \A k \in 1 .. Len(b) : b[k] = Discussion!Shown(id, said[Place(I, k)])
  <2>1. DOMAIN new = 1 .. Len(new) /\ \A k \in 1 .. Len(new) : new[k] \in Contribution
    BY <1>10
  <2>2. b \in [1 .. Len(new) -> ThreadTurn]
    BY <1>6, <2>1
  <2>3. \A k \in 1 .. Len(new) : b[k] = Discussion!Shown(id, said[Place(I, k)])
    BY <1>10, <2>1
  <2> HIDE DEF b
  <2>4. b \in Seq(ThreadTurn)
    BY <1>10, <2>2, SeqDef
  <2> QED BY <1>10, <2>2, <2>3, <2>4
<1>14. \A k \in 1 .. Len(b) :
         /\ Place(I, k) \in 1 .. Len(said) /\ ~Known(list, id, said[Place(I, k)])
         /\ b[k].run = id /\ b[k].of = said[Place(I, k)].of /\ b[k].agent = said[Place(I, k)].agent
         /\ b[k].round = said[Place(I, k)].of + base
  BY <1>4, <1>6, <1>10, <1>11, <1>13
<1> HIDE DEF a, b
<1>15. InOrder(b)
  <2>1. ASSUME NEW k \in 1 .. Len(b), NEW l \in 1 .. Len(b), k < l PROVE Before(b[k], b[l])
    <3> DEFINE p == Place(I, k)
               q == Place(I, l)
    <3>1. /\ p \in 1 .. Len(said) /\ q \in 1 .. Len(said)
          /\ b[k].run = id /\ b[k].of = said[p].of /\ b[k].agent = said[p].agent
          /\ b[k].round = said[p].of + base
          /\ b[l].run = id /\ b[l].of = said[q].of /\ b[l].agent = said[q].agent
          /\ b[l].round = said[q].of + base
      BY <1>14
    <3>2. p < q
      BY <1>10, <1>13, <2>1
    <3> HIDE DEF p, q
    <3>3. p <= q /\ p # q
      BY <3>1, <3>2
    <3>4. said[p].of <= said[q].of
      BY <3>1, <3>3, Words
    <3>5. said[p].of # said[q].of \/ said[p].agent # said[q].agent
      BY <3>1, <3>3, Words
    <3>6. said[p].of \in Nat /\ said[q].of \in Nat
      BY <1>4, <3>1
    <3> HIDE DEF base, said
    <3>7. base \in Nat
      BY <1>5
    <3>8. b[k].round <= b[l].round
      BY <3>1, <3>4, <3>6, <3>7
    <3>9. b[k].run = b[l].run /\ b[k].run \in Nat /\ (b[k].of # b[l].of \/ b[k].agent # b[l].agent)
      BY <3>1, <3>5
    <3> QED BY <3>8, <3>9 DEF Before
  <2> QED BY <2>1 DEF InOrder
<1>16. ASSUME NEW i \in 1 .. Len(a), NEW k \in 1 .. Len(b) PROVE Before(a[i], b[k])
  <2> DEFINE p == Place(I, k)
             t == list[i]
  <2>1. /\ p \in 1 .. Len(said) /\ ~Known(list, id, said[p])
        /\ b[k].run = id /\ b[k].of = said[p].of /\ b[k].agent = said[p].agent
        /\ b[k].round = said[p].of + base
    BY <1>14
  <2>2. i \in 1 .. Len(list) /\ t \in ThreadTurn /\ SameWord(t, a[i])
    BY <1>2, <1>7, <1>8
  <2> HIDE DEF p
  <2>3. said[p].of \in Nat /\ said[p].of > 0
    BY <1>4, <2>1
  <2>4. t.run \in Nat /\ t.of \in Nat /\ t.round \in Nat /\ t.run <= id
    BY <2>2, TurnFields DEF Follows
  <2>5. CASE t.run # id
    <3>1. t.round <= base /\ base \in Nat
      BY <1>5, <2>2, <2>5
    <3> HIDE DEF base, t, said
    <3>2. t.round < b[k].round
      BY <2>1, <2>3, <2>4, <3>1
    <3>3. b[k].run = id /\ t.run < id /\ b[k].round \in Nat
      BY <2>1, <2>3, <2>4, <2>5, <3>1
    <3>4. a[i].round = t.round /\ a[i].run = t.run
      BY <2>2 DEF SameWord
    <3> QED BY <2>4, <3>2, <3>3, <3>4 DEF Before
  <2>6. CASE t.run = id /\ t.of = 0
    <3>1. t.round = base + 1
      BY <2>2, <2>6 DEF Follows
    <3>2. base \in Nat
      BY <1>5
    <3> HIDE DEF base, t, said
    <3>3. t.round <= b[k].round /\ b[k].of # t.of /\ b[k].run = t.run
      BY <2>1, <2>3, <2>4, <2>6, <3>1, <3>2
    <3>4. a[i].round = t.round /\ a[i].run = t.run /\ a[i].of = t.of
      BY <2>2 DEF SameWord
    <3> QED BY <2>4, <3>3, <3>4 DEF Before
  <2>7. CASE t.run = id /\ t.of # 0
    <3>1. t.round = t.of + base
      BY <2>2, <2>7 DEF Follows
    <3>2. PICK j \in 1 .. Len(said) : Discussion!Same(id, said[j], t)
      BY <2>2, <2>7 DEF Follows
    <3>3. Known(list, id, said[j])
      BY <2>2, <3>2 DEF Known
    <3>4. ~(p <= j)
      <4>1. SUFFICES ASSUME p <= j PROVE FALSE
        OBVIOUS
      <4>2. p \in 1 .. j
        BY <1>3, <2>1, <4>1
      <4> QED BY <2>1, <3>3, <4>2 DEF Follows
    <3>5. j <= p /\ j # p
      BY <1>3, <2>1, <3>4
    <3>6. said[j].of <= said[p].of /\ (said[j].of # said[p].of \/ said[j].agent # said[p].agent)
      BY <2>1, <3>5, Words
    <3>7. t.of = said[j].of /\ t.agent = said[j].agent
      BY <3>2 DEF Discussion!Same
    <3>8. base \in Nat
      BY <1>5
    <3> HIDE DEF base, t, said
    <3>9. t.round <= b[k].round
      BY <2>1, <2>3, <2>4, <3>1, <3>6, <3>7, <3>8
    <3>10. b[k].run = t.run /\ (b[k].of # t.of \/ b[k].agent # t.agent)
      BY <2>1, <2>7, <3>6, <3>7
    <3>11. a[i].round = t.round /\ a[i].run = t.run /\ a[i].of = t.of /\ a[i].agent = t.agent
      BY <2>2 DEF SameWord
    <3> QED BY <2>4, <3>9, <3>10, <3>11 DEF Before
  <2> QED BY <2>5, <2>6, <2>7
<1>17. /\ m \in Seq(ThreadTurn) /\ Len(m) = Len(a) + Len(b) /\ Len(a) \in Nat /\ Len(b) \in Nat
       /\ \A i \in 1 .. Len(a) : i \in 1 .. Len(m) /\ m[i] = a[i]
       /\ \A k \in 1 .. Len(b) : Len(a) + k \in 1 .. Len(m) /\ m[Len(a) + k] = b[k]
       /\ \A i \in 1 .. Len(m) : i \notin 1 .. Len(a) =>
            i - Len(a) \in 1 .. Len(b) /\ m[i] = b[i - Len(a)]
  <2>1. a \in Seq(ThreadTurn) /\ b \in Seq(ThreadTurn)
    BY <1>8, <1>13
  <2> QED BY <1>1, <2>1, Joined
<1>18. InOrder(m)
  BY <1>1, <1>8, <1>9, <1>13, <1>15, <1>16, JoinedInOrder
<1>19. Base(m, id) = base
  <2> DEFINE S == {t \in Discussion!ToSet(a) : t.run # id}
             T == {t \in Discussion!ToSet(m) : t.run # id}
  <2>1. S \subseteq Discussion!ToSet(a) /\ T \subseteq Discussion!ToSet(m)
    OBVIOUS
  <2>2. ASSUME NEW t \in S PROVE \E u \in T : u.round = t.round
    <3>1. PICK i \in 1 .. Len(a) : t = a[i]
      BY <1>8, TurnsAre
    <3>2. m[i] \in Discussion!ToSet(m) /\ m[i] = t
      BY <1>17, <3>1, TurnsAre
    <3> QED BY <3>2
  <2>3. ASSUME NEW u \in T PROVE \E t \in S : u.round = t.round
    <3>1. PICK i \in 1 .. Len(m) : u = m[i]
      BY <1>17, TurnsAre
    <3>2. i \in 1 .. Len(a)
      BY <1>14, <1>17, <3>1
    <3>3. a[i] \in Discussion!ToSet(a) /\ a[i] = u
      BY <1>8, <1>17, <3>1, <3>2, TurnsAre
    <3> QED BY <3>3
  <2> HIDE DEF S, T
  <2>4. a \in Seq(ThreadTurn) /\ m \in Seq(ThreadTurn)
    BY <1>8, <1>17
  <2>5. Discussion!MaxRound(S) = Discussion!MaxRound(T)
    BY <2>1, <2>2, <2>3, <2>4, SameLastRound
  <2> QED BY <1>9, <2>5 DEF Base, S, T
<1>20. ASSUME NEW i \in 1 .. Len(m)
       PROVE  /\ m[i].run <= id
              /\ m[i].run = id /\ m[i].of = 0 => m[i].round = Base(m, id) + 1
              /\ m[i].run = id /\ m[i].of # 0 =>
                   /\ m[i].round = m[i].of + Base(m, id)
                   /\ \E k \in 1 .. Len(said) : Discussion!Same(id, said[k], m[i])
  <2>1. CASE i \in 1 .. Len(a)
    BY <1>9, <1>17, <1>19, <2>1 DEF Follows
  <2>2. CASE i \notin 1 .. Len(a)
    <3> DEFINE k == i - Len(a)
    <3>1. k \in 1 .. Len(b) /\ m[i] = b[k]
      BY <1>17, <2>2
    <3> HIDE DEF k, base
    <3>2. /\ Place(I, k) \in 1 .. Len(said)
          /\ b[k].run = id /\ b[k].of = said[Place(I, k)].of
          /\ b[k].agent = said[Place(I, k)].agent /\ b[k].round = said[Place(I, k)].of + base
      BY <1>14, <3>1
    <3>3. said[Place(I, k)].of > 0 /\ said[Place(I, k)].of \in Nat
      BY <1>4, <3>2
    <3>4. Discussion!Same(id, said[Place(I, k)], m[i])
      BY <3>1, <3>2 DEF Discussion!Same
    <3>5. m[i].round = m[i].of + Base(m, id) /\ m[i].of # 0 /\ m[i].run = id
      BY <1>19, <3>1, <3>2, <3>3
    <3>6. m[i].run <= id
      BY <3>5
    <3> QED BY <3>2, <3>4, <3>5, <3>6
  <2> QED BY <2>1, <2>2
<1>21. ASSUME NEW p \in 1 .. Len(said) PROVE Known(m, id, said[p])
  <2>1. CASE p \in I
    <3>1. PICK k \in 1 .. Len(b) : Place(I, k) = p
      BY <1>10, <1>13, <2>1
    <3>2. Discussion!Same(id, said[p], b[k])
      BY <1>14, <3>1 DEF Discussion!Same
    <3> QED BY <1>17, <3>2 DEF Known
  <2>2. CASE p \notin I
    <3>1. PICK i \in 1 .. Len(list) : Discussion!Same(id, said[p], list[i])
      BY <1>12, <2>2 DEF Known
    <3>2. Discussion!Same(id, said[p], a[i]) /\ i \in 1 .. Len(a)
      BY <1>7, <1>8, <3>1 DEF Discussion!Same, SameWord
    <3> QED BY <1>17, <3>2 DEF Known
  <2> QED BY <2>1, <2>2
<1>22. Follows(m, id, said)
  <2>1. \A k \in 1 .. Len(said) : \A j \in 1 .. k : Known(m, id, said[j])
    <3>1. \A k \in 1 .. Len(said) : \A j \in 1 .. k : j \in 1 .. Len(said)
      BY <1>3
    <3> QED BY <1>21, <3>1
  <2> QED BY <1>20, <2>1 DEF Follows
<1> QED BY <1>17, <1>18, <1>22
-----------------------------------------------------------------------------
(* Steps of the discussions                                                *)

RunsContinue ==
    /\ Len(runs) \in Nat /\ Len(runs') \in Nat /\ Len(runs) <= Len(runs')
    /\ \A r \in 1 .. Len(runs) : r \in 1 .. Len(runs') /\ Continues(runs[r], runs'[r])

LEMMA AllAreRuns ==
    ASSUME RunsKnown
    PROVE  /\ Len(runs) \in Nat /\ DOMAIN runs = 1 .. Len(runs)
           /\ \A r \in 1 .. Len(runs) : IsRun(runs[r])
<1>1. runs \in Seq(RunRecord)
  BY DEF RunsKnown
<1>2. \A r \in 1 .. Len(runs) : runs[r] \in RunRecord
  BY <1>1
<1> QED BY <1>1, <1>2 DEF RunsKnown, IsRun

LEMMA Replaced ==
    ASSUME NEW S, NEW s \in Seq(S), NEW i \in 1 .. Len(s), NEW x \in S, NEW p, p = [s EXCEPT ![i] = x]
    PROVE  /\ p \in Seq(S) /\ Len(p) = Len(s)
           /\ \A j \in 1 .. Len(s) : p[j] = IF j = i THEN x ELSE s[j]
<1>1. Len(s) \in Nat /\ s \in [1 .. Len(s) -> S]
  BY LenProperties
<1>2. p \in [1 .. Len(s) -> S]
  BY <1>1
<1>3. p \in Seq(S)
  BY <1>1, <1>2, SeqDef
<1>4. Len(p) = Len(s)
  BY <1>1, <1>2, <1>3, LenProperties
<1> QED BY <1>1, <1>3, <1>4

LEMMA RunsStay ==
    ASSUME RunsKnown, UNCHANGED runs
    PROVE  RunsKnown' /\ RunsContinue
<1>1. RunsKnown'
  BY DEF RunsKnown, OrderKnown, EachOnce, SaidKnown, Spoken
<1>2. RunsContinue
  <2>1. /\ Len(runs) \in Nat /\ DOMAIN runs = 1 .. Len(runs)
        /\ \A r \in 1 .. Len(runs) : Continues(runs[r], runs[r])
    BY AllAreRuns, Itself
  <2>2. runs' = runs
    OBVIOUS
  <2> QED BY <2>1, <2>2 DEF RunsContinue
<1> QED BY <1>1, <1>2

LEMMA RunMoves ==
    ASSUME RunsKnown, NEW id \in 1 .. Len(runs), NEW next, Continues(runs[id], next),
           runs' = [runs EXCEPT ![id] = next]
    PROVE  RunsKnown' /\ RunsContinue
<1>1. /\ Len(runs) \in Nat /\ DOMAIN runs = 1 .. Len(runs)
      /\ \A r \in 1 .. Len(runs) : IsRun(runs[r])
  BY AllAreRuns
<1>2. IsRun(next) /\ next \in RunRecord
  BY DEF Continues, IsRun
<1>3. /\ runs' \in Seq(RunRecord) /\ Len(runs') = Len(runs)
      /\ \A r \in 1 .. Len(runs) : runs'[r] = IF r = id THEN next ELSE runs[r]
  <2> DEFINE p == [runs EXCEPT ![id] = next]
  <2>1. runs \in Seq(RunRecord)
    BY DEF RunsKnown
  <2>2. next \in RunRecord
    BY <1>2
  <2> HIDE DEF RunRecord
  <2>3. /\ p \in Seq(RunRecord) /\ Len(p) = Len(runs)
        /\ \A r \in 1 .. Len(runs) : p[r] = IF r = id THEN next ELSE runs[r]
    BY <2>1, <2>2, Replaced
  <2>4. runs' = p
    OBVIOUS
  <2> HIDE DEF p
  <2> QED BY <2>3, <2>4
<1>4. \A r \in 1 .. Len(runs) : IsRun(runs'[r]) /\ Continues(runs[r], runs'[r])
  BY <1>1, <1>2, <1>3, Itself
<1>5. RunsKnown'
  <2>1. \A r \in 1 .. Len(runs') : OrderKnown(runs'[r].order) /\ SaidKnown(runs'[r])
    BY <1>3, <1>4 DEF IsRun
  <2>2. RunsKnown' <=> /\ runs' \in Seq(RunRecord)
                       /\ \A r \in 1 .. Len(runs') : OrderKnown(runs'[r].order) /\ SaidKnown(runs'[r])
    BY DEF RunsKnown, OrderKnown, EachOnce, SaidKnown, Spoken
  <2> QED BY <1>3, <2>1, <2>2
<1>6. RunsContinue
  BY <1>1, <1>3, <1>4 DEF RunsContinue
<1> QED BY <1>5, <1>6

\* ThreadKnown in terms of the next state.
LEMMA ThreadKnownNext ==
    ASSUME \A i \in 1 .. Len(room'.turns) : room'.turns[i].run <= Len(runs'),
           InOrder(room'.turns),
           room'.run # Nothing => Follows(room'.turns, room'.run, runs'[room'.run].said)
    PROVE  ThreadKnown'
BY DEF ThreadKnown, InOrder, Before, Follows, Known, Base, Discussion!MaxRound, Discussion!ToSet,
       Discussion!Same

LEMMA ThreadStays ==
    ASSUME DiscussionInv, RunsContinue, room'.turns = room.turns, room'.run \in {room.run, Nothing}
    PROVE  ThreadKnown'
<1> DEFINE list == room.turns
<1>1. list \in Seq(ThreadTurn) /\ \A i \in 1 .. Len(list) : list[i] \in ThreadTurn /\ list[i].run \in Nat
  <2>1. list \in Seq(ThreadTurn)
    BY DEF DiscussionInv, PanelKnown, BookPanel
  <2>2. \A i \in 1 .. Len(list) : list[i] \in ThreadTurn
    BY <2>1
  <2> QED BY <2>1, <2>2, TurnFields
<1>2. \A i \in 1 .. Len(list) : list[i].run <= Len(runs')
  BY <1>1 DEF DiscussionInv, ThreadKnown, RunsContinue
<1>3. room'.run # Nothing => Follows(list, room'.run, runs'[room'.run].said)
  <2>1. SUFFICES ASSUME room.run # Nothing, room'.run = room.run
                 PROVE  Follows(list, room.run, runs'[room.run].said)
    OBVIOUS
  <2>2. room.run \in 1 .. Len(runs) /\ Follows(list, room.run, runs[room.run].said)
    BY <2>1 DEF DiscussionInv, PanelKnown, ThreadKnown
  <2>3. IsRun(runs[room.run]) /\ Continues(runs[room.run], runs'[room.run])
    BY <2>2, AllAreRuns DEF DiscussionInv, RunsContinue
  <2> QED BY <1>1, <2>2, <2>3, FollowsOn
<1>4. InOrder(list)
  BY DEF DiscussionInv, ThreadKnown
<1> HIDE DEF list
<1>5. room'.turns = list
  BY DEF list
<1> QED BY <1>2, <1>3, <1>4, <1>5, ThreadKnownNext

\* A run that is to stop goes on from what it said.
LEMMA StopContinues ==
    ASSUME DiscussionInv, Discussion!Busy, runs' = [runs EXCEPT ![room.run].cancel = TRUE]
    PROVE  RunsKnown' /\ RunsContinue
<1> DEFINE id == room.run
           run == runs[id]
           next == [run EXCEPT !.cancel = TRUE]
<1>1. id \in 1 .. Len(runs)
  BY DEF DiscussionInv, PanelKnown, Discussion!Busy
<1>2. IsRun(run)
  BY <1>1, AllAreRuns DEF DiscussionInv
<1>3. runs' = [runs EXCEPT ![id] = next]
  OBVIOUS
<1> HIDE DEF run, id
<1>4. /\ next \in RunRecord /\ next.order = run.order /\ next.said = run.said
  BY <1>2 DEF IsRun, RunRecord
<1>5. IsRun(next) /\ Continues(run, next)
  <2>1. Len(run.said) \in Nat
    BY <1>2, RunFields
  <2> HIDE DEF next
  <2>2. SaidKnown(next) /\ OrderKnown(next.order)
    BY <1>2, <1>4 DEF IsRun, SaidKnown, Spoken
  <2> QED BY <1>4, <2>1, <2>2 DEF IsRun, Continues
<1> HIDE DEF next
<1> QED BY <1>1, <1>3, <1>5, RunMoves DEF DiscussionInv, run

\* PanelKnown in terms of the next state.
LEMMA PanelKnownNext ==
    ASSUME room' \in BookPanel, roster' \in Seq(Agents), ChosenFit(room'.chosen),
           room'.starting # Nothing => /\ ChosenFit(room'.starting.agents)
                                       /\ \E i \in DOMAIN room'.starting.agents :
                                            room'.starting.agents[i] = Chair,
           room'.run # Nothing => room'.run \in 1 .. Len(runs'),
           room'.polling => room'.run # Nothing /\ room'.status \notin Discussion!Terminal
    PROVE  PanelKnown'
BY DEF PanelKnown, ChosenFit, EachOnce, Discussion!Terminal, BookPanel, ThreadTurn, Begun, Told, Outcome

\* A step that leaves what is shown of the discussion.
LEMMA PanelStep ==
    ASSUME DiscussionInv, RunsKnown', RunsContinue, room' \in BookPanel, roster' \in Seq(Agents),
           ChosenFit(room'.chosen),
           \/ room'.starting = room.starting \/ room'.starting = Nothing
           \/ /\ ChosenFit(room'.starting.agents)
              /\ \E i \in DOMAIN room'.starting.agents : room'.starting.agents[i] = Chair,
           room'.run \in {room.run, Nothing}, room'.turns = room.turns,
           \/ ~room'.polling
           \/ room'.polling = room.polling /\ room'.run = room.run /\ room'.status = room.status
    PROVE  DiscussionInv'
<1>1. ThreadKnown'
  BY ThreadStays
<1>2. room'.run # Nothing => room'.run \in 1 .. Len(runs')
  BY DEF DiscussionInv, PanelKnown, RunsContinue
<1>3. room'.polling => room'.run # Nothing /\ room'.status \notin Discussion!Terminal
  BY DEF DiscussionInv, PanelKnown
<1>4. room'.starting # Nothing => /\ ChosenFit(room'.starting.agents)
                                  /\ \E i \in DOMAIN room'.starting.agents :
                                       room'.starting.agents[i] = Chair
  BY DEF DiscussionInv, PanelKnown
<1>5. PanelKnown'
  BY <1>2, <1>3, <1>4, PanelKnownNext
<1> QED BY <1>1, <1>5 DEF DiscussionInv

LEMMA DiscussionInitEstablishes ==
    ASSUME Discussion!DiscussionAssumption, Discussion!DiscussionInit
    PROVE  DiscussionInv
<1>1. /\ room = Discussion!NewRoom /\ roster = <<>> /\ runs = <<>>
      /\ MaxAgents \in Nat
  BY DEF Discussion!DiscussionInit, Discussion!DiscussionAssumption
<1>2. room \in BookPanel /\ ChosenFit(room.chosen)
  BY <1>1 DEF BookPanel, Discussion!NewRoom, ChosenFit, EachOnce
<1>3. /\ room.starting = Nothing /\ room.run = Nothing /\ room.polling = FALSE /\ room.turns = <<>>
  BY <1>1 DEF Discussion!NewRoom
<1>4. PanelKnown
  BY <1>1, <1>2, <1>3 DEF PanelKnown
<1>5. ThreadKnown
  BY <1>3 DEF ThreadKnown, InOrder
<1>6. RunsKnown
  BY <1>1 DEF RunsKnown
<1> QED BY <1>4, <1>5, <1>6 DEF DiscussionInv

LEMMA OpenSteps ==
    ASSUME DiscussionInv, Discussion!OpenPanel
    PROVE  DiscussionInv'
<1>1. room' = [room EXCEPT !.open = TRUE] /\ UNCHANGED <<roster, runs>>
  BY DEF Discussion!OpenPanel
<1>2. room' \in BookPanel /\ roster' \in Seq(Agents) /\ ChosenFit(room'.chosen)
  <2>1. room \in BookPanel /\ roster \in Seq(Agents) /\ ChosenFit(room.chosen)
    BY DEF DiscussionInv, PanelKnown
  <2> QED BY <1>1, <2>1 DEF BookPanel
<1>3. /\ room'.starting = room.starting /\ room'.run = room.run /\ room'.turns = room.turns
      /\ room'.polling = room.polling /\ room'.status = room.status
  BY <1>1 DEF DiscussionInv, PanelKnown, BookPanel
<1>4. RunsKnown' /\ RunsContinue
  BY <1>1, RunsStay DEF DiscussionInv
<1> QED BY <1>2, <1>3, <1>4, PanelStep

LEMMA CloseSteps ==
    ASSUME DiscussionInv, Discussion!RequestClose
    PROVE  DiscussionInv'
<1>1. /\ room' = [room EXCEPT !.open = FALSE, !.run = IF Discussion!Busy THEN Nothing ELSE @,
                              !.status = IF Discussion!Busy THEN Nothing ELSE @, !.polling = FALSE]
      /\ roster' = roster
      /\ \/ Discussion!Busy /\ runs' = [runs EXCEPT ![room.run].cancel = TRUE]
         \/ UNCHANGED runs
  BY DEF Discussion!RequestClose
<1>2. room' \in BookPanel /\ roster' \in Seq(Agents) /\ ChosenFit(room'.chosen)
  <2>1. room \in BookPanel /\ roster \in Seq(Agents) /\ ChosenFit(room.chosen)
    BY DEF DiscussionInv, PanelKnown
  <2> QED BY <1>1, <2>1 DEF BookPanel
<1>3. /\ room'.starting = room.starting /\ room'.run \in {room.run, Nothing}
      /\ room'.turns = room.turns /\ ~room'.polling
  BY <1>1 DEF DiscussionInv, PanelKnown, BookPanel
<1>4. RunsKnown' /\ RunsContinue
  BY <1>1, RunsStay, StopContinues DEF DiscussionInv
<1> QED BY <1>2, <1>3, <1>4, PanelStep

LEMMA StopSteps ==
    ASSUME DiscussionInv, Discussion!Stop
    PROVE  DiscussionInv'
<1>1. /\ Discussion!Busy /\ runs' = [runs EXCEPT ![room.run].cancel = TRUE]
      /\ room' = room /\ roster' = roster
  BY DEF Discussion!Stop
<1>2. room' \in BookPanel /\ roster' \in Seq(Agents) /\ ChosenFit(room'.chosen)
  BY <1>1 DEF DiscussionInv, PanelKnown
<1>3. RunsKnown' /\ RunsContinue
  BY <1>1, StopContinues DEF DiscussionInv
<1> QED BY <1>1, <1>2, <1>3, PanelStep

LEMMA NewSteps ==
    ASSUME DiscussionInv, Discussion!NewDiscussion
    PROVE  DiscussionInv'
<1>1. /\ room' = [room EXCEPT !.turns = <<>>, !.run = Nothing, !.status = Nothing]
      /\ room.starting = Nothing /\ ~Discussion!Busy /\ UNCHANGED <<roster, runs>>
  BY DEF Discussion!NewDiscussion
<1>2. /\ room \in BookPanel /\ roster \in Seq(Agents) /\ ChosenFit(room.chosen)
      /\ room.polling => room.run # Nothing /\ room.status \notin Discussion!Terminal
  BY DEF DiscussionInv, PanelKnown
<1>3. ~room.polling /\ room.polling \in BOOLEAN
  BY <1>1, <1>2 DEF Discussion!Busy, BookPanel
<1>4. /\ room' \in BookPanel /\ roster' \in Seq(Agents) /\ ChosenFit(room'.chosen)
      /\ room'.starting = Nothing /\ room'.run = Nothing /\ room'.turns = <<>> /\ ~room'.polling
  <2>1. <<>> \in Seq(ThreadTurn)
    OBVIOUS
  <2>2. room' \in BookPanel
    BY <1>1, <1>2, <2>1 DEF BookPanel
  <2>3. /\ room'.starting = room.starting /\ room'.run = Nothing /\ room'.turns = <<>>
        /\ room'.polling = room.polling /\ room'.chosen = room.chosen
    BY <1>1, <1>2 DEF BookPanel
  <2> QED BY <1>1, <1>2, <1>3, <2>2, <2>3
<1>5. RunsKnown'
  BY <1>1, RunsStay DEF DiscussionInv
<1>6. PanelKnown'
  BY <1>4, PanelKnownNext
<1>7. ThreadKnown'
  BY <1>4 DEF ThreadKnown, InOrder
<1> QED BY <1>5, <1>6, <1>7 DEF DiscussionInv

LEMMA LeaveSteps ==
    ASSUME Discussion!DiscussionAssumption, DiscussionInv, Discussion!LeaveBook
    PROVE  DiscussionInv'
<1>1. /\ room' = [Discussion!NewRoom EXCEPT !.panel = room.panel + 1] /\ UNCHANGED <<roster, runs>>
      /\ MaxAgents \in Nat /\ room.panel \in Nat
  BY DEF Discussion!LeaveBook, Discussion!DiscussionAssumption, DiscussionInv, PanelKnown, BookPanel
<1>2. /\ room' \in BookPanel /\ ChosenFit(room'.chosen)
      /\ room'.starting = Nothing /\ room'.run = Nothing /\ room'.turns = <<>> /\ ~room'.polling
  <2>1. <<>> \in Seq(ThreadTurn) /\ ChosenFit(<<>>) /\ {} \in SUBSET Agents
    BY <1>1 DEF ChosenFit, EachOnce
  <2>2. room' = [panel |-> room.panel + 1, open |-> FALSE, loaded |-> FALSE, usable |-> {},
                 chosen |-> <<>>, starting |-> Nothing, run |-> Nothing, status |-> Nothing,
                 polling |-> FALSE, turns |-> <<>>]
    BY <1>1 DEF Discussion!NewRoom
  <2>3. <<>> \in Seq(Agents) /\ room.panel + 1 \in Nat
    BY <1>1
  <2>4. room' \in BookPanel
    BY <2>1, <2>2, <2>3 DEF BookPanel
  <2> QED BY <2>1, <2>2, <2>4
<1>3. roster' \in Seq(Agents)
  BY <1>1 DEF DiscussionInv, PanelKnown
<1>4. RunsKnown'
  BY <1>1, RunsStay DEF DiscussionInv
<1>5. PanelKnown'
  BY <1>2, <1>3, PanelKnownNext
<1>6. ThreadKnown'
  BY <1>2 DEF ThreadKnown, InOrder
<1> QED BY <1>4, <1>5, <1>6 DEF DiscussionInv

-----------------------------------------------------------------------------
(* Who takes part                                                          *)

\* All agents, in some order.
LEMMA AllAgents ==
    ASSUME Discussion!IsFiniteSet(Agents)
    PROVE  (CHOOSE s \in [1 .. Discussion!Cardinality(Agents) -> Agents] : Discussion!IsInjective(s))
             \in Seq(Agents)
<1> DEFINE n == Cardinality(Agents)
<1>1. IsFiniteSet(Agents)
  BY Zenon DEF IsFiniteSet, Discussion!IsFiniteSet
<1>2. Discussion!Cardinality(Agents) = n
  BY Zenon DEF Cardinality, Discussion!Cardinality
<1>3. n \in Nat /\ ExistsBijection(1 .. n, Agents)
  BY <1>1, FS_CardinalityType
<1> HIDE DEF n
<1>4. PICK f \in Bijection(1 .. n, Agents) : TRUE
  BY <1>3 DEF ExistsBijection
<1>5. f \in [1 .. n -> Agents] /\ Discussion!IsInjective(f)
  <2>1. f \in [1 .. n -> Agents] /\ IsInjective(f)
    BY <1>4 DEF Bijection, Injection
  <2> QED BY <2>1, Zenon DEF IsInjective, Discussion!IsInjective
<1>6. (CHOOSE s \in [1 .. n -> Agents] : Discussion!IsInjective(s)) \in [1 .. n -> Agents]
  BY <1>5
<1>7. (CHOOSE s \in [1 .. n -> Agents] : Discussion!IsInjective(s)) \in Seq(Agents)
  BY <1>3, <1>6, SeqDef
<1> QED BY <1>2, <1>7

LEMMA RosterFits ==
    ASSUME Discussion!DiscussionAssumption, roster \in Seq(Agents), NEW usable \in SUBSET Agents
    PROVE  ChosenFit(Discussion!Roster(usable))
<1> DEFINE others == CHOOSE s \in [1 .. Discussion!Cardinality(Agents) -> Agents] :
                       Discussion!IsInjective(s)
           a == Discussion!Only(roster, usable \ {Chair})
           b == Discussion!Only(Core, usable)
           c == Discussion!Only(others, usable \ {Chair})
           w == Discussion!Distinct(a \o b \o c)
<1>1. /\ Discussion!IsFiniteSet(Agents) /\ Chair \in Agents /\ Core \in Seq(Agents \ {Chair})
      /\ MaxAgents \in Nat \ {0}
  BY DEF Discussion!DiscussionAssumption
<1>2. Discussion!Roster(usable) =
        IF Chair \in usable THEN Append(Discussion!FirstOf(w, MaxAgents - 1), Chair)
        ELSE Discussion!FirstOf(w, MaxAgents)
  BY Zenon DEF Discussion!Roster
<1>3. others \in Seq(Agents)
  BY <1>1, AllAgents
<1> HIDE DEF others
<1> DEFINE P == Agents \ {Chair}
<1>4. a \in Seq(P) /\ b \in Seq(P) /\ c \in Seq(P)
  <2>1. ASSUME NEW s \in Seq(Agents)
        PROVE  Discussion!Only(s, usable \ {Chair}) \in Seq(P)
    <3> DEFINE q == Discussion!Only(s, usable \ {Chair})
    <3>1. q \in Seq(Agents) /\ \A k \in 1 .. Len(q) : q[k] \in usable \ {Chair}
      BY KeptOf
    <3> HIDE DEF q
    <3>2. q \in [1 .. Len(q) -> P] /\ Len(q) \in Nat
      BY <3>1
    <3>3. q \in Seq(P)
      BY <3>2, SeqDef
    <3> QED BY <3>3 DEF q
  <2>2. b \in Seq(P)
    BY <1>1, KeptOf
  <2> QED BY <1>3, <2>1, <2>2
<1> HIDE DEF a, b, c
<1>5. a \o b \o c \in Seq(P)
  BY <1>4
<1>6. w \in Seq(P) /\ EachOnce(w)
  BY <1>5, OnceOf
<1> HIDE DEF w
<1>7. w \in Seq(Agents) /\ \A i \in 1 .. Len(w) : w[i] # Chair
  <2>1. \A i \in 1 .. Len(w) : w[i] \in P
    BY <1>6
  <2>2. w \in [1 .. Len(w) -> Agents] /\ Len(w) \in Nat
    BY <1>6, <2>1
  <2> QED BY <2>1, <2>2, SeqDef
<1>8. CASE Chair \in usable
  <2> DEFINE p == Discussion!FirstOf(w, MaxAgents - 1)
  <2>1. MaxAgents - 1 \in Nat
    BY <1>1
  <2>2. /\ p \in Seq(Agents) /\ EachOnce(p) /\ Len(p) <= MaxAgents - 1
        /\ \A k \in 1 .. Len(p) : k \in 1 .. Len(w) /\ p[k] = w[k]
    BY <1>6, <1>7, <2>1, FirstFew
  <2> HIDE DEF p
  <2>3. \A k \in 1 .. Len(p) : p[k] # Chair
    BY <1>7, <2>2
  <2>4. /\ Append(p, Chair) \in Seq(Agents) /\ EachOnce(Append(p, Chair))
        /\ Len(Append(p, Chair)) = Len(p) + 1
    BY <1>1, <2>2, <2>3, ChairBehind
  <2>5. Len(Append(p, Chair)) <= MaxAgents
    <3>1. Len(p) \in Nat
      BY <2>2
    <3> QED BY <1>1, <2>2, <2>4, <3>1
  <2> QED BY <1>2, <1>8, <2>4, <2>5 DEF ChosenFit, p
<1>9. CASE Chair \notin usable
  BY <1>1, <1>2, <1>6, <1>7, <1>9, FirstFew DEF ChosenFit
<1> QED BY <1>8, <1>9

LEMMA RosterSteps ==
    ASSUME Discussion!DiscussionAssumption, DiscussionInv, Discussion!LoadAgents
    PROVE  DiscussionInv'
<1>1. PICK usable \in SUBSET Agents :
        /\ room' = [room EXCEPT !.loaded = TRUE, !.usable = usable,
                      !.chosen = IF usable = {} THEN @ ELSE Discussion!Roster(usable)]
        /\ roster' = IF usable = {} THEN roster ELSE Discussion!Roster(usable)
        /\ UNCHANGED runs
  BY Zenon DEF Discussion!LoadAgents
<1>2. room \in BookPanel /\ roster \in Seq(Agents) /\ ChosenFit(room.chosen)
  BY DEF DiscussionInv, PanelKnown
<1>3. ChosenFit(Discussion!Roster(usable))
  BY <1>2, RosterFits
<1>4. /\ room' \in BookPanel /\ roster' \in Seq(Agents) /\ ChosenFit(room'.chosen)
  BY <1>1, <1>2, <1>3 DEF BookPanel, ChosenFit
<1>5. /\ room'.starting = room.starting /\ room'.run = room.run /\ room'.turns = room.turns
      /\ room'.polling = room.polling /\ room'.status = room.status
  BY <1>1, <1>2 DEF BookPanel
<1>6. RunsKnown' /\ RunsContinue
  BY <1>1, RunsStay DEF DiscussionInv
<1> QED BY <1>4, <1>5, <1>6, PanelStep

LEMMA ToggleSteps ==
    ASSUME Discussion!DiscussionAssumption, DiscussionInv, Discussion!ToggleAgent
    PROVE  DiscussionInv'
<1>1. PICK a \in room.usable :
        /\ \/ Discussion!Choose(Discussion!Only(room.chosen, Discussion!ToSet(room.chosen) \ {a}))
           \/ /\ a \notin Discussion!ToSet(room.chosen) /\ Len(room.chosen) < MaxAgents
              /\ Discussion!Choose(Append(room.chosen, a))
        /\ UNCHANGED runs
  BY Zenon DEF Discussion!ToggleAgent
<1>2. /\ room \in BookPanel /\ ChosenFit(room.chosen) /\ a \in Agents /\ MaxAgents \in Nat
  BY DEF DiscussionInv, PanelKnown, BookPanel, Discussion!DiscussionAssumption
<1> DEFINE s == room.chosen
<1>3. s \in Seq(Agents) /\ EachOnce(s) /\ Len(s) <= MaxAgents /\ Len(s) \in Nat
  BY <1>2 DEF ChosenFit
<1>4. PICK p : /\ ChosenFit(p) /\ Discussion!Choose(p)
  <2>1. CASE Discussion!Choose(Discussion!Only(s, Discussion!ToSet(s) \ {a}))
    <3> DEFINE p == Discussion!Only(s, Discussion!ToSet(s) \ {a})
    <3>1. p \in Seq(Agents) /\ EachOnce(p) /\ Len(p) <= Len(s)
      BY <1>3, KeptOf
    <3> HIDE DEF p
    <3>2. Len(p) \in Nat
      BY <3>1
    <3> QED BY <1>2, <1>3, <2>1, <3>1, <3>2 DEF ChosenFit, p
  <2>2. CASE /\ a \notin Discussion!ToSet(s) /\ Len(s) < MaxAgents
             /\ Discussion!Choose(Append(s, a))
    <3> DEFINE p == Append(s, a)
    <3>1. /\ p \in Seq(Agents) /\ Len(p) = Len(s) + 1
          /\ \A i \in 1 .. Len(p) : i \in 1 .. Len(s) \/ i = Len(s) + 1
          /\ \A i \in 1 .. Len(s) : p[i] = s[i]
          /\ p[Len(s) + 1] = a
      BY <1>2, <1>3
    <3>2. \A i \in 1 .. Len(s) : s[i] # a
      BY <2>2 DEF Discussion!ToSet
    <3> HIDE DEF p, s
    <3>3. EachOnce(p)
      BY <1>3, <3>1, <3>2 DEF EachOnce
    <3>4. Len(p) <= MaxAgents
      BY <1>2, <1>3, <2>2, <3>1
    <3> QED BY <2>2, <3>1, <3>3, <3>4 DEF ChosenFit, p
  <2> QED BY <1>1, <2>1, <2>2
<1>5. room' = [room EXCEPT !.chosen = p] /\ roster' = p
  BY <1>4 DEF Discussion!Choose
<1>6. /\ room' \in BookPanel /\ roster' \in Seq(Agents) /\ ChosenFit(room'.chosen)
      /\ room'.starting = room.starting /\ room'.run = room.run /\ room'.turns = room.turns
      /\ room'.polling = room.polling /\ room'.status = room.status
  BY <1>2, <1>4, <1>5 DEF BookPanel, ChosenFit
<1>7. RunsKnown' /\ RunsContinue
  BY <1>1, RunsStay DEF DiscussionInv
<1> QED BY <1>6, <1>7, PanelStep

\* A choice among those chosen, nobody twice.
FromChosen(p) ==
    /\ p \in Seq(Agents) /\ EachOnce(p)
    /\ \A k \in 1 .. Len(p) : \E i \in 1 .. Len(room.chosen) : p[k] = room.chosen[i]

\* Turns of agents that are chosen.
OfTheChosen(list) ==
    /\ list \in Seq(ThreadTurn)
    /\ \A k \in 1 .. Len(list) : list[k].agent \in Discussion!ToSet(room.chosen)

LEMMA SomeTurns ==
    ASSUME NEW list \in Seq(ThreadTurn), NEW I \in SUBSET DOMAIN list,
           NEW p, p = Discussion!Picked(list, I)
    PROVE  /\ p \in Seq(ThreadTurn)
           /\ \A k \in 1 .. Len(p) : \E i \in I : p[k] = list[i]
<1>1. p = Picked(list, I)
  <2>1. p = Settings!Picked(list, I)
    BY CutAlike
  <2> HIDE DEF ThreadTurn
  <2> QED BY <2>1, PickedHere
<1>2. /\ Picked(list, I) \in Seq(ThreadTurn)
      /\ Len(Picked(list, I)) = Cardinality(I) /\ Cardinality(I) \in Nat
      /\ \A k \in 1 .. Cardinality(I) : Place(I, k) \in I /\ Picked(list, I)[k] = list[Place(I, k)]
  BY PickedFacts
<1> QED BY <1>1, <1>2

LEMMA AskersAreChosen ==
    ASSUME PanelKnown
    PROVE  OfTheChosen(Discussion!Waiting) /\ OfTheChosen(Discussion!Questioners)
<1> DEFINE list == room.turns
<1>1. list \in Seq(ThreadTurn)
  BY DEF PanelKnown, BookPanel
<1>2. OfTheChosen(<<>>)
  BY DEF OfTheChosen
<1>3. ASSUME NEW I \in SUBSET DOMAIN list,
             \A i \in I : list[i].agent \in Discussion!ToSet(room.chosen)
      PROVE  OfTheChosen(Discussion!Picked(list, I))
  <2> DEFINE p == Discussion!Picked(list, I)
  <2>1. /\ p \in Seq(ThreadTurn)
        /\ \A k \in 1 .. Len(p) : \E i \in I : p[k] = list[i]
    <3> HIDE DEF list
    <3> QED BY <1>1, SomeTurns
  <2> HIDE DEF p
  <2> QED BY <1>3, <2>1 DEF OfTheChosen, p
<1>4. OfTheChosen(Discussion!Waiting)
  <2> DEFINE I == {i \in DOMAIN list : Discussion!OfRun(list[i], "waiting")}
  <2>1. /\ I \in SUBSET DOMAIN list
        /\ \A i \in I : list[i].agent \in Discussion!ToSet(room.chosen)
    BY DEF Discussion!OfRun
  <2>2. Discussion!Waiting = IF room.status # "completed" THEN <<>> ELSE Discussion!Picked(list, I)
    BY Zenon DEF Discussion!Waiting
  <2> HIDE DEF I, list
  <2> QED BY <1>2, <1>3, <2>1, <2>2
<1>5. OfTheChosen(Discussion!Questioners)
  <2> DEFINE I == {i \in DOMAIN list : Discussion!OfRun(list[i], "completed") /\ list[i].asks}
  <2>1. /\ I \in SUBSET DOMAIN list
        /\ \A i \in I : list[i].agent \in Discussion!ToSet(room.chosen)
    BY DEF Discussion!OfRun
  <2>2. Discussion!Questioners = IF room.status # "completed" THEN <<>> ELSE Discussion!Picked(list, I)
    BY Zenon DEF Discussion!Questioners
  <2> HIDE DEF I, list
  <2> QED BY <1>2, <1>3, <2>1, <2>2
<1> QED BY <1>4, <1>5

LEMMA TheirAgents ==
    ASSUME ChosenFit(room.chosen), NEW list, OfTheChosen(list)
    PROVE  FromChosen(Discussion!AgentsOf(list))
<1> DEFINE f == [i \in DOMAIN list |-> list[i].agent]
           p == Discussion!Distinct(f)
<1>1. /\ list \in Seq(ThreadTurn) /\ DOMAIN list = 1 .. Len(list) /\ Len(list) \in Nat
      /\ room.chosen \in Seq(Agents)
  BY DEF OfTheChosen, ChosenFit
<1>2. \A i \in 1 .. Len(list) : \E j \in 1 .. Len(room.chosen) : list[i].agent = room.chosen[j]
  BY <1>1 DEF OfTheChosen, Discussion!ToSet
<1>3. f \in [1 .. Len(list) -> Agents]
  BY <1>1, <1>2
<1>4. /\ f \in Seq(Agents) /\ Len(f) = Len(list)
      /\ \A i \in 1 .. Len(f) : \E j \in 1 .. Len(room.chosen) : f[i] = room.chosen[j]
  <2>1. \A i \in 1 .. Len(list) : \E j \in 1 .. Len(room.chosen) : f[i] = room.chosen[j]
    BY <1>1, <1>2
  <2> HIDE DEF f
  <2>2. f \in Seq(Agents)
    BY <1>1, <1>3, SeqDef
  <2>3. Len(f) = Len(list)
    BY <1>1, <1>3, <2>2
  <2> QED BY <2>1, <2>2, <2>3
<1>5. p = Discussion!AgentsOf(list)
  BY Zenon DEF Discussion!AgentsOf
<1> HIDE DEF f
<1>6. /\ p \in Seq(Agents) /\ EachOnce(p)
      /\ \A k \in 1 .. Len(p) : \E i \in 1 .. Len(f) : p[k] = f[i]
  BY <1>4, OnceOf
<1> HIDE DEF p
<1> QED BY <1>4, <1>5, <1>6 DEF FromChosen

LEMMA TurnOrderFits ==
    ASSUME PanelKnown, MaxAgents \in Nat, NEW reply
    PROVE  ChosenFit(Discussion!TurnOrder(reply))
<1> DEFINE a == Discussion!AgentsOf(Discussion!Questioners)
           b == Discussion!Distinct(a \o room.chosen)
           c == Discussion!AgentsOf(Discussion!Waiting)
           continuation == IF reply THEN b ELSE c
           s == IF continuation = <<>> THEN room.chosen ELSE continuation
           p == Discussion!Only(s, room.usable)
<1>1. p = Discussion!TurnOrder(reply)
  BY Zenon DEF Discussion!TurnOrder
<1>2. ChosenFit(room.chosen) /\ room.chosen \in Seq(Agents) /\ EachOnce(room.chosen)
  BY DEF PanelKnown, ChosenFit
<1>3. FromChosen(a) /\ FromChosen(c)
  BY <1>2, AskersAreChosen, TheirAgents
<1> HIDE DEF a, c
<1>4. FromChosen(b)
  <2> DEFINE m == a \o room.chosen
  <2>1. a \in Seq(Agents)
    BY <1>3 DEF FromChosen
  <2>2. /\ m \in Seq(Agents)
        /\ \A i \in 1 .. Len(a) : m[i] = a[i]
        /\ \A i \in 1 .. Len(m) : i \notin 1 .. Len(a) =>
             i - Len(a) \in 1 .. Len(room.chosen) /\ m[i] = room.chosen[i - Len(a)]
    BY <1>2, <2>1, Joined
  <2> HIDE DEF m
  <2>3. \A i \in 1 .. Len(m) : \E j \in 1 .. Len(room.chosen) : m[i] = room.chosen[j]
    BY <1>3, <2>2 DEF FromChosen
  <2> DEFINE q == Discussion!Distinct(m)
  <2>4. /\ q \in Seq(Agents) /\ EachOnce(q)
        /\ \A k \in 1 .. Len(q) : \E i \in 1 .. Len(m) : q[k] = m[i]
    BY <2>2, OnceOf
  <2> HIDE DEF q
  <2>5. FromChosen(q)
    BY <2>3, <2>4 DEF FromChosen
  <2> QED BY <2>5 DEF q, m
<1> HIDE DEF b
<1>5. FromChosen(room.chosen)
  BY <1>2 DEF FromChosen
<1>6. FromChosen(s)
  BY <1>3, <1>4, <1>5
<1> HIDE DEF s
<1>7. s \in Seq(Agents) /\ EachOnce(s) /\ Len(s) <= Len(room.chosen)
  BY <1>2, <1>6, NoLonger DEF FromChosen
<1>8. p \in Seq(Agents) /\ EachOnce(p) /\ Len(p) <= Len(s)
  BY <1>7, KeptOf
<1> HIDE DEF p
<1>9. Len(p) \in Nat /\ Len(s) \in Nat /\ Len(room.chosen) \in Nat /\ Len(room.chosen) <= MaxAgents
  BY <1>2, <1>7, <1>8 DEF ChosenFit
<1>10. p \in Seq(Agents) /\ EachOnce(p) /\ Len(p) <= MaxAgents
  BY <1>7, <1>8, <1>9
<1> QED BY <1>1, <1>10 DEF ChosenFit

LEMMA StartSteps ==
    ASSUME Discussion!DiscussionAssumption, DiscussionInv, Discussion!StartTurn
    PROVE  DiscussionInv'
<1>1. PICK reply \in BOOLEAN :
        /\ Chair \in Discussion!ToSet(Discussion!TurnOrder(reply))
        /\ room' = [room EXCEPT !.starting =
             [reply |-> reply, agents |-> Discussion!FirstOf(Discussion!TurnOrder(reply), MaxAgents),
              history |-> Discussion!LastOf(Discussion!Completed(room.turns), KeptTurns)]]
        /\ UNCHANGED <<roster, runs>>
  BY Zenon DEF Discussion!StartTurn
<1> DEFINE order == Discussion!TurnOrder(reply)
           agents == Discussion!FirstOf(order, MaxAgents)
           past == Discussion!LastOf(Discussion!Completed(room.turns), KeptTurns)
           start == [reply |-> reply, agents |-> agents, history |-> past]
<1>2. /\ MaxAgents \in Nat /\ KeptTurns \in Nat \ {0} /\ PanelKnown
      /\ room \in BookPanel /\ roster \in Seq(Agents) /\ ChosenFit(room.chosen)
  BY DEF Discussion!DiscussionAssumption, DiscussionInv, PanelKnown
<1>3. order \in Seq(Agents) /\ EachOnce(order) /\ Len(order) <= MaxAgents
  BY <1>2, TurnOrderFits DEF ChosenFit
<1>4. \E i \in 1 .. Len(order) : order[i] = Chair
  BY <1>1, <1>3 DEF Discussion!ToSet
<1> HIDE DEF order
<1>5. /\ agents \in Seq(Agents) /\ EachOnce(agents) /\ Len(agents) = Len(order)
      /\ \A k \in 1 .. Len(agents) : agents[k] = order[k]
  BY <1>2, <1>3, FirstFew
<1> HIDE DEF agents
<1>6. ChosenFit(agents) /\ \E i \in DOMAIN agents : agents[i] = Chair
  BY <1>3, <1>4, <1>5 DEF ChosenFit
<1>7. past \in Seq(ThreadTurn)
  <2> DEFINE done == Discussion!Completed(room.turns)
             I == {i \in DOMAIN room.turns : room.turns[i].status = "completed"}
  <2>1. done = Discussion!Picked(room.turns, I) /\ I \in SUBSET DOMAIN room.turns
    BY DEF Discussion!Completed
  <2>2. room.turns \in Seq(ThreadTurn)
    BY <1>2 DEF BookPanel
  <2>3. past = SubSeq(done, IF Len(done) > KeptTurns THEN Len(done) - KeptTurns + 1 ELSE 1, Len(done))
    BY DEF Discussion!LastOf
  <2> HIDE DEF done, I
  <2>4. done \in Seq(ThreadTurn)
    BY <2>1, <2>2, SomeTurns
  <2> HIDE DEF past
  <2> DEFINE m == IF Len(done) > KeptTurns THEN Len(done) - KeptTurns + 1 ELSE 1
  <2>5. m \in Nat \ {0} /\ Len(done) \in Nat
    BY <1>2, <2>4
  <2> HIDE DEF m, ThreadTurn
  <2>6. \A i \in m .. Len(done) : i \in 1 .. Len(done) /\ done[i] \in ThreadTurn
    BY <2>4, <2>5
  <2>7. past = SubSeq(done, m, Len(done))
    BY <2>3 DEF m
  <2> QED BY <2>4, <2>5, <2>6, <2>7
<1> HIDE DEF past
<1>8. start \in Begun
  BY <1>5, <1>7 DEF Begun
<1>9. start.agents = agents
  OBVIOUS
<1> HIDE DEF start
<1>10. /\ room' = [room EXCEPT !.starting = start]
  BY <1>1 DEF start, order, agents, past
<1>11. /\ room' \in BookPanel /\ roster' \in Seq(Agents) /\ ChosenFit(room'.chosen)
       /\ room'.starting = start /\ room'.run = room.run /\ room'.turns = room.turns
       /\ room'.polling = room.polling /\ room'.status = room.status
  BY <1>1, <1>2, <1>8, <1>10 DEF BookPanel
<1>12. RunsKnown' /\ RunsContinue
  BY <1>1, RunsStay DEF DiscussionInv
<1> QED BY <1>6, <1>9, <1>11, <1>12, PanelStep

LEMMA BeginSteps ==
    ASSUME Discussion!DiscussionAssumption, DiscussionInv, NEW id \in DOMAIN runs,
           Discussion!BeginRun(id)
    PROVE  DiscussionInv'
<1> DEFINE run == runs[id]
<1>1. /\ run.said = <<>> /\ UNCHANGED <<room, roster>>
      /\ runs' = [runs EXCEPT ![id] = IF run.cancel THEN Discussion!Cancelled(run)
                                      ELSE Discussion!WithNext(run)]
  BY Zenon DEF Discussion!BeginRun
<1>2. id \in 1 .. Len(runs) /\ IsRun(run) /\ Rounds \in Nat \ {0}
  BY AllAreRuns DEF DiscussionInv, Discussion!DiscussionAssumption
<1> HIDE DEF run
<1>3. Len(run.said) < Rounds * Len(run.order)
  <2>1. Len(run.said) = 0 /\ Len(run.order) \in Nat \ {0}
    BY <1>1, <1>2, RunFields
  <2> DEFINE n == Len(run.order)
  <2> HIDE DEF n
  <2>2. n \in Nat /\ Rounds \in Int /\ Rounds >= 1 /\ n > 0
    BY <1>2, <2>1 DEF n
  <2>3. n * Rounds \in Int /\ n * Rounds >= n
    BY <2>2, AtLeastOnce
  <2>4. n * Rounds = Rounds * n
    BY <2>2, SMT
  <2> QED BY <2>1, <2>2, <2>3, <2>4 DEF n
<1>4. /\ Continues(run, Discussion!Cancelled(run))
      /\ Continues(run, Discussion!WithNext(run))
  BY <1>2, <1>3, CutShort, NextWord
<1>5. RunsKnown' /\ RunsContinue
  BY <1>1, <1>2, <1>4, RunMoves DEF DiscussionInv, run
<1>6. room' \in BookPanel /\ roster' \in Seq(Agents) /\ ChosenFit(room'.chosen)
  BY <1>1 DEF DiscussionInv, PanelKnown
<1> QED BY <1>1, <1>5, <1>6, PanelStep

LEMMA SpeechSteps ==
    ASSUME Discussion!DiscussionAssumption, DiscussionInv, NEW id \in DOMAIN runs,
           Discussion!EndSpeech(id)
    PROVE  DiscussionInv'
<1> DEFINE run == runs[id]
           k == Len(run.said)
<1>1. PICK how \in {"completed", "failed"}, asks \in BOOLEAN :
        LET next == [run EXCEPT !.said[k].status = how, !.said[k].asks = asks]
        IN /\ k > 0 /\ UNCHANGED <<room, roster>>
           /\ runs' = [runs EXCEPT ![id] =
                         IF next.cancel THEN Discussion!Cancelled(next)
                         ELSE IF k = Discussion!Planned(next) THEN Discussion!Ended(next)
                         ELSE Discussion!WithNext(next)]
  BY ZenonT(40) DEF Discussion!EndSpeech
<1> DEFINE next == [run EXCEPT !.said[k].status = how, !.said[k].asks = asks]
           word == [run.said[k] EXCEPT !.status = how, !.asks = asks]
           said == [run.said EXCEPT ![k] = word]
<1>2. id \in 1 .. Len(runs) /\ IsRun(run) /\ Rounds \in Nat \ {0}
  BY AllAreRuns DEF DiscussionInv, Discussion!DiscussionAssumption
<1> HIDE DEF run
<1>3. /\ run \in RunRecord /\ run.said \in Seq(Contribution) /\ run.order \in Seq(Agents)
      /\ k \in Nat /\ Len(run.order) \in Nat \ {0}
      /\ k > 0 /\ run.status \in Outcome
  BY <1>1, <1>2, RunFields
<1>4. k \in 1 .. k /\ run.said[k] \in Contribution
  BY <1>3
<1>5. /\ word \in Contribution /\ word.of = run.said[k].of /\ word.agent = run.said[k].agent
  BY <1>4 DEF Contribution, Told
<1>6. next = [run EXCEPT !.said = said]
  BY <1>3, <1>4 DEF Contribution, RunRecord
<1> HIDE DEF word
<1>7. /\ said \in Seq(Contribution) /\ Len(said) = k
      /\ \A j \in 1 .. k : said[j].of = run.said[j].of /\ said[j].agent = run.said[j].agent
  <2>1. /\ said \in Seq(Contribution) /\ Len(said) = Len(run.said)
        /\ \A j \in 1 .. Len(run.said) : said[j] = IF j = k THEN word ELSE run.said[j]
    BY <1>3, <1>4, <1>5, Replaced
  <2> HIDE DEF said
  <2> QED BY <1>5, <2>1
<1> HIDE DEF said
<1>8. Continues(run, next)
  <2>1. k <= Rounds * Len(run.order) /\ \A j \in 1 .. k : Spoken(run, j)
    BY <1>2 DEF IsRun, SaidKnown
  <2>2. \A j \in 1 .. Len(said) : /\ said[j].of = RoundAt(run.order, j)
                                  /\ said[j].agent = SpeakerAt(run.order, j)
    BY <1>7, <2>1 DEF Spoken
  <2>3. Len(run.said) <= Len(said) /\ Len(said) <= Rounds * Len(run.order)
    BY <1>3, <1>7, <2>1
  <2>4. Continues(run, [run EXCEPT !.said = said, !.status = run.status])
    BY <1>2, <1>3, <1>7, <2>2, <2>3, Extended
  <2>5. next = [run EXCEPT !.said = said, !.status = run.status]
    BY <1>3, <1>6 DEF RunRecord
  <2> HIDE DEF next
  <2> QED BY <2>4, <2>5
<1>9. next.said = said /\ next.order = run.order
  BY <1>3, <1>6 DEF RunRecord
<1> HIDE DEF next
<1>10. IsRun(next) /\ Len(next.said) = k
  BY <1>7, <1>8, <1>9 DEF Continues
<1>11. /\ Continues(next, Discussion!Cancelled(next)) /\ Continues(next, Discussion!Ended(next))
       /\ k # Discussion!Planned(next) => Continues(next, Discussion!WithNext(next))
  <2>1. ASSUME k # Discussion!Planned(next) PROVE Len(next.said) < Rounds * Len(next.order)
    <3>1. Len(next.said) <= Rounds * Len(next.order)
      BY <1>10 DEF IsRun, SaidKnown
    <3>2. k # Rounds * Len(next.order)
      BY <2>1 DEF Discussion!Planned
    <3> DEFINE all == Rounds * Len(next.order)
    <3>3. all \in Int
      BY <1>2, <1>3, <1>9
    <3> HIDE DEF all
    <3>4. k <= all /\ k # all
      BY <1>10, <3>1, <3>2 DEF all
    <3>5. k < all
      BY <1>3, <3>3, <3>4
    <3> QED BY <1>10, <3>5 DEF all
  <2> QED BY <1>2, <1>10, <2>1, CutShort, LastWord, NextWord
<1> DEFINE then == IF next.cancel THEN Discussion!Cancelled(next)
                   ELSE IF k = Discussion!Planned(next) THEN Discussion!Ended(next)
                   ELSE Discussion!WithNext(next)
<1>12. Continues(next, then)
  BY <1>11
<1>13. runs' = [runs EXCEPT ![id] = then]
  BY <1>1 DEF next
<1> HIDE DEF then
<1>14. Continues(run, then)
  BY <1>3, <1>8, <1>12, Onwards
<1>15. RunsKnown' /\ RunsContinue
  BY <1>2, <1>13, <1>14, RunMoves DEF DiscussionInv, run
<1>16. room' \in BookPanel /\ roster' \in Seq(Agents) /\ ChosenFit(room'.chosen)
  BY <1>1 DEF DiscussionInv, PanelKnown
<1> QED BY <1>1, <1>15, <1>16, PanelStep

\* The panel learns what its run has said so far.
LEMMA PollSteps ==
    ASSUME DiscussionInv, Discussion!Poll
    PROVE  DiscussionInv'
<1> DEFINE id == room.run
           run == runs[id]
           m == Discussion!Merge(id, run.said)
<1>1. /\ room.polling /\ UNCHANGED <<roster, runs>>
      /\ \/ room' = [room EXCEPT !.status = run.status, !.turns = m,
                                 !.polling = run.status \notin Discussion!Terminal]
         \/ room' = [room EXCEPT !.polling = FALSE]
  BY Zenon DEF Discussion!Poll
<1>2. /\ room \in BookPanel /\ roster \in Seq(Agents) /\ ChosenFit(room.chosen)
      /\ id # Nothing /\ id \in 1 .. Len(runs)
  BY <1>1 DEF DiscussionInv, PanelKnown
<1>3. IsRun(run) /\ RunsKnown' /\ RunsContinue /\ Len(runs) \in Nat
  BY <1>1, <1>2, AllAreRuns, RunsStay DEF DiscussionInv
<1>4. CASE room' = [room EXCEPT !.polling = FALSE]
  <2>1. /\ room' \in BookPanel /\ roster' \in Seq(Agents) /\ ChosenFit(room'.chosen)
        /\ room'.starting = room.starting /\ room'.run = room.run /\ room'.turns = room.turns
        /\ ~room'.polling
    BY <1>1, <1>2, <1>4 DEF BookPanel
  <2> QED BY <1>3, <2>1, PanelStep
<1>5. CASE room' = [room EXCEPT !.status = run.status, !.turns = m,
                                !.polling = run.status \notin Discussion!Terminal]
  <2>1. /\ room.turns \in Seq(ThreadTurn) /\ id \in Nat /\ InOrder(room.turns)
        /\ Follows(room.turns, id, run.said)
    BY <1>2 DEF BookPanel, DiscussionInv, ThreadKnown
  <2>2. m \in Seq(ThreadTurn) /\ InOrder(m) /\ Follows(m, id, run.said)
    <3> HIDE DEF id, run
    <3> QED BY <1>3, <2>1, MergedFollows DEF id
  <2>3. run.status \in Outcome
    BY <1>3, RunFields
  <2> HIDE DEF m, run
  <2>4. /\ room' \in BookPanel /\ roster' \in Seq(Agents) /\ ChosenFit(room'.chosen)
        /\ room'.starting = room.starting /\ room'.run = room.run /\ room'.turns = m
        /\ room'.status = run.status /\ room'.polling = (run.status \notin Discussion!Terminal)
    BY <1>1, <1>2, <1>5, <2>2, <2>3 DEF BookPanel
  <2>5. PanelKnown'
    <3>1. room'.run \in 1 .. Len(runs') /\ room'.run # Nothing
      BY <1>1, <1>2, <2>4
    <3>2. room'.polling => room'.run # Nothing /\ room'.status \notin Discussion!Terminal
      BY <2>4, <3>1
    <3>3. room'.starting # Nothing => /\ ChosenFit(room'.starting.agents)
                                      /\ \E i \in DOMAIN room'.starting.agents :
                                           room'.starting.agents[i] = Chair
      BY <2>4 DEF DiscussionInv, PanelKnown
    <3> QED BY <2>4, <3>1, <3>2, <3>3, PanelKnownNext
  <2>6. ThreadKnown'
    <3>1. \A i \in 1 .. Len(m) : m[i].run <= Len(runs)
      <4>1. \A i \in 1 .. Len(m) : m[i].run <= id /\ m[i].run \in Nat
        BY <2>2, TurnFields DEF Follows
      <4> HIDE DEF id
      <4> QED BY <1>2, <1>3, <4>1
    <3>2. runs' = runs /\ room'.run = id /\ room'.turns = m
      BY <1>1, <2>4
    <3> QED BY <2>2, <3>1, <3>2, ThreadKnownNext DEF run
  <2> QED BY <1>3, <2>5, <2>6 DEF DiscussionInv
<1> QED BY <1>1, <1>4, <1>5

\* A reply begins what follows the runs before.
LEMMA ReplyFollows ==
    ASSUME NEW list \in Seq(ThreadTurn), InOrder(list), NEW id \in Nat,
           \A i \in 1 .. Len(list) : list[i].run < id,
           NEW reply \in BOOLEAN, NEW m, m = Discussion!WithReply(list, reply, id)
    PROVE  /\ m \in Seq(ThreadTurn) /\ InOrder(m) /\ Follows(m, id, <<>>)
           /\ \A i \in 1 .. Len(m) : m[i].run <= id
<1>1. /\ Discussion!ToSet(list) = {list[i] : i \in 1 .. Len(list)} /\ Len(list) \in Nat
      /\ \A i \in 1 .. Len(list) : list[i] \in ThreadTurn /\ list[i].run \in Nat /\ list[i].run # id
  <2>1. \A i \in 1 .. Len(list) : list[i].run # id
    <3>1. \A i \in 1 .. Len(list) : list[i].run \in Nat
      BY TurnsAre, TurnFields
    <3> QED BY <3>1
  <2> QED BY <2>1, TurnsAre, TurnFields
<1>2. CASE ~reply
  <2>1. m = list
    BY <1>2 DEF Discussion!WithReply
  <2>2. \A i \in 1 .. Len(m) : m[i].run <= id /\ m[i].run # id
    BY <1>1, <2>1
  <2>3. Follows(m, id, <<>>)
    BY <2>2 DEF Follows
  <2> QED BY <2>1, <2>2, <2>3
<1>3. CASE reply
  <2> DEFINE last == Discussion!MaxRound(Discussion!ToSet(list))
             t == [run |-> id, of |-> 0, round |-> last + 1, agent |-> Nothing,
                   status |-> "completed", asks |-> FALSE]
             b == <<t>>
  <2>1. m = Append(list, t)
    BY <1>3 DEF Discussion!WithReply
  <2>2. /\ last \in Nat
        /\ \A i \in 1 .. Len(list) : list[i].round <= last /\ list[i].round \in Nat
    <3>1. Discussion!ToSet(list) \in SUBSET Discussion!ToSet(list)
      OBVIOUS
    <3>2. /\ last \in Nat
          /\ \A u \in Discussion!ToSet(list) : u.round \in Nat /\ u.round <= last
      BY <3>1, LastRound
    <3> HIDE DEF last
    <3> QED BY <1>1, <3>2
  <2> HIDE DEF last
  <2>3. /\ t \in ThreadTurn /\ t.run = id /\ t.of = 0 /\ t.round = last + 1
    BY <2>2 DEF ThreadTurn, Told
  <2> HIDE DEF t
  <2>4. /\ b \in Seq(ThreadTurn) /\ Len(b) = 1 /\ b[1] = t /\ m = list \o b /\ InOrder(b)
    <3>1. b \in Seq(ThreadTurn) /\ Len(b) = 1 /\ b[1] = t
      BY <2>3
    <3>2. m = list \o b
      BY <2>1, <2>3
    <3>3. InOrder(b)
      BY <3>1 DEF InOrder
    <3> QED BY <3>1, <3>2, <3>3
  <2> HIDE DEF b
  <2>5. \A i \in 1 .. Len(list), k \in 1 .. Len(b) : Before(list[i], b[k])
    <3>1. ASSUME NEW i \in 1 .. Len(list), NEW k \in 1 .. Len(b) PROVE Before(list[i], b[k])
      <4>1. b[k] = t
        BY <2>4
      <4>2. /\ list[i].round < t.round /\ list[i].round <= t.round
            /\ list[i].run < t.run /\ list[i].run <= t.run /\ list[i].run # t.run
        BY <1>1, <2>2, <2>3
      <4> QED BY <4>1, <4>2 DEF Before
    <3> QED BY <3>1
  <2>6. InOrder(m)
    BY <2>4, <2>5, JoinedInOrder
  <2>7. /\ m \in Seq(ThreadTurn) /\ Len(m) = Len(list) + 1
        /\ \A i \in 1 .. Len(list) : i \in 1 .. Len(m) /\ m[i] = list[i]
        /\ m[Len(m)] = t
        /\ \A i \in 1 .. Len(m) : i \in 1 .. Len(list) \/ i = Len(m)
    BY <1>1, <2>1, <2>3
  <2>8. {u \in Discussion!ToSet(m) : u.run # id} = Discussion!ToSet(list)
    <3>1. Discussion!ToSet(m) = {m[i] : i \in 1 .. Len(m)}
      BY <2>7, TurnsAre
    <3>2. \A u \in Discussion!ToSet(m) : u.run # id => u \in Discussion!ToSet(list)
      <4>1. ASSUME NEW i \in 1 .. Len(m), m[i].run # id PROVE m[i] \in Discussion!ToSet(list)
        BY <1>1, <2>3, <2>7, <4>1
      <4> QED BY <3>1, <4>1
    <3>3. \A u \in Discussion!ToSet(list) : u \in Discussion!ToSet(m) /\ u.run # id
      <4>1. ASSUME NEW i \in 1 .. Len(list)
            PROVE  list[i] \in Discussion!ToSet(m) /\ list[i].run # id
        BY <1>1, <2>7, <3>1
      <4> QED BY <1>1, <4>1
    <3> QED BY <3>2, <3>3
  <2>9. Base(m, id) = last
    BY <2>8 DEF Base, last
  <2>10. \A i \in 1 .. Len(m) : m[i].run <= id
                                /\ (m[i].run = id => m[i].of = 0 /\ m[i].round = last + 1)
    BY <1>1, <2>3, <2>7
  <2>11. Follows(m, id, <<>>)
    BY <2>9, <2>10 DEF Follows
  <2> QED BY <2>6, <2>7, <2>10, <2>11
<1> QED BY <1>2, <1>3

LEMMA BegunSteps ==
    ASSUME Discussion!DiscussionAssumption, DiscussionInv, Discussion!RunStarted
    PROVE  DiscussionInv'
<1> DEFINE start == room.starting
           id == Len(runs) + 1
           run == Discussion!NewRun(start)
           m == Discussion!WithReply(room.turns, start.reply, id)
           list == Discussion!Resumed(m)
<1>1. /\ start # Nothing /\ roster' = roster
      /\ \/ /\ runs' = Append(runs, run)
            /\ \/ room' = [room EXCEPT !.starting = Nothing, !.run = id, !.status = "running",
                                       !.polling = TRUE, !.turns = list]
               \/ room' = [room EXCEPT !.starting = Nothing]
         \/ UNCHANGED runs /\ room' = [room EXCEPT !.starting = Nothing]
  BY Zenon DEF Discussion!RunStarted
<1>2. /\ room \in BookPanel /\ roster \in Seq(Agents) /\ ChosenFit(room.chosen)
      /\ ChosenFit(start.agents) /\ \E i \in DOMAIN start.agents : start.agents[i] = Chair
      /\ start \in Begun /\ room.turns \in Seq(ThreadTurn)
  BY <1>1 DEF DiscussionInv, PanelKnown, BookPanel
<1>3. /\ Chair \in Agents /\ Nothing \notin Nat /\ MaxAgents \in Nat /\ Rounds \in Nat \ {0}
  BY DEF Discussion!DiscussionAssumption
<1>4. runs \in Seq(RunRecord) /\ Len(runs) \in Nat /\ id \in Nat
  BY AllAreRuns DEF DiscussionInv, RunsKnown
<1>5. IsRun(run) /\ run.said = <<>>
  <2> DEFINE agents == start.agents
             others == Discussion!Only(agents, Discussion!ToSet(agents) \ {Chair})
             order == Discussion!Order(agents)
  <2>1. agents \in Seq(Agents) /\ EachOnce(agents) /\ Len(agents) <= MaxAgents /\ Len(agents) \in Nat
        /\ \E i \in 1 .. Len(agents) : agents[i] = Chair
    BY <1>2 DEF ChosenFit
  <2>2. order = Append(others, Chair)
    BY Zenon DEF Discussion!Order
  <2>3. run = [order |-> order, said |-> <<>>, cancel |-> FALSE, status |-> "running"]
    BY Zenon DEF Discussion!NewRun
  <2> HIDE DEF agents, order
  <2>4. /\ others \in Seq(Agents) /\ EachOnce(others) /\ Len(others) < Len(agents)
        /\ \A k \in 1 .. Len(others) : others[k] # Chair
    <3> DEFINE T == Discussion!ToSet(agents) \ {Chair}
    <3>1. \E i \in 1 .. Len(agents) : agents[i] \notin T
      BY <2>1
    <3>2. Chair \notin T
      OBVIOUS
    <3> HIDE DEF T
    <3>3. /\ Discussion!Only(agents, T) \in Seq(Agents) /\ EachOnce(Discussion!Only(agents, T))
          /\ Len(Discussion!Only(agents, T)) < Len(agents)
          /\ \A k \in 1 .. Len(Discussion!Only(agents, T)) : Discussion!Only(agents, T)[k] \in T
      BY <2>1, <3>1, KeptOf
    <3> QED BY <3>2, <3>3 DEF T
  <2> HIDE DEF others
  <2>5. /\ order \in Seq(Agents) /\ EachOnce(order) /\ Len(order) = Len(others) + 1
        /\ \A i \in 1 .. Len(order) : order[i] = Chair <=> i = Len(order)
    BY <1>3, <2>2, <2>4, ChairBehind
  <2>6. Len(order) \in 1 .. MaxAgents
    <3>1. Len(others) \in Nat
      BY <2>4
    <3> QED BY <1>3, <2>1, <2>4, <2>5, <3>1
  <2>7. OrderKnown(order)
    BY <2>5, <2>6 DEF OrderKnown
  <2>8. run \in RunRecord /\ run.order = order /\ run.said = <<>>
    BY <2>3, <2>5 DEF RunRecord, Outcome
  <2> HIDE DEF run
  <2>9. SaidKnown(run)
    <3>1. Len(run.said) = 0 /\ Len(order) \in Nat
      BY <2>5, <2>8
    <3>2. 0 <= Rounds * Len(order)
      BY <1>3, <3>1, SMT
    <3> QED BY <2>8, <3>1, <3>2 DEF SaidKnown
  <2> QED BY <2>7, <2>8, <2>9 DEF IsRun
<1> HIDE DEF run, id
<1>6. ASSUME runs' = Append(runs, run)
      PROVE  RunsKnown' /\ RunsContinue /\ Len(runs') = id /\ runs'[id] = run
  <2>1. run \in RunRecord
    BY <1>5 DEF IsRun
  <2>2. /\ runs' \in Seq(RunRecord) /\ Len(runs') = Len(runs) + 1
        /\ \A r \in 1 .. Len(runs) : r \in 1 .. Len(runs') /\ runs'[r] = runs[r]
        /\ runs'[Len(runs) + 1] = run
        /\ \A r \in 1 .. Len(runs') : r \in 1 .. Len(runs) \/ r = Len(runs) + 1
    <3> DEFINE q == Append(runs, run)
    <3> HIDE DEF RunRecord
    <3>1. /\ q \in Seq(RunRecord) /\ Len(q) = Len(runs) + 1
          /\ \A r \in 1 .. Len(runs) : r \in 1 .. Len(q) /\ q[r] = runs[r]
          /\ q[Len(runs) + 1] = run
          /\ \A r \in 1 .. Len(q) : r \in 1 .. Len(runs) \/ r = Len(runs) + 1
      BY <1>4, <2>1
    <3>2. runs' = q
      BY <1>6
    <3> HIDE DEF q
    <3> QED BY <3>1, <3>2
  <2>3. \A r \in 1 .. Len(runs) : IsRun(runs[r])
    BY AllAreRuns DEF DiscussionInv
  <2>4. \A r \in 1 .. Len(runs') : IsRun(runs'[r])
    BY <1>5, <2>2, <2>3
  <2>5. RunsKnown'
    <3>1. \A r \in 1 .. Len(runs') : OrderKnown(runs'[r].order) /\ SaidKnown(runs'[r])
      BY <2>4 DEF IsRun
    <3>2. RunsKnown' <=> /\ runs' \in Seq(RunRecord)
                         /\ \A r \in 1 .. Len(runs') : OrderKnown(runs'[r].order) /\ SaidKnown(runs'[r])
      BY DEF RunsKnown, OrderKnown, EachOnce, SaidKnown, Spoken
    <3> QED BY <2>2, <3>1, <3>2
  <2>6. RunsContinue
    <3>1. \A r \in 1 .. Len(runs) : Continues(runs[r], runs'[r])
      BY <2>2, <2>3, Itself
    <3> QED BY <1>4, <2>2, <3>1 DEF RunsContinue
  <2> QED BY <2>2, <2>5, <2>6 DEF id
<1>7. RunsKnown' /\ RunsContinue
  BY <1>1, <1>6, RunsStay DEF DiscussionInv
<1>8. CASE room' = [room EXCEPT !.starting = Nothing]
  <2>1. /\ room' \in BookPanel /\ roster' \in Seq(Agents) /\ ChosenFit(room'.chosen)
        /\ room'.starting = Nothing /\ room'.run = room.run /\ room'.turns = room.turns
        /\ room'.polling = room.polling /\ room'.status = room.status
    BY <1>1, <1>2, <1>8 DEF BookPanel
  <2> QED BY <1>7, <2>1, PanelStep
<1>9. CASE /\ runs' = Append(runs, run)
           /\ room' = [room EXCEPT !.starting = Nothing, !.run = id, !.status = "running",
                                   !.polling = TRUE, !.turns = list]
  <2>1. Len(runs') = id /\ runs'[id] = run
    BY <1>6, <1>9
  <2>2. /\ m \in Seq(ThreadTurn) /\ InOrder(m) /\ Follows(m, id, <<>>)
        /\ \A i \in 1 .. Len(m) : m[i].run <= id
    <3>1. start.reply \in BOOLEAN
      BY <1>2 DEF Begun
    <3>2. InOrder(room.turns) /\ \A i \in 1 .. Len(room.turns) : room.turns[i].run <= Len(runs)
      BY DEF DiscussionInv, ThreadKnown
    <3>3. \A i \in 1 .. Len(room.turns) : room.turns[i].run < id
      <4>1. \A i \in 1 .. Len(room.turns) : room.turns[i].run \in Nat
        BY <1>2, TurnsAre, TurnFields
      <4> QED BY <1>4, <3>2, <4>1 DEF id
    <3> QED BY <1>2, <1>4, <3>1, <3>2, <3>3, ReplyFollows
  <2> HIDE DEF m
  <2>3. /\ list \in Seq(ThreadTurn) /\ Len(list) = Len(m)
        /\ \A i \in 1 .. Len(m) : SameWord(m[i], list[i])
    <3>1. list = [i \in DOMAIN m |-> IF m[i] \in Discussion!ToSet(Discussion!Waiting)
                                     THEN [m[i] EXCEPT !.status = "resumed"] ELSE m[i]]
      BY Zenon DEF Discussion!Resumed
    <3> HIDE DEF list
    <3>2. DOMAIN m = 1 .. Len(m) /\ Len(m) \in Nat /\ \A i \in 1 .. Len(m) : m[i] \in ThreadTurn
      BY <2>2
    <3>3. ASSUME NEW t \in ThreadTurn
          PROVE  [t EXCEPT !.status = "resumed"] \in ThreadTurn
                 /\ SameWord(t, [t EXCEPT !.status = "resumed"])
      BY DEF ThreadTurn, Told, SameWord
    <3>4. \A i \in 1 .. Len(m) : list[i] \in ThreadTurn /\ SameWord(m[i], list[i])
      <4>1. ASSUME NEW i \in 1 .. Len(m) PROVE list[i] \in ThreadTurn /\ SameWord(m[i], list[i])
        <5>1. list[i] = m[i] \/ list[i] = [m[i] EXCEPT !.status = "resumed"]
          BY <3>1, <3>2
        <5>2. SameWord(m[i], m[i])
          BY DEF SameWord
        <5> QED BY <3>2, <3>3, <5>1, <5>2
      <4> QED BY <4>1
    <3>5. list \in [1 .. Len(m) -> ThreadTurn]
      BY <3>1, <3>2, <3>4
    <3>6. list \in Seq(ThreadTurn)
      BY <3>2, <3>5, SeqDef
    <3> QED BY <3>2, <3>4, <3>5, <3>6
  <2> HIDE DEF list
  <2>4. InOrder(list) /\ Follows(list, id, <<>>) /\ \A i \in 1 .. Len(list) : list[i].run <= id
    BY <2>2, <2>3, ToldOtherwise DEF SameWord
  <2>5. /\ room' \in BookPanel /\ roster' \in Seq(Agents) /\ ChosenFit(room'.chosen)
        /\ room'.starting = Nothing /\ room'.run = id /\ room'.turns = list
        /\ room'.polling = TRUE /\ room'.status = "running"
    BY <1>1, <1>2, <1>4, <1>9, <2>3 DEF BookPanel, Outcome
  <2>6. PanelKnown'
    <3>1. room'.run # Nothing /\ room'.run \in 1 .. Len(runs')
      BY <1>3, <1>4, <2>1, <2>5 DEF id
    <3>2. room'.status \notin Discussion!Terminal
      BY <2>5 DEF Discussion!Terminal
    <3> QED BY <2>5, <3>1, <3>2, PanelKnownNext
  <2>7. ThreadKnown'
    BY <1>5, <2>1, <2>4, <2>5, ThreadKnownNext
  <2> QED BY <1>7, <2>6, <2>7 DEF DiscussionInv
<1> QED BY <1>1, <1>8, <1>9

LEMMA DiscussionStep ==
    ASSUME Discussion!DiscussionAssumption, DiscussionInv,
           [Discussion!DiscussionNext]_(Discussion!discussionVars)
    PROVE  DiscussionInv'
<1>1. CASE UNCHANGED Discussion!discussionVars
  <2>1. room' = room /\ roster' = roster /\ runs' = runs
    BY <1>1 DEF Discussion!discussionVars
  <2>2. RunsKnown' /\ RunsContinue
    BY <2>1, RunsStay DEF DiscussionInv
  <2>3. room' \in BookPanel /\ roster' \in Seq(Agents) /\ ChosenFit(room'.chosen)
    BY <2>1 DEF DiscussionInv, PanelKnown
  <2> QED BY <2>1, <2>2, <2>3, PanelStep
<1>2. CASE \E id \in DOMAIN runs : Discussion!BeginRun(id) \/ Discussion!EndSpeech(id)
  BY <1>2, BeginSteps, SpeechSteps
<1>3. CASE \/ Discussion!LoadAgents \/ Discussion!OpenPanel \/ Discussion!ToggleAgent
           \/ Discussion!RequestClose \/ Discussion!NewDiscussion \/ Discussion!LeaveBook
           \/ Discussion!StartTurn \/ Discussion!RunStarted \/ Discussion!Poll \/ Discussion!Stop
  BY <1>3, RosterSteps, OpenSteps, ToggleSteps, CloseSteps, NewSteps, LeaveSteps, StartSteps,
     BegunSteps, PollSteps, StopSteps
<1> QED BY <1>1, <1>2, <1>3, Zenon DEF Discussion!DiscussionNext

\* The discussions of a book: whatever runs, replies, polls and returns to the book overlap, every
\* round of a run ends with the chair and has its word nowhere else, and the thread has each word
\* once, in rounds that go on from run to run, for any agents, rounds and bounds.
THEOREM DiscussionsKeepOrder ==
    ASSUME Discussion!DiscussionAssumption
    PROVE  Discussion!DiscussionSpec =>
             [](/\ Discussion!DiscussionTypeOK /\ Discussion!ChairHasTheLastWord
                /\ Discussion!ThreadIsInOrder)
<1>1. Discussion!DiscussionInit => DiscussionInv
  BY DiscussionInitEstablishes
<1>2. DiscussionInv /\ [Discussion!DiscussionNext]_(Discussion!discussionVars) => DiscussionInv'
  BY DiscussionStep
<1>3. DiscussionInv => /\ Discussion!DiscussionTypeOK /\ Discussion!ChairHasTheLastWord
                       /\ Discussion!ThreadIsInOrder
  <2> SUFFICES ASSUME DiscussionInv
               PROVE  /\ Discussion!DiscussionTypeOK /\ Discussion!ChairHasTheLastWord
                      /\ Discussion!ThreadIsInOrder
    OBVIOUS
  <2>1. /\ Len(runs) \in Nat /\ DOMAIN runs = 1 .. Len(runs)
        /\ \A r \in 1 .. Len(runs) : IsRun(runs[r])
    BY AllAreRuns DEF DiscussionInv
  <2>2. /\ room \in BookPanel /\ roster \in Seq(Agents) /\ room.chosen \in Seq(Agents)
        /\ EachOnce(room.chosen) /\ Len(room.chosen) <= MaxAgents
        /\ room.run # Nothing => room.run \in 1 .. Len(runs)
    BY DEF DiscussionInv, PanelKnown, ChosenFit
  <2>3. Discussion!DiscussionTypeOK
    <3>1. Discussion!ToSet(room.chosen) \cup Discussion!ToSet(roster) \subseteq Agents
      BY <2>2 DEF Discussion!ToSet
    <3>2. Discussion!IsInjective(room.chosen)
      BY <2>2 DEF Discussion!IsInjective, EachOnce
    <3>3. \A id \in DOMAIN runs : Len(runs[id].order) <= MaxAgents
      <4>1. ASSUME NEW id \in DOMAIN runs PROVE Len(runs[id].order) <= MaxAgents
        <5>1. Len(runs[id].order) \in 1 .. MaxAgents
          BY <2>1 DEF IsRun, OrderKnown
        <5> QED BY <5>1
      <4> QED BY <4>1
    <3> QED BY <2>1, <2>2, <3>1, <3>2, <3>3 DEF Discussion!DiscussionTypeOK
  <2>4. Discussion!ChairHasTheLastWord
    <3>1. ASSUME NEW id \in DOMAIN runs, NEW i \in DOMAIN runs[id].said
          PROVE  runs[id].said[i].agent = Chair <=> i % Len(runs[id].order) = 0
      <4> DEFINE run == runs[id]
      <4>1. IsRun(run) /\ run.said \in Seq(Contribution)
        BY <2>1, RunFields
      <4> HIDE DEF run
      <4>2. i \in 1 .. Len(run.said)
        BY <3>1, <4>1 DEF run
      <4>3. run.said[i].agent = Chair <=> EndsRound(run.order, i)
        BY <4>1, <4>2, Words
      <4> QED BY <4>3, Zenon DEF EndsRound, run
    <3> QED BY <3>1, Zenon DEF Discussion!ChairHasTheLastWord
  <2>5. Discussion!ThreadIsInOrder
    <3> DEFINE list == room.turns
    <3>1. InOrder(list) /\ list \in Seq(ThreadTurn) /\ DOMAIN list = 1 .. Len(list)
      BY <2>2 DEF DiscussionInv, ThreadKnown, BookPanel
    <3>2. ASSUME NEW i \in DOMAIN room.turns, NEW j \in DOMAIN room.turns, i < j
          PROVE  LET t == room.turns[i]
                     u == room.turns[j]
                 IN /\ t.round <= u.round /\ t.run <= u.run
                    /\ (t.run = u.run => <<t.of, t.agent>> # <<u.of, u.agent>>)
                    /\ (t.run < u.run => t.round < u.round)
      <4>1. Before(list[i], list[j])
        BY <3>1, <3>2 DEF InOrder
      <4> QED BY <4>1 DEF Before
    <3> QED BY <3>2 DEF Discussion!ThreadIsInOrder
  <2> QED BY <2>3, <2>4, <2>5
<1> QED BY <1>1, <1>2, <1>3, PTL DEF Discussion!DiscussionSpec
=============================================================================
