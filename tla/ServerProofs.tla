---------------------------- MODULE ServerProofs ----------------------------
(***************************************************************************)
(* The parts of the server that stand beside the workflow, the AI runtime  *)
(* and the Hub: jobs, the reminder of the quotes, the check-ins of daily   *)
(* plans, and the files and tags of a repository.  A job keeps to its      *)
(* calendar and a one-time job runs once, a due time of the quotes is      *)
(* announced once and overwrites no setting, check-ins are spread over     *)
(* their day, and every completion of the default branch up to the latest  *)
(* tag is in one tag, which holds the files that were accepted: for any    *)
(* number of jobs, edits, plans, restarts, branches and tags, and for any  *)
(* schedules and any calendar.                                             *)
(*                                                                         *)
(* The parts share no variable.                                            *)
(***************************************************************************)
EXTENDS ScheduledJobs, SequenceTheorems, FiniteSetTheorems, WellFoundedInduction, TLAPS

CONSTANTS Ranges, Webs, MaxSaves, MaxRestarts, \* of the quotes
          Plans, MaxTasks, CheckIns, MaxMoves, \* of the daily plans
          Paths, Inside, Contents, Branches, Default,
          MaxCompletions, MaxTags              \* of files and tags

VARIABLES time,                                         \* the clock of the next two
          file, server, window, log,                    \* of the quotes
          plans, sending, delivered, inbox, changes,    \* of the daily plans
          files, completions, tags                      \* of a repository

Quotes == INSTANCE QuoteReminders

Daily == INSTANCE PlanReminders

Tags == INSTANCE RepositoryTags

-----------------------------------------------------------------------------
(* Time                                                                    *)

\* Days and the ticks of a day.
LEMMA DayAndTick ==
    ASSUME NEW a \in Nat, NEW d \in Nat \ {0}
    PROVE  a = d * (a \div d) + (a % d) /\ a % d \in 0 .. d - 1 /\ a \div d \in Nat
OBVIOUS

LEMMA Multiples ==
    ASSUME NEW x \in Int, NEW y \in Int, NEW d \in Nat \ {0}, x < y
    PROVE  d * x + d <= d * y
<1>1. d * (x + 1) = d * x + d
  BY Z3
<1>2. x + 1 <= y
  OBVIOUS
<1>3. ASSUME NEW z \in Int, z <= y PROVE d * z <= d * y
  BY <1>3, Z3
<1> QED BY <1>1, <1>2, <1>3

LEMMA DaysPass ==
    ASSUME NEW x \in Nat, NEW y \in Nat, NEW d \in Nat \ {0}, x < y
    PROVE  d * x + d <= d * y
<1>1. x \in Int /\ y \in Int
  OBVIOUS
<1> QED BY <1>1, Multiples

LEMMA LaterDay ==
    ASSUME NEW a \in Nat, NEW b \in Nat, NEW d \in Nat \ {0}, a <= b
    PROVE  /\ a \div d <= b \div d
           /\ a \div d = b \div d => a % d <= b % d
<1>1. /\ a = d * (a \div d) + (a % d) /\ a % d \in 0 .. d - 1 /\ a \div d \in Nat
      /\ b = d * (b \div d) + (b % d) /\ b % d \in 0 .. d - 1 /\ b \div d \in Nat
  BY DayAndTick
<1>2. ASSUME b \div d < a \div d PROVE FALSE
  <2>1. d * (b \div d) + d <= d * (a \div d)
    BY <1>1, <1>2, DaysPass
  <2> DEFINE x == d * (a \div d)
             y == d * (b \div d)
  <2>2. x \in Nat /\ y \in Nat
    BY <1>1
  <2>3. a = x + (a % d) /\ b = y + (b % d) /\ y + d <= x
    BY <1>1, <2>1
  <2> HIDE DEF x, y
  <2>4. a % d \in Nat /\ b % d \in Nat /\ d \in Nat /\ b % d < d
    BY <1>1
  <2> HIDE DEF x, y
  <2>5. y + d <= x + (a % d)
    BY <2>2, <2>3, <2>4
  <2> QED BY <2>2, <2>3, <2>4, <2>5
<1>3. ASSUME a \div d = b \div d PROVE a % d <= b % d
  BY <1>1, <1>3
<1> QED BY <1>1, <1>2, <1>3

\* The same of any integer.
LEMMA Division ==
    ASSUME NEW a \in Int, NEW d \in Nat \ {0}
    PROVE  a = d * (a \div d) + (a % d) /\ a % d \in 0 .. d - 1 /\ a \div d \in Int
OBVIOUS

\* The remainder of a number is the only one that leaves whole days, or weeks.
LEMMA Remainder ==
    ASSUME NEW m \in Nat \ {0}, NEW q \in Int, NEW r \in 0 .. m - 1
    PROVE  (m * q + r) % m = r
<1> DEFINE x == m * q + r
           p == x \div m
           b == x % m
<1>1. x \in Int
  BY Z3
<1>2. x = m * p + b /\ b \in 0 .. m - 1 /\ p \in Int
  BY <1>1, Division
<1> DEFINE y == m * q
           z == m * p
<1>3. y \in Int /\ z \in Int
  BY <1>2, Z3
<1>4. x = y + r /\ x = z + b
  BY <1>2
<1>5. (p < q => z + m <= y) /\ (q < p => y + m <= z)
  BY <1>2, Multiples
<1>6. p = q
  <2>1. p \in Int /\ b \in 0 .. m - 1 /\ b \in Nat
    BY <1>2
  <2> HIDE DEF x, y, z, p, b
  <2>2. ~(p < q)
    BY <1>3, <1>4, <1>5, <2>1
  <2>3. ~(q < p)
    BY <1>3, <1>4, <1>5, <2>1
  <2> QED BY <2>1, <2>2, <2>3
<1>7. b = r
  <2>1. y + r = y + b /\ b \in Nat
    BY <1>2, <1>4, <1>6
  <2> HIDE DEF y, b
  <2> QED BY <1>3, <2>1
<1> QED BY <1>7

\* Two numbers less than m apart that leave the same remainder are one.
LEMMA SameRemainder ==
    ASSUME NEW m \in Nat \ {0}, NEW x \in Int, NEW y \in Int,
           x % m = y % m, x < y + m, y < x + m
    PROVE  x = y
<1> DEFINE p == x \div m
           q == y \div m
           r == y % m
           u == m * p
           v == m * q
<1>1. p \in Int /\ q \in Int /\ r \in 0 .. m - 1 /\ x = u + r /\ y = v + r
  BY Division
<1>2. u \in Int /\ v \in Int
  BY <1>1, Z3
<1>3. (p < q => u + m <= v) /\ (q < p => v + m <= u)
  BY <1>1, Multiples
<1>4. p = q => u = v
  OBVIOUS
<1> HIDE DEF p, q, r, u, v
<1> QED BY <1>1, <1>2, <1>3, <1>4

\* The weekday of a schedule comes within a week of a day d, and on no day between.
LEMMA Weekday ==
    ASSUME NEW m \in Nat \ {0}, NEW d \in Nat, NEW w \in 0 .. m - 1
    PROVE  /\ (w - d) % m \in 0 .. m - 1
           /\ (d + ((w - d) % m)) % m = w
           /\ \A e \in d .. d + m - 1 : e % m = w => e = d + ((w - d) % m)
<1> DEFINE r == (w - d) % m
           p == (w - d) \div m
<1>1. w - d \in Int
  OBVIOUS
<1>2. w - d = m * p + r /\ r \in 0 .. m - 1 /\ p \in Int
  BY <1>1, Division
<1>3. d + r = m * (-p) + w
  <2>1. m * (-p) = -(m * p) /\ m * p \in Int
    BY <1>2, Z3
  <2> DEFINE z == m * p
  <2> HIDE DEF z, r
  <2>2. w - d = z + r /\ z \in Int /\ r \in Int
    BY <1>2, <2>1 DEF z
  <2>3. d + r = (-z) + w
    BY <2>2
  <2> QED BY <2>1, <2>3 DEF z
<1>4. (d + r) % m = w
  <2>1. -p \in Int
    BY <1>2
  <2>2. (m * (-p) + w) % m = w
    BY <2>1, Remainder
  <2> QED BY <1>3, <2>2
<1> HIDE DEF r
<1>5. ASSUME NEW e \in d .. d + m - 1, e % m = w PROVE e = d + r
  <2>1. r \in Int /\ d + r \in Int /\ e \in Int /\ e < (d + r) + m /\ d + r < e + m
    BY <1>2
  <2> QED BY <1>4, <1>5, <2>1, SameRemainder
<1> QED BY <1>2, <1>4, <1>5 DEF r

LEMMA WeekLater ==
    ASSUME NEW m \in Nat \ {0}, NEW x \in Int
    PROVE  (x + m) % m = x % m
<1> DEFINE p == x \div m
           r == x % m
<1>1. x = m * p + r /\ r \in 0 .. m - 1 /\ p \in Int
  BY Division
<1> HIDE DEF p, r
<1>2. m * (p + 1) = m * p + m /\ m * p \in Int
  BY <1>1, Z3
<1>3. (m * (p + 1) + r) % m = r
  BY <1>1, Remainder
<1>4. x + m = m * (p + 1) + r
  <2> DEFINE u == m * p
             v == m * (p + 1)
  <2>1. x = u + r /\ v = u + m /\ u \in Int /\ r \in Int /\ m \in Int
    BY <1>1, <1>2
  <2> HIDE DEF u, v, r
  <2>2. x + m = v + r
    BY <2>1
  <2> QED BY <2>2 DEF v
<1> HIDE DEF r, p
<1>5. (x + m) % m = r
  BY <1>3, <1>4
<1> QED BY <1>5 DEF r

-----------------------------------------------------------------------------
(* Scheduled jobs                                                          *)

Histories == [byHand : Nat, edits : Nat, since : Nat]

\* What the runs since a job was last written say of its row.
Agree(job, h) ==
    job.schedule.type = "once" =>
        /\ h.since <= 1
        /\ job.completed <=> h.since = 1
        /\ job.completed => ~job.enabled

JobsInv ==
    /\ table = [j \in Jobs |-> table[j]]
    /\ history \in [Jobs -> Histories]
    /\ \A e \in editing : e.job \in Jobs
    /\ \A j \in Jobs : Exists(j) => Agree(table[j], history[j])

-----------------------------------------------------------------------------

\* A history with its counts changed is one, too.
LEMMA Counted ==
    ASSUME NEW h \in Histories
    PROVE  /\ [h EXCEPT !.byHand = @ + 1] \in Histories
           /\ [h EXCEPT !.byHand = @ + 1].since = h.since
           /\ [h EXCEPT !.since = @ + 1] \in Histories
           /\ [h EXCEPT !.since = @ + 1].since = h.since + 1
           /\ h.since \in Nat
BY DEF Histories

\* So is that of a job which is written.
LEMMA WrittenHistory ==
    ASSUME NEW h \in Histories
    PROVE  /\ [h EXCEPT !.edits = @ + 1, !.since = 0] \in Histories
           /\ [h EXCEPT !.edits = @ + 1, !.since = 0].since = 0
<1> DEFINE g == [h EXCEPT !.edits = @ + 1]
<1>1. g \in Histories
  BY DEF Histories
<1>2. [h EXCEPT !.edits = @ + 1, !.since = 0] = [g EXCEPT !.since = 0]
  OBVIOUS
<1> HIDE DEF g
<1> QED BY <1>1, <1>2 DEF Histories

\* Running a job that has not run counts, and a one-time job is then over.
LEMMA ExecutedAgrees ==
    ASSUME NEW job, NEW h \in Histories, Agree(job, h), ~job.completed
    PROVE  Agree(Executed(job), [h EXCEPT !.since = @ + 1])
<1>1. [h EXCEPT !.since = @ + 1].since = h.since + 1 /\ h.since \in Nat
  BY Counted
<1>2. CASE job.schedule.type = "once"
  <2>1. Executed(job) = Row(job.schedule, now, FALSE, TRUE) /\ h.since = 0
    BY <1>1, <1>2 DEF Executed, Agree
  <2> QED BY <1>1, <2>1 DEF Agree, Row
<1>3. CASE job.schedule.type # "once"
  <2>1. Executed(job).schedule = job.schedule
    BY <1>3 DEF Executed, Row
  <2> QED BY <1>3, <2>1 DEF Agree
<1> QED BY <1>2, <1>3

\* What only one job and its history change of.
LEMMA OneChanges ==
    ASSUME JobsInv, NEW j \in Jobs, NEW job, NEW h \in Histories,
           table' = [table EXCEPT ![j] = job], history' = [history EXCEPT ![j] = h],
           editing' \subseteq editing,
           job = Nothing \/ Agree(job, h)
    PROVE  JobsInv'
<1>1. \A k \in Jobs : /\ table'[k] = IF k = j THEN job ELSE table[k]
                      /\ history'[k] = IF k = j THEN h ELSE history[k]
  BY DEF JobsInv
<1>2. table' = [k \in Jobs |-> table'[k]] /\ history' \in [Jobs -> Histories]
  BY DEF JobsInv
<1>3. \A k \in Jobs : Exists(k)' => Agree(table'[k], history'[k])
  BY <1>1 DEF JobsInv, Exists
<1>4. \A e \in editing' : e.job \in Jobs
  BY DEF JobsInv
<1> QED BY <1>2, <1>3, <1>4 DEF JobsInv, Agree

LEMMA RunByHand ==
    ASSUME JobsInv, NEW j \in Jobs, RunScheduledJobNow(j) PROVE JobsInv'
<1> DEFINE counted == [history[j] EXCEPT !.byHand = @ + 1]
           h == [counted EXCEPT !.since = @ + 1]
<1>1. history[j] \in Histories /\ Agree(table[j], history[j]) /\ ~table[j].completed
  BY DEF JobsInv, RunScheduledJobNow, MayRun
<1>2. counted \in Histories /\ counted.since = history[j].since /\ h \in Histories
  BY <1>1, Counted
<1>3. Agree(table[j], counted)
  BY <1>1, <1>2 DEF Agree
<1>4. Agree(Executed(table[j]), h)
  BY <1>1, <1>2, <1>3, ExecutedAgrees
<1>5. table' = [table EXCEPT ![j] = Executed(table[j])] /\ editing' = editing
  BY DEF RunScheduledJobNow
<1>6. history' = [history EXCEPT ![j] = h]
  BY <1>1 DEF RunScheduledJobNow, JobsInv, Histories
<1> HIDE DEF h
<1> QED BY <1>2, <1>4, <1>5, <1>6, OneChanges

LEMMA Tick ==
    ASSUME JobsInv, ProcessDueJobs PROVE JobsInv'
<1>1. \A j \in Jobs : history[j] \in Histories
  BY DEF JobsInv
<1>2. \A j \in Jobs :
        /\ table'[j] = IF Due(j) THEN Executed(table[j]) ELSE table[j]
        /\ history'[j] = IF Due(j) THEN [history[j] EXCEPT !.since = @ + 1] ELSE history[j]
  BY DEF ProcessDueJobs
<1>3. history' \in [Jobs -> Histories] /\ table' = [j \in Jobs |-> table'[j]] /\ editing' = editing
  BY <1>1 DEF ProcessDueJobs, Histories
<1>4. ASSUME NEW j \in Jobs, Exists(j)' PROVE Agree(table'[j], history'[j])
  <2>1. CASE Due(j)
    <3>1. Agree(table[j], history[j]) /\ ~table[j].completed /\ history[j] \in Histories
      BY <1>1, <2>1 DEF Due, JobsInv
    <3>2. Agree(Executed(table[j]), [history[j] EXCEPT !.since = @ + 1])
      BY <3>1, ExecutedAgrees
    <3> QED BY <1>2, <2>1, <3>2
  <2>2. CASE ~Due(j)
    BY <1>2, <1>4, <2>2 DEF JobsInv, Exists
  <2> QED BY <2>1, <2>2
<1> QED BY <1>3, <1>4 DEF JobsInv

LEMMA EditStep ==
    ASSUME JobsInv, NEW e \in editing, Written(e) PROVE JobsInv'
<1> DEFINE job == Row(e.schedule, Prepared(e.schedule, e.asked, now), e.enabled, FALSE)
           h == [history[e.job] EXCEPT !.edits = @ + 1, !.since = 0]
<1>1. e.job \in Jobs
  BY DEF JobsInv
<1>2. CASE e.new \/ Exists(e.job)
  <2>0. history[e.job] \in Histories
    BY <1>1 DEF JobsInv
  <2>1. h \in Histories /\ h.since = 0
    BY <2>0, WrittenHistory
  <2>2. Agree(job, h)
    <3>1. job.completed = FALSE
      BY DEF Row
    <3> HIDE DEF job, h
    <3> QED BY <2>1, <3>1 DEF Agree
  <2>3. table' = [table EXCEPT ![e.job] = job] /\ editing' \subseteq editing
    BY <1>2 DEF Written
  <2>4. history' = [history EXCEPT ![e.job] = h]
    BY <1>1, <1>2, <2>0 DEF Written, JobsInv, Histories
  <2> HIDE DEF job, h
  <2> QED BY <1>1, <2>1, <2>2, <2>3, <2>4, OneChanges
<1>3. CASE ~(e.new \/ Exists(e.job))
  BY <1>3 DEF Written, JobsInv, Exists
<1> QED BY <1>2, <1>3

LEMMA DeleteStep ==
    ASSUME JobsAssumption, JobsInv, NEW j \in Jobs, DeleteScheduledJob(j) PROVE JobsInv'
<1>1. [history[j] EXCEPT !.edits = MaxEdits] \in Histories
  BY ZenonT(30) DEF JobsAssumption, JobsInv, Histories
<1>2. history' = [history EXCEPT ![j] = [history[j] EXCEPT !.edits = MaxEdits]]
  BY DEF DeleteScheduledJob, JobsInv, Histories
<1> QED BY <1>1, <1>2, OneChanges DEF DeleteScheduledJob

LEMMA ToggleStep ==
    ASSUME JobsInv, NEW j \in Jobs, ToggleScheduledJob(j) PROVE JobsInv'
<1> DEFINE job == Row(table[j].schedule, Resumed(table[j]), ~table[j].enabled, table[j].completed)
<1>1. history[j] \in Histories /\ Agree(table[j], history[j])
  BY DEF JobsInv, ToggleScheduledJob
<1>2. job.schedule = table[j].schedule /\ job.completed = table[j].completed
  BY DEF Row
<1>3. table' = [table EXCEPT ![j] = job] /\ (table[j].completed => table[j].enabled)
  BY DEF ToggleScheduledJob
<1>4. history' = [history EXCEPT ![j] = history[j]] /\ editing' \subseteq editing
  BY DEF ToggleScheduledJob, JobsInv
<1> HIDE DEF job
<1>5. Agree(job, history[j])
  BY <1>1, <1>2, <1>3 DEF Agree
<1> QED BY <1>1, <1>3, <1>4, <1>5, OneChanges

LEMMA JobsStep ==
    ASSUME JobsAssumption, JobsInv, [JobsNext]_jobsVars PROVE JobsInv'
<1>1. ASSUME NEW j \in Jobs, NEW s \in Schedules, NEW asked \in Dates, NEW enabled \in BOOLEAN,
             CreateScheduledJob(j, s, asked, enabled) \/ UpdateScheduledJob(j, s, asked, enabled)
      PROVE  JobsInv'
  BY <1>1 DEF CreateScheduledJob, UpdateScheduledJob, Accepts, JobsInv, Exists
<1>2. CASE Passes \/ UNCHANGED jobsVars
  BY <1>2 DEF Passes, jobsVars, JobsInv, Exists
<1> QED BY <1>1, <1>2, Tick, RunByHand, EditStep, DeleteStep, ToggleStep DEF JobsNext

-----------------------------------------------------------------------------

(* A one-time job (executeScheduledJob, ToggleScheduledJob, UpdateScheduledJob *)
(* of sqlite/workspace.go) runs once for each time that its user scheduled it, *)
(* and is off afterwards.                                                      *)
THEOREM OnceIsOnce ==
    ASSUME JobsAssumption PROVE JobsSpec => []OnceRunsOnce
<1>1. JobsInit => JobsInv
  BY DEF JobsInit, JobsInv, Exists, NoHistory, Histories
<1>2. JobsInv /\ [JobsNext]_jobsVars => JobsInv'
  BY JobsStep
<1>3. JobsInv => OnceRunsOnce
  BY DEF JobsInv, OnceRunsOnce, Agree
<1> QED BY <1>1, <1>2, <1>3, PTL DEF JobsSpec

-----------------------------------------------------------------------------
(* The calendar of jobs                                                    *)

At(d, c) == d * Day + c

\* The day of a month on which a job of that month runs, and the month of a day.
DayIn(s, m) == MonthBegins[m] + Min({s.day, LengthOf(m)}) - 1
MonthOn(d) == CHOOSE m \in Months : MonthBegins[m] <= d /\ d < MonthBegins[m + 1]
Calendar == MonthBegins[Len(MonthBegins)]

DayMeant(s, d) ==
    CASE s.type = "daily"   -> TRUE
      [] s.type = "weekly"  -> d % Week = s.weekday
      [] s.type = "monthly" -> d = DayIn(s, MonthOn(d))

Recurs(s) == s.type \in {"daily", "weekly", "monthly"}

\* n is the first time after t that the schedule means.
First(s, next, t, n) ==
    /\ n \in Nat /\ n > t /\ Meant(s, next, n)
    /\ \A u \in (t + 1) .. (n - 1) : ~Meant(s, next, u)

LEMMA OneFirst ==
    ASSUME NEW s, NEW t \in Nat, NEW n, NEW m, NEW a,
           First(s, a, t, n), First(s, a, t, m)
    PROVE  n = m
<1>1. n \in Nat /\ m \in Nat /\ n > t /\ m > t
  BY DEF First
<1>2. ~(n < m)
  BY <1>1 DEF First
<1>3. ~(m < n)
  BY <1>1 DEF First
<1> QED BY <1>1, <1>2, <1>3

\* What is first after t is first after every later moment before it.
LEMMA StillFirst ==
    ASSUME NEW s, NEW t \in Nat, NEW u \in Nat, NEW n, NEW a,
           First(s, a, t, n), t <= u, u < n
    PROVE  First(s, a, u, n)
BY DEF First

LEMMA TimeOfDay ==
    ASSUME JobsAssumption, NEW d \in Nat, NEW c \in 0 .. Day - 1
    PROVE  At(d, c) \in Nat /\ DayOf(At(d, c)) = d /\ At(d, c) % Day = c
<1>1. Day \in Nat \ {0}
  BY DEF JobsAssumption
<1> DEFINE t == At(d, c)
<1>2. t = Day * d + c /\ t \in Nat
  BY <1>1, Z3 DEF At
<1>3. t = Day * (t \div Day) + (t % Day) /\ t % Day \in 0 .. Day - 1 /\ t \div Day \in Nat
  BY <1>1, <1>2, DayAndTick
<1> DEFINE e == t \div Day
           r == t % Day
           x == Day * d
           y == Day * e
<1>4. x \in Nat /\ y \in Nat
  BY <1>1, <1>3, Z3
<1>5. ~(d < e)
  <2>1. d < e => x + Day <= y
    BY <1>1, <1>3, DaysPass
  <2>2. t = x + c /\ t = y + r /\ r \in 0 .. Day - 1 /\ Day \in Nat
    BY <1>1, <1>2, <1>3
  <2> HIDE DEF x, y, r, t
  <2> QED BY <1>4, <2>1, <2>2
<1>6. ~(e < d)
  <2>1. e < d => y + Day <= x
    BY <1>1, <1>3, DaysPass
  <2>2. t = x + c /\ t = y + r /\ r \in 0 .. Day - 1 /\ Day \in Nat
    BY <1>1, <1>2, <1>3
  <2> HIDE DEF x, y, r, t
  <2> QED BY <1>4, <2>1, <2>2
<1>7. e = d
  <2>1. e \in Nat
    BY <1>3
  <2> HIDE DEF e
  <2> QED BY <1>5, <1>6, <2>1
<1>8. x + c = x + r /\ r \in Nat
  BY <1>2, <1>3, <1>7
<1>9. r = c
  <2> HIDE DEF x, r
  <2> QED BY <1>4, <1>8
<1> QED BY <1>2, <1>7, <1>9 DEF DayOf

LEMMA EveryTime ==
    ASSUME JobsAssumption, NEW t \in Nat
    PROVE  t = At(DayOf(t), t % Day) /\ DayOf(t) \in Nat /\ t % Day \in 0 .. Day - 1
<1>1. Day \in Nat \ {0}
  BY DEF JobsAssumption
<1>2. t = Day * (t \div Day) + (t % Day) /\ t % Day \in 0 .. Day - 1 /\ t \div Day \in Nat
  BY <1>1, DayAndTick
<1> DEFINE e == t \div Day
<1>3. Day * e = e * Day
  <2>1. e \in Nat
    BY <1>2
  <2> HIDE DEF e
  <2> QED BY <1>1, <2>1, Z3
<1> QED BY <1>2, <1>3 DEF At, DayOf

LEMMA LaterTime ==
    ASSUME JobsAssumption, NEW t \in Nat, NEW u \in Nat, t < u
    PROVE  DayOf(t) <= DayOf(u)
<1>1. Day \in Nat \ {0} /\ t <= u
  BY DEF JobsAssumption
<1>2. t \div Day <= u \div Day
  BY <1>1, LaterDay
<1> QED BY <1>2 DEF DayOf

LEMMA DaysInOrder ==
    ASSUME JobsAssumption, NEW d \in Nat, NEW e \in Nat, d < e,
           NEW b \in 0 .. Day - 1, NEW c \in 0 .. Day - 1
    PROVE  At(d, b) < At(e, c)
<1>1. Day \in Nat \ {0}
  BY DEF JobsAssumption
<1>2. Day * d + Day <= Day * e
  BY <1>1, DaysPass
<1> DEFINE x == Day * d
           y == Day * e
<1>3. x \in Nat /\ y \in Nat /\ At(d, b) = x + b /\ At(e, c) = y + c
  BY <1>1, Z3 DEF At
<1>4. x + Day <= y
  BY <1>2
<1> HIDE DEF x, y
<1> QED BY <1>1, <1>3, <1>4

\* A set of natural numbers that is not empty has a least one.
LEMMA Least ==
    ASSUME NEW S \in SUBSET Nat, S # {}
    PROVE  \E n \in S : \A i \in S : n <= i
<1> DEFINE T == {1 .. n : n \in S}
           R == StrictSubsetOrdering(Nat)
<1>1. T \subseteq FiniteSubsetsOf(Nat) /\ T # {}
  <2>1. \A n \in S : IsFiniteSet(1 .. n) /\ 1 .. n \subseteq Nat
    BY FS_Interval
  <2> QED BY <2>1 DEF FiniteSubsetsOf
<1>2. PICK x \in T : \A y \in T : <<y, x>> \notin R
  <2>1. IsWellFoundedOn(R, FiniteSubsetsOf(Nat))
    BY FS_StrictSubsetOrderingWellFounded
  <2> HIDE DEF T, R
  <2> QED BY <1>1, <2>1, WFMin
<1>3. PICK n \in S : x = 1 .. n
  OBVIOUS
<1>4. ASSUME NEW i \in S, i < n PROVE FALSE
  <2>1. i \in Nat /\ n \in Nat
    OBVIOUS
  <2>2. 1 .. i \subseteq 1 .. n /\ n \in 1 .. n /\ n \notin 1 .. i
    BY <1>4, <2>1
  <2>3. <<1 .. i, 1 .. n>> \in R
    BY <2>1, <2>2 DEF StrictSubsetOrdering
  <2> QED BY <1>2, <1>3, <2>3
<1>5. \A i \in S : ~(i < n) => n <= i
  OBVIOUS
<1> QED BY <1>4, <1>5

LEMMA Smaller ==
    ASSUME NEW a \in Nat, NEW b \in Nat
    PROVE  Min({a, b}) = IF a <= b THEN a ELSE b
<1> DEFINE c == IF a <= b THEN a ELSE b
<1>1. c \in {a, b} /\ \A y \in {a, b} : c <= y
  OBVIOUS
<1>2. \A x \in {a, b} : (\A y \in {a, b} : x <= y) => x = c
  BY <1>1
<1> HIDE DEF c
<1>3. Min({a, b}) \in {a, b} /\ \A y \in {a, b} : Min({a, b}) <= y
  BY <1>1 DEF Min
<1> QED BY <1>2, <1>3 DEF c

\* Every day before the calendar ends is in one month.
LEMMA MonthOfDay ==
    ASSUME JobsAssumption, NEW d \in Nat, d < Calendar
    PROVE  /\ MonthOn(d) \in Months
           /\ MonthBegins[MonthOn(d)] \in Nat /\ MonthBegins[MonthOn(d) + 1] \in Nat
           /\ MonthBegins[MonthOn(d)] <= d /\ d < MonthBegins[MonthOn(d) + 1]
<1> DEFINE last == Len(MonthBegins)
           Past == {i \in 1 .. last : MonthBegins[i] > d}
<1>1. last \in Nat /\ last > 1 /\ DOMAIN MonthBegins = 1 .. last
      /\ \A i \in 1 .. last : MonthBegins[i] \in Nat
  BY DEF JobsAssumption
<1>2. last \in Past
  BY <1>1 DEF Calendar
<1>3. PICK n \in Past : \A i \in Past : n <= i
  <2>1. Past \subseteq Nat
    BY <1>1
  <2> HIDE DEF Past
  <2> QED BY <1>2, <2>1, Least
<1>4. n # 1
  BY DEF JobsAssumption
<1>5. n - 1 \in Months /\ MonthBegins[n - 1] <= d /\ d < MonthBegins[(n - 1) + 1]
  <2>1. n \in 1 .. last /\ n - 1 \in 1 .. last /\ n - 1 < n /\ (n - 1) + 1 = n
    BY <1>1, <1>4
  <2>2. n - 1 \notin Past
    BY <1>3, <2>1
  <2> QED BY <1>1, <2>1, <2>2 DEF Months
<1>6. MonthOn(d) \in Months /\ MonthBegins[MonthOn(d)] <= d /\ d < MonthBegins[MonthOn(d) + 1]
  BY <1>5 DEF MonthOn
<1> QED BY <1>1, <1>6 DEF Months

\* What a schedule means of a time is a clock and a day.
LEMMA MeantByDay ==
    ASSUME JobsAssumption, NEW s \in Schedules, Recurs(s),
           NEW u \in Nat, s.type = "monthly" => DayOf(u) < Calendar, NEW a
    PROVE  Meant(s, a, u) <=> u % Day = s.clock /\ DayMeant(s, DayOf(u))
<1> DEFINE d == DayOf(u)
<1>1. CASE s.type # "monthly"
  BY <1>1 DEF Meant, DayMeant, Recurs
<1>2. CASE s.type = "monthly"
  <2> DEFINE m == MonthOn(d)
             dom == d - MonthBegins[m] + 1
  <2>1. d \in Nat
    BY EveryTime
  <2>2. /\ MonthOf(u) = m /\ m \in Months /\ MonthBegins[m] \in Nat /\ MonthBegins[m + 1] \in Nat
        /\ MonthBegins[m] <= d /\ d < MonthBegins[m + 1]
    BY <1>2, <2>1, MonthOfDay DEF MonthOf, MonthOn
  <2>3. s.day \in Nat \ {0}
    BY <1>2 DEF JobsAssumption
  <2>4. LengthOf(m) \in Nat \ {0} /\ dom <= LengthOf(m) /\ dom \in Nat
    <3> HIDE DEF m, d
    <3> QED BY <2>1, <2>2 DEF LengthOf
  <2>5. d = DayIn(s, m) <=> dom = s.day \/ (s.day > dom /\ dom = LengthOf(m))
    <3>1. Min({s.day, LengthOf(m)}) = IF s.day <= LengthOf(m) THEN s.day ELSE LengthOf(m)
      BY <2>3, <2>4, Smaller
    <3>2. d = DayIn(s, m) <=> dom = Min({s.day, LengthOf(m)})
      <4>1. Min({s.day, LengthOf(m)}) \in Nat
        BY <2>3, <2>4, <3>1
      <4> HIDE DEF m, d
      <4> QED BY <2>1, <2>2, <4>1 DEF DayIn
    <3> HIDE DEF dom
    <3> QED BY <2>3, <2>4, <3>1, <3>2
  <2>6. Meant(s, a, u) <=> u % Day = s.clock /\ (dom = s.day \/ (s.day > dom /\ dom = LengthOf(m)))
    BY <1>2, <2>2 DEF Meant
  <2>7. DayMeant(s, d) <=> d = DayIn(s, m)
    BY <1>2 DEF DayMeant
  <2> QED BY <2>5, <2>6, <2>7
<1> QED BY <1>1, <1>2

LEMMA FirstByDay ==
    ASSUME JobsAssumption, NEW s \in Schedules, Recurs(s), NEW a, NEW t \in Nat,
           NEW e \in Nat, DayOf(t) <= e, DayMeant(s, e), s.type = "monthly" => e < Calendar,
           At(e, s.clock) > t,
           \A d \in DayOf(t) .. e - 1 : DayMeant(s, d) => At(d, s.clock) <= t
    PROVE  First(s, a, t, At(e, s.clock))
<1> DEFINE n == At(e, s.clock)
<1>1. s.clock \in 0 .. Day - 1 /\ Day \in Nat \ {0} /\ DayOf(t) \in Nat
  BY EveryTime DEF JobsAssumption, Recurs
<1>2. n \in Nat /\ DayOf(n) = e /\ n % Day = s.clock
  BY <1>1, TimeOfDay
<1>3. Meant(s, a, n)
  <2> HIDE DEF n
  <2> QED BY <1>2, MeantByDay
<1>4. ASSUME NEW u \in (t + 1) .. (n - 1), Meant(s, a, u) PROVE FALSE
  <2>0. n = At(e, s.clock)
    OBVIOUS
  <2> HIDE DEF n
  <2>1. u \in Nat /\ t < u /\ u < n
    BY <1>2
  <2>2. DayOf(u) \in Nat /\ DayOf(t) <= DayOf(u) /\ DayOf(u) <= e
    <3>1. DayOf(t) <= DayOf(u) /\ DayOf(u) <= DayOf(n)
      BY <1>2, <2>1, LaterTime
    <3>2. DayOf(u) \in Nat
      BY <2>1, EveryTime
    <3> QED BY <1>2, <3>1, <3>2
  <2>3. u % Day = s.clock /\ DayMeant(s, DayOf(u))
    <3>1. Calendar \in Nat
      BY DEF JobsAssumption, Calendar
    <3>2. s.type = "monthly" => DayOf(u) < Calendar
      BY <2>2, <3>1
    <3> QED BY <1>4, <2>1, <3>2, MeantByDay
  <2>4. u = At(DayOf(u), s.clock)
    BY <2>1, <2>3, EveryTime
  <2>5. DayOf(u) # e
    BY <2>1, <2>4, <2>0
  <2>6. DayOf(u) \in DayOf(t) .. e - 1
    BY <1>1, <2>2, <2>5
  <2> QED BY <2>1, <2>3, <2>4, <2>6
<1>5. n > t
  OBVIOUS
<1> QED BY <1>2, <1>3, <1>4, <1>5 DEF First

LEMMA NextDay ==
    ASSUME JobsAssumption, NEW d \in Nat, NEW r \in Nat, NEW c \in Nat
    PROVE  At(d, c) + r * Day = At(d + r, c) /\ At(d, c) + Day = At(d + 1, c)
<1>1. Day \in Nat
  BY DEF JobsAssumption
<1> QED BY <1>1, Z3 DEF At

LEMMA NextDaily ==
    ASSUME JobsAssumption, NEW s \in Schedules, s.type = "daily", NEW a, NEW t \in Nat
    PROVE  First(s, a, t, NextCalendarOccurrence(s, t))
<1> DEFINE d == DayOf(t)
<1>1. Recurs(s) /\ s.clock \in 0 .. Day - 1 /\ d \in Nat
  BY EveryTime DEF JobsAssumption, Recurs
<1>2. t = At(d, t % Day) /\ t % Day \in 0 .. Day - 1
  BY EveryTime
<1>3. At(d, s.clock) + Day = At(d + 1, s.clock)
  <2>1. s.clock \in Nat
    BY <1>1 DEF JobsAssumption
  <2> HIDE DEF d
  <2> QED BY <1>1, <2>1, NextDay
<1>4. NextCalendarOccurrence(s, t) = IF At(d, s.clock) > t THEN At(d, s.clock) ELSE At(d + 1, s.clock)
  <2>1. NextCalendarOccurrence(s, t) = IF d * Day + s.clock > t THEN d * Day + s.clock
                                       ELSE (d * Day + s.clock) + Day
    BY Zenon DEF NextCalendarOccurrence
  <2> QED BY <1>3, <2>1 DEF At
<1>5. At(d + 1, s.clock) > t
  BY <1>1, <1>2, DaysInOrder, TimeOfDay
<1>6. \A e \in Nat : DayMeant(s, e)
  BY DEF DayMeant
<1>7. At(d, s.clock) \in Nat
  BY <1>1, TimeOfDay
<1> HIDE DEF d
<1>8. CASE At(d, s.clock) > t
  BY <1>1, <1>4, <1>6, <1>8, FirstByDay DEF d
<1>9. CASE ~(At(d, s.clock) > t)
  <2>1. \A e \in d .. (d + 1) - 1 : At(e, s.clock) <= t
    BY <1>1, <1>7, <1>9
  <2> QED BY <1>1, <1>4, <1>5, <1>6, <1>9, <2>1, FirstByDay DEF d
<1> QED BY <1>8, <1>9

LEMMA NextWeekly ==
    ASSUME JobsAssumption, NEW s \in Schedules, s.type = "weekly", NEW a, NEW t \in Nat
    PROVE  First(s, a, t, NextCalendarOccurrence(s, t))
<1> DEFINE d == DayOf(t)
           r == (s.weekday - d) % Week
           c == s.clock
<1>1. Recurs(s) /\ c \in 0 .. Day - 1 /\ c \in Nat /\ d \in Nat
  <2>1. Recurs(s) /\ c \in 0 .. Day - 1 /\ Day \in Nat
    BY DEF JobsAssumption, Recurs
  <2> HIDE DEF c
  <2> QED BY <2>1, EveryTime
<1>2. Week \in Nat \ {0} /\ s.weekday \in 0 .. Week - 1
  BY DEF JobsAssumption
<1>3. t = At(d, t % Day) /\ t % Day \in 0 .. Day - 1
  BY EveryTime
<1> HIDE DEF d
<1>4. /\ r \in 0 .. Week - 1 /\ (d + r) % Week = s.weekday
      /\ \A e \in d .. d + Week - 1 : e % Week = s.weekday => e = d + r
  BY <1>1, <1>2, Weekday
<1>5. NextCalendarOccurrence(s, t) = IF At(d, c) + r * Day > t THEN At(d, c) + r * Day
                                     ELSE (At(d, c) + r * Day) + Week * Day
  BY Zenon DEF NextCalendarOccurrence, At, d
<1> HIDE DEF r, c
<1>6. \A e : DayMeant(s, e) <=> e % Week = s.weekday
  BY DEF DayMeant
<1>7. r \in Nat /\ d + r \in Nat /\ (d + r) + Week \in Nat /\ At(d + r, c) \in Nat
  <2>1. r \in Nat /\ d + r \in Nat /\ (d + r) + Week \in Nat
    BY <1>1, <1>2, <1>4
  <2> QED BY <1>1, <2>1, TimeOfDay
<1>8. /\ At(d, c) + r * Day = At(d + r, c)
      /\ At(d + r, c) + Week * Day = At((d + r) + Week, c)
  <2>1. Week \in Nat
    BY <1>2
  <2>2. At(d, c) + r * Day = At(d + r, c)
    BY <1>1, <1>7, NextDay
  <2>3. At(d + r, c) + Week * Day = At((d + r) + Week, c)
    BY <1>1, <1>7, <2>1, NextDay
  <2> QED BY <2>2, <2>3
<1>9. CASE At(d + r, c) > t
  <2>1. ASSUME NEW e \in d .. (d + r) - 1 PROVE ~DayMeant(s, e)
    <3>1. e \in d .. d + Week - 1 /\ e # d + r
      BY <1>1, <1>2, <1>4, <1>7
    <3>2. e % Week # s.weekday
      BY <1>4, <3>1
    <3> QED BY <1>6, <3>2
  <2>2. First(s, a, t, At(d + r, c))
    <3> DEFINE n == d + r
    <3>1. n \in Nat /\ d <= n /\ DayMeant(s, n)
      BY <1>1, <1>4, <1>6, <1>7
    <3>2. \A e \in d .. n - 1 : DayMeant(s, e) => At(e, c) <= t
      BY <2>1
    <3>3. At(n, c) > t
      BY <1>9
    <3> HIDE DEF n
    <3>4. First(s, a, t, At(n, c))
      BY <1>1, <3>1, <3>2, <3>3, FirstByDay DEF c, d
    <3> QED BY <3>4 DEF n
  <2> QED BY <1>5, <1>8, <1>9, <2>2
<1>10. CASE ~(At(d + r, c) > t)
  <2> DEFINE n == (d + r) + Week
  <2>1. r = 0
    <3>1. d < d + r => t < At(d + r, c)
      <4>1. d < d + r => At(d, t % Day) < At(d + r, c)
        BY <1>1, <1>3, <1>7, DaysInOrder
      <4> QED BY <1>3, <4>1
    <3> QED BY <1>1, <1>7, <1>10, <3>1
  <2>2. n = d + Week /\ At(d, c) <= t
    BY <1>1, <1>2, <1>7, <1>10, <2>1
  <2>3. n % Week = s.weekday
    <3>1. (n - Week) % Week = s.weekday
      BY <1>1, <1>2, <1>4, <1>7
    <3> QED BY <1>2, <1>7, <3>1, WeekLater
  <2>4. \A e \in d .. n - 1 : DayMeant(s, e) => At(e, c) <= t
    BY <1>1, <1>2, <1>4, <1>6, <2>1, <2>2
  <2>5. At(n, c) > t
    <3>1. At(d, t % Day) < At(n, c)
      BY <1>1, <1>2, <1>3, <2>2, DaysInOrder
    <3> QED BY <1>3, <3>1
  <2>6. First(s, a, t, At(n, c))
    <3>1. n \in Nat /\ d <= n
      BY <1>1, <1>2, <2>2
    <3> HIDE DEF n
    <3> QED BY <1>1, <1>6, <2>3, <2>4, <2>5, <3>1, FirstByDay DEF c, d
  <2> QED BY <1>5, <1>8, <1>10, <2>6
<1> QED BY <1>9, <1>10

\* The first days of the months.
LEMMA Begins ==
    ASSUME JobsAssumption
    PROVE  /\ Len(MonthBegins) \in Nat /\ Len(MonthBegins) > 1 /\ MaxTime \in Nat /\ Day \in Nat
           /\ \A m \in 1 .. Len(MonthBegins) : MonthBegins[m] \in Nat
           /\ \A m, n \in 1 .. Len(MonthBegins) :
                /\ m < n => MonthBegins[m] < MonthBegins[n]
                /\ m <= n => MonthBegins[m] <= MonthBegins[n]
<1>1. /\ Len(MonthBegins) \in Nat /\ Len(MonthBegins) > 1
      /\ DOMAIN MonthBegins = 1 .. Len(MonthBegins)
      /\ \A m \in 1 .. Len(MonthBegins) : MonthBegins[m] \in Nat
  BY SMTT(20) DEF JobsAssumption
<1>2. \A m, n \in 1 .. Len(MonthBegins) : m < n => MonthBegins[m] < MonthBegins[n]
  BY <1>1 DEF JobsAssumption
<1>3. ASSUME NEW m \in 1 .. Len(MonthBegins), NEW n \in 1 .. Len(MonthBegins), m <= n
      PROVE  MonthBegins[m] <= MonthBegins[n]
  <2>1. m = n \/ m < n
    BY <1>3
  <2> QED BY <1>1, <1>2, <2>1
<1>4. MaxTime \in Nat /\ Day \in Nat
  BY DEF JobsAssumption
<1> QED BY <1>1, <1>2, <1>3, <1>4

LEMMA OneMonth ==
    ASSUME JobsAssumption, NEW d \in Nat, NEW m \in Months,
           MonthBegins[m] <= d, d < MonthBegins[m + 1]
    PROVE  d < Calendar /\ MonthOn(d) = m
<1> DEFINE last == Len(MonthBegins)
<1>1. m \in 1 .. last /\ m + 1 \in 1 .. last /\ m + 1 <= last /\ last \in 1 .. last
  BY Begins DEF Months
<1>2. MonthBegins[m + 1] <= MonthBegins[last] /\ MonthBegins[m + 1] \in Nat
      /\ MonthBegins[last] \in Nat
  BY <1>1, Begins
<1>3. d < Calendar
  BY <1>2 DEF Calendar
<1> DEFINE k == MonthOn(d)
<1>4. k \in Months /\ MonthBegins[k] <= d /\ d < MonthBegins[k + 1]
  BY <1>3, MonthOfDay
<1> HIDE DEF k
<1>5. k \in 1 .. last /\ k + 1 \in 1 .. last
  BY <1>4, Begins DEF Months
<1>6. ~(k < m)
  <2>1. k < m => MonthBegins[k + 1] <= MonthBegins[m]
    <3>1. k < m => k + 1 <= m
      BY <1>1, <1>5
    <3> QED BY <1>1, <1>5, <3>1, Begins
  <2>2. MonthBegins[k + 1] \in Nat /\ MonthBegins[m] \in Nat
    BY <1>1, <1>5, Begins
  <2> QED BY <1>4, <2>1, <2>2
<1>7. ~(m < k)
  <2>1. m < k => MonthBegins[m + 1] <= MonthBegins[k]
    <3>1. m < k => m + 1 <= k
      BY <1>1, <1>5
    <3> QED BY <1>1, <1>5, <3>1, Begins
  <2>2. MonthBegins[m + 1] \in Nat /\ MonthBegins[k] \in Nat
    BY <1>1, <1>5, Begins
  <2> QED BY <1>4, <2>1, <2>2
<1>8. k = m
  BY <1>1, <1>5, <1>6, <1>7
<1> QED BY <1>3, <1>8 DEF k

\* The day on which a job of a month runs is in that month.
LEMMA DayOfMonth ==
    ASSUME JobsAssumption, NEW s \in Schedules, s.type = "monthly", NEW m \in Months
    PROVE  /\ DayIn(s, m) \in Nat /\ DayIn(s, m) < Calendar
           /\ MonthBegins[m] <= DayIn(s, m) /\ DayIn(s, m) < MonthBegins[m + 1]
           /\ MonthOn(DayIn(s, m)) = m /\ DayMeant(s, DayIn(s, m))
           /\ InMonth(s, m) = At(DayIn(s, m), s.clock)
<1> DEFINE length == LengthOf(m)
           least == Min({s.day, LengthOf(m)})
<1>1. m \in 1 .. Len(MonthBegins) /\ m + 1 \in 1 .. Len(MonthBegins) /\ m < m + 1
  BY Begins DEF Months
<1>2. MonthBegins[m] \in Nat /\ MonthBegins[m + 1] \in Nat /\ MonthBegins[m] < MonthBegins[m + 1]
  BY <1>1, Begins
<1>3. length \in Nat \ {0} /\ MonthBegins[m + 1] = MonthBegins[m] + length
  BY <1>2 DEF LengthOf
<1>4. s.day \in Nat \ {0}
  BY DEF JobsAssumption
<1>5. least \in Nat \ {0} /\ least <= length
  BY <1>3, <1>4, Smaller
<1>6. DayIn(s, m) = MonthBegins[m] + least - 1
  BY DEF DayIn
<1> HIDE DEF length, least
<1>7. /\ DayIn(s, m) \in Nat
      /\ MonthBegins[m] <= DayIn(s, m) /\ DayIn(s, m) < MonthBegins[m + 1]
  BY <1>2, <1>3, <1>5, <1>6
<1>8. DayIn(s, m) < Calendar /\ MonthOn(DayIn(s, m)) = m
  BY <1>7, OneMonth
<1>9. DayMeant(s, DayIn(s, m))
  BY <1>8 DEF DayMeant
<1> QED BY <1>7, <1>8, <1>9 DEF InMonth, DayIn, At

\* Before the horizon there is another month.
LEMMA MonthBefore ==
    ASSUME JobsAssumption, NEW t \in 0 .. MaxTime
    PROVE  LET m == MonthOn(DayOf(t))
           IN  /\ DayOf(t) < Calendar
               /\ MonthOf(t) = m /\ m \in Months /\ m + 1 \in Months
               /\ MonthBegins[m] <= DayOf(t) /\ DayOf(t) < MonthBegins[m + 1]
<1> DEFINE d == DayOf(t)
           last == Len(MonthBegins)
           b == MonthBegins[last - 1]
           m == MonthOn(d)
<1>1. t \in Nat /\ t < b * Day /\ last - 1 \in 1 .. last /\ last \in 1 .. last /\ last - 1 < last
  BY SMTT(20), Begins DEF JobsAssumption
<1>2. d \in Nat /\ t % Day \in 0 .. Day - 1 /\ t = At(d, t % Day) /\ 0 \in 0 .. Day - 1
  <2>1. Day \in Nat \ {0}
    BY DEF JobsAssumption
  <2> QED BY <1>1, <2>1, EveryTime
<1>3. b \in Nat /\ Calendar \in Nat /\ b < Calendar
  BY <1>1, Begins DEF Calendar
<1>4. d < b
  <2> HIDE DEF b, d
  <2>1. At(b, 0) = b * Day /\ b * Day \in Nat
    BY <1>3, Begins, Z3 DEF At
  <2>2. ~(b < d)
    <3>1. b < d => At(b, 0) < At(d, t % Day)
      BY <1>2, <1>3, DaysInOrder
    <3> QED BY <1>1, <1>2, <2>1, <3>1
  <2>3. b # d
    <3>1. b = d => t = b * Day + (t % Day)
      BY <1>2 DEF At
    <3>2. t % Day \in Nat
      BY <1>2, Begins
    <3> QED BY <1>1, <2>1, <3>1, <3>2
  <2> QED BY <1>2, <1>3, <2>2, <2>3
<1>5. d < Calendar
  BY <1>2, <1>3, <1>4
<1>6. m \in Months /\ MonthBegins[m] \in Nat /\ MonthBegins[m] <= d /\ d < MonthBegins[m + 1]
  BY <1>2, <1>5, MonthOfDay
<1>7. m + 1 \in Months
  <2> HIDE DEF m, d
  <2>1. m \in 1 .. last /\ m <= last - 1
    BY <1>6, Begins DEF Months
  <2>2. ~(last - 1 <= m)
    <3>1. last - 1 <= m => b <= MonthBegins[m]
      BY <1>1, <2>1, Begins
    <3> QED BY <1>2, <1>3, <1>4, <1>6, <3>1
  <2> QED BY <1>1, <2>1, <2>2, Begins DEF Months
<1>8. MonthOf(t) = m
  BY DEF MonthOf, MonthOn
<1> QED BY <1>5, <1>6, <1>7, <1>8

LEMMA NextMonthly ==
    ASSUME JobsAssumption, NEW s \in Schedules, s.type = "monthly", NEW a, NEW t \in 0 .. MaxTime
    PROVE  First(s, a, t, NextCalendarOccurrence(s, t))
<1> DEFINE d == DayOf(t)
           c == s.clock
           m == MonthOn(d)
           Later == {n \in Months : n >= MonthOf(t) /\ InMonth(s, n) > t}
<1>1. Recurs(s) /\ c \in 0 .. Day - 1
  BY DEF JobsAssumption, Recurs
<1>2. /\ d < Calendar /\ MonthOf(t) = m /\ m \in Months /\ m + 1 \in Months
      /\ MonthBegins[m] <= d /\ d < MonthBegins[m + 1]
  BY MonthBefore
<1>3. d \in Nat /\ t % Day \in 0 .. Day - 1 /\ t = At(d, t % Day)
  BY EveryTime, Begins
<1>4. NextCalendarOccurrence(s, t) = InMonth(s, Min(Later))
  BY Zenon DEF NextCalendarOccurrence
<1>5. m \in Nat /\ MonthBegins[m] \in Nat /\ MonthBegins[m + 1] \in Nat
  BY <1>2, Begins DEF Months
<1> HIDE DEF m, d
<1>6. InMonth(s, m + 1) > t
  <2>1. DayIn(s, m + 1) \in Nat /\ d < DayIn(s, m + 1)
    BY <1>2, <1>3, <1>5, DayOfMonth
  <2>2. At(d, t % Day) < At(DayIn(s, m + 1), c)
    BY <1>1, <1>3, <2>1, DaysInOrder
  <2>3. At(DayIn(s, m + 1), c) \in Nat
    BY <1>1, <2>1, TimeOfDay
  <2> QED BY <1>2, <1>3, <2>2, <2>3, DayOfMonth
<1> DEFINE k == IF InMonth(s, m) > t THEN m ELSE m + 1
<1>7. Min(Later) = k
  <2>1. \A n \in Later : n \in Nat /\ m <= n /\ (n = m => InMonth(s, m) > t)
    BY <1>2, <1>5, Begins DEF Months
  <2>2. k \in Later /\ \A n \in Later : k <= n
    BY <1>2, <1>5, <1>6, <2>1
  <2> HIDE DEF Later, k
  <2>3. Min(Later) \in Later /\ \A n \in Later : Min(Later) <= n
    BY <2>2 DEF Min
  <2> QED BY <2>1, <2>2, <2>3
<1>8. k \in Months /\ InMonth(s, k) > t
  BY <1>2, <1>6
<1> DEFINE e == DayIn(s, k)
<1>9. /\ e \in Nat /\ e < Calendar /\ DayMeant(s, e) /\ InMonth(s, k) = At(e, c) /\ At(e, c) > t
      /\ MonthOn(e) = k /\ e < MonthBegins[k + 1]
  BY <1>8, DayOfMonth
<1>10. d <= e
  <2> HIDE DEF e
  <2>1. ~(e < d)
    <3>1. e < d => At(e, c) < At(d, t % Day)
      BY <1>1, <1>3, <1>9, DaysInOrder
    <3>2. At(e, c) \in Nat
      BY <1>1, <1>9, TimeOfDay
    <3> QED BY <1>3, <1>9, <3>1, <3>2
  <2> QED BY <1>3, <1>9, <2>1
<1>11. ASSUME NEW x \in d .. e - 1, DayMeant(s, x) PROVE At(x, c) <= t
  <2> DEFINE n == MonthOn(x)
  <2>1. x \in Nat /\ d <= x /\ x < e /\ x < Calendar
    <3> HIDE DEF e
    <3>1. Calendar \in Nat
      BY Begins DEF Calendar
    <3> QED BY <1>3, <1>9, <3>1
  <2>2. x = DayIn(s, n)
    BY <1>11 DEF DayMeant
  <2>3. n \in Months /\ MonthBegins[n] \in Nat /\ MonthBegins[n + 1] \in Nat
        /\ MonthBegins[n] <= x /\ x < MonthBegins[n + 1]
    BY <2>1, MonthOfDay
  <2> HIDE DEF n, k, e
  <2>4. n # k
    BY <2>1, <2>2, <1>9 DEF e
  <2>5. m <= n /\ n <= k
    <3>1. \A i \in 1 .. Len(MonthBegins) : MonthBegins[i] \in Nat
      BY Begins
    <3>2. ~(n < m)
      <4>1. n < m => MonthBegins[n + 1] <= MonthBegins[m]
        BY <1>2, <1>5, <2>3, Begins DEF Months
      <4> QED BY <1>2, <1>3, <1>5, <2>1, <2>3, <4>1
    <3>3. ~(k < n)
      <4>1. k < n => MonthBegins[k + 1] <= MonthBegins[n] /\ MonthBegins[k + 1] \in Nat
        BY <1>8, <2>3, Begins DEF Months
      <4> QED BY <1>9, <2>1, <2>3, <4>1
    <3>4. m \in Nat /\ n \in Nat /\ k \in Nat
      BY <1>5, <1>8, <2>3, Begins DEF Months
    <3> QED BY <3>2, <3>3, <3>4
  <2>6. n = m /\ ~(InMonth(s, m) > t)
    BY <1>5, <1>8, <2>3, <2>4, <2>5, Begins DEF k, Months
  <2>7. InMonth(s, m) = At(x, c) /\ At(x, c) \in Nat
    BY <1>1, <1>2, <2>1, <2>2, <2>6, DayOfMonth, TimeOfDay
  <2> QED BY <2>6, <2>7
<1> HIDE DEF e
<1>12. First(s, a, t, At(e, c))
  BY <1>1, <1>9, <1>10, <1>11, FirstByDay DEF d
<1> HIDE DEF k, Later
<1> QED BY <1>4, <1>7, <1>9, <1>12

LEMMA NextCalendar ==
    ASSUME JobsAssumption, NEW s \in Schedules, Recurs(s), NEW a, NEW t \in 0 .. MaxTime
    PROVE  First(s, a, t, NextCalendarOccurrence(s, t))
<1>1. t \in Nat
  OBVIOUS
<1> QED BY <1>1, NextDaily, NextWeekly, NextMonthly DEF Recurs

LEMMA NextOfInterval ==
    ASSUME NEW s, s.type = "interval", s.minutes \in Nat \ {0}, NEW a \in Nat, NEW t \in Nat, a <= t
    PROVE  First(s, a, t, NextInterval(s, a, t))
<1> DEFINE m == s.minutes
           q == (t - a) \div m
           r == (t - a) % m
           w == m * (q + 1)
           n == a + w
<1>1. t - a \in Nat /\ m \in Nat \ {0}
  OBVIOUS
<1>2. t - a = m * q + r /\ r \in 0 .. m - 1 /\ q \in Nat
  BY <1>1, DayAndTick
<1> HIDE DEF q, r, m
<1>3. w = m * q + m /\ m * q \in Nat /\ (q + 1) * m = w /\ w + 0 = w
  BY <1>1, <1>2, Z3
<1>4. NextInterval(s, a, t) = n
  BY <1>3 DEF NextInterval, q, m
<1>5. w % m = 0
  <2>1. q + 1 \in Int /\ 0 \in 0 .. m - 1
    BY <1>1, <1>2
  <2>2. (w + 0) % m = 0
    BY <1>1, <2>1, Remainder
  <2> QED BY <1>3, <2>2
<1> DEFINE v == m * q
<1>6. v \in Nat /\ t - a = v + r /\ w = v + m
  BY <1>2, <1>3
<1> HIDE DEF v, w
<1>7. n \in Nat /\ n > t /\ n - a = w
  BY <1>1, <1>2, <1>6
<1>8. Meant(s, a, n)
  BY <1>5, <1>7 DEF Meant, m
<1>9. ASSUME NEW u \in (t + 1) .. (n - 1), Meant(s, a, u) PROVE FALSE
  <2>1. (u - a) % m = w % m
    BY <1>5, <1>9 DEF Meant, m
  <2>2. u - a \in Int /\ w \in Int /\ u - a < w + m /\ w < (u - a) + m /\ u - a # w
    BY <1>1, <1>2, <1>6, <1>7
  <2> QED BY <1>1, <2>1, <2>2, SameRemainder
<1> HIDE DEF n
<1> QED BY <1>4, <1>7, <1>8, <1>9 DEF First

-----------------------------------------------------------------------------
(* The cadence of jobs                                                     *)

\* At t, the next run of a row is a time, and where it is not due the one that the
\* calendar means.
Timely(job, t) ==
    /\ job.schedule \in Schedules /\ job.next \in Nat
    /\ Recurs(job.schedule) /\ job.next > t => job.next = NextCalendarOccurrence(job.schedule, t)

CadenceInv ==
    /\ JobsInv
    /\ now \in 0 .. MaxTime
    /\ \A e \in editing : e.schedule \in Schedules /\ e.asked \in Nat
    /\ \A j \in Jobs : Exists(j) => Timely(table[j], now)

LEMMA Types ==
    ASSUME JobsAssumption, NEW s \in Schedules
    PROVE  /\ s.type = "interval" \/ s.type = "once" \/ Recurs(s)
           /\ Recurs(s) => s.type # "interval" /\ s.type # "once"
           /\ s.type = "interval" => s.minutes \in Nat \ {0}
BY DEF JobsAssumption, Recurs

LEMMA PreparedIsTimely ==
    ASSUME JobsAssumption, NEW s \in Schedules, NEW t \in 0 .. MaxTime, NEW asked,
           asked \in Nat \/ (asked = Nothing /\ s.type # "once")
    PROVE  /\ Prepared(s, asked, t) \in Nat
           /\ Recurs(s) => Prepared(s, asked, t) = NextCalendarOccurrence(s, t)
<1>1. CASE Recurs(s)
  <2>1. Prepared(s, asked, t) = NextCalendarOccurrence(s, t)
    BY <1>1, Types DEF Prepared
  <2>2. NextCalendarOccurrence(s, t) \in Nat
    BY <1>1, NextCalendar DEF First
  <2> QED BY <2>1, <2>2
<1>2. CASE ~Recurs(s)
  <2>1. t + s.minutes \in Nat \/ s.type # "interval"
    BY Types
  <2> QED BY <1>2, <2>1, Types DEF Prepared
<1> QED BY <1>1, <1>2

\* The next occurrence, computed from a next run that is due or that the calendar means.
LEMMA NextIsFirst ==
    ASSUME JobsAssumption, NEW job, NEW t \in 0 .. MaxTime, Timely(job, t),
           job.schedule.type # "once"
    PROVE  LET n == NextScheduledOccurrence(job.schedule, job.next, t)
           IN  /\ n \in Nat /\ n > t
               /\ Recurs(job.schedule) => n = NextCalendarOccurrence(job.schedule, t)
               /\ n # job.next => job.next <= t /\ First(job.schedule, job.next, t, n)
<1> DEFINE s == job.schedule
           a == job.next
           n == NextScheduledOccurrence(s, a, t)
<1>1. s \in Schedules /\ a \in Nat /\ t \in Nat
  BY DEF Timely
<1>2. CASE Recurs(s)
  <2>1. n = NextCalendarOccurrence(s, t)
    BY <1>1, <1>2, Types DEF NextScheduledOccurrence
  <2>2. First(s, a, t, n)
    BY <1>1, <1>2, <2>1, NextCalendar
  <2>3. n \in Nat /\ n > t
    BY <2>2 DEF First
  <2>4. a > t => n = a
    BY <1>2, <2>1 DEF Timely
  <2> QED BY <1>1, <2>1, <2>2, <2>3, <2>4
<1>3. CASE ~Recurs(s)
  <2>1. s.type = "interval" /\ s.minutes \in Nat \ {0}
    BY <1>1, <1>3, Types
  <2>2. n = NextInterval(s, a, t)
    BY <2>1 DEF NextScheduledOccurrence
  <2>3. CASE a > t
    BY <1>1, <1>3, <2>2, <2>3 DEF NextInterval
  <2>4. CASE a <= t
    <3>1. First(s, a, t, n)
      BY <1>1, <2>1, <2>2, <2>4, NextOfInterval
    <3>2. n \in Nat /\ n > t
      BY <3>1 DEF First
    <3> QED BY <1>3, <2>4, <3>1, <3>2
  <2> QED BY <1>1, <2>3, <2>4
<1> QED BY <1>2, <1>3

\* What CadenceStep asks of a row and its history.
Keeps(before, after, h, g) ==
    before.schedule.type # "once" =>
        /\ after.next # before.next =>
             /\ g.since > h.since \/ (~before.enabled /\ after.enabled)
             /\ before.next <= now
             /\ FirstAfter(before.schedule, before.next, after.next)
        /\ g.since > h.since => after.next > now

LEMMA ExecutedKeeps ==
    ASSUME JobsAssumption, now \in 0 .. MaxTime, NEW job, Timely(job, now),
           NEW h, NEW g, g.since > h.since
    PROVE  Timely(Executed(job), now) /\ Keeps(job, Executed(job), h, g)
<1>1. job.schedule \in Schedules /\ job.next \in Nat
  BY DEF Timely
<1>2. CASE job.schedule.type = "once"
  <2>1. Executed(job).schedule = job.schedule /\ Executed(job).next = now
    BY <1>2 DEF Executed, Row
  <2>2. ~Recurs(job.schedule) /\ now \in Nat
    BY <1>1, <1>2, Types
  <2> QED BY <1>1, <1>2, <2>1, <2>2 DEF Timely, Keeps
<1>3. CASE job.schedule.type # "once"
  <2> DEFINE n == NextScheduledOccurrence(job.schedule, job.next, now)
  <2>1. Executed(job).schedule = job.schedule /\ Executed(job).next = n
    BY <1>3 DEF Executed, Row
  <2>2. /\ n \in Nat /\ n > now
        /\ Recurs(job.schedule) => n = NextCalendarOccurrence(job.schedule, now)
        /\ n # job.next => job.next <= now /\ First(job.schedule, job.next, now, n)
    BY <1>3, NextIsFirst
  <2> HIDE DEF n
  <2>3. Timely(Executed(job), now)
    BY <1>1, <2>1, <2>2 DEF Timely
  <2>4. First(job.schedule, job.next, now, n) => FirstAfter(job.schedule, job.next, n)
    BY DEF First, FirstAfter
  <2>5. Keeps(job, Executed(job), h, g)
    BY <2>1, <2>2, <2>4 DEF Keeps
  <2> QED BY <2>3, <2>5
<1> QED BY <1>2, <1>3

LEMMA ToggledKeeps ==
    ASSUME JobsAssumption, now \in 0 .. MaxTime, NEW job, Timely(job, now),
           NEW h, h.since \in Nat
    PROVE  LET toggled == Row(job.schedule, Resumed(job), ~job.enabled, job.completed)
           IN  Timely(toggled, now) /\ Keeps(job, toggled, h, h)
<1> DEFINE toggled == Row(job.schedule, Resumed(job), ~job.enabled, job.completed)
           n == NextScheduledOccurrence(job.schedule, job.next, now)
<1>1. job.schedule \in Schedules /\ job.next \in Nat /\ ~(h.since > h.since)
  BY DEF Timely
<1>2. /\ toggled.schedule = job.schedule /\ toggled.next = Resumed(job)
      /\ toggled.enabled = ~job.enabled
  BY DEF Row
<1> HIDE DEF toggled
<1>3. ASSUME ~job.enabled /\ job.next <= now /\ job.schedule.type # "once"
      PROVE  Timely(toggled, now) /\ Keeps(job, toggled, h, h)
  <2>1. Resumed(job) = n
    BY <1>3 DEF Resumed
  <2>2. /\ n \in Nat /\ n > now
        /\ Recurs(job.schedule) => n = NextCalendarOccurrence(job.schedule, now)
        /\ n # job.next => job.next <= now /\ First(job.schedule, job.next, now, n)
    BY <1>3, NextIsFirst
  <2> HIDE DEF n
  <2>3. Timely(toggled, now)
    BY <1>1, <1>2, <2>1, <2>2 DEF Timely
  <2>4. First(job.schedule, job.next, now, n) => FirstAfter(job.schedule, job.next, n)
    BY DEF First, FirstAfter
  <2>5. ~job.enabled /\ toggled.enabled
    BY <1>2, <1>3
  <2>6. Keeps(job, toggled, h, h)
    BY <1>1, <1>2, <2>1, <2>2, <2>4, <2>5 DEF Keeps
  <2> QED BY <2>3, <2>6
<1>4. ASSUME ~(~job.enabled /\ job.next <= now /\ job.schedule.type # "once")
      PROVE  Timely(toggled, now) /\ Keeps(job, toggled, h, h)
  <2>1. toggled.next = job.next
    BY <1>2, <1>4 DEF Resumed
  <2> QED BY <1>1, <1>2, <2>1 DEF Timely, Keeps
<1> QED BY <1>3, <1>4 DEF toggled

\* A step on one row keeps every other row timely.
LEMMA OneTimely ==
    ASSUME CadenceInv, JobsInv', NEW j \in Jobs, NEW job, table' = [table EXCEPT ![j] = job],
           editing' \subseteq editing, now' = now, job = Nothing \/ Timely(job, now)
    PROVE  CadenceInv'
<1>1. \A k \in Jobs : table'[k] = IF k = j THEN job ELSE table[k]
  BY DEF CadenceInv, JobsInv
<1>2. ASSUME NEW k \in Jobs, table'[k] # Nothing PROVE Timely(table'[k], now)
  BY <1>1, <1>2 DEF CadenceInv, Exists
<1> QED BY <1>2 DEF CadenceInv, Exists, Timely

LEMMA TimePasses ==
    ASSUME JobsAssumption, CadenceInv, JobsInv', Passes PROVE CadenceInv'
<1>1. now \in 0 .. MaxTime /\ now + 1 \in 0 .. MaxTime /\ now < now + 1 /\ now \in Nat /\ now + 1 \in Nat
  BY Begins DEF CadenceInv, Passes
<1>2. ASSUME NEW job, Timely(job, now) PROVE Timely(job, now + 1)
  <2> SUFFICES ASSUME Recurs(job.schedule), job.next > now + 1
               PROVE  job.next = NextCalendarOccurrence(job.schedule, now + 1)
    BY <1>2 DEF Timely
  <2> DEFINE s == job.schedule
             n == NextCalendarOccurrence(s, now)
  <2>1. s \in Schedules /\ job.next \in Nat /\ job.next = n
    BY <1>1, <1>2 DEF Timely
  <2>2. First(s, 0, now, n)
    BY <1>1, <2>1, NextCalendar
  <2>3. First(s, 0, now + 1, n)
    BY <1>1, <2>1, <2>2, StillFirst
  <2>4. First(s, 0, now + 1, NextCalendarOccurrence(s, now + 1))
    BY <1>1, <2>1, NextCalendar
  <2> QED BY <1>1, <2>1, <2>3, <2>4, OneFirst
<1>3. now' = now + 1 /\ table' = table /\ editing' = editing
  BY DEF Passes
<1>4. \A j \in Jobs : Exists(j)' => Timely(table'[j], now + 1)
  BY <1>2, <1>3 DEF CadenceInv, Exists
<1> QED BY <1>1, <1>3, <1>4 DEF CadenceInv, Timely

\* The service prepares, the store prepares again and writes.
LEMMA AcceptedIsTimely ==
    ASSUME JobsAssumption, CadenceInv, JobsInv', NEW j \in Jobs, NEW s \in Schedules,
           NEW asked \in Dates, NEW enabled \in BOOLEAN, Accepts(j, s, asked, enabled)
    PROVE  CadenceInv'
<1>1. asked \in Nat \/ (asked = Nothing /\ s.type # "once")
  <2>1. asked \in 0 .. MaxTime => asked \in Nat
    OBVIOUS
  <2> QED BY <2>1 DEF Dates, Accepts, Acceptable
<1>2. Prepared(s, asked, now) \in Nat
  BY <1>1, PreparedIsTimely DEF CadenceInv
<1> DEFINE e == [job |-> j, new |-> ~Exists(j), schedule |-> s,
                 asked |-> Prepared(s, asked, now), enabled |-> enabled]
<1>3. editing' = editing \cup {e} /\ now' = now /\ table' = table
  BY DEF Accepts
<1>4. e.schedule \in Schedules /\ e.asked \in Nat
  BY <1>2
<1> HIDE DEF e
<1> QED BY <1>3, <1>4 DEF CadenceInv, Exists, Timely

LEMMA WrittenIsTimely ==
    ASSUME JobsAssumption, CadenceInv, JobsInv', NEW e \in editing, Written(e)
    PROVE  CadenceInv'
<1> DEFINE job == Row(e.schedule, Prepared(e.schedule, e.asked, now), e.enabled, FALSE)
<1>1. e.schedule \in Schedules /\ e.asked \in Nat /\ e.job \in Jobs /\ now \in 0 .. MaxTime
  BY DEF CadenceInv, JobsInv
<1>2. Timely(job, now)
  <2>1. job.schedule = e.schedule /\ job.next = Prepared(e.schedule, e.asked, now)
    BY DEF Row
  <2> HIDE DEF job
  <2> QED BY <1>1, <2>1, PreparedIsTimely DEF Timely
<1>3. CASE e.new \/ Exists(e.job)
  <2>1. table' = [table EXCEPT ![e.job] = job] /\ editing' \subseteq editing /\ now' = now
    BY <1>3 DEF Written
  <2> HIDE DEF job
  <2> QED BY <1>1, <1>2, <2>1, OneTimely
<1>4. CASE ~(e.new \/ Exists(e.job))
  <2>1. table' = table /\ editing' \subseteq editing /\ now' = now
    BY <1>4 DEF Written
  <2> QED BY <2>1 DEF CadenceInv, Exists, Timely
<1> QED BY <1>3, <1>4

\* A run, by hand or of the scheduler, counts; a pause does not.
LEMMA RunsAreCounted ==
    ASSUME JobsInv, NEW j \in Jobs
    PROVE  /\ history[j].since \in Nat /\ history[j].edits \in Nat
           /\ \A i \in Jobs : RunScheduledJobNow(i) =>
                /\ table'[j] = IF i = j THEN Executed(table[j]) ELSE table[j]
                /\ IF i = j THEN history'[j].since > history[j].since
                   ELSE history'[j] = history[j]
           /\ ProcessDueJobs =>
                /\ table'[j] = IF Due(j) THEN Executed(table[j]) ELSE table[j]
                /\ IF Due(j) THEN history'[j].since > history[j].since
                   ELSE history'[j] = history[j]
<1>1. history[j] \in Histories /\ history[j].since \in Nat /\ history[j].edits \in Nat
  BY DEF JobsInv, Histories
<1>2. ASSUME NEW i \in Jobs, RunScheduledJobNow(i)
      PROVE  /\ table'[j] = IF i = j THEN Executed(table[j]) ELSE table[j]
             /\ IF i = j THEN history'[j].since > history[j].since
                ELSE history'[j] = history[j]
  <2>1. table'[j] = IF i = j THEN Executed(table[j]) ELSE table[j]
    BY <1>2 DEF RunScheduledJobNow, JobsInv
  <2>2. i # j => history'[j] = history[j]
    BY <1>2 DEF RunScheduledJobNow, JobsInv
  <2>3. i = j => history'[j].since = history[j].since + 1
    BY <1>1, <1>2 DEF RunScheduledJobNow, JobsInv, Histories
  <2> QED BY <1>1, <2>1, <2>2, <2>3
<1>3. ASSUME ProcessDueJobs
      PROVE  /\ table'[j] = IF Due(j) THEN Executed(table[j]) ELSE table[j]
             /\ IF Due(j) THEN history'[j].since > history[j].since
                ELSE history'[j] = history[j]
  <2>1. table'[j] = IF Due(j) THEN Executed(table[j]) ELSE table[j]
    BY <1>3 DEF ProcessDueJobs
  <2>2. history'[j] = IF Due(j) THEN [history[j] EXCEPT !.since = @ + 1] ELSE history[j]
    BY <1>3 DEF ProcessDueJobs
  <2>3. [history[j] EXCEPT !.since = @ + 1].since = history[j].since + 1
    BY <1>1, Counted
  <2> QED BY <1>1, <2>1, <2>2, <2>3
<1> QED BY <1>1, <1>2, <1>3

LEMMA RunIsTimely ==
    ASSUME JobsAssumption, CadenceInv, JobsInv', NEW i \in Jobs, RunScheduledJobNow(i)
    PROVE  CadenceInv' /\ CadenceStep
<1>1. now \in 0 .. MaxTime /\ JobsInv /\ Timely(table[i], now)
  BY DEF CadenceInv, RunScheduledJobNow
<1>2. history'[i].since > history[i].since /\ table'[i] = Executed(table[i])
  BY <1>1, RunsAreCounted
<1>3. Timely(Executed(table[i]), now) /\ Keeps(table[i], table'[i], history[i], history'[i])
  BY <1>1, <1>2, ExecutedKeeps
<1>4. CadenceInv'
  <2>1. table' = [table EXCEPT ![i] = Executed(table[i])] /\ editing' = editing /\ now' = now
    BY DEF RunScheduledJobNow
  <2> QED BY <1>3, <2>1, OneTimely
<1>5. ASSUME NEW j \in Jobs, j # i
      PROVE  table'[j] = table[j] /\ ~(history'[j].since > history[j].since)
  <2>1. table'[j] = table[j] /\ history'[j] = history[j] /\ history[j].since \in Nat
    BY <1>1, <1>5, RunsAreCounted
  <2> QED BY <2>1
<1> QED BY <1>3, <1>4, <1>5 DEF CadenceStep, Keeps

LEMMA TickIsTimely ==
    ASSUME JobsAssumption, CadenceInv, JobsInv', ProcessDueJobs PROVE CadenceInv' /\ CadenceStep
<1>1. now \in 0 .. MaxTime /\ JobsInv /\ editing' = editing /\ now' = now
  BY DEF CadenceInv, ProcessDueJobs
<1>2. ASSUME NEW j \in Jobs, Due(j)
      PROVE  Timely(table'[j], now) /\ Keeps(table[j], table'[j], history[j], history'[j])
  <2>1. history'[j].since > history[j].since /\ table'[j] = Executed(table[j])
    BY <1>1, <1>2, RunsAreCounted
  <2>2. Timely(table[j], now)
    BY <1>2 DEF CadenceInv, Due
  <2> QED BY <1>1, <2>1, <2>2, ExecutedKeeps
<1>3. ASSUME NEW j \in Jobs, ~Due(j)
      PROVE  table'[j] = table[j] /\ ~(history'[j].since > history[j].since)
  <2>1. table'[j] = table[j] /\ history'[j] = history[j] /\ history[j].since \in Nat
    BY <1>1, <1>3, RunsAreCounted
  <2> QED BY <2>1
<1>4. CadenceInv'
  <2>1. \A j \in Jobs : Exists(j)' => Timely(table'[j], now)
    BY <1>2, <1>3 DEF CadenceInv, Exists
  <2> QED BY <1>1, <2>1 DEF CadenceInv, Timely
<1> QED BY <1>2, <1>3, <1>4 DEF CadenceStep, Keeps

LEMMA ToggleIsTimely ==
    ASSUME JobsAssumption, CadenceInv, JobsInv', NEW i \in Jobs, ToggleScheduledJob(i)
    PROVE  CadenceInv' /\ CadenceStep
<1> DEFINE job == Row(table[i].schedule, Resumed(table[i]), ~table[i].enabled, table[i].completed)
<1>1. now \in 0 .. MaxTime /\ Timely(table[i], now) /\ \A j \in Jobs : history[j].since \in Nat
  BY RunsAreCounted DEF CadenceInv, ToggleScheduledJob
<1>2. Timely(job, now) /\ Keeps(table[i], job, history[i], history[i])
  BY <1>1, ToggledKeeps
<1>3. table' = [table EXCEPT ![i] = job] /\ editing' = editing /\ now' = now /\ history' = history
  BY DEF ToggleScheduledJob
<1> HIDE DEF job
<1>4. CadenceInv'
  BY <1>2, <1>3, OneTimely
<1>5. \A j \in Jobs : /\ table'[j] = IF j = i THEN job ELSE table[j]
                      /\ ~(history'[j].since > history[j].since)
  BY <1>1, <1>3 DEF CadenceInv, JobsInv
<1> QED BY <1>2, <1>3, <1>4, <1>5 DEF CadenceStep, Keeps

\* A step that writes no next run, or writes it as an edit.
LEMMA NothingMoves ==
    ASSUME JobsInv,
           \A j \in Jobs : /\ table[j] # Nothing /\ table'[j] # Nothing
                           /\ history'[j].edits = history[j].edits
                           => table'[j] = table[j] /\ history'[j] = history[j]
    PROVE  CadenceStep
<1>1. \A j \in Jobs : ~(history[j].since > history[j].since)
  BY RunsAreCounted
<1> QED BY <1>1 DEF CadenceStep

(* A job (NextScheduledOccurrence of domain/schedule.go, and the callers that     *)
(* write its result in sqlite/workspace.go) keeps its cadence under every order   *)
(* of runs by hand, ticks, pauses and edits, for every schedule and calendar.     *)
THEOREM CadenceIsKept ==
    ASSUME JobsAssumption PROVE JobsSpec => [][CadenceStep]_jobsVars
<1>1. JobsInit => CadenceInv
  BY Begins DEF JobsInit, JobsInv, CadenceInv, Exists, NoHistory, Histories
<1>2. CadenceInv /\ [JobsNext]_jobsVars => CadenceInv' /\ [CadenceStep]_jobsVars
  <2> SUFFICES ASSUME CadenceInv, [JobsNext]_jobsVars
               PROVE  CadenceInv' /\ [CadenceStep]_jobsVars
    OBVIOUS
  <2>1. JobsInv /\ JobsInv'
    BY JobsStep DEF CadenceInv
  <2>2. CASE UNCHANGED jobsVars
    BY <2>1, <2>2 DEF CadenceInv, jobsVars, Exists, Timely
  <2>3. CASE Passes
    <3>1. table' = table /\ history' = history
      BY <2>3 DEF Passes
    <3> QED BY <2>1, <2>3, <3>1, TimePasses, NothingMoves
  <2>4. CASE ProcessDueJobs
    BY <2>1, <2>4, TickIsTimely
  <2>5. ASSUME NEW j \in Jobs, DeleteScheduledJob(j) PROVE CadenceInv' /\ CadenceStep
    <3>1. table' = [table EXCEPT ![j] = Nothing] /\ editing' = editing /\ now' = now
      BY <2>5 DEF DeleteScheduledJob
    <3>2. \A i \in Jobs : i # j => table'[i] = table[i] /\ history'[i] = history[i]
      BY <2>1, <2>5 DEF DeleteScheduledJob, JobsInv
    <3>3. table'[j] = Nothing
      BY <2>1, <2>5 DEF DeleteScheduledJob, JobsInv
    <3> QED BY <2>1, <3>1, <3>2, <3>3, OneTimely, NothingMoves
  <2>6. ASSUME NEW j \in Jobs, ToggleScheduledJob(j) PROVE CadenceInv' /\ CadenceStep
    BY <2>1, <2>6, ToggleIsTimely
  <2>7. ASSUME NEW j \in Jobs, RunScheduledJobNow(j) PROVE CadenceInv' /\ CadenceStep
    BY <2>1, <2>7, RunIsTimely
  <2>8. ASSUME NEW j \in Jobs, NEW s \in Schedules, NEW asked \in Dates, NEW enabled \in BOOLEAN,
               CreateScheduledJob(j, s, asked, enabled) \/ UpdateScheduledJob(j, s, asked, enabled)
        PROVE  CadenceInv' /\ CadenceStep
    <3>1. Accepts(j, s, asked, enabled)
      BY <2>8 DEF CreateScheduledJob, UpdateScheduledJob
    <3>2. table' = table /\ history' = history
      BY <3>1 DEF Accepts
    <3> QED BY <2>1, <3>1, <3>2, AcceptedIsTimely, NothingMoves
  <2>9. ASSUME NEW e \in editing, Written(e) PROVE CadenceInv' /\ CadenceStep
    <3>1. e.job \in Jobs /\ \A i \in Jobs : history[i] \in Histories
      BY <2>1 DEF JobsInv
    <3>2. \A i \in Jobs : /\ i # e.job => table'[i] = table[i] /\ history'[i] = history[i]
                          /\ \/ table'[i] = table[i] /\ history'[i] = history[i]
                             \/ history'[i].edits = history[i].edits + 1
      <4>1. CASE e.new \/ Exists(e.job)
        <5>1. \A i \in Jobs : i # e.job => table'[i] = table[i] /\ history'[i] = history[i]
          BY <2>1, <2>9, <3>1, <4>1 DEF Written, JobsInv
        <5>2. history'[e.job].edits = history[e.job].edits + 1
          <6>1. history' = [history EXCEPT ![e.job].edits = @ + 1, ![e.job].since = 0]
            BY <2>9, <4>1 DEF Written
          <6>2. history[e.job] \in Histories /\ history \in [Jobs -> Histories]
            BY <2>1, <3>1 DEF JobsInv
          <6> QED BY <3>1, <6>1, <6>2 DEF Histories
        <5> QED BY <5>1, <5>2
      <4>2. CASE ~(e.new \/ Exists(e.job))
        BY <2>9, <4>2 DEF Written
      <4> QED BY <4>1, <4>2
    <3>3. \A i \in Jobs : history[i].edits + 1 # history[i].edits
      BY <3>1 DEF Histories
    <3> QED BY <2>1, <2>9, <3>2, <3>3, WrittenIsTimely, NothingMoves
  <2> QED BY <2>2, <2>3, <2>4, <2>5, <2>6, <2>7, <2>8, <2>9 DEF JobsNext
<1> QED BY <1>1, <1>2, PTL DEF JobsSpec

-----------------------------------------------------------------------------
(* Quote reminders                                                         *)

Config == {c \in [on : BOOLEAN, range : Ranges, next : Nat \cup {Nothing}, web : Webs] :
             ~c.on => c.next = Nothing}

Sending == [due : Nat \cup {Nothing}, reserved : Nat \cup {Nothing}, sent : BOOLEAN]

Log == [announced : SUBSET Nat, twice : BOOLEAN, webs : SUBSET Webs, unread : BOOLEAN,
        saves : Nat, restarts : Nat]

QuotesTyped ==
    /\ time \in Nat
    /\ file \in Config
    /\ server \in [cfg : Config, sending : Sending \cup {Nothing}]
    /\ window \in Config \cup {Nothing}
    /\ log \in Log

\* A setting that users were told of is the one in the file and in the server.
TypedSettings == QuotesTyped /\ Quotes!SettingsSurvive

\* The reminder that is about to be made known, if it has a due time.
Announcing == server.sending # Nothing /\ ~server.sending.sent /\ server.sending.due # Nothing

\* As long as every save was read back, the server's copy is the file, a form with
\* a due time has the schedule of the server, and what is due, or will be, was
\* not announced before.
DueIsNew ==
    /\ file = server.cfg
    /\ window # Nothing /\ window.next # Nothing =>
         server.cfg.on /\ window.range = server.cfg.range
    /\ \A t \in log.announced : t <= time
    /\ server.cfg.next # Nothing => server.cfg.next \notin log.announced
    /\ Announcing => /\ server.sending.due <= time
                     /\ server.sending.due \notin log.announced
                     /\ server.sending.due # server.cfg.next
    /\ ~log.twice

QuotesInv == TypedSettings /\ (~log.unread => DueIsNew)

\* A schedule that is set keeps what is not of it.
LEMMA NextTime ==
    ASSUME Quotes!RemindersAssumption, time \in Nat, NEW c \in Config, c.on,
           NEW d \in Quotes!NextAt(c)
    PROVE  /\ d \in Config /\ d.on = c.on /\ d.range = c.range /\ d.web = c.web
           /\ d.next \in Nat /\ d.next > time
<1>1. PICK delay \in c.range : d = [c EXCEPT !.next = time + delay]
  BY DEF Quotes!NextAt
<1>2. delay \in Nat \ {0}
  BY DEF Config, Quotes!RemindersAssumption
<1>3. time + delay \in Nat /\ time + delay > time
  BY <1>2
<1> QED BY <1>1, <1>3 DEF Config

LEMMA EnsuredTime ==
    ASSUME Quotes!RemindersAssumption, time \in Nat, NEW c \in Config,
           NEW d \in Quotes!EnsureSchedule(c)
    PROVE  /\ d \in Config /\ d.on = c.on /\ d.range = c.range /\ d.web = c.web
           /\ d = c \/ (d.next \in Nat /\ d.next > time)
BY NextTime DEF Quotes!EnsureSchedule, Quotes!Due

LEMMA QuotesStart == Quotes!RemindersAssumption /\ Quotes!RemindersInit => QuotesInv
BY DEF Quotes!RemindersInit, Quotes!RemindersAssumption, QuotesInv, TypedSettings, QuotesTyped,
   Config, Sending, Log,
       DueIsNew, Announcing, Quotes!SettingsSurvive

\* A form whose schedule is edited has no due time.
LEMMA FormEdits ==
    ASSUME NEW w \in Config
    PROVE  /\ [w EXCEPT !.on = ~@, !.next = Nothing] \in Config
           /\ [w EXCEPT !.on = ~@, !.next = Nothing].next = Nothing
           /\ \A r \in Ranges : /\ [w EXCEPT !.range = r, !.next = Nothing] \in Config
                                /\ [w EXCEPT !.range = r, !.next = Nothing].next = Nothing
<1> DEFINE toggled == [w EXCEPT !.on = ~@]
<1>1. [w EXCEPT !.on = ~@, !.next = Nothing] = [toggled EXCEPT !.next = Nothing]
  OBVIOUS
<1>2. toggled \in [on : BOOLEAN, range : Ranges, next : Nat \cup {Nothing}, web : Webs]
  BY DEF Config
<1> HIDE DEF toggled
<1>3. /\ [w EXCEPT !.on = ~@, !.next = Nothing] \in Config
      /\ [w EXCEPT !.on = ~@, !.next = Nothing].next = Nothing
  BY <1>1, <1>2 DEF Config
<1>4. ASSUME NEW r \in Ranges
      PROVE  /\ [w EXCEPT !.range = r, !.next = Nothing] \in Config
             /\ [w EXCEPT !.range = r, !.next = Nothing].next = Nothing
  <2> DEFINE ranged == [w EXCEPT !.range = r]
  <2>1. [w EXCEPT !.range = r, !.next = Nothing] = [ranged EXCEPT !.next = Nothing]
    OBVIOUS
  <2>2. ranged \in [on : BOOLEAN, range : Ranges, next : Nat \cup {Nothing}, web : Webs]
    BY DEF Config
  <2> HIDE DEF ranged
  <2> QED BY <2>1, <2>2 DEF Config
<1> QED BY <1>3, <1>4

\* What is logged of a save.
LEMMA LogOfSave ==
    ASSUME log \in Log, NEW web \in Webs
    PROVE  /\ LET l == [log EXCEPT !.webs = {web}, !.saves = @ + 1]
              IN /\ l \in Log /\ l.webs = {web} /\ l.announced = log.announced
                 /\ l.twice = log.twice /\ l.unread = log.unread
           /\ LET l == [log EXCEPT !.webs = @ \cup {web}, !.saves = @ + 1, !.unread = TRUE]
              IN l \in Log /\ l.webs = log.webs \cup {web} /\ l.unread
<1> DEFINE told(webs) == [log EXCEPT !.webs = webs]
           counted(webs) == [told(webs) EXCEPT !.saves = @ + 1]
<1>1. ASSUME NEW webs \in SUBSET Webs
      PROVE  /\ told(webs) \in Log /\ told(webs).webs = webs /\ told(webs).announced = log.announced
             /\ told(webs).twice = log.twice /\ told(webs).unread = log.unread
  BY DEF Log
<1>2. [log EXCEPT !.webs = {web}, !.saves = @ + 1] = counted({web})
  OBVIOUS
<1>3. [log EXCEPT !.webs = @ \cup {web}, !.saves = @ + 1, !.unread = TRUE]
        = [counted(log.webs \cup {web}) EXCEPT !.unread = TRUE]
  OBVIOUS
<1> HIDE DEF told
<1>4. ASSUME NEW webs \in SUBSET Webs
      PROVE  /\ counted(webs) \in Log /\ counted(webs).webs = webs /\ counted(webs).announced = log.announced
             /\ counted(webs).twice = log.twice /\ counted(webs).unread = log.unread
  BY <1>1 DEF Log
<1> HIDE DEF counted
<1>5. {web} \in SUBSET Webs /\ log.webs \cup {web} \in SUBSET Webs
  BY DEF Log
<1>6. counted(log.webs \cup {web}) \in Log /\ counted(log.webs \cup {web}).webs = log.webs \cup {web}
  BY <1>4, <1>5
<1>7. /\ [counted(log.webs \cup {web}) EXCEPT !.unread = TRUE] \in Log
      /\ [counted(log.webs \cup {web}) EXCEPT !.unread = TRUE].webs = log.webs \cup {web}
      /\ [counted(log.webs \cup {web}) EXCEPT !.unread = TRUE].unread
  BY <1>6 DEF Log
<1> QED BY <1>2, <1>3, <1>4, <1>5, <1>7

\* A form that is saved gets the due time of the server, none, or one to come.
LEMMA InputIsScheduled ==
    ASSUME Quotes!RemindersAssumption, QuotesInv, window # Nothing, NEW input \in Quotes!Inputs(window)
    PROVE  LET c == Quotes!Scheduled(input)
           IN /\ c \in Config /\ c.on = window.on /\ c.range = window.range /\ c.web = window.web
              /\ ~log.unread =>
                   c.next = server.cfg.next \/ c.next = Nothing \/ (c.next \in Nat /\ c.next > time)
<1> USE DEF QuotesInv, TypedSettings, QuotesTyped
<1> DEFINE c == Quotes!Scheduled(input)
<1>1. window \in Config /\ time \in Nat /\ server.cfg \in Config
  OBVIOUS
<1>2. /\ input \in Config /\ input.on = window.on /\ input.range = window.range /\ input.web = window.web
      /\ input = window \/ (input.next \in Nat /\ input.next > time)
  BY <1>1, EnsuredTime DEF Quotes!Inputs
<1>3. CASE input.on /\ server.cfg.on /\ input.range = server.cfg.range
  <2>1. c = [input EXCEPT !.next = server.cfg.next]
    BY <1>3 DEF Quotes!Scheduled
  <2> QED BY <1>1, <1>2, <1>3, <2>1 DEF Config
<1>4. CASE ~(input.on /\ server.cfg.on /\ input.range = server.cfg.range)
  <2>1. c = input
    BY <1>4 DEF Quotes!Scheduled
  <2>2. ASSUME ~log.unread, input = window PROVE c.next = Nothing
    BY <1>1, <1>2, <1>4, <2>1, <2>2 DEF DueIsNew, Config
  <2> QED BY <1>2, <2>1, <2>2
<1> QED BY <1>3, <1>4

\* What the actions do to the records.
LEMMA QuotesStep ==
    ASSUME Quotes!RemindersAssumption, QuotesInv, [Quotes!RemindersNext]_(Quotes!remindersVars)
    PROVE  QuotesInv'
<1> USE DEF QuotesInv, TypedSettings, QuotesTyped, Sending, Log, DueIsNew, Announcing, Quotes!SettingsSurvive
<1>1. CASE Quotes!Restart
  <2>1. CASE server' = [cfg |-> file, sending |-> Nothing] /\ UNCHANGED file
    BY <1>1, <2>1 DEF Quotes!Restart
  <2>2. ASSUME NEW c \in Quotes!EnsureSchedule(file), file' = c, server' = [cfg |-> c, sending |-> Nothing]
        PROVE  QuotesInv'
    <3>1. /\ c \in Config /\ c.on = file.on /\ c.range = file.range /\ c.web = file.web
          /\ c = file \/ (c.next \in Nat /\ c.next > time)
      BY <2>2, EnsuredTime
    <3> QED BY <1>1, <2>2, <3>1 DEF Quotes!Restart
  <2> QED BY <1>1, <2>1, <2>2 DEF Quotes!Restart
<1>2. CASE Quotes!RefreshConfig
  BY <1>2 DEF Quotes!RefreshConfig
<1>3. CASE Quotes!Reserve
  <2>1. PICK c \in Quotes!NextAt(server.cfg) : Quotes!ReserveFirst(c)
    BY <1>3 DEF Quotes!Reserve
  <2>2. server.cfg \in Config /\ server.cfg.on /\ (server.cfg.next # Nothing => server.cfg.next <= time)
    BY <1>3 DEF Quotes!Reserve, Quotes!Due
  <2>3. /\ c \in Config /\ c.on = server.cfg.on /\ c.range = server.cfg.range /\ c.web = server.cfg.web
        /\ c.next \in Nat /\ c.next > time
    BY <2>1, <2>2, NextTime
  <2>4. server.cfg.next \in Nat \cup {Nothing} /\ c.next \in Nat \cup {Nothing}
    BY <2>2, <2>3 DEF Config
  <2> DEFINE reserved == [due |-> server.cfg.next, reserved |-> c.next, sent |-> FALSE]
  <2>5. server' = [cfg |-> c, sending |-> reserved] /\ file' = c /\ UNCHANGED <<time, window, log>>
    BY <1>3, <2>1 DEF Quotes!Reserve, Quotes!ReserveFirst
  <2>6. reserved \in Sending
    BY <2>4
  <2>7. reserved.due = server.cfg.next
    OBVIOUS
  <2> HIDE DEF reserved
  <2>8. TypedSettings'
    BY <2>3, <2>5, <2>6
  <2>9. ASSUME ~log.unread PROVE DueIsNew'
    <3>1. c.next \notin log.announced
      BY <2>3, <2>9
    <3>2. reserved.due # Nothing => /\ reserved.due <= time /\ reserved.due \notin log.announced
                                    /\ reserved.due # c.next
      BY <2>2, <2>3, <2>4, <2>7, <2>9
    <3>3. /\ server'.cfg = c /\ server'.sending = reserved
          /\ window' = window /\ time' = time /\ log' = log /\ file' = c
      BY <2>5
    <3>4. window # Nothing /\ window.next # Nothing => c.on /\ window.range = c.range
      BY <2>3, <2>9
    <3> QED BY <2>9, <3>1, <3>2, <3>3, <3>4
  <2> QED BY <2>5, <2>8, <2>9
<1>4. CASE Quotes!Announce
  <2>1. ~server.sending.sent /\ server.sending \in Sending /\ server.sending # Nothing
    BY <1>4 DEF Quotes!Announce
  <2>2. CASE server' = [server EXCEPT !.sending = Nothing] /\ UNCHANGED log
    BY <1>4, <2>2 DEF Quotes!Announce
  <2>3. CASE server' = [server EXCEPT !.sending.sent = TRUE]
    <3>1. /\ server'.cfg = server.cfg /\ server' \in [cfg : Config, sending : Sending \cup {Nothing}]
          /\ server'.sending.sent
      BY <2>1, <2>3
    <3>2. CASE log' = log
      BY <1>4, <3>1, <3>2 DEF Quotes!Announce
    <3>3. CASE log' = [log EXCEPT !.announced = @ \cup {server.sending.due},
                                  !.twice = @ \/ server.sending.due \in log.announced]
               /\ server.sending.due # Nothing
      <4> DEFINE more == [log EXCEPT !.announced = @ \cup {server.sending.due}]
      <4>0. log \in Log /\ server.sending.due \in Nat
        BY <2>1, <3>3
      <4>1. more \in Log /\ more.announced = log.announced \cup {server.sending.due}
            /\ more.webs = log.webs /\ more.unread = log.unread /\ more.twice = log.twice
        BY <4>0
      <4>2. log' = [more EXCEPT !.twice = log.twice \/ server.sending.due \in log.announced]
        BY <3>3
      <4> HIDE DEF more
      <4>3. /\ log' \in Log /\ log'.announced = log.announced \cup {server.sending.due}
            /\ log'.webs = log.webs /\ log'.unread = log.unread
            /\ log'.twice = (log.twice \/ server.sending.due \in log.announced)
        BY <4>1, <4>2
      <4> QED BY <1>4, <2>1, <3>1, <3>3, <4>3 DEF Quotes!Announce
    <3> QED BY <1>4, <2>1, <2>3, <3>2, <3>3 DEF Quotes!Announce
  <2> QED BY <1>4, <2>2, <2>3 DEF Quotes!Announce
<1>5. CASE Quotes!RecordLast
  BY <1>5 DEF Quotes!RecordLast
<1>6. CASE Quotes!LoadSettings
  BY <1>6 DEF Quotes!LoadSettings, Config
<1>7. CASE Quotes!PatchWeb
  BY <1>7 DEF Quotes!PatchWeb, Quotes!Edits, Config
<1>8. CASE Quotes!ToggleReminders \/ Quotes!PatchReminderRange
  <2>1. /\ window' \in Config /\ window'.next = Nothing
        /\ UNCHANGED <<time, file, server, log>>
    <3>1. window \in Config /\ UNCHANGED <<time, file, server, log>>
      BY <1>8 DEF Quotes!ToggleReminders, Quotes!PatchReminderRange, Quotes!Edits
    <3>2. CASE Quotes!ToggleReminders
      <4>1. window' = [window EXCEPT !.on = ~@, !.next = Nothing]
        BY <3>2 DEF Quotes!ToggleReminders, Quotes!Edits
      <4> QED BY <3>1, <4>1, FormEdits
    <3>3. CASE Quotes!PatchReminderRange
      <4>1. PICK r \in Ranges : window' = [window EXCEPT !.range = r, !.next = Nothing]
        BY <3>3 DEF Quotes!PatchReminderRange, Quotes!Edits
      <4>2. window' \in Config /\ window'.next = Nothing
        BY <3>1, <4>1, FormEdits, Zenon
      <4> QED BY <3>1, <4>2
    <3> QED BY <1>8, <3>1, <3>2, <3>3
  <2> QED BY <2>1
<1>9. CASE Quotes!Passes
  BY <1>9 DEF Quotes!Passes
<1>10. CASE UNCHANGED Quotes!remindersVars
  BY <1>10 DEF Quotes!remindersVars
<1>11. CASE Quotes!UpdateConfig
  <2>1. PICK input \in Quotes!Inputs(window) :
          LET c == Quotes!Scheduled(input)
          IN \/ /\ Quotes!Saved(c) /\ log' = [log EXCEPT !.webs = {c.web}, !.saves = @ + 1]
                /\ window' \in {window, c}
             \/ /\ file' = c
                /\ log' = [log EXCEPT !.webs = @ \cup {c.web}, !.saves = @ + 1, !.unread = TRUE]
                /\ UNCHANGED <<server, window>>
    BY <1>11 DEF Quotes!UpdateConfig
  <2> DEFINE c == Quotes!Scheduled(input)
  <2>2. /\ c \in Config /\ c.on = window.on /\ c.range = window.range /\ c.web = window.web
        /\ ~log.unread => c.next = server.cfg.next \/ c.next = Nothing \/ (c.next \in Nat /\ c.next > time)
    BY <1>11, InputIsScheduled DEF Quotes!UpdateConfig
  <2>3. time' = time
    BY <1>11 DEF Quotes!UpdateConfig
  <2> HIDE DEF c
  <2>4. CASE /\ Quotes!Saved(c) /\ log' = [log EXCEPT !.webs = {c.web}, !.saves = @ + 1]
             /\ window' \in {window, c}
    <3>1. /\ log' \in Log /\ log'.webs = {c.web} /\ log'.announced = log.announced
          /\ log'.twice = log.twice /\ log'.unread = log.unread
      BY <2>2, <2>4, LogOfSave DEF Config
    <3>2. file' = c /\ server' = [server EXCEPT !.cfg = c]
      BY <2>4 DEF Quotes!Saved
    <3>3. TypedSettings'
      BY <2>2, <2>3, <2>4, <3>1, <3>2
    <3>4. ASSUME ~log.unread PROVE DueIsNew'
      <4>1. c.next # Nothing => c.next \notin log.announced
        BY <2>2, <3>4
      <4>2. Announcing => server.sending.due # c.next
        BY <2>2, <3>4
      <4>3. server'.cfg = c /\ server'.sending = server.sending
        BY <3>2
      <4>4. window' # Nothing /\ window'.next # Nothing => c.on /\ window'.range = c.range
        BY <2>2, <2>4, <3>4 DEF Config
      <4> QED BY <2>3, <3>1, <3>2, <3>4, <4>1, <4>2, <4>3, <4>4
    <3> QED BY <3>1, <3>3, <3>4
  <2>5. CASE /\ file' = c
             /\ log' = [log EXCEPT !.webs = @ \cup {c.web}, !.saves = @ + 1, !.unread = TRUE]
             /\ UNCHANGED <<server, window>>
    <3>1. log' \in Log /\ log'.webs = log.webs \cup {c.web} /\ log'.unread
      BY <2>2, <2>5, LogOfSave DEF Config
    <3> QED BY <2>2, <2>3, <2>5, <3>1
  <2> QED BY <2>1, <2>4, <2>5 DEF c
<1> HIDE DEF QuotesInv
<1> QED BY <1>1, <1>2, <1>3, <1>4, <1>5, <1>6, <1>7, <1>8, <1>9, <1>10, <1>11 DEF Quotes!RemindersNext

(* However often settings are saved, reminders sent and the server restarted *)
(* (updateConfig of handlers_settings.go, processQuoteReminder of server.go, *)
(* reminders/quotes.go), what the page saved is not undone by a reminder,    *)
(* and as long as saves can be read back no due time is announced twice.     *)
THEOREM RemindersAreSound ==
    ASSUME Quotes!RemindersAssumption
    PROVE  Quotes!RemindersSpec => [](Quotes!SettingsSurvive /\ Quotes!OneReminderPerDueTime)
<1>1. QuotesInv => Quotes!SettingsSurvive /\ Quotes!OneReminderPerDueTime
  BY DEF QuotesInv, TypedSettings, DueIsNew, QuotesTyped, Log, Quotes!OneReminderPerDueTime
<1>2. Quotes!RemindersInit => QuotesInv
  BY QuotesStart
<1>3. QuotesInv /\ [Quotes!RemindersNext]_(Quotes!remindersVars) => QuotesInv'
  BY QuotesStep
<1> QED BY <1>1, <1>2, <1>3, PTL DEF Quotes!RemindersSpec

-----------------------------------------------------------------------------
(* Check-ins of daily plans                                                *)

\* A check-in is the latest that was due when the scheduler looked.
CheckIn(s) ==
    /\ s \in [date : Nat, period : DOMAIN CheckIns, at : Nat]
    /\ s.date = s.at \div Day
    /\ s.period \in Daily!DuePeriods(s.at)

DailyInv ==
    /\ time \in Nat
    /\ sending # Nothing => CheckIn(sending) /\ sending.at <= time
    /\ inbox \in Seq([date : Nat, period : DOMAIN CheckIns, at : Nat])
    /\ \A i \in DOMAIN inbox :
         /\ CheckIn(inbox[i]) /\ inbox[i].at <= time
         /\ sending # Nothing => inbox[i].at <= sending.at
         /\ <<inbox[i].date, inbox[i].period>> \in delivered
    /\ Daily!CheckInsAreSpread

\* Of two that are not the same check-in, the later one begins after the earlier
\* one was sent.
LEMMA Spread ==
    ASSUME Daily!PlansAssumption, NEW s, CheckIn(s), NEW t, CheckIn(t), s.at <= t.at,
           <<s.date, s.period>> # <<t.date, t.period>>
    PROVE  s.date < t.date \/ (s.date = t.date /\ s.at % Day < CheckIns[t.period])
<1>0. CheckIns \in Seq(0 .. Day - 1) /\ Day \in Nat \ {0}
  BY DEF Daily!PlansAssumption
<1> DEFINE n == Len(CheckIns)
<1>a. n \in Nat /\ DOMAIN CheckIns = 1 .. n /\ \A i \in 1 .. n : CheckIns[i] \in 0 .. Day - 1
  BY <1>0, LenProperties, ElementOfSeq
<1> HIDE DEF n
<1>1. /\ s.at \in Nat /\ t.at \in Nat /\ s.date \in Nat /\ t.date \in Nat /\ Day \in Nat \ {0}
      /\ s.period \in DOMAIN CheckIns /\ t.period \in DOMAIN CheckIns
      /\ DOMAIN CheckIns = 1 .. n /\ n \in Nat
      /\ \A i \in DOMAIN CheckIns : CheckIns[i] \in Nat
  BY <1>0, <1>a DEF CheckIn
<1>2. s.date <= t.date /\ (s.date = t.date => s.at % Day <= t.at % Day)
  BY <1>1, LaterDay DEF CheckIn
<1>3. s.at % Day \in Nat /\ t.at % Day \in Nat
  BY <1>1
<1>4. ASSUME s.date = t.date PROVE s.at % Day < CheckIns[t.period]
  <2>1. Daily!DueAt(s.period, t.at)
    <3>1. CheckIns[s.period] <= s.at % Day
      BY DEF CheckIn, Daily!DuePeriods, Daily!DueAt
    <3> QED BY <1>1, <1>2, <1>3, <1>4, <3>1 DEF Daily!DueAt
  <2>2. s.period <= t.period
    BY <1>1, <2>1 DEF CheckIn, Daily!DuePeriods
  <2>3. ~Daily!DueAt(t.period, s.at)
    <3>1. SUFFICES ASSUME Daily!DueAt(t.period, s.at) PROVE FALSE
      OBVIOUS
    <3>2. t.period <= s.period
      BY <1>1, <3>1 DEF CheckIn, Daily!DuePeriods
    <3>3. s.period = t.period
      BY <1>1, <2>2, <3>2
    <3> QED BY <1>4, <3>3
  <2> QED BY <1>1, <1>3, <2>3 DEF Daily!DueAt
<1> QED BY <1>1, <1>2, <1>4

LEMMA DailyStep ==
    ASSUME Daily!PlansAssumption, DailyInv, [Daily!PlansNext]_(Daily!plansVars)
    PROVE  DailyInv'
<1>1. CASE Daily!Tick
  <2>1. /\ UNCHANGED <<time, delivered, inbox>> /\ sending'.at = time /\ CheckIn(sending')
    <3>1. PICK i \in Daily!DuePeriods(time) : sending' = [date |-> Daily!Today, period |-> i, at |-> time]
      BY <1>1 DEF Daily!Tick
    <3>2. time \in Nat /\ Daily!Today \in Nat /\ i \in DOMAIN CheckIns
      BY DayAndTick DEF DailyInv, Daily!Today, Daily!DuePeriods, Daily!PlansAssumption
    <3> QED BY <1>1, <3>1, <3>2 DEF Daily!Tick, CheckIn, Daily!Today
  <2> QED BY <2>1 DEF DailyInv, Daily!CheckInsAreSpread
<1>2. CASE Daily!CreatePlanReminderNotification
  <2>0. sending # Nothing /\ sending' = Nothing /\ time' = time /\ CheckIn(sending) /\ sending.at <= time
    BY <1>2 DEF Daily!CreatePlanReminderNotification, DailyInv
  <2>1. CASE inbox' = inbox /\ delivered' = delivered
    BY <2>0, <2>1 DEF DailyInv, Daily!CheckInsAreSpread
  <2>2. CASE /\ <<sending.date, sending.period>> \notin delivered
             /\ delivered' = delivered \cup {<<sending.date, sending.period>>}
             /\ inbox' = Append(inbox, sending)
    <3> DEFINE n == Len(inbox)
    <3>1. inbox \in Seq([date : Nat, period : DOMAIN CheckIns, at : Nat])
          /\ sending \in [date : Nat, period : DOMAIN CheckIns, at : Nat]
      BY <2>0 DEF DailyInv, CheckIn
    <3>2. /\ inbox' \in Seq([date : Nat, period : DOMAIN CheckIns, at : Nat]) /\ n \in Nat
          /\ DOMAIN inbox = 1 .. n /\ DOMAIN inbox' = 1 .. n + 1
          /\ \A i \in 1 .. n : inbox'[i] = inbox[i]
          /\ inbox'[n + 1] = sending
      BY <2>2, <3>1, AppendProperties, LenProperties
    <3> HIDE DEF n
    <3>3. \A i \in DOMAIN inbox' : /\ CheckIn(inbox'[i]) /\ inbox'[i].at <= time
                                   /\ <<inbox'[i].date, inbox'[i].period>> \in delivered'
      BY <2>0, <2>2, <3>2 DEF DailyInv
    <3>4. ASSUME NEW i \in 1 .. n + 1, NEW k \in 1 .. n + 1, i < k
          PROVE  \/ inbox'[i].date < inbox'[k].date
                 \/ inbox'[i].date = inbox'[k].date /\ inbox'[i].at % Day < CheckIns[inbox'[k].period]
      <4>1. i \in 1 .. n /\ inbox'[i] = inbox[i]
        BY SMTT(20), <3>2, <3>4
      <4>2. CASE k = n + 1
        <5>1. CheckIn(inbox[i]) /\ inbox[i].at <= sending.at /\ <<inbox[i].date, inbox[i].period>> \in delivered
          BY <2>0, <3>2, <4>1 DEF DailyInv
        <5>2. <<inbox[i].date, inbox[i].period>> # <<sending.date, sending.period>>
          BY <2>2, <5>1
        <5> QED BY <2>0, <3>2, <4>1, <4>2, <5>1, <5>2, Spread
      <4>3. CASE k # n + 1
        <5>1. k \in 1 .. n /\ inbox'[k] = inbox[k]
          BY SMTT(20), <3>2, <4>3
        <5> QED BY ZenonT(30), <3>2, <3>4, <4>1, <5>1 DEF DailyInv, Daily!CheckInsAreSpread
      <4> QED BY <4>2, <4>3
    <3>5. Daily!CheckInsAreSpread'
      BY <3>2, <3>4 DEF Daily!CheckInsAreSpread
    <3> QED BY <2>0, <3>2, <3>3, <3>5 DEF DailyInv, CheckIn
  <2> QED BY <1>2, <2>1, <2>2 DEF Daily!CreatePlanReminderNotification, Daily!IsNew
<1>3. CASE Daily!NotStored
  BY <1>3 DEF Daily!NotStored, DailyInv, Daily!CheckInsAreSpread
<1>4. CASE Daily!Passes
  <2>1. time' \in Nat /\ time <= time' /\ time \in Nat /\ UNCHANGED <<sending, delivered, inbox>>
    BY <1>4 DEF Daily!Passes, DailyInv
  <2>2. \A n \in Nat : n <= time => n <= time'
    BY <2>1
  <2> QED BY <2>1, <2>2 DEF DailyInv, CheckIn, Daily!CheckInsAreSpread
<1>5. ASSUME NEW p \in Plans, Daily!CreatePlan(p) \/ Daily!UpdatePlan(p) \/ Daily!DeletePlan(p)
                             \/ Daily!AddPlanTask(p) \/ Daily!SetPlanTaskDone(p)
      PROVE  DailyInv'
  <2>1. UNCHANGED <<time, sending, delivered, inbox>>
    BY <1>5 DEF Daily!CreatePlan, Daily!UpdatePlan, Daily!DeletePlan, Daily!AddPlanTask,
       Daily!SetPlanTaskDone,
                Daily!Change
  <2> QED BY <2>1 DEF DailyInv, CheckIn, Daily!CheckInsAreSpread
<1>6. CASE UNCHANGED Daily!plansVars
  BY <1>6 DEF Daily!plansVars, DailyInv, CheckIn, Daily!CheckInsAreSpread
<1> QED BY <1>1, <1>2, <1>3, <1>4, <1>5, <1>6 DEF Daily!PlansNext

(* Check-ins of a date (runScheduler of server.go and                         *)
(* CreatePlanReminderNotification of sqlite/plans.go) come once each, in      *)
(* order, and never two at once, for any number of plans, any day and any     *)
(* check-in times, whatever fails and is tried again.                         *)
THEOREM CheckInsStaySpread ==
    ASSUME Daily!PlansAssumption PROVE Daily!PlansSpec => []Daily!CheckInsAreSpread
<1>1. Daily!PlansInit => DailyInv
  BY DEF Daily!PlansInit, DailyInv, Daily!CheckInsAreSpread
<1>2. DailyInv /\ [Daily!PlansNext]_(Daily!plansVars) => DailyInv'
  BY DailyStep
<1>3. DailyInv => Daily!CheckInsAreSpread
  BY DEF DailyInv
<1> QED BY <1>1, <1>2, <1>3, PTL DEF Daily!PlansSpec

-----------------------------------------------------------------------------
(* Files and tags of a repository                                          *)

Tree == [Paths -> Contents \cup {Nothing}]

Completion == [branch : Branches, sequence : Nat, files : Tree \cup {Nothing}]

Tag == [sequence : Nat, files : Tree, completion : Nat \cup {Nothing}, history : SUBSET Nat]

TagsTyped == files \in Tree /\ completions \in Seq(Completion) /\ tags \in Seq(Tag)

\* The sequence numbers of a branch are different, and one of them is the last.
Numbered ==
    /\ \A i, j \in DOMAIN completions :
         i < j /\ completions[i].branch = completions[j].branch =>
             completions[i].sequence < completions[j].sequence
    /\ \A b \in Branches : \E n \in Nat :
         /\ n \in {completions[i].sequence : i \in Tags!OfBranch(b)} \cup {0}
         /\ \A i \in Tags!OfBranch(b) : completions[i].sequence <= n
    /\ \A i \in DOMAIN completions : completions[i].sequence > 0

Covers(i) == \E k \in DOMAIN tags : i \in tags[k].history

\* What the tags have in common with the completions of the default branch.
TagsCover ==
    /\ \A k \in DOMAIN tags :
         /\ tags[k].sequence <= tags[Len(tags)].sequence
         /\ tags[k].sequence = 0 \/ \E i \in Tags!OfBranch(Default) : completions[i].sequence = tags[k].sequence
         /\ \A i \in tags[k].history :
              i \in Tags!OfBranch(Default) /\ completions[i].sequence <= tags[k].sequence
    /\ \A i \in Tags!OfBranch(Default) :
         tags # <<>> /\ completions[i].sequence <= tags[Len(tags)].sequence => Covers(i)
    /\ \A k, l \in DOMAIN tags : k # l => tags[k].history \cap tags[l].history = {}

\* No file of a tree lies in another.
Flat(tree) == \A p, q \in Paths : Nothing \notin {tree[p], tree[q]} => <<p, q>> \notin Inside

TreesAreFlat ==
    /\ Flat(files)
    /\ \A i \in DOMAIN completions : completions[i].files # Nothing => Flat(completions[i].files)
    /\ \A k \in DOMAIN tags : Flat(tags[k].files)

TagsHold ==
    \A k \in DOMAIN tags :
      LET c == tags[k].completion
      IN c # Nothing => /\ c \in DOMAIN completions
                        /\ completions[c].files # Nothing => tags[k].files = completions[c].files

TagsInv == TagsTyped /\ Numbered /\ TagsCover /\ TreesAreFlat /\ TagsHold

-----------------------------------------------------------------------------

LEMMA Fields ==
    ASSUME TagsTyped
    PROVE  /\ \A i \in DOMAIN completions : /\ completions[i].sequence \in Nat
                                           /\ completions[i].files \in Tree \cup {Nothing}
           /\ \A k \in DOMAIN tags : tags[k].sequence \in Nat
           /\ Len(tags) \in Nat /\ DOMAIN tags = 1 .. Len(tags) /\ (Len(tags) = 0 <=> tags = <<>>)
<1>1. (\A i \in DOMAIN completions : completions[i] \in Completion) /\ \A k \in DOMAIN tags : tags[k] \in Tag
  BY DEF TagsTyped
<1>2. \A i \in DOMAIN completions : /\ completions[i].sequence \in Nat
                                    /\ completions[i].files \in Tree \cup {Nothing}
  BY <1>1 DEF Completion
<1>3. \A k \in DOMAIN tags : tags[k].sequence \in Nat
  BY <1>1 DEF Tag
<1>4. Len(tags) \in Nat /\ DOMAIN tags = 1 .. Len(tags) /\ (Len(tags) = 0 <=> tags = <<>>)
  BY DEF TagsTyped
<1> QED BY <1>2, <1>3, <1>4

\* No completion of a branch has a greater number than the last.
LEMMA LastIsGreatest ==
    ASSUME TagsTyped, Numbered, NEW b \in Branches
    PROVE  /\ Tags!LastSequence(b) \in Nat
           /\ \A i \in Tags!OfBranch(b) : completions[i].sequence <= Tags!LastSequence(b)
           /\ Tags!OfBranch(b) = {} => Tags!LastSequence(b) = 0
           /\ Tags!OfBranch(b) # {} => \E i \in Tags!OfBranch(b) : completions[i].sequence = Tags!LastSequence(b)
<1> DEFINE S == {completions[i].sequence : i \in Tags!OfBranch(b)} \cup {0}
<1>1. S \subseteq Nat
  BY Fields DEF Tags!OfBranch
<1>2. PICK n \in S : \A y \in S : n >= y
  BY <1>1 DEF Numbered
<1>3. Tags!LastSequence(b) = Tags!Max(S)
  BY DEF Tags!LastSequence
<1>4. Tags!Max(S) \in S /\ \A y \in S : Tags!Max(S) >= y
  BY <1>2 DEF Tags!Max
<1>5. \A i \in Tags!OfBranch(b) : completions[i].sequence > 0
  BY DEF Numbered, Tags!OfBranch
<1>6. \A i \in Tags!OfBranch(b) : completions[i].sequence \in S
  OBVIOUS
<1>7. Tags!LastSequence(b) \in S /\ \A y \in S : Tags!LastSequence(b) >= y
  BY <1>3, <1>4
<1>8. Tags!LastSequence(b) = 0 => Tags!OfBranch(b) = {}
  <2>1. SUFFICES ASSUME Tags!LastSequence(b) = 0, NEW i \in Tags!OfBranch(b) PROVE FALSE
    OBVIOUS
  <2>2. completions[i].sequence \in Nat /\ completions[i].sequence <= 0
    BY <1>1, <1>6, <1>7, <2>1
  <2> QED BY <1>5, <2>2
<1>9. Tags!LastSequence(b) = 0 \/ \E i \in Tags!OfBranch(b) : completions[i].sequence = Tags!LastSequence(b)
  BY <1>7
<1>10. Tags!LastSequence(b) \in Nat /\ \A i \in Tags!OfBranch(b) : completions[i].sequence <= Tags!LastSequence(b)
  BY <1>1, <1>6, <1>7
<1>11. Tags!OfBranch(b) = {} => S = {0}
  OBVIOUS
<1>12. Tags!OfBranch(b) = {} => Tags!LastSequence(b) = 0
  BY <1>7, <1>11
<1> HIDE DEF S
<1> QED BY <1>8, <1>9, <1>10, <1>12

LEMMA LatestIsLast ==
    ASSUME TagsTyped, Numbered, NEW b \in Branches, Tags!OfBranch(b) # {}
    PROVE  Tags!Latest(b) \in Tags!OfBranch(b) /\ completions[Tags!Latest(b)].sequence = Tags!LastSequence(b)
BY LastIsGreatest DEF Tags!Latest

-----------------------------------------------------------------------------

LEMMA TagsInitially == ASSUME Tags!TagsAssumption PROVE Tags!TagsInit => TagsInv
<1> SUFFICES ASSUME Tags!TagsInit PROVE TagsInv
  OBVIOUS
<1> USE DEF Tags!TagsAssumption
<1>1. PICK p \in Paths, c \in Contents : files = [Tags!NoFiles EXCEPT ![p] = c]
  BY DEF Tags!TagsInit
<1>2. files \in Tree /\ \A q \in Paths : files[q] # Nothing => q = p
  BY <1>1 DEF Tags!NoFiles, Tree
<1>3. PICK old \in {0, 1} :
        completions = [i \in 1 .. old |-> [branch |-> Default, sequence |-> 1, files |-> Nothing]]
  BY DEF Tags!TagsInit
<1>4. completions \in Seq(Completion)
  BY <1>3 DEF Completion
<1>5. tags = <<>> /\ tags \in Seq(Tag)
  BY DEF Tags!TagsInit
<1>6. Numbered
  <2>1. CASE old = 0
    BY <1>3, <2>1 DEF Numbered, Tags!OfBranch
  <2>2. CASE old = 1
    <3>1. /\ DOMAIN completions = {1} /\ completions[1].sequence = 1
          /\ completions[1].branch = Default
      BY <1>3, <2>2
    <3>2. \A b \in Branches : Tags!OfBranch(b) = IF b = Default THEN {1} ELSE {}
      BY <3>1 DEF Tags!OfBranch
    <3> QED BY <3>1, <3>2 DEF Numbered
  <2> QED BY <2>1, <2>2
<1>7. TreesAreFlat
  <2>1. Flat(files)
    BY <1>2 DEF Flat
  <2>2. \A i \in DOMAIN completions : completions[i].files = Nothing
    BY <1>3
  <2> QED BY <1>5, <2>1, <2>2 DEF TreesAreFlat
<1> QED BY <1>2, <1>4, <1>5, <1>6, <1>7 DEF TagsInv, TagsTyped, TagsCover, TagsHold

\* What may change of the files leaves the rest as it was.
LEMMA FilesChange ==
    ASSUME Tags!TagsAssumption, TagsInv, files' \in Tree, Flat(files'), UNCHANGED <<completions, tags>>
    PROVE  TagsInv'
BY DEF TagsInv, TagsTyped, Numbered, Tags!OfBranch, TagsCover, Covers, TreesAreFlat, TagsHold

LEMMA FilesStep ==
    ASSUME Tags!TagsAssumption, TagsInv, NEW p \in Paths, Tags!SaveRepositoryFile(p) \/ Tags!DeleteRepositoryFile(p)
    PROVE  TagsInv'
<1>0. files \in Tree /\ Flat(files)
  BY DEF TagsInv, TagsTyped, TreesAreFlat
<1>1. CASE Tags!SaveRepositoryFile(p)
  <2>1. PICK c \in Contents : files' = [files EXCEPT ![p] = c]
    BY <1>1 DEF Tags!SaveRepositoryFile
  <2>2. files' \in Tree /\ \A q \in Paths : q # p => files'[q] = files[q]
    BY <1>0, <2>1 DEF Tree
  <2>3. \A q \in Paths : q # p /\ files[q] # Nothing => ~Tags!Overlaps(p, q)
    BY <1>1 DEF Tags!SaveRepositoryFile, Tags!Stored
  <2>4. <<p, p>> \notin Inside
    BY DEF Tags!TagsAssumption
  <2>5. Flat(files')
    BY <1>0, <2>2, <2>3, <2>4 DEF Flat, Tags!Overlaps
  <2> QED BY <1>1, <2>2, <2>5, FilesChange DEF Tags!SaveRepositoryFile
<1>2. CASE Tags!DeleteRepositoryFile(p)
  <2>1. files' = [files EXCEPT ![p] = Nothing] /\ UNCHANGED <<completions, tags>>
    BY <1>2 DEF Tags!DeleteRepositoryFile
  <2>2. files' \in Tree /\ \A q \in Paths : files'[q] # Nothing => files'[q] = files[q]
    BY <1>0, <2>1 DEF Tree
  <2>3. Flat(files')
    BY <1>0, <2>2 DEF Flat
  <2> QED BY <2>1, <2>2, <2>3, FilesChange
<1> QED BY <1>1, <1>2

LEMMA CompleteStep ==
    ASSUME Tags!TagsAssumption, TagsInv, NEW b \in Branches, Tags!Complete(b)
    PROVE  TagsInv'
<1> DEFINE n == Len(completions)
           r == [branch |-> b, sequence |-> Tags!LastSequence(b) + 1, files |-> files]
<1>0. TagsTyped /\ Numbered /\ TagsCover /\ TreesAreFlat /\ TagsHold /\ Default \in Branches
  BY DEF TagsInv, Tags!TagsAssumption
<1>1. files' = files /\ tags' = tags /\ completions' = Append(completions, r)
  BY DEF Tags!Complete
<1>2. /\ Tags!LastSequence(b) \in Nat
      /\ \A i \in Tags!OfBranch(b) : completions[i].sequence <= Tags!LastSequence(b)
  BY <1>0, LastIsGreatest
<1>3. r \in Completion /\ r.branch = b /\ r.sequence = Tags!LastSequence(b) + 1 /\ r.files = files
  BY <1>0, <1>2 DEF Completion, TagsTyped
<1>4. /\ n \in Nat /\ DOMAIN completions = 1 .. n /\ DOMAIN completions' = 1 .. n + 1
      /\ completions' \in Seq(Completion)
      /\ \A i \in 1 .. n : completions'[i] = completions[i]
      /\ completions'[n + 1] = r
  BY <1>0, <1>1, <1>3 DEF TagsTyped
<1>5. \A i \in 1 .. n : completions[i].sequence \in Nat
  BY <1>0, <1>4, Fields
<1> HIDE DEF r, n
<1>6. \A c \in Branches : Tags!OfBranch(c)' = IF c = b THEN Tags!OfBranch(c) \cup {n + 1} ELSE Tags!OfBranch(c)
  BY <1>3, <1>4 DEF Tags!OfBranch
<1>7. \A c \in Branches : Tags!OfBranch(c) \subseteq 1 .. n
  BY <1>4 DEF Tags!OfBranch
<1>8. Numbered'
  <2>1. ASSUME NEW i \in DOMAIN completions', NEW j \in DOMAIN completions', i < j,
               completions'[i].branch = completions'[j].branch
        PROVE  completions'[i].sequence < completions'[j].sequence
    <3>1. CASE j = n + 1
      <4>1. i \in 1 .. n /\ completions[i].branch = b
        BY <1>3, <1>4, <2>1, <3>1
      <4>2. completions[i].sequence <= Tags!LastSequence(b)
        BY <1>2, <1>4, <4>1 DEF Tags!OfBranch
      <4> QED BY <1>2, <1>3, <1>4, <1>5, <3>1, <4>1, <4>2
    <3>2. CASE j # n + 1
      <4>1. i \in 1 .. n /\ j \in 1 .. n
        BY <1>4, <2>1, <3>2
      <4> QED BY <1>0, <1>4, <2>1, <4>1 DEF Numbered
    <3> QED BY <3>1, <3>2
  <2>2. ASSUME NEW c \in Branches
        PROVE  \E m \in Nat : /\ m \in {completions'[i].sequence : i \in Tags!OfBranch(c)'} \cup {0}
                              /\ \A i \in Tags!OfBranch(c)' : completions'[i].sequence <= m
    <3>1. CASE c = b
      <4>1. n + 1 \in Tags!OfBranch(c)' /\ r.sequence \in Nat
        BY <1>2, <1>3, <1>6, <3>1
      <4>2. r.sequence \in {completions'[i].sequence : i \in Tags!OfBranch(c)'}
        BY <1>4, <4>1
      <4>3. \A i \in Tags!OfBranch(c)' : completions'[i].sequence <= r.sequence
        BY <1>2, <1>3, <1>4, <1>5, <1>6, <1>7, <3>1
      <4> QED BY <4>1, <4>2, <4>3
    <3>2. CASE c # b
      <4>1. Tags!OfBranch(c)' = Tags!OfBranch(c) /\ \A i \in Tags!OfBranch(c) : completions'[i] = completions[i]
        BY <1>4, <1>6, <1>7, <3>2
      <4>2. PICK m \in Nat : /\ m \in {completions[i].sequence : i \in Tags!OfBranch(c)} \cup {0}
                             /\ \A i \in Tags!OfBranch(c) : completions[i].sequence <= m
        BY <1>0 DEF Numbered
      <4>3. m \in {completions'[i].sequence : i \in Tags!OfBranch(c)'} \cup {0}
        BY <4>1, <4>2
      <4> QED BY <4>1, <4>2, <4>3
    <3> QED BY <3>1, <3>2
  <2>3. \A i \in DOMAIN completions' : completions'[i].sequence > 0
    BY <1>0, <1>2, <1>3, <1>4 DEF Numbered
  <2> QED BY <2>1, <2>2, <2>3 DEF Numbered
<1>9. TagsCover'
  <2>1. ASSUME NEW k \in DOMAIN tags
        PROVE  /\ tags[k].sequence <= tags[Len(tags)].sequence
               /\ tags[k].sequence = 0 \/ \E i \in Tags!OfBranch(Default)' : completions'[i].sequence = tags[k].sequence
               /\ \A i \in tags[k].history :
                    i \in Tags!OfBranch(Default)' /\ completions'[i].sequence <= tags[k].sequence
    BY <1>0, <1>4, <1>6, <1>7 DEF TagsCover
  <2>2. ASSUME NEW i \in Tags!OfBranch(Default)', tags # <<>>,
               completions'[i].sequence <= tags[Len(tags)].sequence
        PROVE  Covers(i)
    <3>1. i \in Tags!OfBranch(Default)
      <4>1. SUFFICES ASSUME i = n + 1, b = Default PROVE FALSE
        BY <1>0, <1>6
      <4>2. Len(tags) \in DOMAIN tags
        BY <1>0, <2>2 DEF TagsTyped
      <4>3. tags[Len(tags)].sequence <= Tags!LastSequence(Default)
        BY <1>0, <1>2, <4>1, <4>2 DEF TagsCover
      <4>4. tags[Len(tags)].sequence \in Nat
        BY <1>0, <4>2, Fields
      <4>5. completions'[i].sequence = Tags!LastSequence(Default) + 1 /\ Tags!LastSequence(Default) \in Nat
        BY <1>2, <1>3, <1>4, <4>1
      <4> QED BY <2>2, <4>3, <4>4, <4>5
    <3> QED BY <1>0, <1>4, <1>7, <2>2, <3>1 DEF TagsCover
  <2>3. \A k, l \in DOMAIN tags : k # l => tags[k].history \cap tags[l].history = {}
    BY <1>0 DEF TagsCover
  <2> QED BY <1>1, <2>1, <2>2, <2>3 DEF TagsCover, Covers
<1>10. TreesAreFlat'
  BY <1>0, <1>1, <1>3, <1>4 DEF TreesAreFlat, Flat
<1>11. TagsHold'
  BY <1>0, <1>1, <1>4 DEF TagsHold
<1>12. TagsTyped'
  BY <1>0, <1>1, <1>4 DEF TagsTyped
<1> QED BY <1>8, <1>9, <1>10, <1>11, <1>12 DEF TagsInv

LEMMA TagStep ==
    ASSUME Tags!TagsAssumption, TagsInv, Tags!CreateRepositoryTag
    PROVE  TagsInv'
<1> DEFINE n == Len(tags)
           L == Tags!LastSequence(Default)
           previous == IF tags = <<>> THEN 0 ELSE Tags!Last(tags).sequence
           r == [sequence |-> L, files |-> Tags!TagFiles,
                 completion |-> IF Tags!OfBranch(Default) = {} THEN Nothing ELSE Tags!Latest(Default),
                 history |-> Tags!Window(previous, L)]
<1>0. TagsTyped /\ Numbered /\ TagsCover /\ TreesAreFlat /\ TagsHold /\ Default \in Branches
  BY DEF TagsInv, Tags!TagsAssumption
<1>1. files' = files /\ completions' = completions /\ tags' = Append(tags, r)
  BY DEF Tags!CreateRepositoryTag
<1>2. /\ L \in Nat /\ \A i \in Tags!OfBranch(Default) : completions[i].sequence <= L
      /\ L = 0 \/ \E i \in Tags!OfBranch(Default) : completions[i].sequence = L
  BY <1>0, LastIsGreatest
<1>3. Tags!OfBranch(Default) # {} => Tags!Latest(Default) \in Tags!OfBranch(Default)
  BY <1>0, LatestIsLast
<1>4. Tags!OfBranch(Default) \subseteq DOMAIN completions /\ DOMAIN completions \subseteq Nat
  BY <1>0 DEF Tags!OfBranch, TagsTyped
<1>5. \A i \in DOMAIN completions : completions[i].sequence \in Nat /\ completions[i].files \in Tree \cup {Nothing}
  BY <1>0, Fields
<1>6. Tags!TagFiles \in Tree /\ Flat(Tags!TagFiles)
  BY <1>0, <1>3, <1>4, <1>5 DEF Tags!TagFiles, TagsTyped, TreesAreFlat
<1>7. r.history = Tags!Window(previous, L) /\ r.sequence = L /\ r.files = Tags!TagFiles
      /\ r.completion = IF Tags!OfBranch(Default) = {} THEN Nothing ELSE Tags!Latest(Default)
  OBVIOUS
<1>8. r.history \subseteq Tags!OfBranch(Default)
  BY <1>7 DEF Tags!Window
<1>9. r \in Tag
  BY <1>2, <1>3, <1>4, <1>6, <1>8 DEF Tag
<1>10. /\ n \in Nat /\ DOMAIN tags = 1 .. n /\ DOMAIN tags' = 1 .. n + 1 /\ Len(tags') = n + 1
       /\ tags' \in Seq(Tag)
       /\ \A k \in 1 .. n : tags'[k] = tags[k] /\ tags[k].sequence \in Nat
       /\ tags'[n + 1] = r
       /\ n = 0 <=> tags = <<>>
  <2>1. tags \in Seq(Tag)
    BY <1>0 DEF TagsTyped
  <2>2. Append(tags, r) \in Seq(Tag) /\ Len(Append(tags, r)) = n + 1
        /\ DOMAIN Append(tags, r) = 1 .. n + 1
        /\ (\A k \in 1 .. n : Append(tags, r)[k] = tags[k]) /\ Append(tags, r)[n + 1] = r
    BY <1>9, <2>1
  <2> QED BY <1>0, <1>1, <2>2, Fields
<1>11. previous = IF n = 0 THEN 0 ELSE tags[n].sequence
  BY <1>10 DEF Tags!Last
<1>12. previous \in Nat /\ \A k \in 1 .. n : tags[k].sequence <= previous
  BY <1>0, <1>10, <1>11 DEF TagsCover
<1>13. Tags!OfBranch(Default)' = Tags!OfBranch(Default)
  BY <1>1 DEF Tags!OfBranch
<1>14. \A i \in Tags!OfBranch(Default) :
         i \in r.history <=> previous < completions[i].sequence /\ completions[i].sequence <= L
  BY <1>7 DEF Tags!Window
<1> HIDE DEF n, L, previous, r
<1>15. TagsCover'
  <2>1. ASSUME NEW k \in 1 .. n + 1
        PROVE  /\ tags'[k].sequence <= L
               /\ tags'[k].sequence = 0 \/ \E i \in Tags!OfBranch(Default) : completions[i].sequence = tags'[k].sequence
               /\ \A i \in tags'[k].history :
                    i \in Tags!OfBranch(Default) /\ completions[i].sequence <= tags'[k].sequence
    <3>1. CASE k = n + 1
      BY <1>2, <1>7, <1>8, <1>10, <1>14, <3>1
    <3>2. CASE k \in 1 .. n
      <4>1. tags'[k] = tags[k] /\ tags[k].sequence \in Nat
        BY <1>10, <3>2
      <4>2. tags[k].sequence = 0 \/ \E i \in Tags!OfBranch(Default) : completions[i].sequence = tags[k].sequence
        BY <1>0, <1>10, <3>2 DEF TagsCover
      <4>3. tags[k].sequence <= L
        BY <1>2, <4>2
      <4>4. \A i \in tags[k].history :
              i \in Tags!OfBranch(Default) /\ completions[i].sequence <= tags[k].sequence
        BY <1>0, <1>10, <3>2 DEF TagsCover
      <4> QED BY <4>1, <4>2, <4>3, <4>4
    <3> QED BY <1>10, <3>1, <3>2
  <2>2. ASSUME NEW i \in Tags!OfBranch(Default) PROVE \E k \in 1 .. n + 1 : i \in tags'[k].history
    <3>1. completions[i].sequence \in Nat /\ completions[i].sequence > 0 /\ completions[i].sequence <= L
      BY <1>0, <1>2, <1>4, <1>5 DEF Numbered
    <3>2. CASE completions[i].sequence <= previous
      <4>1. n # 0 /\ completions[i].sequence <= tags[n].sequence
        BY <1>11, <3>1, <3>2
      <4>2. \E k \in 1 .. n : i \in tags[k].history
        BY <1>0, <1>10, <4>1 DEF TagsCover, Covers
      <4> QED BY <1>10, <4>2
    <3>3. CASE completions[i].sequence > previous
      BY <1>10, <1>14, <3>1, <3>3
    <3> QED BY <1>12, <3>1, <3>2, <3>3
  <2>3. ASSUME NEW k \in 1 .. n PROVE tags[k].history \cap r.history = {}
    <3>1. SUFFICES ASSUME NEW i \in tags[k].history, i \in r.history PROVE FALSE
      OBVIOUS
    <3>2. i \in Tags!OfBranch(Default) /\ completions[i].sequence <= tags[k].sequence
      BY <1>0, <1>10 DEF TagsCover
    <3> QED BY <1>4, <1>5, <1>10, <1>12, <1>14, <3>1, <3>2
  <2>4. \A k, l \in 1 .. n : k # l => tags[k].history \cap tags[l].history = {}
    BY <1>0, <1>10 DEF TagsCover
  <2>5. ASSUME NEW k \in 1 .. n + 1, NEW l \in 1 .. n + 1, k # l
        PROVE  tags'[k].history \cap tags'[l].history = {}
    <3>1. CASE k = n + 1
      BY <1>10, <2>3, <2>5, <3>1
    <3>2. CASE l = n + 1
      BY <1>10, <2>3, <2>5, <3>2
    <3>3. CASE k # n + 1 /\ l # n + 1
      BY <1>10, <2>4, <2>5, <3>3
    <3> QED BY <3>1, <3>2, <3>3
  <2>6. tags'[Len(tags')].sequence = L
    BY <1>7, <1>10
  <2> QED BY SMTT(20), <1>1, <1>10, <1>13, <2>1, <2>2, <2>5, <2>6 DEF TagsCover, Covers
<1>16. TreesAreFlat'
  BY <1>0, <1>1, <1>6, <1>7, <1>10 DEF TreesAreFlat, Flat
<1>17. TagsHold'
  <2>1. r.completion # Nothing =>
          /\ r.completion \in DOMAIN completions
          /\ completions[r.completion].files # Nothing => r.files = completions[r.completion].files
    BY <1>3, <1>4, <1>7 DEF Tags!TagFiles
  <2> QED BY <1>0, <1>1, <1>10, <2>1 DEF TagsHold
<1>18. TagsTyped' /\ Numbered'
  BY <1>0, <1>1, <1>10 DEF TagsTyped, Numbered, Tags!OfBranch
<1> QED BY <1>15, <1>16, <1>17, <1>18 DEF TagsInv

LEMMA TagsAlways == ASSUME Tags!TagsAssumption PROVE Tags!TagsSpec => []TagsInv
<1>1. TagsInv /\ [Tags!TagsNext]_(Tags!tagsVars) => TagsInv'
  <2> SUFFICES ASSUME TagsInv, [Tags!TagsNext]_(Tags!tagsVars) PROVE TagsInv'
    OBVIOUS
  <2>1. CASE \E p \in Paths : Tags!SaveRepositoryFile(p) \/ Tags!DeleteRepositoryFile(p)
    BY <2>1, FilesStep
  <2>2. CASE \E b \in Branches : Tags!Complete(b)
    BY <2>2, CompleteStep
  <2>3. CASE Tags!CreateRepositoryTag
    BY <2>3, TagStep
  <2>4. CASE UNCHANGED Tags!tagsVars
    BY <2>4 DEF Tags!tagsVars, TagsInv, TagsTyped, Numbered, Tags!OfBranch, TagsCover, Covers,
       TreesAreFlat, TagsHold
  <2> QED BY <2>1, <2>2, <2>3, <2>4 DEF Tags!TagsNext
<1> QED BY <1>1, TagsInitially, PTL DEF Tags!TagsSpec

-----------------------------------------------------------------------------

(* CreateRepositoryTag and accepting a pull request (repository_simulated.go): *)
(* in whatever order tags and completions are made, each completion of the     *)
(* default branch up to the latest tag is in the history of exactly one tag.   *)
THEOREM TagsPartition ==
    ASSUME Tags!TagsAssumption PROVE Tags!TagsSpec => []Tags!TagsPartitionHistory
<1>1. TagsInv => Tags!TagsPartitionHistory
  <2> SUFFICES ASSUME TagsInv PROVE Tags!TagsPartitionHistory
    OBVIOUS
  <2>0. TagsTyped /\ TagsCover /\ Numbered /\ Default \in Branches
    BY DEF TagsInv, Tags!TagsAssumption
  <2>1. Tags!Last(tags) = tags[Len(tags)]
    BY DEF Tags!Last
  <2>2. ASSUME NEW i \in Tags!OfBranch(Default)
        PROVE  Cardinality({k \in DOMAIN tags : i \in tags[k].history}) =
                 IF tags # <<>> /\ completions[i].sequence <= Tags!Last(tags).sequence THEN 1 ELSE 0
    <3> DEFINE of == {k \in DOMAIN tags : i \in tags[k].history}
    <3>1. \A k, l \in of : k = l
      BY <2>0 DEF TagsCover
    <3>2. CASE tags # <<>> /\ completions[i].sequence <= Tags!Last(tags).sequence
      <4>1. PICK k \in DOMAIN tags : i \in tags[k].history
        BY <2>0, <2>1, <3>2 DEF TagsCover, Covers
      <4>2. of = {k}
        BY <3>1, <4>1
      <4>3. Cardinality(of) = 1
        BY <4>2, FS_Singleton
      <4> QED BY <3>2, <4>3
    <3>3. CASE ~(tags # <<>> /\ completions[i].sequence <= Tags!Last(tags).sequence)
      <4>1. of = {}
        <5>1. SUFFICES ASSUME NEW k \in DOMAIN tags, i \in tags[k].history PROVE FALSE
          OBVIOUS
        <5>2. tags # <<>> /\ Len(tags) \in DOMAIN tags
          BY <2>0, <5>1 DEF TagsTyped
        <5>3. completions[i].sequence <= tags[k].sequence /\ tags[k].sequence <= tags[Len(tags)].sequence
          BY <2>0, <5>1 DEF TagsCover
        <5>4. /\ completions[i].sequence \in Nat
              /\ tags[k].sequence \in Nat /\ tags[Len(tags)].sequence \in Nat
          BY <2>0, <5>2, Fields DEF Tags!OfBranch
        <5> QED BY <2>1, <3>3, <5>2, <5>3, <5>4
      <4>2. Cardinality(of) = 0
        BY <4>1, FS_EmptySet
      <4> QED BY <3>3, <4>2
    <3> QED BY <3>2, <3>3
  <2>3. \A k \in DOMAIN tags : tags[k].history \subseteq Tags!OfBranch(Default)
    BY <2>0 DEF TagsCover
  <2>4. \A S : Tags!Cardinality(S) = Cardinality(S)
    BY Zenon DEF Cardinality, Tags!Cardinality
  <2>5. Tags!Last(tags) = tags[Len(tags)]
    BY DEF Tags!Last
  <2> QED BY <2>2, <2>3, <2>4, <2>5 DEF Tags!TagsPartitionHistory
<1> QED BY <1>1, TagsAlways, PTL

(* TagFiles (repository_simulated.go): a tag holds the files its completion    *)
(* accepted, and no working or kept file lies in another.                      *)
THEOREM TagsHoldAccepted ==
    ASSUME Tags!TagsAssumption PROVE Tags!TagsSpec => []Tags!TagHoldsAccepted
<1>1. TagsInv => Tags!TagHoldsAccepted
  BY DEF TagsInv, Tags!TagHoldsAccepted, TagsHold, TreesAreFlat, Flat
<1> QED BY <1>1, TagsAlways, PTL


(* The changes that CompareRepositoryTags (repository_simulated.go) reports    *)
(* between a tag and the one before it, or no files, are all of them.          *)
THEOREM ComparisonsAreExact ==
    ASSUME Tags!TagsAssumption PROVE Tags!TagsSpec => []Tags!ComparisonIsExact
<1>1. TagsInv => Tags!ComparisonIsExact
  <2> SUFFICES ASSUME TagsInv, NEW k \in DOMAIN tags
               PROVE  LET old == Tags!TreeOf(k - 1)
                          c == Tags!Compared(old, tags[k].files)
                      IN  tags[k].files = [p \in Paths |->
                            IF p \in c.deleted THEN Nothing
                            ELSE IF p \in c.added \cup c.modified THEN tags[k].files[p] ELSE old[p]]
    BY DEF Tags!ComparisonIsExact
  <2> DEFINE old == Tags!TreeOf(k - 1)
             new == tags[k].files
             c == Tags!Compared(old, new)
  <2>1. new \in Tree
    <3>1. tags[k] \in Tag
      BY DEF TagsInv, TagsTyped
    <3> HIDE DEF new
    <3> QED BY <3>1 DEF Tag, new
  <2>2. \A p \in Paths :
          /\ p \in c.deleted <=> old[p] # Nothing /\ new[p] = Nothing
          /\ p \in c.added <=> old[p] = Nothing /\ new[p] # Nothing
          /\ p \in c.modified <=> Nothing \notin {old[p], new[p]} /\ old[p] # new[p]
    BY DEF Tags!Compared
  <2> HIDE DEF old, new, c
  <2>3. \A p \in Paths : new[p] = IF p \in c.deleted THEN Nothing
                                  ELSE IF p \in c.added \cup c.modified THEN new[p] ELSE old[p]
    BY <2>2
  <2>4. new = [p \in Paths |-> IF p \in c.deleted THEN Nothing
                               ELSE IF p \in c.added \cup c.modified THEN new[p] ELSE old[p]]
    BY <2>1, <2>3 DEF Tree
  <2> QED BY <2>4 DEF old, new, c
<1> QED BY <1>1, TagsAlways, PTL
=============================================================================
