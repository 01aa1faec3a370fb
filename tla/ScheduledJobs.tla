---------------------------- MODULE ScheduledJobs ----------------------------
(***************************************************************************)
(* Scheduled jobs: the table of jobs, the scheduler's tick, which runs all *)
(* that is due in one transaction, and the users who create, edit, pause,  *)
(* resume, run and delete jobs meanwhile.                                  *)
(*                                                                         *)
(* Time is a number of ticks, Day of them a day; the calendar gives the    *)
(* day on which each month begins.                                         *)
(***************************************************************************)
EXTENDS Integers, FiniteSets, FiniteSetsExt, Sequences

CONSTANTS Jobs,
          Schedules,   \* the schedules that users choose from
          Day,         \* ticks of a day
          Week,        \* days of a week
          MonthBegins, \* the first day of each month, the last two beyond the horizon
          MaxTime,     \* bound: the horizon
          MaxRuns,     \* bound: runs of a job by hand
          MaxEdits,    \* bound: writes of a job, its creation among them
          Nothing

JobsAssumption ==
  /\ {Day, Week} \subseteq Nat \ {0} /\ {MaxTime, MaxRuns, MaxEdits} \subseteq Nat
  /\ MonthBegins \in Seq(Nat) /\ Len(MonthBegins) > 1 /\ MonthBegins[1] = 0
  /\ \A m, n \in DOMAIN MonthBegins : m < n => MonthBegins[m] < MonthBegins[n]
  /\ MaxTime < MonthBegins[Len(MonthBegins) - 1] * Day
  /\ \A s \in Schedules :
       /\ s.type \in {"interval", "once", "daily", "weekly", "monthly"}
       /\ s.type = "interval" => s.minutes \in Nat \ {0}
       /\ s.type \in {"daily", "weekly", "monthly"} => s.clock \in 0 .. Day - 1
       /\ s.type = "weekly" => s.weekday \in 0 .. Week - 1
       /\ s.type = "monthly" => s.day \in Nat \ {0}

VARIABLES now,     \* the clock
          table,   \* scheduled_jobs
          editing, \* edits that the service has accepted and the store has not written, one of a job
          history  \* of each job: runs by hand, writes, runs since it was last written

jobsVars == <<now, table, editing, history>>

NoHistory == [byHand |-> 0, edits |-> 0, since |-> 0]

JobsInit ==
  /\ now = 0
  /\ table = [j \in Jobs |-> Nothing]
  /\ editing = {}
  /\ history = [j \in Jobs |-> NoHistory]

----------------------------------------------------------------------------
(* schedule.go *)

DayOf(t) == t \div Day
Months == 1 .. Len(MonthBegins) - 1
LengthOf(m) == MonthBegins[m + 1] - MonthBegins[m]
MonthOf(t) == CHOOSE m \in Months : MonthBegins[m] <= DayOf(t) /\ DayOf(t) < MonthBegins[m + 1]

\* a day that the month does not have is its last
InMonth(s, m) == (MonthBegins[m] + Min({s.day, LengthOf(m)}) - 1) * Day + s.clock

NextCalendarOccurrence(s, after) ==
  LET today == DayOf(after) * Day + s.clock
      inWeek == today + ((s.weekday - DayOf(after)) % Week) * Day
  IN CASE s.type = "daily"   -> IF today > after THEN today ELSE today + Day
       [] s.type = "weekly"  -> IF inWeek > after THEN inWeek ELSE inWeek + Week * Day
       [] s.type = "monthly" -> InMonth(s, Min({m \in Months : m >= MonthOf(after) /\ InMonth(s, m) > after}))

\* an interval keeps its cadence: those that were missed are passed over
NextInterval(s, next, after) ==
  IF next > after THEN next ELSE next + ((after - next) \div s.minutes + 1) * s.minutes

NextScheduledOccurrence(s, next, after) ==
  IF s.type = "interval" THEN NextInterval(s, next, after) ELSE NextCalendarOccurrence(s, after)

\* the first run of what the user asked for; Nothing stands for no date given
Prepared(s, asked, at) ==
  CASE s.type = "interval" -> IF asked = Nothing THEN at + s.minutes ELSE asked
    [] s.type = "once"     -> asked
    [] OTHER               -> NextCalendarOccurrence(s, at)

\* a one-time job has a date, in the future
Acceptable(s, asked) == s.type = "once" => asked # Nothing /\ asked > now

----------------------------------------------------------------------------
(* What users ask for: the service checks and prepares, the store prepares *)
(* again and writes.                                                       *)

Dates == (0 .. MaxTime) \cup {Nothing}
Exists(j) == table[j] # Nothing

Row(s, next, enabled, completed) ==
  [schedule |-> s, enabled |-> enabled, next |-> next, completed |-> completed]

Accepts(j, s, asked, enabled) ==
  /\ Acceptable(s, asked)
  /\ \A e \in editing : e.job # j
  /\ editing' = editing \cup {[job |-> j, new |-> ~Exists(j), schedule |-> s,
                               asked |-> Prepared(s, asked, now), enabled |-> enabled]}
  /\ UNCHANGED <<now, table, history>>

CreateScheduledJob(j, s, asked, enabled) ==
  history[j].edits = 0 /\ ~Exists(j) /\ Accepts(j, s, asked, enabled)

UpdateScheduledJob(j, s, asked, enabled) ==
  Exists(j) /\ history[j].edits < MaxEdits /\ Accepts(j, s, asked, enabled)

\* the row as the form had it is written over what the row is by now
Written(e) ==
  /\ editing' = editing \ {e}
  /\ IF e.new \/ Exists(e.job)
     THEN /\ table' = [table EXCEPT ![e.job] = Row(e.schedule, Prepared(e.schedule, e.asked, now), e.enabled, FALSE)]
          /\ history' = [history EXCEPT ![e.job].edits = @ + 1, ![e.job].since = 0]
     ELSE UNCHANGED <<table, history>>
  /\ UNCHANGED now

DeleteScheduledJob(j) ==
  /\ Exists(j)
  /\ table' = [table EXCEPT ![j] = Nothing]
  /\ history' = [history EXCEPT ![j].edits = MaxEdits]
  /\ UNCHANGED <<now, editing>>

\* resumed, a recurring job starts with its next occurrence
Resumed(job) ==
  IF ~job.enabled /\ job.next <= now /\ job.schedule.type # "once"
  THEN NextScheduledOccurrence(job.schedule, job.next, now) ELSE job.next

ToggleScheduledJob(j) ==
  /\ Exists(j) /\ (table[j].completed => table[j].enabled)
  /\ table' = [table EXCEPT ![j] = Row(@.schedule, Resumed(@), ~@.enabled, @.completed)]
  /\ UNCHANGED <<now, editing, history>>

----------------------------------------------------------------------------
(* executeScheduledJob, by the tick or by hand *)

Executed(job) ==
  IF job.schedule.type = "once" THEN Row(job.schedule, now, FALSE, TRUE)
  ELSE Row(job.schedule, NextScheduledOccurrence(job.schedule, job.next, now), job.enabled, FALSE)

Due(j) == Exists(j) /\ table[j].enabled /\ ~table[j].completed /\ table[j].next <= now

ProcessDueJobs ==
  /\ \E j \in Jobs : Due(j)
  /\ table' = [j \in Jobs |-> IF Due(j) THEN Executed(table[j]) ELSE table[j]]
  /\ history' = [j \in Jobs |-> IF Due(j) THEN [history[j] EXCEPT !.since = @ + 1]
                                ELSE history[j]]
  /\ UNCHANGED <<now, editing>>

MayRun(job) == ~job.completed

RunScheduledJobNow(j) ==
  /\ Exists(j) /\ MayRun(table[j]) /\ history[j].byHand < MaxRuns
  /\ table' = [table EXCEPT ![j] = Executed(@)]
  /\ history' = [history EXCEPT ![j].byHand = @ + 1, ![j].since = @ + 1]
  /\ UNCHANGED <<now, editing>>

\* time passes whether the scheduler runs or not
Passes == now < MaxTime /\ now' = now + 1 /\ UNCHANGED <<table, editing, history>>

JobsNext ==
  \/ Passes \/ ProcessDueJobs
  \/ \E j \in Jobs : DeleteScheduledJob(j) \/ ToggleScheduledJob(j) \/ RunScheduledJobNow(j)
  \/ \E j \in Jobs, s \in Schedules, asked \in Dates, enabled \in BOOLEAN :
       CreateScheduledJob(j, s, asked, enabled) \/ UpdateScheduledJob(j, s, asked, enabled)
  \/ \E e \in editing : Written(e)

JobsSpec == JobsInit /\ [][JobsNext]_jobsVars

----------------------------------------------------------------------------

JobsTypeOK ==
  /\ now \in 0 .. MaxTime
  /\ \A j \in Jobs : Exists(j) => /\ table[j].schedule \in Schedules /\ table[j].next \in Nat
                                  /\ {table[j].enabled, table[j].completed} \subseteq BOOLEAN
  /\ \A e \in editing : e.job \in Jobs /\ e.asked \in Nat

(* A one-time job runs once: the tick, a run by hand, a pause and a delayed *)
(* edit, in whatever order, never run again what its user has not scheduled *)
(* again, and a job that has run is off until then.                         *)
OnceRunsOnce ==
  \A j \in Jobs : Exists(j) /\ table[j].schedule.type = "once" =>
    /\ history[j].since <= 1
    /\ table[j].completed <=> history[j].since = 1
    /\ table[j].completed => ~table[j].enabled

\* what a schedule means, independently of how its next occurrence is computed
Meant(s, next, t) ==
  CASE s.type = "interval" -> (t - next) % s.minutes = 0
    [] s.type = "daily"    -> t % Day = s.clock
    [] s.type = "weekly"   -> t % Day = s.clock /\ DayOf(t) % Week = s.weekday
    [] s.type = "monthly"  -> /\ t % Day = s.clock
                              /\ LET dom == DayOf(t) - MonthBegins[MonthOf(t)] + 1
                                 IN dom = s.day \/ (s.day > dom /\ dom = LengthOf(MonthOf(t)))

FirstAfter(s, next, t) ==
  /\ t > now /\ Meant(s, next, t)
  /\ \A u \in (now + 1) .. (t - 1) : ~Meant(s, next, u)

(* A recurring job keeps its cadence: unless it is edited, its next run is   *)
(* moved only by a run or by resuming it, and then to the first time after   *)
(* now that its schedule means.  Missed occurrences are passed over instead  *)
(* of being made up for in a burst, and a run by hand skips none.            *)
CadenceStep ==
  \A j \in Jobs :
    LET before == table[j]
        after == table'[j]
    IN before # Nothing /\ after # Nothing /\ history'[j].edits = history[j].edits
         /\ before.schedule.type # "once" =>
       /\ after.next # before.next =>
            /\ history'[j].since > history[j].since \/ (~before.enabled /\ after.enabled)
            /\ before.next <= now
            /\ FirstAfter(before.schedule, before.next, after.next)
       /\ history'[j].since > history[j].since => after.next > now

=============================================================================
