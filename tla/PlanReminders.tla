---------------------------- MODULE PlanReminders ----------------------------
(***************************************************************************)
(* Daily plans with their checklists, and the check-ins that the scheduler *)
(* sends for the plans of the day: it looks at the plans, and stores the   *)
(* reminder in a transaction of its own, while plans are made, moved to    *)
(* another date, worked on and deleted.                                    *)
(***************************************************************************)
EXTENDS Naturals, Sequences, FiniteSets, SequencesExt

CONSTANTS Plans,
          MaxTasks, \* bound: tasks of a plan
          Day,      \* ticks of a day
          CheckIns, \* when morning, midday and evening begin, in ticks of the day
          MaxTime,  \* bound: the horizon
          MaxMoves, \* bound: changes of plans
          Nothing

PlansAssumption ==
  /\ {MaxTasks, MaxTime, MaxMoves} \subseteq Nat /\ Day \in Nat \ {0}
  /\ CheckIns \in Seq(0 .. Day - 1)
  /\ \A i, k \in DOMAIN CheckIns : i < k => CheckIns[i] < CheckIns[k]

VARIABLES time,
          plans,     \* plans and their tasks, done or not, in order
          sending,   \* the check-in that the scheduler is about to store
          delivered, \* plan_reminder_deliveries
          inbox,     \* the notifications, with the time of the tick that made them
          changes    \* changes of plans so far

plansVars == <<time, plans, sending, delivered, inbox, changes>>

Dates == 0 .. MaxTime \div Day
Today == time \div Day

PlansInit ==
  /\ time = 0 /\ sending = Nothing /\ delivered = {} /\ inbox = <<>> /\ changes = 0
  /\ plans = [p \in Plans |-> Nothing]

Exists(p) == plans[p] # Nothing
PlansOf(date) == {p \in Plans : Exists(p) /\ plans[p].date = date}

----------------------------------------------------------------------------
(* Plans. *)

Change(p, plan) ==
  /\ changes < MaxMoves /\ changes' = changes + 1
  /\ plans' = [plans EXCEPT ![p] = plan]
  /\ UNCHANGED <<time, sending, delivered, inbox>>

\* at least one task is wanted
CreatePlan(p) ==
  \E date \in Dates, n \in 1 .. MaxTasks :
    ~Exists(p) /\ Change(p, [date |-> date, tasks |-> [i \in 1 .. n |-> FALSE]])

UpdatePlan(p) == \E date \in Dates : Exists(p) /\ Change(p, [plans[p] EXCEPT !.date = date])

DeletePlan(p) == Exists(p) /\ Change(p, Nothing)

AddPlanTask(p) ==
  Exists(p) /\ Len(plans[p].tasks) < MaxTasks /\ Change(p, [plans[p] EXCEPT !.tasks = Append(@, FALSE)])

SetPlanTaskDone(p) ==
  \E done \in BOOLEAN : Exists(p) /\ \E i \in DOMAIN plans[p].tasks :
    plans[p].tasks[i] # done /\ Change(p, [plans[p] EXCEPT !.tasks[i] = done])

----------------------------------------------------------------------------
(* The check-ins. *)

DueAt(i, at) == CheckIns[i] <= at % Day

\* only the most recent one, so that a late start makes no burst of old reminders
DuePeriods(at) ==
  {i \in DOMAIN CheckIns : DueAt(i, at) /\ \A k \in DOMAIN CheckIns : DueAt(k, at) => k <= i}

Tick ==
  /\ sending = Nothing /\ PlansOf(Today) # {}
  /\ \E i \in DuePeriods(time) : sending' = [date |-> Today, period |-> i, at |-> time]
  /\ UNCHANGED <<time, plans, delivered, inbox, changes>>

\* one delivery for a date and a period, if the date still has a plan
IsNew(s) == <<s.date, s.period>> \notin delivered

CreatePlanReminderNotification ==
  LET s == sending
      send == PlansOf(s.date) # {} /\ IsNew(s)
  IN /\ s # Nothing
     /\ delivered' = IF send THEN delivered \cup {<<s.date, s.period>>} ELSE delivered
     /\ inbox' = IF send THEN Append(inbox, s) ELSE inbox
     /\ sending' = Nothing
     /\ UNCHANGED <<time, plans, changes>>

\* the transaction fails, or the program stops before it
NotStored ==
  /\ sending # Nothing /\ sending' = Nothing
  /\ UNCHANGED <<time, plans, delivered, inbox, changes>>

Passes == time < MaxTime /\ time' = time + 1 /\ UNCHANGED <<plans, sending, delivered, inbox, changes>>

PlansNext ==
  \/ Passes \/ Tick \/ CreatePlanReminderNotification \/ NotStored
  \/ \E p \in Plans : \/ CreatePlan(p) \/ UpdatePlan(p) \/ DeletePlan(p)
                      \/ AddPlanTask(p) \/ SetPlanTaskDone(p)

PlansSpec == PlansInit /\ [][PlansNext]_plansVars

----------------------------------------------------------------------------

PlansTypeOK ==
  /\ \A p \in Plans : Exists(p) => plans[p].date \in Dates /\ plans[p].tasks \in Seq(BOOLEAN)
  /\ delivered \subseteq Dates \X DOMAIN CheckIns

(* Every check-in of a date arrives at most once, in the order of the day, *)
(* and two of them never together: between two there is the time at which  *)
(* the later one begins, however late the server starts, whatever fails    *)
(* and is tried again, and wherever plans are moved meanwhile.             *)
CheckInsAreSpread ==
  \A i, k \in DOMAIN inbox : i < k =>
    \/ inbox[i].date < inbox[k].date
    \/ inbox[i].date = inbox[k].date /\ inbox[i].at % Day < CheckIns[inbox[k].period]

=============================================================================
