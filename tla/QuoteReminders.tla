---------------------------- MODULE QuoteReminders ----------------------------
(***************************************************************************)
(* The configuration of the server and its quote reminders: the file, the  *)
(* server's copy of it, the scheduler that reserves, sends and records a   *)
(* reminder in three steps, and the settings page, which sends back a whole*)
(* configuration as it read it some time ago.                              *)
(*                                                                         *)
(* `web' stands for all that reminders do not concern.  The quote that was *)
(* sent last is left out; what is written when it is recorded is not.      *)
(***************************************************************************)
EXTENDS Naturals

CONSTANTS Ranges,      \* ranges of the interval: sets of delays
          Webs,        \* the rest of the configuration
          MaxTime,     \* bound: the horizon
          MaxSaves,    \* bound: saves of the settings page
          MaxRestarts, \* bound: restarts of the server
          Nothing

RemindersAssumption ==
  /\ \A r \in Ranges : r \subseteq Nat \ {0} /\ r # {}
  /\ {MaxTime, MaxSaves, MaxRestarts} \subseteq Nat

VARIABLES time,
          file,    \* config.json
          server,  \* its copy and the reminder that it is sending
          window,  \* the form of the settings page
          log      \* due times announced, what `web' may be by what users were told, whether a save
                   \* was written and reported as an error; counts

remindersVars == <<time, file, server, window, log>>

RemindersInit ==
  \E range \in Ranges, web \in Webs, on \in BOOLEAN :
    /\ time = 0
    /\ file = [on |-> on, range |-> range, next |-> Nothing, web |-> web]
    /\ server = [cfg |-> file, sending |-> Nothing]
    /\ window = Nothing
    /\ log = [announced |-> {}, twice |-> FALSE, webs |-> {web}, unread |-> FALSE,
               saves |-> 0, restarts |-> 0]

----------------------------------------------------------------------------
(* reminders/quotes.go *)

NextAt(c) == {[c EXCEPT !.next = time + d] : d \in c.range}
Due(c) == c.on /\ (c.next # Nothing => c.next <= time)

\* a reminder in the future is kept, one that is overdue is not made up for
EnsureSchedule(c) == IF Due(c) THEN NextAt(c) ELSE {c}

Saved(c) == file' = c /\ server' = [server EXCEPT !.cfg = c]

----------------------------------------------------------------------------
(* The server and its scheduler; every write of the file may fail. *)

\* the program stops at any moment and starts again with the file
Restart ==
  /\ log.restarts < MaxRestarts
  /\ log' = [log EXCEPT !.restarts = @ + 1]
  /\ \/ \E c \in EnsureSchedule(file) : file' = c /\ server' = [cfg |-> c, sending |-> Nothing]
     \/ server' = [cfg |-> file, sending |-> Nothing] /\ UNCHANGED file
  /\ UNCHANGED <<time, window>>

RefreshConfig ==
  /\ server.sending = Nothing
  /\ server' = [server EXCEPT !.cfg = file]
  /\ UNCHANGED <<time, file, window, log>>

\* the next time is written before anything is sent
ReserveFirst(c) ==
  /\ file' = c
  /\ server' = [cfg |-> c, sending |-> [due |-> server.cfg.next, reserved |-> c.next, sent |-> FALSE]]

Reserve ==
  /\ server.sending = Nothing /\ Due(server.cfg)
  /\ \E c \in NextAt(server.cfg) : ReserveFirst(c)
  /\ UNCHANGED <<time, window, log>>

\* there is no quote or it cannot be stored; or the notification is made
Announce ==
  LET s == server.sending
  IN /\ s # Nothing /\ ~s.sent
     /\ \/ server' = [server EXCEPT !.sending = Nothing] /\ UNCHANGED log
        \/ /\ server' = [server EXCEPT !.sending.sent = TRUE]
           /\ log' = IF s.due = Nothing THEN log
                     ELSE [log EXCEPT !.announced = @ \cup {s.due}, !.twice = @ \/ s.due \in log.announced]
     /\ UNCHANGED <<time, file, window>>

\* what is written is the configuration of now, and only under the same reservation
RecordLast ==
  LET s == server.sending
      done == [server EXCEPT !.sending = Nothing]
  IN /\ s # Nothing /\ s.sent
     /\ server' = done
     /\ file' \in {file} \cup (IF server.cfg.on /\ server.cfg.next = s.reserved THEN {server.cfg} ELSE {})
     /\ UNCHANGED <<time, window, log>>

----------------------------------------------------------------------------
(* The settings page and its handler. *)

LoadSettings == window' = server.cfg /\ UNCHANGED <<time, file, server, log>>

Edits(form) == window # Nothing /\ window' = form /\ UNCHANGED <<time, file, server, log>>

PatchWeb == \E web \in Webs : Edits([window EXCEPT !.web = web])
ToggleReminders == Edits([window EXCEPT !.on = ~@, !.next = Nothing])
PatchReminderRange == \E range \in Ranges : Edits([window EXCEPT !.range = range, !.next = Nothing])

\* an unchanged schedule goes on as the server has it, whatever the form says
Scheduled(c) ==
  IF c.on /\ server.cfg.on /\ c.range = server.cfg.range THEN [c EXCEPT !.next = server.cfg.next] ELSE c

Inputs(form) == IF form.on /\ form.next = Nothing THEN EnsureSchedule(form) ELSE {form}

\* saved and read back; saved and then unreadable, which is reported as an error; or not saved
UpdateConfig ==
  /\ window # Nothing /\ log.saves < MaxSaves
  /\ \E input \in Inputs(window) :
       LET c == Scheduled(input)
       IN \/ /\ Saved(c) /\ log' = [log EXCEPT !.webs = {c.web}, !.saves = @ + 1]
             /\ window' \in {window, c}
          \/ /\ file' = c
             /\ log' = [log EXCEPT !.webs = @ \cup {c.web}, !.saves = @ + 1, !.unread = TRUE]
             /\ UNCHANGED <<server, window>>
  /\ UNCHANGED time

Passes == time < MaxTime /\ time' = time + 1 /\ UNCHANGED <<file, server, window, log>>

RemindersNext ==
  \/ Restart \/ RefreshConfig \/ Reserve \/ Announce \/ RecordLast \/ Passes
  \/ LoadSettings \/ PatchWeb \/ ToggleReminders \/ PatchReminderRange \/ UpdateConfig

RemindersSpec == RemindersInit /\ [][RemindersNext]_remindersVars

----------------------------------------------------------------------------

RemindersTypeOK ==
  /\ \A c \in {file, server.cfg} \cup ({window} \ {Nothing}) :
       c.on \in BOOLEAN /\ c.range \in Ranges /\ c.next \in Nat \cup {Nothing} /\ c.web \in Webs
  /\ log.announced \subseteq 0 .. MaxTime

(* A due time is announced once: neither a crash between reserving and      *)
(* sending, nor a page that saves the due time it read before the reminder  *)
(* was sent, repeats a reminder.  This is for one page that knows what it   *)
(* has saved: a second page, or a save that is written but reported as an   *)
(* error, can bring back a schedule with a due time that has passed.        *)
OneReminderPerDueTime == log.twice => log.unread

(* No setting made on the page is overwritten by the scheduler, which sends *)
(* a reminder between reading the configuration and writing it.             *)
SettingsSurvive == file.web \in log.webs /\ server.cfg.web \in log.webs

=============================================================================
