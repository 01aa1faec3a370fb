------------------------- MODULE NotificationSounds -------------------------
(***************************************************************************)
(* The notices of the inbox and the chimes that announce them: the shell of*)
(* the web client, which asks for the newest notices again and again, and  *)
(* the sounds it plays, which the browser may hold back until the reader   *)
(* touches the page, and the reader may stop or turn off meanwhile.        *)
(*                                                                         *)
(* Notices are numbered as they arrive, chimes as they are asked for.      *)
(***************************************************************************)
EXTENDS Naturals, Sequences, SequencesExt

CONSTANTS Limit,      \* notices of one answer
          MaxNotices, \* bound: notices
          MaxPolls,   \* bound: answers on their way at once
          MaxChimes,  \* bound: chimes
          MaxStops,   \* bound: times that sounds are stopped
          Nothing

SoundsAssumption ==
  /\ Limit \in Nat \ {0} /\ {MaxNotices, MaxPolls, MaxChimes, MaxStops} \subseteq Nat
  /\ \A list \in SUBSET (1 .. MaxNotices) : list # Nothing

VARIABLES inbox,   \* the notices of the server, newest first
          seen,    \* the notices of the last answer, Nothing before the first one
          polls,   \* answers on their way, in the order in which the server gave them
          sound,   \* the preference, the audio of the browser, chimes that wait and chimes that sound
          history  \* notices and chimes so far; known at first, announced, announced again; faults

soundVars == <<inbox, seen, polls, sound, history>>

SoundsInit ==
  /\ inbox = <<>> /\ seen = Nothing /\ polls = <<>>
  /\ \E enabled \in BOOLEAN :
       sound = [enabled |-> enabled, audio |-> "none", version |-> 0, waiting |-> {}, buses |-> {}]
  /\ history = [notices |-> 0, chimes |-> 0, known |-> {}, announced |-> {}, again |-> {},
                deleted |-> FALSE, crossed |-> FALSE]

----------------------------------------------------------------------------
(* notification-sound.ts *)

\* chimes that waited go on, unless sounds were stopped or turned off since they were asked for
Activated(s) ==
  [s EXCEPT !.audio = "running", !.waiting = {},
            !.buses = @ \cup {[of |-> c.of, token |-> c.token, silenced |-> c.silenced, timer |-> TRUE] :
                               c \in {w \in s.waiting : s.enabled /\ w.token = s.version}}]

\* a browser without a gesture of the reader suspends a new context
Chimes(s) ==
  LET asked == [s EXCEPT !.waiting = @ \cup {[of |-> history.chimes + 1, token |-> s.version,
                                               silenced |-> FALSE]}]
  IN IF ~s.enabled THEN {s}
     ELSE {Activated(asked)} \cup IF s.audio = "running" THEN {} ELSE {[asked EXCEPT !.audio = "suspended"]}

\* "silenced" notes what was asked for before the reader stopped it
Stopped(s) ==
  [s EXCEPT !.version = @ + 1, !.buses = {},
            !.waiting = {[w EXCEPT !.silenced = TRUE] : w \in s.waiting}]

Stops == sound.version < MaxStops /\ UNCHANGED <<inbox, seen, polls>>

\* the pages of plans and of notifications, and a banner that is clicked
StopPlanReminderSequence == Stops /\ sound' = Stopped(sound) /\ UNCHANGED history

PlayPlanReminderDemo ==
  /\ Stops /\ history.chimes < MaxChimes
  /\ sound' \in Chimes(Stopped(Activated(sound)))
  /\ history' = [history EXCEPT !.chimes = @ + 1]

\* a browser may refuse to store the preference: the chimes are stopped all the same
TurnSoundOff ==
  /\ Stops /\ UNCHANGED history
  /\ sound' \in {Stopped(sound), Stopped([sound EXCEPT !.enabled = FALSE])}

TurnSoundOn ==
  /\ sound' \in {Activated(sound), Activated([sound EXCEPT !.enabled = TRUE])}
  /\ UNCHANGED <<inbox, seen, polls, history>>

PointerDown ==
  /\ sound.enabled /\ sound.audio # "running"
  /\ sound' = Activated(sound)
  /\ UNCHANGED <<inbox, seen, polls, history>>

AudioFails ==
  /\ sound.waiting # {}
  /\ sound' = [sound EXCEPT !.waiting = {}]
  /\ UNCHANGED <<inbox, seen, polls, history>>

\* the timer of a chime disconnects it, if it is one of the present sequence
ReleaseBus(b) ==
  /\ b.timer
  /\ sound' = [sound EXCEPT !.buses = (@ \ {b}) \cup
                 IF b.token = sound.version THEN {} ELSE {[b EXCEPT !.timer = FALSE]}]
  /\ UNCHANGED <<inbox, seen, polls, history>>

----------------------------------------------------------------------------
(* The inbox and the shell. *)

Arrives ==
  /\ history.notices < MaxNotices
  /\ inbox' = <<history.notices + 1>> \o inbox
  /\ history' = [history EXCEPT !.notices = @ + 1]
  /\ UNCHANGED <<seen, polls, sound>>

DeleteNotification(i) ==
  /\ inbox' = RemoveAt(inbox, i)
  /\ history' = [history EXCEPT !.deleted = TRUE]
  /\ UNCHANGED <<seen, polls, sound>>

\* the interval or a page that changed notices asks, whether the answer before has come or not
CheckNotifications ==
  /\ Len(polls) < MaxPolls
  /\ polls' = Append(polls, [listed |-> {inbox[i] : i \in {j \in DOMAIN inbox : j <= Limit}}, late |-> FALSE])
  /\ UNCHANGED <<inbox, seen, sound, history>>

\* the answers given before the i-th are late from now on
Without(i) ==
  [j \in 1 .. Len(polls) - 1 |-> IF j < i THEN [polls[j] EXCEPT !.late = TRUE] ELSE polls[j + 1]]

Fresh(listed) == IF seen = Nothing THEN {} ELSE listed \ seen

\* the first answer only tells what is known
NotificationsArrive(i) ==
  LET listed == polls[i].listed
      fresh == Fresh(listed)
  IN /\ fresh # {} => history.chimes < MaxChimes
     /\ polls' = Without(i)
     /\ seen' = listed
     /\ IF fresh = {} THEN sound' = sound ELSE sound' \in Chimes(sound)
     /\ history' = [history EXCEPT !.chimes = IF fresh = {} THEN @ ELSE @ + 1,
                                   !.known = IF seen = Nothing THEN listed ELSE @,
                                   !.again = @ \cup (fresh \cap history.announced),
                                   !.announced = @ \cup fresh,
                                   !.crossed = @ \/ polls[i].late]
     /\ UNCHANGED inbox

PollFails(i) ==
  /\ polls' = RemoveAt(polls, i)
  /\ UNCHANGED <<inbox, seen, sound, history>>

SoundsNext ==
  \/ Arrives \/ CheckNotifications \/ \E i \in DOMAIN inbox : DeleteNotification(i)
  \/ \E i \in DOMAIN polls : NotificationsArrive(i) \/ PollFails(i)
  \/ StopPlanReminderSequence \/ PlayPlanReminderDemo \/ TurnSoundOff \/ TurnSoundOn \/ PointerDown
  \/ AudioFails \/ \E b \in sound.buses : ReleaseBus(b)

SoundsSpec == SoundsInit /\ [][SoundsNext]_soundVars

----------------------------------------------------------------------------

SoundsTypeOK ==
  /\ \A n \in Range(inbox) : n \in 1 .. history.notices
  /\ seen \in (SUBSET (1 .. history.notices)) \cup {Nothing}
  /\ sound.audio \in {"none", "suspended", "running"} /\ sound.enabled \in BOOLEAN
  /\ \A c \in sound.waiting \cup sound.buses : c.of \in 1 .. history.chimes /\ c.silenced \in BOOLEAN

(* Every chime that sounds is wanted: the sound is on, the reader has not    *)
(* stopped the chime since it was asked for, however long the browser held it*)
(* back, and it will be released when it has ended.                          *)
SoundIsWanted ==
  /\ \A b \in sound.buses : sound.enabled /\ ~b.silenced /\ b.timer
  /\ sound.audio = "running" => sound.waiting = {}

(* Only news is announced, and once: no notice that was there when the client*)
(* was opened, and no notice a second time, unless the answers to two polls  *)
(* crossed or notices were deleted, so that an older one moved up among the  *)
(* newest.                                                                   *)
AnnouncedIsNews ==
  ~history.deleted /\ ~history.crossed =>
    history.announced \cap history.known = {} /\ history.again = {}

=============================================================================
