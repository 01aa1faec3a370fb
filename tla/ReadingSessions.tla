-------------------------- MODULE ReadingSessions --------------------------
(***************************************************************************)
(* Focus sessions of the reading room: the timer of a tab, its record for  *)
(* recovery in the tab's storage, the end of a session, the outbox in the  *)
(* browser's storage for what the server did not take, and the server's    *)
(* table, where the first record of an id wins.                            *)
(*                                                                         *)
(* A session is named by its number; time is counted in units of the five  *)
(* seconds below which a session is not recorded.                          *)
(***************************************************************************)
EXTENDS Naturals, Sequences, FiniteSets, SequencesExt

CONSTANTS Tabs,        \* of one browser: they share the outbox
          KeptPending, \* entries of the outbox, 200 in the code
          MaxSessions, \* bound: sessions
          MaxTime,     \* bound: the clock
          Nothing

SessionsAssumption == {KeptPending, MaxSessions, MaxTime} \subseteq Nat \ {0}

VARIABLES tabs,   \* the open tabs
          outbox, \* localStorage: sessions to be sent again, oldest first
          table,  \* the server: id -> when the session ended
          clock,  \* the time, and the sessions begun
          ended   \* history: the end of a session as the reader was shown it

sessionVars == <<tabs, outbox, table, clock, ended>>

\* focus: the session whose timer runs; stored: sessionStorage; posting: the end under way
NewTab(stored) == [view |-> "elsewhere", focus |-> Nothing, stored |-> stored,
                   posting |-> Nothing, leaving |-> FALSE, sync |-> Nothing]

SessionsInit ==
  /\ tabs = [t \in Tabs |-> NewTab(Nothing)]
  /\ outbox = <<>> /\ table = [s \in {} |-> 0] /\ ended = [s \in {} |-> 0]
  /\ clock = [now |-> 0, begun |-> 0]

Tick ==
  /\ clock.now < MaxTime
  /\ clock' = [clock EXCEPT !.now = @ + 1]
  /\ UNCHANGED <<tabs, outbox, table, ended>>

\* an id that is known is not recorded again: "Idempotent retry"
Recorded(session) ==
  [s \in DOMAIN table \cup {session.id} |-> IF s \in DOMAIN table THEN table[s] ELSE session.end]
Ended(session) ==
  [s \in DOMAIN ended \cup {session.id} |-> IF s = session.id THEN session.end ELSE ended[s]]

----------------------------------------------------------------------------
(* syncPendingShelfReadingSessions: every page that shows sessions waits   *)
(* for it; a tab runs one at a time.                                       *)

Synced(tab) == IF tab.sync # Nothing THEN tab
               ELSE [tab EXCEPT !.sync = [todo |-> outbox, failed |-> <<>>, any |-> outbox # <<>>]]

OpenPage(t) ==
  /\ tabs[t].view = "elsewhere" /\ tabs[t].sync = Nothing
  /\ tabs' = [tabs EXCEPT ![t] = Synced(@)]
  /\ UNCHANGED <<outbox, table, clock, ended>>

\* the answer may be lost after the server has recorded the session
SyncPosts(t) ==
  LET tab == tabs[t]
      session == Head(tab.sync.todo)
      next(failed) == tabs' = [tabs EXCEPT ![t].sync.todo = Tail(@), ![t].sync.failed = @ \o failed]
  IN /\ tab.sync # Nothing /\ tab.sync.todo # <<>>
     /\ \/ table' = Recorded(session) /\ next(<<>>)
        \/ table' \in {table, Recorded(session)} /\ next(<<session>>)
     /\ UNCHANGED <<outbox, clock, ended>>

Pending(items) ==
  SubSeq(items, IF Len(items) > KeptPending THEN Len(items) - KeptPending + 1 ELSE 1, Len(items))

\* what failed is the new outbox; an outbox that was empty is not written
SyncEnds(t) ==
  /\ tabs[t].sync # Nothing /\ tabs[t].sync.todo = <<>>
  /\ outbox' \in {outbox} \cup IF tabs[t].sync.any THEN {Pending(tabs[t].sync.failed)} ELSE {}
  /\ tabs' = [tabs EXCEPT ![t].sync = Nothing]
  /\ UNCHANGED <<table, clock, ended>>

----------------------------------------------------------------------------
(* The reading room. *)

OpenReader(t) ==
  /\ tabs[t].view = "elsewhere"
  /\ tabs' = [tabs EXCEPT ![t] = [Synced(@) EXCEPT !.view = "opening"]]
  /\ UNCHANGED <<outbox, table, clock, ended>>

SyncDone(tab) == tab.sync = Nothing

\* the book is there: a session that the tab remembers goes on
BookOpens(t) ==
  /\ tabs[t].view = "opening" /\ SyncDone(tabs[t])
  /\ tabs' = [tabs EXCEPT ![t].view = "reading", ![t].focus = tabs[t].stored]
  /\ UNCHANGED <<outbox, table, clock, ended>>

CloseReader(t) ==
  /\ tabs[t].view = "reading" /\ tabs[t].focus = Nothing
  /\ tabs' = [tabs EXCEPT ![t].view = "elsewhere"]
  /\ UNCHANGED <<outbox, table, clock, ended>>

EnterFocus(t) ==
  LET session == [id |-> clock.begun + 1, start |-> clock.now]
  IN /\ tabs[t].view = "reading" /\ tabs[t].focus = Nothing /\ clock.begun < MaxSessions
     /\ tabs' = [tabs EXCEPT ![t].focus = session, ![t].stored = session]
     /\ clock' = [clock EXCEPT !.begun = @ + 1]
     /\ UNCHANGED <<outbox, table, ended>>

\* too short to be recorded: nothing is sent
ExitFocus(t) ==
  LET tab == tabs[t]
  IN /\ tab.focus # Nothing /\ tab.posting = Nothing /\ ~tab.leaving
     /\ tabs' = [tabs EXCEPT
          ![t].posting = IF clock.now = tab.focus.start THEN Nothing
                         ELSE [id |-> tab.focus.id, end |-> clock.now],
          ![t].leaving = clock.now = tab.focus.start]
     /\ UNCHANGED <<outbox, table, clock, ended>>

SessionPosted(t) ==
  /\ tabs[t].posting # Nothing
  /\ table' = Recorded(tabs[t].posting)
  /\ tabs' = [tabs EXCEPT ![t].posting = Nothing, ![t].leaving = TRUE]
  /\ ended' = Ended(tabs[t].posting)
  /\ UNCHANGED <<outbox, clock>>

\* an id waits at most once: the session takes the place of its earlier end
Queued(session) ==
  LET same == {i \in DOMAIN outbox : outbox[i].id = session.id}
      others == IF same = {} THEN outbox ELSE RemoveAt(outbox, CHOOSE i \in same : TRUE)
  IN Pending(Append(others, session))

\* queued, or, where the storage does not take it, the timer runs on
PostFails(t) ==
  LET session == tabs[t].posting
  IN /\ session # Nothing
     /\ table' \in {table, Recorded(session)}
     /\ \/ /\ outbox' = Queued(session) /\ ended' = Ended(session)
           /\ tabs' = [tabs EXCEPT ![t].posting = Nothing, ![t].leaving = TRUE]
        \/ /\ UNCHANGED <<outbox, ended>>
           /\ tabs' = [tabs EXCEPT ![t].posting = Nothing]
     /\ UNCHANGED clock

\* out of full screen: the record for recovery is removed
FocusLeft(t) ==
  /\ tabs[t].leaving
  /\ tabs' = [tabs EXCEPT ![t].focus = Nothing, ![t].stored = Nothing, ![t].leaving = FALSE]
  /\ UNCHANGED <<outbox, table, clock, ended>>

\* the reader reloads the page; a request under way may still be handled
Reload(t) ==
  /\ tabs[t].view # "elsewhere"
  /\ table' \in {table} \cup IF tabs[t].posting = Nothing THEN {}
                             ELSE {Recorded(tabs[t].posting)}
  /\ tabs' = [tabs EXCEPT ![t] = [Synced(NewTab(tabs[t].stored)) EXCEPT !.view = "opening"]]
  /\ UNCHANGED <<outbox, clock, ended>>

SessionsNext ==
  \/ Tick
  \/ \E t \in Tabs : \/ OpenPage(t) \/ SyncPosts(t) \/ SyncEnds(t) \/ OpenReader(t)
                     \/ BookOpens(t) \/ CloseReader(t) \/ EnterFocus(t) \/ ExitFocus(t)
                     \/ SessionPosted(t) \/ PostFails(t) \/ FocusLeft(t) \/ Reload(t)

SessionsSpec == SessionsInit /\ [][SessionsNext]_sessionVars

----------------------------------------------------------------------------
InOutbox == {outbox[i].id : i \in DOMAIN outbox}

SessionsTypeOK ==
  /\ DOMAIN table \cup InOutbox \cup DOMAIN ended \subseteq 1 .. clock.begun
  /\ Len(outbox) <= KeptPending /\ Cardinality(InOutbox) = Len(outbox)

(* No session is lost: what the reader was shown as ended is recorded, or it
   is in the outbox, whatever fails and whenever the page is reloaded, as long
   as no more sessions were begun than the outbox keeps. *)
EndedIsKept == clock.begun <= KeptPending => DOMAIN ended \subseteq DOMAIN table \cup InOutbox

(* A session whose timer runs is remembered by its tab, so that a reload does
   not "silently discard an active session". *)
RunningIsRemembered ==
  \A t \in Tabs : tabs[t].focus # Nothing => tabs[t].stored = tabs[t].focus

=============================================================================
