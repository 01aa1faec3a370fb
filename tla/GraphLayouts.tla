---------------------------- MODULE GraphLayouts ----------------------------
(***************************************************************************)
(* The arrangement of the graph: the canvas, which loads it from the       *)
(* server, saves every change a moment later, one request after the other, *)
(* and resets it; the server's copy and the browser's; and a canvas that   *)
(* was left while its requests still run.                                  *)
(*                                                                         *)
(* A change is named by its number, 0 standing for what the canvas arranges*)
(* by itself.  Of the places of the nodes, of the view and of the shapes an*)
(* arrangement holds the last change.                                      *)
(***************************************************************************)
EXTENDS Naturals, Sequences, SequencesExt

CONSTANTS MaxChanges, \* bound: changes of the arrangement
          MaxResets,  \* bound: resets
          MaxMounts,  \* bound: openings of the canvas
          MaxQueued,  \* bound: requests that wait when another save is due
          Nothing

LayoutsAssumption == {MaxChanges, MaxResets, MaxMounts, MaxQueued} \subseteq Nat

VARIABLES canvas, \* what is shown, what became of it, and the timer of its next save
          load,   \* the reading of the arrangement under way
          queues, \* requests of this canvas and of the one before it, the first of each on its way
          server, \* the arrangement of the workspace
          local,  \* the browser's copy
          past    \* numbers of changes, resets and openings; what was stored and reset

layoutVars == <<canvas, load, queues, server, local, past>>

Layout == [places : Nat, view : Nat, shapes : Nat]
EmptyLayout == [places |-> 0, view |-> 0, shapes |-> 0]

Closed == [open |-> FALSE, ready |-> FALSE, layout |-> EmptyLayout, status |-> "loading",
           dragging |-> FALSE, timer |-> FALSE, latest |-> Nothing]

LayoutsInit ==
  /\ canvas = Closed
  /\ load = Nothing
  /\ queues = [current |-> <<>>, earlier |-> <<>>]
  /\ server = EmptyLayout /\ local = EmptyLayout
  /\ past = [changes |-> 0, resets |-> 0, mounts |-> 0, stored |-> {EmptyLayout}, floor |-> 0,
             crossed |-> FALSE]

----------------------------------------------------------------------------

\* every change of the arrangement starts the timer anew, but not while a node is dragged
Rescheduled(c) ==
  IF c.ready /\ ~c.dragging THEN [c EXCEPT !.timer = TRUE, !.latest = c.layout]
  ELSE [c EXCEPT !.timer = FALSE]

Open ==
  /\ ~canvas.open /\ past.mounts < MaxMounts
  /\ canvas' = [Closed EXCEPT !.open = TRUE]
  /\ load' = [answer |-> Nothing]
  /\ past' = [past EXCEPT !.mounts = @ + 1, !.crossed = @ \/ queues.earlier # <<>>]
  /\ UNCHANGED <<queues, server, local>>

ServerReads ==
  /\ load # Nothing /\ load.answer = Nothing
  /\ load' = [answer |-> server]
  /\ UNCHANGED <<canvas, queues, server, local, past>>

\* a server without places takes those that the browser still has
Loaded ==
  /\ load # Nothing /\ load.answer # Nothing
  /\ LET saved == IF load.answer.places = 0 /\ local.places # 0
                  THEN [local EXCEPT !.shapes = load.answer.shapes] ELSE load.answer
     IN canvas' = Rescheduled([canvas EXCEPT !.layout = saved, !.status = "saved", !.ready = TRUE])
  /\ load' = Nothing
  /\ UNCHANGED <<queues, server, local, past>>

LoadFails ==
  /\ load # Nothing
  /\ canvas' = Rescheduled([canvas EXCEPT !.layout = local, !.status = "local", !.ready = TRUE])
  /\ load' = Nothing
  /\ UNCHANGED <<queues, server, local, past>>

\* the timer is cleared and what it would have saved with it; the requests go on
Leave ==
  /\ canvas.open /\ queues.earlier = <<>>
  /\ canvas' = Closed
  /\ load' = Nothing
  /\ queues' = [current |-> <<>>, earlier |-> queues.current]
  /\ UNCHANGED <<server, local, past>>

----------------------------------------------------------------------------
(* Changes. *)

Changes ==
  /\ canvas.open /\ past.changes < MaxChanges
  /\ past' = [past EXCEPT !.changes = @ + 1]
  /\ UNCHANGED <<load, queues, server, local>>

UpdateView ==
  Changes /\ canvas' = Rescheduled([canvas EXCEPT !.layout.view = past.changes + 1])

SetNodeShape ==
  Changes /\ canvas' = Rescheduled([canvas EXCEPT !.layout.shapes = past.changes + 1])

BeginGesture ==
  /\ canvas.open /\ ~canvas.dragging
  /\ canvas' = Rescheduled([canvas EXCEPT !.dragging = TRUE])
  /\ UNCHANGED <<load, queues, server, local, past>>

MoveGesture ==
  canvas.dragging /\ Changes /\ canvas' = Rescheduled([canvas EXCEPT !.layout.places = past.changes + 1])

EndGesture ==
  /\ canvas.dragging
  /\ canvas' = Rescheduled([canvas EXCEPT !.dragging = FALSE])
  /\ UNCHANGED <<load, queues, server, local, past>>

----------------------------------------------------------------------------
(* Requests. *)

Request(kind, layout) == [kind |-> kind, layout |-> layout, upTo |-> past.changes, done |-> FALSE]

Enqueue(request) == queues' = [queues EXCEPT !.current = Append(@, request)]

TimerFires ==
  /\ canvas.timer /\ Len(queues.current) < MaxQueued
  /\ canvas' = [canvas EXCEPT !.timer = FALSE, !.status = "saving"]
  /\ Enqueue(Request("save", canvas.layout))
  /\ UNCHANGED <<load, server, local, past>>

Cleared(layout) == [layout EXCEPT !.places = 0, !.view = 0]

ResetLayout ==
  /\ canvas.open /\ past.resets < MaxResets
  /\ canvas' = Rescheduled([canvas EXCEPT !.layout = Cleared(@)])
  /\ Enqueue(Request("reset", Nothing))
  /\ past' = [past EXCEPT !.resets = @ + 1, !.crossed = @ \/ ~canvas.ready]
  /\ UNCHANGED <<load, server, local>>

\* the server stores the arrangement, or clears the one it has and answers with it
ServerWrites(q) ==
  /\ queues[q] # <<>> /\ ~Head(queues[q]).done
  /\ LET request == Head(queues[q])
         stored == IF request.kind = "save" THEN request.layout ELSE Cleared(server)
     IN /\ server' = stored
        /\ queues' = [queues EXCEPT ![q][1] = [request EXCEPT !.layout = stored, !.done = TRUE]]
        /\ past' = [past EXCEPT !.stored = @ \cup {stored},
                                !.floor = IF request.kind = "reset" THEN request.upTo ELSE @]
  /\ UNCHANGED <<canvas, load, local>>

\* a save reports only on the arrangement that was to be saved last
Settled(request, status) ==
  IF canvas.latest = request.layout THEN [canvas EXCEPT !.status = status] ELSE canvas

SaveAnswers(q, status) ==
  /\ queues[q] # <<>> /\ Head(queues[q]).kind = "save"
  /\ status = "saved" => Head(queues[q]).done
  /\ queues' = [queues EXCEPT ![q] = Tail(@)]
  /\ local' = Head(queues[q]).layout
  /\ canvas' = IF q = "current" THEN Settled(Head(queues[q]), status) ELSE canvas
  /\ UNCHANGED <<load, server, past>>

\* a reset that fails clears the browser's copy
ResetAnswers(q, status) ==
  /\ queues[q] # <<>> /\ Head(queues[q]).kind = "reset"
  /\ status = "saved" => Head(queues[q]).done
  /\ queues' = [queues EXCEPT ![q] = Tail(@)]
  /\ local' = IF status = "saved" THEN Head(queues[q]).layout ELSE Cleared(local)
  /\ canvas' = IF q = "current" THEN Rescheduled([canvas EXCEPT !.layout = local', !.status = status])
               ELSE canvas
  /\ UNCHANGED <<load, server, past>>

LayoutsNext ==
  \/ Open \/ ServerReads \/ Loaded \/ LoadFails \/ Leave
  \/ UpdateView \/ SetNodeShape \/ BeginGesture \/ MoveGesture \/ EndGesture
  \/ TimerFires \/ ResetLayout
  \/ \E q \in {"current", "earlier"} :
       \/ ServerWrites(q)
       \/ \E status \in {"saved", "local"} : SaveAnswers(q, status) \/ ResetAnswers(q, status)

LayoutsSpec == LayoutsInit /\ [][LayoutsNext]_layoutVars

----------------------------------------------------------------------------

LayoutsTypeOK ==
  /\ {canvas.layout, server, local} \cup past.stored \subseteq Layout
  /\ canvas.status \in {"loading", "saving", "saved", "local"}
  /\ {canvas.open, canvas.ready, canvas.dragging, canvas.timer} \subseteq BOOLEAN
  /\ canvas.latest \in Layout \cup {Nothing}
  /\ \A q \in {"current", "earlier"} : \A i \in DOMAIN queues[q] : queues[q][i].kind \in {"save", "reset"}

(* What the canvas calls saved was stored, and is what the server has as soon *)
(* as the requests under way are answered: whatever is changed, reset, or     *)
(* fails meanwhile, the last request is the one of the arrangement shown.     *)
SavedIsStored ==
  canvas.status = "saved" /\ ~canvas.timer /\ ~canvas.dragging /\ ~past.crossed =>
    /\ canvas.layout \in past.stored
    /\ server = canvas.layout \/ (queues.current # <<>> /\ Last(queues.current).layout = canvas.layout)

(* A reset holds: once the server has made it, no place and no view from      *)
(* before it comes back, from a save under way, the browser's copy or another *)
(* opening of the canvas, except where these ran at the same time.            *)
ResetHolds ==
  ~past.crossed => {server.places, server.view} \subseteq {0} \cup (past.floor + 1 .. past.changes)

=============================================================================
