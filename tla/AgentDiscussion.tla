-------------------------- MODULE AgentDiscussion --------------------------
(***************************************************************************)
(* The round table about a page: the panel in which the reader chooses the *)
(* agents, starts and continues a discussion, and the runs in which the    *)
(* runtime lets the agents speak in turn.                                  *)
(*                                                                         *)
(* The panel asks for the run that it shows again and again; each answer   *)
(* is merged into the thread of turns, which holds the turns of all runs   *)
(* and the replies of the reader.                                          *)
(***************************************************************************)
EXTENDS Naturals, Sequences, FiniteSets, SequencesExt

CONSTANTS Agents,    \* the agents of book discussions, the chair among them
          Chair,
          Core,      \* a sequence: the agents chosen first
          MaxAgents, \* of a discussion
          KeptTurns, \* carried into a continuation, 40 in the code
          Rounds,    \* of a run
          MaxRuns,   \* bound: runs started
          MaxPanels, \* bound: times the book is opened
          Nothing

DiscussionAssumption ==
  /\ IsFiniteSet(Agents) /\ Nothing \notin Nat
  /\ Chair \in Agents /\ Core \in Seq(Agents \ {Chair}) /\ IsInjective(Core)
  /\ {MaxAgents, KeptTurns, Rounds, MaxRuns, MaxPanels} \subseteq Nat \ {0}

VARIABLES room,     \* the panel of the open book
          roster,   \* the browser's storage: the agents chosen for the book
          runs      \* the runs of the runtime, oldest first

discussionVars == <<room, roster, runs>>

NewRoom == [panel |-> 1, open |-> FALSE, loaded |-> FALSE, usable |-> {}, chosen |-> <<>>,
            starting |-> Nothing, run |-> Nothing, status |-> Nothing, polling |-> FALSE,
            turns |-> <<>>]

DiscussionInit == room = NewRoom /\ roster = <<>> /\ runs = <<>>

LastOf(s, n) == SubSeq(s, IF Len(s) > n THEN Len(s) - n + 1 ELSE 1, Len(s))
FirstOf(s, n) == SubSeq(s, 1, IF Len(s) > n THEN n ELSE Len(s))

\* what a sequence has at some of its places, in its order: SelectSeq without recursion
Place(I, k) == CHOOSE i \in I : Cardinality({j \in I : j <= i}) = k
Picked(s, I) == [k \in 1 .. Cardinality(I) |-> s[Place(I, k)]]

\* each element once, at its first place
Distinct(s) == Picked(s, {i \in DOMAIN s : \A j \in 1 .. i - 1 : s[j] # s[i]})
Only(s, S) == Picked(s, {i \in DOMAIN s : s[i] \in S})

Terminal == {"completed", "failed", "cancelled"}
Busy == room.run # Nothing /\ room.status \notin Terminal

----------------------------------------------------------------------------
(* The panel and its agents. *)

\* the agents saved for the book, then the core, then the others; the chair last
Roster(usable) ==
  LET others == CHOOSE s \in [1 .. Cardinality(Agents) -> Agents] : IsInjective(s)
      saved == Only(roster, usable \ {Chair})
      wanted == Distinct(saved \o Only(Core, usable) \o Only(others, usable \ {Chair}))
  IN IF Chair \in usable THEN Append(FirstOf(wanted, MaxAgents - 1), Chair)
     ELSE FirstOf(wanted, MaxAgents)

Choose(chosen) == room' = [room EXCEPT !.chosen = chosen] /\ roster' = chosen

LoadAgents ==
  \E usable \in SUBSET Agents :
    /\ ~room.loaded
    /\ LET chosen == Roster(usable)
       IN /\ room' = [room EXCEPT !.loaded = TRUE, !.usable = usable,
                                  !.chosen = IF usable = {} THEN @ ELSE chosen]
          /\ roster' = IF usable = {} THEN roster ELSE chosen
    /\ UNCHANGED runs

OpenPanel == ~room.open /\ room' = [room EXCEPT !.open = TRUE] /\ UNCHANGED <<roster, runs>>

ToggleAgent ==
  \E a \in room.usable :
    /\ room.open /\ ~Busy /\ room.starting = Nothing
    /\ IF a \in ToSet(room.chosen)
       THEN a # Chair /\ Choose(Only(room.chosen, ToSet(room.chosen) \ {a}))
       ELSE Len(room.chosen) < MaxAgents /\ Choose(Append(room.chosen, a))
    /\ UNCHANGED runs

\* a run that has not ended is cancelled and no longer shown; its turns stay
RequestClose ==
  /\ room.open /\ room.starting = Nothing
  /\ room' = [room EXCEPT !.open = FALSE, !.run = IF Busy THEN Nothing ELSE @,
                          !.status = IF Busy THEN Nothing ELSE @, !.polling = FALSE]
  /\ \/ Busy /\ runs' = [runs EXCEPT ![room.run].cancel = TRUE]
     \/ UNCHANGED runs
  /\ UNCHANGED roster

NewDiscussion ==
  /\ room.open /\ room.turns # <<>> /\ ~Busy /\ room.starting = Nothing
  /\ room' = [room EXCEPT !.turns = <<>>, !.run = Nothing, !.status = Nothing]
  /\ UNCHANGED <<roster, runs>>

\* the page of the book is left: the run goes on without a panel
LeaveBook ==
  /\ room.panel < MaxPanels
  /\ room' = [NewRoom EXCEPT !.panel = room.panel + 1]
  /\ UNCHANGED <<roster, runs>>

----------------------------------------------------------------------------
(* startTurn *)

OfRun(turn, what) == turn.run = room.run /\ turn.status = what /\ turn.agent \in ToSet(room.chosen)
Waiting == IF room.status # "completed" THEN <<>>
           ELSE Picked(room.turns, {i \in DOMAIN room.turns : OfRun(room.turns[i], "waiting")})
Questioners ==
  IF room.status # "completed" THEN <<>>
  ELSE Picked(room.turns,
              {i \in DOMAIN room.turns : OfRun(room.turns[i], "completed") /\ room.turns[i].asks})
AgentsOf(turns) == Distinct([i \in DOMAIN turns |-> turns[i].agent])

\* who asked the reader speaks first, then the others; without a reply those who wait
TurnOrder(reply) ==
  LET continuation == IF reply THEN Distinct(AgentsOf(Questioners) \o room.chosen)
                      ELSE AgentsOf(Waiting)
  IN Only(IF continuation = <<>> THEN room.chosen ELSE continuation, room.usable)

ChairReady == Chair \in room.usable /\ Chair \in ToSet(room.chosen)

Completed(turns) == Picked(turns, {i \in DOMAIN turns : turns[i].status = "completed"})

StartTurn ==
  \E reply \in BOOLEAN :
    LET order == TurnOrder(reply)
    IN /\ room.open /\ ~Busy /\ room.starting = Nothing /\ ChairReady
       /\ Len(runs) < MaxRuns /\ (reply => room.turns # <<>>)
       /\ Chair \in ToSet(order)
       /\ room' = [room EXCEPT !.starting =
                     [reply |-> reply, agents |-> FirstOf(order, MaxAgents),
                      history |-> LastOf(Completed(room.turns), KeptTurns)]]
       /\ UNCHANGED <<roster, runs>>

\* the last round of some turns
MaxRound(some) == CHOOSE m \in {0} \cup {t.round : t \in some} : \A t \in some : t.round <= m

\* the reply becomes a turn, what waited is resumed, the new run is shown
WithReply(turns, reply, id) ==
  (IF ~reply THEN turns
   ELSE Append(turns, [run |-> id, of |-> 0, round |-> MaxRound(ToSet(turns)) + 1,
                       agent |-> Nothing, status |-> "completed", asks |-> FALSE]))
Resumed(turns) ==
  [i \in DOMAIN turns |-> IF turns[i] \in ToSet(Waiting)
                          THEN [turns[i] EXCEPT !.status = "resumed"] ELSE turns[i]]

OrderAsChosen(agents) == agents

\* the final word belongs to the chair, whatever the order of the request
Order(agents) == Append(Only(agents, ToSet(agents) \ {Chair}), Chair)

NewRun(start) == [order |-> Order(start.agents), said |-> <<>>, cancel |-> FALSE,
                  status |-> "running"]

\* the run begins and its number is answered; or the answer is lost
RunStarted ==
  LET start == room.starting
      id == Len(runs) + 1
  IN /\ start # Nothing
     /\ \/ /\ runs' = Append(runs, NewRun(start))
           /\ \/ room' = [room EXCEPT !.starting = Nothing, !.run = id, !.status = "running",
                            !.polling = TRUE,
                            !.turns = Resumed(WithReply(@, start.reply, id))]
              \/ room' = [room EXCEPT !.starting = Nothing]
        \/ UNCHANGED runs /\ room' = [room EXCEPT !.starting = Nothing]
     /\ UNCHANGED roster

----------------------------------------------------------------------------
(* The runs of the runtime: sequential rounds, each agent in its turn. *)

\* the turn at place k of what is said
Speech(run, k, status) ==
  [of |-> ((k - 1) \div Len(run.order)) + 1, agent |-> run.order[((k - 1) % Len(run.order)) + 1],
   status |-> status, asks |-> FALSE]

Planned(run) == Rounds * Len(run.order)
\* the last place of the round of place k
RoundEnd(run, k) == CHOOSE e \in k .. Planned(run) : e % Len(run.order) = 0 /\ e - k < Len(run.order)

\* the next agent is asked as soon as the one before has ended
WithNext(run) == [run EXCEPT !.said = Append(@, Speech(run, Len(@) + 1, "running"))]

\* what a cancelled run does not say of its round is noted as such
Cancelled(run) ==
  LET k == Len(run.said)
      missing == [i \in 1 .. IF k = 0 THEN 0 ELSE RoundEnd(run, k) - k |->
                    Speech(run, k + i, "not_run")]
  IN [run EXCEPT !.said = @ \o missing, !.status = "cancelled"]

Ended(run) ==
  [run EXCEPT !.status = IF \A c \in ToSet(run.said) : c.status = "failed" THEN "failed"
                         ELSE "completed"]

BeginRun(id) ==
  LET run == runs[id]
  IN /\ run.status = "running" /\ run.said = <<>>
     /\ runs' = [runs EXCEPT ![id] = IF run.cancel THEN Cancelled(run) ELSE WithNext(run)]
     /\ UNCHANGED <<room, roster>>

\* only the last word may ask the reader; an earlier question is put off
EndSpeech(id) ==
  \E status \in {"completed", "failed"}, asks \in BOOLEAN :
    LET k == Len(runs[id].said)
        run == [runs[id] EXCEPT !.said[k].status = status, !.said[k].asks = asks]
        final == k = Planned(run)
    IN /\ k > 0 /\ runs[id].status = "running"
       /\ asks => final /\ status = "completed"
       /\ runs' = [runs EXCEPT ![id] = IF run.cancel THEN Cancelled(run)
                                       ELSE IF final THEN Ended(run) ELSE WithNext(run)]
       /\ UNCHANGED <<room, roster>>

----------------------------------------------------------------------------
(* What the panel learns of its run. *)

\* the rounds of a run are counted on from those of the runs before
Offset(id) == MaxRound({t \in ToSet(room.turns) : t.run # id})

Shown(id, c) == [run |-> id, of |-> c.of, round |-> c.of + Offset(id), agent |-> c.agent,
                 status |-> c.status, asks |-> c.asks]
Same(id, c, t) == t.run = id /\ t.of = c.of /\ t.agent = c.agent

\* a turn that is known is replaced in its place, the others follow
Merge(id, said) ==
  [i \in DOMAIN room.turns |->
     IF \E c \in ToSet(said) : Same(id, c, room.turns[i])
     THEN Shown(id, CHOOSE c \in ToSet(said) : Same(id, c, room.turns[i]))
     ELSE room.turns[i]]
  \o LET new == Picked(said, {k \in DOMAIN said :
                                \A t \in ToSet(room.turns) : ~Same(id, said[k], t)})
     IN [k \in DOMAIN new |-> Shown(id, new[k])]

\* asked again while it runs; an error is shown, and nothing asks again
Poll ==
  /\ room.polling
  /\ LET run == runs[room.run]
     IN \/ room' = [room EXCEPT !.status = run.status, !.turns = Merge(room.run, run.said),
                                !.polling = run.status \notin Terminal]
        \/ room' = [room EXCEPT !.polling = FALSE]
  /\ UNCHANGED <<roster, runs>>

\* the request may fail
Stop ==
  /\ room.open /\ Busy
  /\ runs' = [runs EXCEPT ![room.run].cancel = TRUE]
  /\ UNCHANGED <<room, roster>>

DiscussionNext ==
  \/ LoadAgents \/ OpenPanel \/ ToggleAgent \/ RequestClose \/ NewDiscussion \/ LeaveBook
  \/ StartTurn \/ RunStarted \/ Poll \/ Stop
  \/ \E id \in DOMAIN runs : BeginRun(id) \/ EndSpeech(id)

DiscussionSpec == DiscussionInit /\ [][DiscussionNext]_discussionVars

----------------------------------------------------------------------------
(* The choice fits the runtime's limit and holds no agent twice. *)
DiscussionTypeOK ==
  /\ ToSet(room.chosen) \cup ToSet(roster) \subseteq Agents
  /\ Len(room.chosen) <= MaxAgents /\ IsInjective(room.chosen)
  /\ room.run \in DOMAIN runs \cup {Nothing}
  /\ \A id \in DOMAIN runs : Len(runs[id].order) <= MaxAgents

(* "The final speaking turn belongs to MIMI": every round ends with the chair,
   also when it asked the reader and the panel puts it first in the next run. *)
ChairHasTheLastWord ==
  \A id \in DOMAIN runs : \A i \in DOMAIN runs[id].said :
    runs[id].said[i].agent = Chair <=> i % Len(runs[id].order) = 0

(* The thread tells the discussion in its order: however often a run is asked
   for, each of its turns is there once, and its rounds go on from the runs
   before. *)
ThreadIsInOrder ==
  \A i, j \in DOMAIN room.turns : i < j =>
    LET t == room.turns[i]
        u == room.turns[j]
    IN /\ t.round <= u.round /\ t.run <= u.run
       /\ (t.run = u.run => <<t.of, t.agent>> # <<u.of, u.agent>>)
       /\ (t.run < u.run => t.round < u.round)

=============================================================================
