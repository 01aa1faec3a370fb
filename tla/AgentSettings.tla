--------------------------- MODULE AgentSettings ---------------------------
(***************************************************************************)
(* The agents in the settings of the AI runtime: drafts of their edits,    *)
(* the limit of the policy, the roster of a discussion started here and    *)
(* the run that the page watches.                                          *)
(*                                                                         *)
(* Every change is followed by a load of the whole page; a load has no     *)
(* number, so two that overlap may be answered in either order.            *)
(***************************************************************************)
EXTENDS Naturals, Sequences, FiniteSets, SequencesExt

CONSTANTS Agents,   \* the names of agents, the chair among them
          Chair,
          Defaults, \* a sequence: the agents of a fresh roster, in their order
          Limits,   \* what the policy may allow a discussion
          MaxCalls, \* bound: calls of the page under way
          MaxRuns,  \* bound: discussions
          Nothing

SettingsAssumption ==
  /\ IsFiniteSet(Agents) /\ Chair \in Agents /\ Defaults \in Seq(Agents) /\ Limits \subseteq Nat \ {0}
  /\ MaxCalls \in Nat \ {0} /\ MaxRuns \in Nat

VARIABLES settings, \* the page
          kernel,   \* the runtime: its agents, its limit, its runs
          pending   \* the calls of the page, in the order in which they were made

settingsVars == <<settings, kernel, pending>>

\* what a sequence has at some of its places, in its order: SelectSeq without recursion
Place(I, k) == CHOOSE i \in I : Cardinality({j \in I : j <= i}) = k
Picked(s, I) == [k \in 1 .. Cardinality(I) |-> s[Place(I, k)]]

\* each element once, at its first place
Distinct(s) == Picked(s, {i \in DOMAIN s : \A j \in 1 .. i - 1 : s[j] # s[i]})
Only(s, S) == Picked(s, {i \in DOMAIN s : s[i] \in S})
FirstOf(s, n) == SubSeq(s, 1, IF Len(s) > n THEN n ELSE Len(s))

\* an agent fits a discussion when it is enabled and has the task
Agent == [id : Agents, fits : BOOLEAN]
IdsOf(list) == {list[i].id : i \in DOMAIN list}
Without(list, id) == Picked(list, {i \in DOMAIN list : list[i].id # id})
Fit(list) == {a.id : a \in {b \in ToSet(list) : b.fits}}

AgentSettingsInit ==
  /\ kernel \in [agents : {SetToSeq({[id |-> a, fits |-> TRUE] : a \in Agents})},
                 limit : Limits, runs : {<<>>}]
  /\ settings = [loading |-> TRUE, agents |-> <<>>, drafts |-> {}, limit |-> kernel.limit,
                 chosen |-> <<>>, saving |-> Nothing, starting |-> FALSE, run |-> Nothing,
                 status |-> Nothing, due |-> FALSE, polls |-> {}]
  /\ pending = <<[op |-> "load", agent |-> Nothing, seen |-> Nothing]>>

\* who fits, each once and within the limit, the chair last; nobody left: the defaults
Normalized(list, current, limit) ==
  LET fit == Fit(list)
      valid == Only(current, fit)
      ids == [i \in DOMAIN list |-> list[i].id]
      preferred == IF valid # <<>> THEN valid
                   ELSE Only(Defaults, fit) \o Only(ids, fit \ ToSet(Defaults))
      others == Distinct(Only(preferred, fit \ {Chair}))
  IN IF Chair \in fit THEN Append(FirstOf(others, limit - 1), Chair) ELSE FirstOf(others, limit)

Call(op, agent) == [op |-> op, agent |-> agent, seen |-> Nothing]
Others(i) == RemoveAt(pending, i)
CanCall == ~settings.loading /\ Len(pending) < MaxCalls

----------------------------------------------------------------------------
(* The load of the page: it hides everything until it ends. *)

BeginLoad ==
  /\ CanCall
  /\ settings' = [settings EXCEPT !.loading = TRUE]
  /\ pending' = Append(pending, Call("load", Nothing))
  /\ UNCHANGED kernel

\* the runtime answers a load with what it holds now
LoadRead(i) ==
  /\ pending[i].op \in {"load", "saveload"} /\ pending[i].seen = Nothing
  /\ pending' = [pending EXCEPT ![i].seen = [agents |-> kernel.agents, limit |-> kernel.limit]]
  /\ UNCHANGED <<settings, kernel>>

\* the drafts are replaced by what was read; an error leaves the page as it was
EndLoad(i) ==
  LET call == pending[i]
      after == IF call.op = "saveload" THEN Nothing ELSE settings.saving
  IN /\ call.op \in {"load", "saveload"}
     /\ \/ /\ call.seen # Nothing
           /\ settings' = [settings EXCEPT !.loading = FALSE, !.agents = call.seen.agents,
                !.drafts = {}, !.limit = call.seen.limit, !.saving = after,
                !.chosen = Normalized(call.seen.agents, @, call.seen.limit)]
        \/ settings' = [settings EXCEPT !.loading = FALSE, !.saving = after]
     /\ pending' = Others(i)
     /\ UNCHANGED kernel

----------------------------------------------------------------------------
(* Agents and their drafts; an unsaved new agent is a draft that is listed. *)

Draft(id) == IF \E d \in settings.drafts : d.id = id
             THEN CHOOSE d \in settings.drafts : d.id = id
             ELSE CHOOSE a \in ToSet(settings.agents) : a.id = id

EditAgent ==
  \E id \in IdsOf(settings.agents), fits \in BOOLEAN :
    /\ ~settings.loading
    /\ settings' = [settings EXCEPT !.drafts = {d \in @ : d.id # id} \cup {[id |-> id, fits |-> fits]}]
    /\ UNCHANGED <<kernel, pending>>

SaveAgent ==
  \E id \in IdsOf(settings.agents) :
    /\ CanCall /\ settings.saving # id
    /\ settings' = [settings EXCEPT !.saving = id]
    /\ pending' = Append(pending, Call("save", Draft(id)))
    /\ UNCHANGED kernel

Stored(list, agent) ==
  IF agent.id \in IdsOf(list)
  THEN [i \in DOMAIN list |-> IF list[i].id = agent.id THEN agent ELSE list[i]]
  ELSE Append(list, agent)

\* saved: the agent moves to the end of the list, and the page is loaded again
SaveAnswered(i) ==
  LET agent == pending[i].agent
  IN /\ pending[i].op = "save"
     /\ \/ /\ kernel' = [kernel EXCEPT !.agents = Stored(@, agent)]
           /\ settings' = [settings EXCEPT !.loading = TRUE,
                             !.agents = Append(Without(@, agent.id), agent),
                             !.drafts = {d \in @ : d.id # agent.id}]
           /\ pending' = Append(Others(i), Call("saveload", Nothing))
        \/ /\ kernel' = kernel
           /\ settings' = [settings EXCEPT !.saving = Nothing]
           /\ pending' = Others(i)

RemoveAgent ==
  \E id \in IdsOf(settings.agents) :
    /\ CanCall
    /\ pending' = Append(pending, Call("remove", id))
    /\ UNCHANGED <<settings, kernel>>

RemoveAnswered(i) ==
  LET id == pending[i].agent
  IN /\ pending[i].op = "remove"
     /\ \/ /\ id \in IdsOf(kernel.agents)
           /\ kernel' = [kernel EXCEPT !.agents = Without(@, id)]
           /\ settings' = [settings EXCEPT !.agents = Without(@, id),
                             !.drafts = {d \in @ : d.id # id},
                             !.chosen = Only(@, ToSet(@) \ {id})]
        \/ UNCHANGED <<settings, kernel>>
     /\ pending' = Others(i)

----------------------------------------------------------------------------
(* The policy. *)

EditPolicy ==
  \E limit \in Limits :
    /\ ~settings.loading
    /\ settings' = [settings EXCEPT !.limit = limit]
    /\ UNCHANGED <<kernel, pending>>

SavePolicy ==
  /\ CanCall
  /\ pending' = Append(pending, Call("policy", settings.limit))
  /\ UNCHANGED <<settings, kernel>>

PolicyAnswered(i) ==
  /\ pending[i].op = "policy"
  /\ \/ /\ kernel' = [kernel EXCEPT !.limit = pending[i].agent]
        /\ settings' = [settings EXCEPT !.limit = pending[i].agent, !.loading = TRUE]
        /\ pending' = Append(Others(i), Call("load", Nothing))
     \/ pending' = Others(i) /\ UNCHANGED <<settings, kernel>>

----------------------------------------------------------------------------
(* The discussion. *)

ToggleAgent ==
  \E id \in Fit(settings.agents) \ {Chair} :
    /\ ~settings.loading
    /\ LET asked == IF id \in ToSet(settings.chosen)
                    THEN Only(settings.chosen, ToSet(settings.chosen) \ {id})
                    ELSE Append(settings.chosen, id)
       IN /\ id \in ToSet(settings.chosen) \/ Len(settings.chosen) < settings.limit
          /\ settings' = [settings EXCEPT
                            !.chosen = Normalized(settings.agents, asked, settings.limit)]
    /\ UNCHANGED <<kernel, pending>>

\* the effect of the run that was shown is cleaned up: its answer is not heard
Deaf == {[p EXCEPT !.live = FALSE] : p \in settings.polls}

StartDiscussion ==
  /\ ~settings.loading /\ ~settings.starting /\ settings.chosen # <<>>
  /\ Len(kernel.runs) < MaxRuns
  /\ settings' = [settings EXCEPT !.starting = TRUE, !.run = Nothing, !.status = Nothing,
                                  !.due = FALSE, !.polls = Deaf]
  /\ UNCHANGED <<kernel, pending>>

DiscussionStarted ==
  /\ settings.starting
  /\ \/ /\ kernel' = [kernel EXCEPT !.runs = Append(@, "running")]
        /\ \/ settings' = [settings EXCEPT !.starting = FALSE, !.run = Len(kernel.runs) + 1,
                                           !.status = "running", !.due = TRUE]
           \/ settings' = [settings EXCEPT !.starting = FALSE]
     \/ kernel' = kernel /\ settings' = [settings EXCEPT !.starting = FALSE]
  /\ UNCHANGED pending

\* after 1.4 s, once for each answer that is shown
Poll ==
  /\ settings.due /\ settings.status = "running"
  /\ settings' = [settings EXCEPT !.due = FALSE,
                                  !.polls = @ \cup {[run |-> settings.run, live |-> TRUE]}]
  /\ UNCHANGED <<kernel, pending>>

Heard(poll) == poll.live

\* an error is shown, and the run is not asked for again
PollAnswered ==
  \E p \in settings.polls :
    /\ \/ settings' = [settings EXCEPT !.polls = @ \ {p}]
       \/ /\ Heard(p)
          /\ settings' = [settings EXCEPT !.polls = @ \ {p}, !.run = p.run, !.due = TRUE,
                                          !.status = kernel.runs[p.run]]
    /\ UNCHANGED <<kernel, pending>>

CancelRun ==
  /\ ~settings.loading /\ settings.run # Nothing /\ settings.status = "running"
  /\ kernel' = [kernel EXCEPT !.runs[settings.run] = "ended"]
  /\ UNCHANGED <<settings, pending>>

\* the runtime ends a run
RunEnds ==
  \E id \in DOMAIN kernel.runs :
    /\ kernel' = [kernel EXCEPT !.runs[id] = "ended"]
    /\ UNCHANGED <<settings, pending>>

AgentSettingsNext ==
  \/ BeginLoad \/ EditAgent \/ SaveAgent \/ RemoveAgent \/ EditPolicy \/ SavePolicy
  \/ ToggleAgent \/ StartDiscussion \/ DiscussionStarted \/ Poll \/ PollAnswered
  \/ CancelRun \/ RunEnds
  \/ \E i \in DOMAIN pending : \/ LoadRead(i) \/ EndLoad(i) \/ SaveAnswered(i)
                               \/ RemoveAnswered(i) \/ PolicyAnswered(i)

AgentSettingsSpec == AgentSettingsInit /\ [][AgentSettingsNext]_settingsVars

----------------------------------------------------------------------------
(* A roster holds an agent once and only names that exist. *)
AgentSettingsTypeOK ==
  /\ ToSet(settings.chosen) \subseteq Agents /\ settings.limit \in Limits
  /\ ToSet(kernel.agents) \cup ToSet(settings.agents) \cup settings.drafts \subseteq Agent
  /\ Len(pending) <= MaxCalls

(* "MIMI is included automatically as ... final Chair": whatever overlaps, an
   agent is in the roster once and the chair, where it takes part, is last. *)
ChairIsLast ==
  /\ IsInjective(settings.chosen)
  /\ \A i \in DOMAIN settings.chosen : settings.chosen[i] = Chair => i = Len(settings.chosen)

(* The run that is shown is the newest one: the answer to a question about an
   earlier run never brings it back. *)
ShownRunIsNewest == settings.run \in {Nothing, Len(kernel.runs)}

=============================================================================
