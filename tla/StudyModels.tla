----------------------------- MODULE StudyModels -----------------------------
(***************************************************************************)
(* The model catalogue of the reading companion: what it reads from the    *)
(* runtime, which model it verifies, which one the reader chooses, and the *)
(* connection of the former Tutor that it moves to the server.             *)
(*                                                                         *)
(* A load keeps the catalogue and the selection of the render it began in. *)
(* The reader may leave and come back: the calls of a panel that is gone   *)
(* go on, what they would show is dropped.                                 *)
(***************************************************************************)
EXTENDS Naturals, Sequences, FiniteSets, SequencesExt

CONSTANTS Models, LocalModels,
          MaxOpenings,  \* bound: openings of the panel
          MaxLoads,     \* bound: loads begun
          MaxTests,     \* bound: tests of a chosen model
          Nothing

ModelsAssumption ==
  /\ LocalModels \subseteq Models /\ Nothing \notin Models
  /\ {MaxOpenings, MaxLoads, MaxTests} \subseteq Nat

VARIABLES panel,    \* the catalogue shown, the selection, what is under way
          loads,    \* loads that have not ended
          tests,    \* tests of a chosen model that have not ended
          legacy    \* the Tutor's connection: in the browser, on the server

modelsVars == <<panel, loads, tests, legacy>>

Unlisted == [m \in Models |-> "unlisted"]

ModelsInit ==
  /\ \E selection \in Models \cup {Nothing} :
       panel = [life |-> 0, open |-> FALSE, models |-> Unlisted, selection |-> selection,
                loading |-> FALSE, testing |-> Nothing, permitted |-> {}, begun |-> 0,
                tested |-> 0]
  /\ loads = <<>> /\ tests = <<>>
  /\ \E at \in {{"v1"}, {"v2"}, {}} :
       legacy = [stored |-> at, had |-> at # {}, providers |-> 0]

Live(call) == panel.open /\ call.life = panel.life

----------------------------------------------------------------------------
(* Opening: loadSettings sets the connection aside before it rewrites the key
   that holds it; a connection only in the old key is found by the migration. *)

BeginLoad(from, force) ==
  /\ from.begun < MaxLoads
  /\ loads' = Append(loads, [life |-> from.life, stage |-> "providers", force |-> force,
                             selection |-> from.selection, previous |-> from.models,
                             listed |-> Unlisted, candidate |-> Nothing, permitted |-> {}])
  /\ panel' = [from EXCEPT !.loading = TRUE, !.begun = @ + 1]

OpenPanel ==
  /\ ~panel.open /\ panel.life < MaxOpenings
  /\ BeginLoad([panel EXCEPT !.open = TRUE, !.life = @ + 1, !.models = Unlisted,
                             !.testing = Nothing], FALSE)
  /\ legacy' = [legacy EXCEPT !.stored = IF "v2" \in @ THEN {"snapshot"} ELSE @]
  /\ UNCHANGED tests

ClosePanel ==
  /\ panel.open
  /\ panel' = [panel EXCEPT !.open = FALSE]
  /\ UNCHANGED <<loads, tests, legacy>>

RefreshModels ==
  /\ panel.open /\ ~panel.loading
  /\ BeginLoad(panel, TRUE)
  /\ UNCHANGED <<tests, legacy>>

----------------------------------------------------------------------------
(* migrateLegacyShelfProvider *)

OnTo(i, stage) == loads' = [loads EXCEPT ![i].stage = stage]
Moved == [legacy EXCEPT !.stored = {}]

\* the server's providers: one with the connection's address is used as it is
ProvidersRead(i) ==
  /\ loads[i].stage = "providers"
  /\ \/ OnTo(i, "catalogue") /\ UNCHANGED legacy         \* the call fails
     \/ legacy.stored = {} /\ OnTo(i, "catalogue") /\ UNCHANGED legacy
     \/ legacy.stored # {} /\ legacy.providers > 0 /\ OnTo(i, "catalogue") /\ legacy' = Moved
     \/ legacy.stored # {} /\ legacy.providers = 0 /\ OnTo(i, "create") /\ UNCHANGED legacy
  /\ UNCHANGED <<panel, tests>>

\* created and answered, created and the answer lost, or refused
ProviderCreated(i) ==
  LET created == [legacy EXCEPT !.providers = @ + 1]
  IN /\ loads[i].stage = "create" /\ OnTo(i, "catalogue")
     /\ \/ legacy' = [created EXCEPT !.stored = {}]
        \/ legacy' = created
        \/ UNCHANGED legacy
     /\ UNCHANGED <<panel, tests>>

----------------------------------------------------------------------------
(* loadModels *)

\* what the row of a model says, by the policy, its provider and the cached check
Availability(m, permitted, healthy, cached) ==
  IF m \notin permitted THEN "blocked"
  ELSE IF m \notin healthy THEN "unavailable"
  ELSE cached[m]

CanProbeAnywhere(m, c, healthy) ==
  m \in healthy /\ (c.force \/ c.listed[m] \in {"unknown", "available"})

\* models that may be verified without the reader
CanProbe(m, c, healthy) ==
  /\ m \in c.permitted /\ m \in healthy
  /\ c.force \/ c.listed[m] \in {"unknown", "available"}

\* the selection first; else a default, the first available or the first unknown one
Candidates(c, healthy) ==
  IF c.selection \in Models /\ CanProbe(c.selection, c, healthy) THEN {c.selection}
  ELSE {m \in Models : CanProbe(m, c, healthy)} \cup {Nothing}

Available(listed) == {m \in Models : listed[m] = "available"}

\* the load ends: its list, and a selection that is available in it
Selections(c, listed) ==
  IF c.selection \in Available(listed) THEN {c.selection}
  ELSE IF Available(listed) = {} THEN {Nothing} ELSE Available(listed)

EndLoad(i, listed) ==
  /\ loads' = RemoveAt(loads, i)
  /\ IF Live(loads[i])
     THEN \E s \in Selections(loads[i], listed) :
            panel' = [panel EXCEPT !.models = listed, !.selection = s, !.loading = FALSE,
                                   !.permitted = loads[i].permitted]
     ELSE UNCHANGED panel

\* an error keeps the catalogue that the load began with
LoadFails(i) ==
  /\ loads[i].stage = "catalogue"
  /\ loads' = RemoveAt(loads, i)
  /\ panel' = IF Live(loads[i])
              THEN [panel EXCEPT !.models = loads[i].previous, !.loading = FALSE] ELSE panel
  /\ UNCHANGED <<tests, legacy>>

CatalogueRead(i) ==
  /\ loads[i].stage = "catalogue"
  /\ \E offline \in BOOLEAN, healthy \in SUBSET Models,
        cached \in [Models -> {"available", "unknown"}] :
       LET permitted == IF offline THEN LocalModels ELSE Models
           listed == [m \in Models |-> Availability(m, permitted, healthy, cached)]
           c == [loads[i] EXCEPT !.listed = listed, !.permitted = permitted]
       IN \E candidate \in Candidates(c, healthy) :
            IF candidate = Nothing \/ (~c.force /\ listed[candidate] # "unknown")
            THEN /\ loads' = RemoveAt(loads, i)
                 /\ IF Live(c)
                    THEN \E s \in Selections(c, listed) :
                           panel' = [panel EXCEPT !.models = listed, !.selection = s,
                                                  !.loading = FALSE, !.permitted = permitted]
                    ELSE UNCHANGED panel
            ELSE /\ loads' = [loads EXCEPT ![i] = [c EXCEPT
                                !.stage = "probe", !.candidate = candidate,
                                !.listed[candidate] = "checking"]]
                 /\ panel' = IF Live(c)
                             THEN [panel EXCEPT !.models = [listed EXCEPT ![candidate] = "checking"],
                                                !.permitted = permitted]
                             ELSE panel
  /\ UNCHANGED <<tests, legacy>>

Verdicts == {"available", "unavailable", "blocked"}

CandidateTested(i) ==
  /\ loads[i].stage = "probe"
  /\ \E verdict \in Verdicts :
       EndLoad(i, [loads[i].listed EXCEPT ![loads[i].candidate] = verdict])
  /\ UNCHANGED <<tests, legacy>>

----------------------------------------------------------------------------
(* chooseModel *)

ChooseModel ==
  \E m \in Models :
    /\ panel.open /\ ~panel.loading /\ panel.testing = Nothing
    /\ \/ /\ panel.models[m] = "available"
          /\ panel' = [panel EXCEPT !.selection = m] /\ UNCHANGED tests
       \/ /\ panel.models[m] = "unknown" /\ panel.tested < MaxTests
          /\ panel' = [panel EXCEPT !.testing = m, !.models[m] = "checking", !.tested = @ + 1]
          /\ tests' = Append(tests, [life |-> panel.life, model |-> m,
                                      permitted |-> panel.permitted])
    /\ UNCHANGED <<loads, legacy>>

ChosenTested(i) ==
  LET m == tests[i].model
  IN /\ tests' = RemoveAt(tests, i)
     /\ \E verdict \in Verdicts :
          panel' = IF ~Live(tests[i]) THEN panel
                   ELSE [panel EXCEPT !.testing = Nothing,
                           !.models[m] = IF @ = "unlisted" THEN @ ELSE verdict,
                           !.selection = IF verdict = "available" THEN m ELSE @]
     /\ UNCHANGED <<loads, legacy>>

----------------------------------------------------------------------------
ModelsNext ==
  \/ OpenPanel \/ ClosePanel \/ RefreshModels \/ ChooseModel
  \/ \E i \in DOMAIN loads : \/ ProvidersRead(i) \/ ProviderCreated(i) \/ LoadFails(i)
                             \/ CatalogueRead(i) \/ CandidateTested(i)
  \/ \E i \in DOMAIN tests : ChosenTested(i)

ModelsSpec == ModelsInit /\ [][ModelsNext]_modelsVars

----------------------------------------------------------------------------
(* Rows have one of the six states; a load is under way exactly while shown. *)
ModelsTypeOK ==
  /\ panel.models \in [Models -> Verdicts \cup {"unknown", "checking", "unlisted"}]
  /\ panel.selection \in Models \cup {Nothing}
  /\ panel.open => (panel.loading <=> \E i \in DOMAIN loads : Live(loads[i]))

(* "Preserve old connection details before removing them": at every moment,
   whatever failed, was repeated or was left half done, the Tutor's connection
   is in the browser's storage or on the server. *)
ConnectionIsKept == legacy.had => legacy.stored # {} \/ legacy.providers > 0

(* A model of the cloud is verified only under a policy, as last read, that
   allows it: "Offline-only never contacts cloud providers". *)
TestsFollowPolicy ==
  /\ \A i \in DOMAIN loads : loads[i].stage = "probe" => loads[i].candidate \in loads[i].permitted
  /\ \A i \in DOMAIN tests : tests[i].model \in tests[i].permitted

=============================================================================
