--------------------------- MODULE ModelCatalogue ---------------------------
(***************************************************************************)
(* Providers and their models in the settings of the AI runtime: saving,   *)
(* testing and deleting a provider, the refresh of one provider's          *)
(* catalogue with the checks of its models one after the other, and the    *)
(* check of a single model, which may still be under way meanwhile.        *)
(***************************************************************************)
EXTENDS Naturals, Sequences, FiniteSets, SequencesExt

CONSTANTS Providers,
          Local,        \* the providers of this computer, Ollama's
          Models,
          Of,           \* [Models -> Providers]
          MaxRefreshes, \* bound: refreshes
          MaxChanges,   \* bound: changes of providers and of the mode
          Nothing

CatalogueAssumption ==
  /\ Local \subseteq Providers /\ IsFiniteSet(Models) /\ Of \in [Models -> Providers]
  /\ MaxRefreshes \in Nat /\ MaxChanges \in Nat

VARIABLES catalogue, \* the page
          stock,     \* the runtime: mode, providers and cached models
          refresh,   \* the refresh under way
          checks     \* the checks of single models under way, with their verdicts

catalogueVars == <<catalogue, stock, refresh, checks>>

\* "local": local-first without a cloud fallback
Modes == {"offline", "local", "open"}
NoModels == [m \in {} |-> "unknown"]
Listed(m) == m \in DOMAIN catalogue.rows
Blocked(p, mode) == p \notin Local /\ mode # "open"
NoRefresh == [step |-> "idle", of |-> Nothing, mode |-> Nothing, todo |-> <<>>, found |-> NoModels]

CatalogueInit ==
  \E mode \in Modes :
    /\ stock = [mode |-> mode, providers |-> Providers, enabled |-> Providers, healthy |-> {},
                rows |-> NoModels, changes |-> 0]
    /\ catalogue = [mode |-> mode, providers |-> Providers, enabled |-> Providers, healthy |-> {},
                    rows |-> NoModels, checking |-> {}, call |-> Nothing, refreshes |-> 0]
    /\ refresh = NoRefresh /\ checks = NoModels

----------------------------------------------------------------------------
(* What the runtime does. *)

MergedUnverified(p, found, mode) ==
  [m \in {n \in DOMAIN stock.rows : Of[n] \in stock.providers \ {p}} \cup found |->
     IF m \in found THEN IF Blocked(p, mode) THEN "blocked" ELSE "unknown" ELSE stock.rows[m]]

\* what was found replaces the provider's rows, with the verdicts of the rows it had
Merged(p, found, mode) ==
  [m \in {n \in DOMAIN stock.rows : Of[n] \in stock.providers \ {p}} \cup found |->
     CASE m \notin found -> IF Of[m] \notin stock.enabled \/ Blocked(Of[m], mode) THEN "blocked"
                            ELSE stock.rows[m]
       [] Blocked(p, mode) -> "blocked"
       [] m \in DOMAIN stock.rows /\ stock.rows[m] # "blocked" -> stock.rows[m]
       [] OTHER -> "unknown"]

\* the catalogue could not be read: its rows are kept, as far as the policy goes
Kept(p, mode) ==
  [m \in {n \in DOMAIN stock.rows : Of[n] \in stock.providers \cup {p}} |->
     IF Blocked(Of[m], mode) \/ (Of[m] # p /\ Of[m] \notin stock.enabled) THEN "blocked"
     ELSE stock.rows[m]]

\* a check of a blocked model only says so
Verdicts(m) == IF Of[m] \notin stock.enabled \/ Blocked(Of[m], stock.mode) THEN {"blocked"}
               ELSE {"available", "unavailable"}
StoreVerdict(m, v) == [stock EXCEPT !.rows = IF m \in DOMAIN @ THEN [@ EXCEPT ![m] = v] ELSE @]

\* the policy is changed elsewhere
SetMode ==
  /\ stock.changes < MaxChanges
  /\ \E mode \in Modes : stock' = [stock EXCEPT !.mode = mode, !.changes = @ + 1]
  /\ UNCHANGED <<catalogue, refresh, checks>>

----------------------------------------------------------------------------
(* Saving, testing and deleting a provider, each followed by a load of the *)
(* page, which hides it.                                                   *)

Quiet == catalogue.call = Nothing /\ refresh.step = "idle"

ChangeProvider(p, op) ==
  /\ Quiet /\ p \in catalogue.providers /\ stock.changes < MaxChanges
  /\ catalogue' = [catalogue EXCEPT !.call = [op |-> op, of |-> p]]
  /\ UNCHANGED <<stock, refresh, checks>>

\* saved: what was known of its health is forgotten; an error changes nothing
ProviderChanged ==
  LET call == catalogue.call
      done == [stock EXCEPT !.changes = @ + 1]
  IN /\ call # Nothing /\ call.op # "load"
     /\ \/ /\ call.op = "save"
           /\ \E on \in BOOLEAN :
                stock' = [done EXCEPT !.enabled = IF on THEN @ \cup {call.of} ELSE @ \ {call.of},
                                      !.healthy = @ \ {call.of}]
        \/ /\ call.op = "test" /\ (stock.mode = "offline" => call.of \in Local)
           /\ \E well \in BOOLEAN :
                stock' = [done EXCEPT !.healthy = IF well THEN @ \cup {call.of} ELSE @ \ {call.of}]
        \/ call.op = "test" /\ stock' = done
        \/ /\ call.op = "delete"
           /\ stock' = [done EXCEPT !.providers = @ \ {call.of}, !.enabled = @ \ {call.of},
                                   !.healthy = @ \ {call.of}]
     /\ catalogue' = [catalogue EXCEPT !.call = [op |-> "load", of |-> Nothing]]
     /\ UNCHANGED <<refresh, checks>>

ChangeFails ==
  /\ catalogue.call # Nothing /\ catalogue.call.op \in {"save", "delete"}
  /\ catalogue' = [catalogue EXCEPT !.call = Nothing]
  /\ UNCHANGED <<stock, refresh, checks>>

EndLoad ==
  /\ catalogue.call # Nothing /\ catalogue.call.op = "load"
  /\ \/ catalogue' = [catalogue EXCEPT !.call = Nothing, !.mode = stock.mode,
          !.providers = stock.providers, !.enabled = stock.enabled,
          !.healthy = stock.healthy, !.rows = stock.rows]
     \/ catalogue' = [catalogue EXCEPT !.call = Nothing]
  /\ UNCHANGED <<stock, refresh, checks>>

----------------------------------------------------------------------------
(* The refresh of one provider. *)

MayRefresh(p) == p \in catalogue.enabled /\ (catalogue.mode = "offline" => p \in Local)

BeginRefresh ==
  \E p \in {q \in catalogue.providers : MayRefresh(q)} :
    /\ Quiet /\ catalogue.refreshes < MaxRefreshes
    /\ refresh' = [NoRefresh EXCEPT !.step = "asked", !.of = p]
    /\ catalogue' = [catalogue EXCEPT !.refreshes = @ + 1]
    /\ UNCHANGED <<stock, checks>>

\* an error is shown; no model is marked any more, whoever is checking it
EndRefresh ==
  /\ refresh' = NoRefresh
  /\ UNCHANGED <<stock, checks>>
RefreshFails ==
  /\ refresh.step \in {"asked", "found", "reading"}
  /\ catalogue' = [catalogue EXCEPT !.checking = {}]
  /\ EndRefresh

\* the runtime holds to the policy as it is now, then asks the provider
RefreshBegins ==
  /\ refresh.step = "asked"
  /\ refresh.of \in stock.enabled /\ (stock.mode = "offline" => refresh.of \in Local)
  /\ refresh' = [refresh EXCEPT !.step = "listing", !.mode = stock.mode]
  /\ UNCHANGED <<catalogue, stock, checks>>

CatalogueFound ==
  LET p == refresh.of
  IN /\ refresh.step = "listing"
     /\ \/ \E found \in SUBSET {m \in Models : Of[m] = p} :
             stock' = [stock EXCEPT !.healthy = @ \cup {p},
                                    !.rows = Merged(p, found, refresh.mode)]
        \/ stock' = [stock EXCEPT !.healthy = @ \ {p}, !.rows = Kept(p, refresh.mode)]
     /\ refresh' = [refresh EXCEPT !.step = "found", !.found = stock'.rows]
     /\ UNCHANGED <<catalogue, checks>>

\* the page shows what was found; the models of Ollama are checked in turn
ShowFound ==
  /\ refresh.step = "found"
  /\ catalogue' = [catalogue EXCEPT !.enabled = stock.enabled, !.healthy = stock.healthy,
                                    !.rows = refresh.found]
  /\ refresh' = [refresh EXCEPT !.step = "turn", !.todo =
                   IF refresh.of \notin Local THEN <<>>
                   ELSE SetToSeq({m \in DOMAIN refresh.found : Of[m] = refresh.of})]
  /\ UNCHANGED <<stock, checks>>

CheckNext ==
  /\ refresh.step = "turn"
  /\ IF refresh.todo = <<>>
     THEN refresh' = [refresh EXCEPT !.step = "reading"] /\ UNCHANGED catalogue
     ELSE /\ refresh' = [refresh EXCEPT !.step = "checking"]
          /\ catalogue' = [catalogue EXCEPT !.checking = @ \cup {Head(refresh.todo)}]
  /\ UNCHANGED <<stock, checks>>

\* an error counts as a model that is not available
NextChecked ==
  LET m == Head(refresh.todo)
      after(v) == /\ refresh' = [refresh EXCEPT !.step = "turn", !.todo = Tail(@), !.found[m] = v]
                  /\ catalogue' = [catalogue EXCEPT !.checking = @ \ {m}]
  IN /\ refresh.step = "checking"
     /\ \/ \E v \in Verdicts(m) : stock' = StoreVerdict(m, v) /\ after(v)
        \/ stock' = stock /\ after("unavailable")
     /\ UNCHANGED checks

\* the merged cache is read again; an empty one does not replace what was found
ReadAgain ==
  /\ refresh.step = "reading"
  /\ catalogue' = [catalogue EXCEPT !.checking = {}, !.enabled = stock.enabled,
       !.healthy = stock.healthy,
       !.rows = IF DOMAIN stock.rows # {} THEN stock.rows ELSE refresh.found]
  /\ EndRefresh

----------------------------------------------------------------------------
(* The check of a single model; the dialog of the refresh covers its button. *)

BeginCheck ==
  \E m \in DOMAIN catalogue.rows \ catalogue.checking :
    /\ Quiet /\ Of[m] \in catalogue.enabled /\ ~Blocked(Of[m], catalogue.mode)
    /\ m \notin DOMAIN checks
    /\ catalogue' = [catalogue EXCEPT !.checking = @ \cup {m}]
    /\ checks' = [n \in DOMAIN checks \cup {m} |-> IF n = m THEN "asked" ELSE checks[n]]
    /\ UNCHANGED <<stock, refresh>>

\* the runtime has put the model to the test
CheckStored(m) ==
  /\ checks[m] = "asked"
  /\ \E v \in Verdicts(m) : stock' = StoreVerdict(m, v) /\ checks' = [checks EXCEPT ![m] = v]
  /\ UNCHANGED <<catalogue, refresh>>

\* the answer, or an error
CheckAnswered(m) ==
  /\ \E v \in {checks[m], "unavailable"} \ {"asked"} :
       catalogue' = [catalogue EXCEPT !.checking = @ \ {m},
                       !.rows = IF Listed(m) THEN [@ EXCEPT ![m] = v] ELSE @]
  /\ checks' = [n \in DOMAIN checks \ {m} |-> checks[n]]
  /\ UNCHANGED <<stock, refresh>>

CatalogueNext ==
  \/ SetMode \/ ProviderChanged \/ ChangeFails \/ EndLoad
  \/ \E p \in Providers : \E op \in {"save", "test", "delete"} : ChangeProvider(p, op)
  \/ BeginRefresh \/ RefreshFails \/ RefreshBegins \/ CatalogueFound \/ ShowFound
  \/ CheckNext \/ NextChecked \/ ReadAgain \/ BeginCheck
  \/ \E m \in DOMAIN checks : CheckStored(m) \/ CheckAnswered(m)

CatalogueSpec == CatalogueInit /\ [][CatalogueNext]_catalogueVars

----------------------------------------------------------------------------
CatalogueTypeOK ==
  /\ DOMAIN catalogue.rows \cup DOMAIN stock.rows \cup DOMAIN checks \subseteq Models
  /\ catalogue.checking \subseteq Models /\ catalogue.enabled \subseteq Providers

(* "A model may be tested while provider catalogues are refreshing": a refresh
   never turns the verdict of a test into "unknown" while the model is listed,
   whatever the test and the refresh overlap with. *)
VerdictStep ==
  \A m \in DOMAIN stock.rows \cap DOMAIN stock'.rows :
    stock.rows[m] \in {"available", "unavailable"} => stock'.rows[m] # "unknown"
VerdictsSurviveRefresh == [][VerdictStep]_catalogueVars

=============================================================================
