---------------------------- MODULE HubWorkspace ----------------------------
(***************************************************************************)
(* The page of one linked repository at its own address: the list of the   *)
(* linked repositories, which of them is chosen, its private note and its  *)
(* project links, and the operations that change them at the server and    *)
(* then read everything again.                                             *)
(*                                                                         *)
(* A note is named by the repository that it was written about.            *)
(***************************************************************************)
EXTENDS Naturals, FiniteSets

CONSTANTS Repositories,
          MaxMoves, \* bound: repositories the reader goes to
          MaxOps,   \* bound: operations
          Nothing

WorkspaceAssumption == {MaxMoves, MaxOps} \subseteq Nat

VARIABLES hub,     \* the server: what is linked, its notes, the members of a collection
          panel,   \* the panel: address, list, choice and forms
          asked,   \* of the chosen repository's note and project links, those under way
          reloads, \* readings of the whole workspace under way
          op,      \* the operation under way
          moves    \* moves and operations so far

workspaceVars == <<hub, panel, asked, reloads, op, moves>>

WorkspaceInit ==
  /\ \E linked \in SUBSET Repositories : \E members \in {{}, linked} :
       hub = [linked |-> linked, note |-> [r \in Repositories |-> Nothing],
              collection |-> TRUE, members |-> members]
  /\ \E r \in Repositories :
       panel = [route |-> r, list |-> {}, collections |-> FALSE, filter |-> FALSE, chosen |-> Nothing,
                note |-> Nothing, links |-> Nothing, loading |-> TRUE]
  /\ asked = {}
  /\ reloads = {[by |-> "reader", read |-> Nothing]}
  /\ op = Nothing
  /\ moves = [made |-> 0, ops |-> 0]

----------------------------------------------------------------------------
(* The effects that follow a change. *)

\* the repository of the address is chosen if the list has it
Routed(p) ==
  [p EXCEPT !.chosen = IF p.route \in p.list THEN p.route ELSE IF p.loading THEN @ ELSE Nothing]

\* without a repository the forms are emptied; with one the note stays until it is read
Forms(p) == IF p.chosen = Nothing THEN [p EXCEPT !.note = Nothing, !.links = Nothing] ELSE p

Chosen(p, again) ==
  /\ panel' = Forms(p)
  /\ asked' = IF p.chosen = Nothing THEN {}
              ELSE IF again \/ p.chosen # panel.chosen THEN {"note", "links"} ELSE asked

\* the address is looked at again when the list changes or a reading begins or ends
StartReload(p, by) ==
  /\ reloads' = reloads \cup {[by |-> by, read |-> Nothing]}
  /\ Chosen(IF p.loading THEN p ELSE Routed([p EXCEPT !.loading = TRUE]), FALSE)

----------------------------------------------------------------------------
(* Reading. *)

Refresh ==
  /\ ~panel.loading /\ \A c \in reloads : c.by # "reader"
  /\ StartReload(panel, "reader")
  /\ UNCHANGED <<hub, op, moves>>

ServerReads(c) ==
  /\ c.read = Nothing
  /\ reloads' = (reloads \ {c}) \cup
       {[c EXCEPT !.read = [linked |-> hub.linked, collection |-> hub.collection]]}
  /\ UNCHANGED <<hub, panel, asked, op, moves>>

\* the operation that waits for the reload ends with it, whether the reload failed or not
ReloadArrives(c) ==
  LET after(p) == IF c.by = "operation" /\ op.kind = "sync" THEN [p EXCEPT !.chosen = op.repo] ELSE p
      ok == after([panel EXCEPT !.list = c.read.linked, !.collections = c.read.collection,
                     !.loading = FALSE, !.chosen = IF @ \in c.read.linked THEN @ ELSE Nothing])
      failed == after([panel EXCEPT !.loading = FALSE])
  IN /\ c.read # Nothing
     /\ \/ Chosen(Routed(ok), TRUE)
        \/ Chosen(IF panel.loading THEN Routed(failed) ELSE failed, FALSE)
     /\ reloads' = reloads \ {c}
     /\ op' = IF c.by = "operation" THEN Nothing ELSE op
     /\ UNCHANGED <<hub, moves>>

PreferencesArrive ==
  /\ "note" \in asked
  /\ \/ panel' = [panel EXCEPT !.note = hub.note[panel.chosen]]
     \/ UNCHANGED panel
  /\ asked' = asked \ {"note"}
  /\ UNCHANGED <<hub, reloads, op, moves>>

LinksArrive ==
  /\ "links" \in asked
  /\ \/ panel' = [panel EXCEPT !.links = panel.chosen]
     \/ UNCHANGED panel
  /\ asked' = asked \ {"links"}
  /\ UNCHANGED <<hub, reloads, op, moves>>

----------------------------------------------------------------------------
(* The reader. *)

Moves(p) ==
  /\ moves.made < MaxMoves
  /\ moves' = [moves EXCEPT !.made = @ + 1]
  /\ Chosen(p, FALSE)
  /\ UNCHANGED <<hub, reloads, op>>

\* in the list: the repository is chosen and the address follows
OpenRepository(r) ==
  /\ r \in panel.list /\ r # panel.chosen
  /\ Moves(Routed([panel EXCEPT !.chosen = r, !.route = r]))

\* a tab: the address is that of the chosen repository
OpenTab ==
  /\ panel.chosen \notin {Nothing, panel.route}
  /\ Chosen(Routed([panel EXCEPT !.route = panel.chosen]), FALSE)
  /\ UNCHANGED <<hub, reloads, op, moves>>

\* the browser's history
GoTo(r) ==
  /\ r # panel.route /\ Moves(Routed([panel EXCEPT !.route = r]))

EditNote ==
  /\ panel.chosen # Nothing /\ panel.note # panel.chosen
  /\ panel' = [panel EXCEPT !.note = panel.chosen]
  /\ UNCHANGED <<hub, asked, reloads, op, moves>>

ChooseCollection ==
  /\ panel' = [panel EXCEPT !.filter = ~@ /\ panel.collections]
  /\ UNCHANGED <<hub, asked, reloads, op, moves>>

----------------------------------------------------------------------------
(* Operations: one at a time; each remembers the repository it began at.   *)

Performs(kind, r) ==
  /\ op = Nothing /\ moves.ops < MaxOps
  /\ op' = [kind |-> kind, repo |-> r, note |-> IF kind = "save" THEN panel.note ELSE Nothing,
            mine |-> CASE kind = "delete" -> panel.filter
                        [] kind = "unlink" -> panel.chosen = r
                        [] OTHER -> FALSE]
  /\ moves' = [moves EXCEPT !.ops = @ + 1]
  /\ UNCHANGED <<hub, panel, asked, reloads>>

SyncMetadata == panel.chosen # Nothing /\ Performs("sync", panel.chosen)
SavePreferences == panel.chosen # Nothing /\ Performs("save", panel.chosen)
ToggleRepositoryPinned(r) == r \in panel.list /\ Performs("pin", r)
UnlinkRepository(r) == r \in panel.list /\ Performs("unlink", r)
AddToCollection ==
  /\ panel.chosen # Nothing /\ panel.collections /\ panel.chosen \notin hub.members
  /\ Performs("add", panel.chosen)
RemoveFromCollection(r) ==
  r \in panel.list /\ panel.collections /\ r \in hub.members /\ Performs("remove", r)
DeleteCollection == panel.collections /\ Performs("delete", Nothing)
CreateCollection == Performs("create", Nothing)
ProjectAction == panel.chosen # Nothing /\ Performs("project", panel.chosen)

Waits == op # Nothing /\ \A c \in reloads : c.by # "operation"
Accepted == op.repo \in hub.linked \cup {Nothing}

\* what the answer changes in the panel, before everything is read again
Answered(p) ==
  CASE op.kind = "save"   -> [p EXCEPT !.note = op.note]
    [] op.kind = "unlink" -> IF op.mine THEN [p EXCEPT !.chosen = Nothing] ELSE p
    [] op.kind = "delete" -> IF op.mine THEN [p EXCEPT !.filter = FALSE] ELSE p
    [] OTHER -> p

Written ==
  CASE op.kind = "save"   -> [hub EXCEPT !.note[op.repo] = op.note]
    [] op.kind = "unlink" -> [hub EXCEPT !.linked = @ \ {op.repo}, !.members = @ \ {op.repo},
                                         !.note[op.repo] = Nothing]
    [] op.kind = "add"    -> [hub EXCEPT !.members = @ \cup IF hub.collection THEN {op.repo} ELSE {}]
    [] op.kind = "remove" -> [hub EXCEPT !.members = @ \ {op.repo}]
    [] op.kind = "delete" -> [hub EXCEPT !.collection = FALSE, !.members = {}]
    [] op.kind = "create" -> [hub EXCEPT !.collection = TRUE]
    [] OTHER -> hub

OperationAnswers ==
  /\ Waits /\ op.kind # "project" /\ Accepted
  /\ hub' = Written
  /\ StartReload(Answered(panel), "operation")
  /\ UNCHANGED <<op, moves>>

\* the links of the project action are shown whatever repository is chosen by now
ProjectAnswers ==
  /\ Waits /\ op.kind = "project" /\ Accepted
  /\ panel' = [panel EXCEPT !.links = op.repo]
  /\ op' = Nothing
  /\ UNCHANGED <<hub, asked, reloads, moves>>

OperationFails ==
  /\ Waits /\ op' = Nothing
  /\ UNCHANGED <<hub, panel, asked, reloads, moves>>

WorkspaceNext ==
  \/ Refresh \/ PreferencesArrive \/ LinksArrive
  \/ \E c \in reloads : ServerReads(c) \/ ReloadArrives(c)
  \/ \E r \in Repositories : OpenRepository(r) \/ GoTo(r)
  \/ OpenTab \/ EditNote \/ ChooseCollection
  \/ SyncMetadata \/ SavePreferences \/ AddToCollection \/ DeleteCollection \/ CreateCollection
  \/ ProjectAction
  \/ \E r \in Repositories : ToggleRepositoryPinned(r) \/ UnlinkRepository(r) \/ RemoveFromCollection(r)
  \/ OperationAnswers \/ ProjectAnswers \/ OperationFails

WorkspaceSpec == WorkspaceInit /\ [][WorkspaceNext]_workspaceVars

----------------------------------------------------------------------------

WorkspaceTypeOK ==
  /\ hub.linked \subseteq Repositories /\ hub.members \subseteq hub.linked
  /\ panel.list \subseteq Repositories /\ panel.route \in Repositories
  /\ {panel.chosen, panel.note, panel.links} \subseteq Repositories \cup {Nothing}
  /\ asked \subseteq {"note", "links"} /\ (asked # {} => panel.chosen # Nothing)
  /\ Cardinality(reloads) <= 2

InStep(p) == p.loading \/ p.chosen \in {p.route, Nothing}

(* Once the list is read, the page shows the repository of its address or *)
(* none, whatever is opened, unlinked, synchronised or gone back to while *)
(* readings and operations are under way.  A synchronisation whose reading*)
(* fails after another reading has ended is the one exception.            *)
RouteStep ==
  InStep(panel) =>
    InStep(panel') \/ (op # Nothing /\ op.kind = "sync" /\ op' = Nothing /\ ~panel.loading)
RouteIsKept == [][RouteStep]_workspaceVars

=============================================================================
