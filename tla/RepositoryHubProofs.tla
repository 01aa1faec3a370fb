------------------------- MODULE RepositoryHubProofs -------------------------
(***************************************************************************)
(* The credential of an account survives every interleaving of refreshes,  *)
(* connections and restarts, and links follow the connection, for any      *)
(* callers and repositories and any bounds. The panel that shows the links *)
(* keeps its page to its address, its lists and its overview to the chosen *)
(* repository, for any repositories, pages and calls under way.            *)
(***************************************************************************)
EXTENDS RepositoryHub, FiniteSetTheorems, SequenceTheorems, TLAPS

CONSTANTS Linkable, Able, NoOne,                          \* of the panel
          MaxMoves, MaxOps,                               \* of its workspace
          Paged, Pages, Watched, MaxCalls,                \* of its lists
          Ranks, RootPages, PageLimit, MaxVisits          \* of its overview

VARIABLES hub, panel, asked, reloads, op, moves           \* of the workspace
VARIABLES shown, list, first, later, commits, tags, writing     \* of the lists
VARIABLES remote, seen, fetches, visits                         \* of the overview

Workspace == INSTANCE HubWorkspace WITH Repositories <- Linkable, Nothing <- NoOne
Overview == INSTANCE RemoteOverview WITH Repositories <- Linkable, Nothing <- NoOne
Lists == INSTANCE RemoteLists WITH Repositories <- Linkable, Nothing <- NoOne

Grants == 1 .. granted

Phases == {"idle", "locking", "refreshing", "saving", "calling", "writing"}

HubTyped ==
    /\ granted \in Nat
    /\ stored \in Grants \cup {None}
    /\ expired \subseteq Grants
    /\ lost \subseteq spent /\ spent \subseteq Grants
    /\ links \in [Repository -> Nat]
    /\ connection \in Nat /\ lastId \in Nat
    /\ phase \in [Caller -> Phases]
    /\ task \in [Caller -> Tasks \cup {Idle}]
    /\ \A c \in Caller : phase[c] # "idle" => task[c] \in Tasks
    /\ held \in [Caller -> [id : Nat, credential : Grants \cup {None}, from : Grants \cup {None}]]

\* Who exchanges a token or holds its replacement holds the lock.
Locked == \A c \in Caller : phase[c] \in {"refreshing", "saving"} => refreshMu = c

\* What is about to be exchanged is a credential whose refresh token is not
\* used up, and what is about to be stored is fresh and replaces a spent one.
RefreshSound ==
    \A c \in Caller :
        /\ phase[c] = "refreshing" => held[c].credential \in Grants \ (spent \ lost)
        /\ phase[c] = "saving" => /\ held[c].credential \in Grants \ spent
                                  /\ held[c].from \in spent

HubInv == HubTyped /\ Locked /\ RefreshSound /\ StoredCredentialUsable

LEMMA InitEstablishes == Init => HubInv
BY HubAssumption DEF Init, HubInv, HubTyped, Locked, RefreshSound, StoredCredentialUsable, Grants,
   Phases, None, Nothing, Idle

USE DEF HubInv, HubTyped, Locked, RefreshSound, StoredCredentialUsable, Grants, Phases, None

LEMMA UserPreserves ==
    HubInv /\ (Connect \/ DeleteConnection \/ AccessTokenExpires
               \/ \E r \in Repository : UnlinkRepository(r)) => HubInv'
<1>1. HubInv /\ Connect => HubInv'
  BY DEF Connect, callers
<1>2. HubInv /\ DeleteConnection => HubInv'
  BY DEF DeleteConnection, provider, callers
<1>3. HubInv /\ AccessTokenExpires => HubInv'
  BY DEF AccessTokenExpires, account, callers
<1>4. ASSUME NEW r \in Repository, HubInv, UnlinkRepository(r) PROVE HubInv'
  BY <1>4 DEF UnlinkRepository, account, provider, callers
<1> QED BY <1>1, <1>2, <1>3, <1>4

LEMMA RestartPreserves == HubInv /\ Restart => HubInv'
<1> SUFFICES ASSUME HubInv, Restart PROVE HubInv'
  OBVIOUS
<1>1. /\ lost' = lost \cup {held[c].from : c \in {d \in Caller : phase[d] = "saving"}}
      /\ \A c \in Caller : phase'[c] = "idle"
      /\ UNCHANGED <<connection, lastId, stored, links, granted, expired, spent>>
  BY DEF Restart, account, provider
<1>2. lost' \subseteq spent'
  BY ZenonT(30), <1>1
<1>3. HubTyped'
  BY <1>1, <1>2 DEF Restart, Idle, Nothing
<1>4. StoredCredentialUsable'
  BY <1>1
<1> QED BY <1>1, <1>3, <1>4

LEMMA BeginPreserves ==
    ASSUME HubInv, NEW c \in Caller, NEW t \in Tasks, Begin(c, t) PROVE HubInv'
<1>1. /\ phase[c] = "idle" /\ phase' = [phase EXCEPT ![c] = phase'[c]]
      /\ phase'[c] \in {"locking", "calling"}
      /\ task' = [task EXCEPT ![c] = t]
      /\ held' = [held EXCEPT ![c] = [id |-> connection, credential |-> stored, from |-> None]]
      /\ UNCHANGED <<connection, lastId, stored, links, granted, expired, spent, lost, refreshMu>>
  BY DEF Begin, Goto, account, provider
<1>2. HubTyped'
  BY <1>1
<1>3. \A d \in Caller : phase'[d] \in {"refreshing", "saving"} => d # c /\ phase'[d] = phase[d] /\ held'[d] = held[d]
  BY <1>1
<1>4. Locked' /\ RefreshSound'
  BY <1>1, <1>3
<1>5. \A d \in Caller : phase[d] = "saving" => phase'[d] = "saving" /\ held'[d] = held[d]
  BY <1>1
<1> QED BY <1>1, <1>2, <1>4, <1>5

\* Everyone but the holder of the lock is elsewhere.
LEMMA OneRefreshes ==
    ASSUME HubInv, NEW c \in Caller, phase[c] \in {"refreshing", "saving"}
    PROVE  \A d \in Caller \ {c} : phase[d] \notin {"refreshing", "saving"}
OBVIOUS

LEMMA LockPreserves == ASSUME HubInv, NEW c \in Caller, LockRefresh(c) PROVE HubInv'
<1>1. /\ phase[c] = "locking" /\ refreshMu = Free
      /\ UNCHANGED <<connection, lastId, stored, links, granted, expired, spent, lost>>
  BY DEF LockRefresh, account, provider
<1>2. \A d \in Caller : phase[d] \notin {"refreshing", "saving"}
  BY <1>1, HubAssumption
<1>3. stored \notin spent \ lost
  BY <1>2
<1>4. CASE Return(c) /\ UNCHANGED refreshMu
  BY <1>1, <1>2, <1>3, <1>4 DEF Return, Idle, Nothing
<1>5. CASE /\ held' = [held EXCEPT ![c].credential = stored]
           /\ IF held'[c].credential \in expired
              THEN Goto(c, "refreshing") /\ refreshMu' = c
              ELSE Goto(c, "calling") /\ UNCHANGED refreshMu
           /\ UNCHANGED task
  <2>1. held'[c].credential = stored
    BY <1>5
  <2>2. HubTyped'
    BY SMTT(20), <1>1, <1>5 DEF Goto
  <2>3. \A d \in Caller : phase'[d] \in {"refreshing", "saving"} => d = c /\ refreshMu' = c /\ stored \in expired /\ phase'[d] = "refreshing"
    BY <1>2, <1>5, <2>1 DEF Goto
  <2>4. Locked' /\ RefreshSound'
    BY <1>1, <1>3, <2>1, <2>3
  <2> QED BY <1>1, <1>3, <2>2, <2>4
<1> QED BY <1>4, <1>5 DEF LockRefresh, ReadAgain

LEMMA ExchangePreserves ==
    ASSUME HubInv, NEW c \in Caller, RefreshAnswered(c) \/ RefreshLost(c)
    PROVE  HubInv'
<1>1. /\ phase[c] = "refreshing" /\ held[c].credential \notin spent
      /\ granted' = granted + 1 /\ spent' = spent \cup {held[c].credential}
      /\ UNCHANGED <<connection, lastId, stored, links, expired>>
  BY DEF RefreshAnswered, RefreshLost, Exchange, account
<1>2. \A d \in Caller \ {c} : phase[d] \notin {"refreshing", "saving"}
  BY <1>1, OneRefreshes
<1>3. granted' \notin spent' /\ granted' \in 1 .. granted' /\ Grants \subseteq 1 .. granted'
  BY <1>1
<1>4. stored \in spent' => stored \in lost \/ stored = held[c].credential
  BY <1>1, <1>2
<1> DEFINE Credentials == (1 .. granted') \cup {None}
<1>5. /\ spent' \subseteq 1 .. granted' /\ expired' \subseteq 1 .. granted'
      /\ stored' \in Credentials /\ granted' \in Nat
  <2>1. held[c].credential \in 1 .. granted'
    BY <1>1, <1>3
  <2>2. spent \subseteq 1 .. granted' /\ expired \subseteq 1 .. granted'
    BY <1>3
  <2>3. stored' \in Credentials /\ granted' \in Nat
    BY <1>1, <1>3
  <2> QED BY <1>1, <2>1, <2>2, <2>3
<1>6. /\ held \in [Caller -> [id : Nat, credential : Credentials, from : Credentials]]
      /\ held[c].credential \in Credentials /\ granted' \in Credentials
  <2>1. Grants \subseteq Credentials /\ None \in Credentials /\ granted' \in Credentials
    BY <1>3
  <2> HIDE DEF Credentials, Grants, None
  <2>2. held \in [Caller -> [id : Nat, credential : Credentials, from : Credentials]]
    BY <2>1
  <2> QED BY <2>1, <2>2
<1>7. CASE RefreshAnswered(c)
  <2>1. /\ held' = [held EXCEPT ![c].credential = granted', ![c].from = held[c].credential]
        /\ phase' = [phase EXCEPT ![c] = "saving"]
        /\ UNCHANGED <<lost, refreshMu, task>>
    BY <1>7 DEF RefreshAnswered, Goto
  <2>2. held'[c].credential = granted' /\ held'[c].from = held[c].credential
    BY <2>1
  <2>3. HubTyped'
    <3>1. held' \in [Caller -> [id : Nat, credential : Credentials, from : Credentials]]
      <4> HIDE DEF Credentials
      <4>1. held'[c] = [id |-> held[c].id, credential |-> granted', from |-> held[c].credential]
        BY <1>6, <2>1
      <4>2. \A d \in Caller \ {c} : held'[d] = held[d]
        BY <2>1
      <4>3. DOMAIN held' = Caller /\ held' = [d \in Caller |-> held'[d]]
        BY <1>6, <2>1
      <4> QED BY <1>6, <4>1, <4>2, <4>3
    <3>2. lost' \subseteq spent'
      BY <1>1, <2>1
    <3>3. phase' \in [Caller -> Phases] /\ \A d \in Caller : phase'[d] # "idle" => task'[d] \in Tasks
      BY <1>1, <2>1
    <3> QED BY <1>1, <1>5, <2>1, <3>1, <3>2, <3>3
  <2>4. \A d \in Caller : phase'[d] \in {"refreshing", "saving"} => d = c
    BY <1>2, <2>1
  <2>5. Locked' /\ RefreshSound'
    BY <1>1, <1>3, <2>1, <2>2, <2>4
  <2>6. StoredCredentialUsable'
    BY <1>1, <1>4, <2>1, <2>2
  <2> QED BY <2>3, <2>5, <2>6
<1>8. CASE RefreshLost(c)
  <2>1. lost' = lost \cup {held[c].credential} /\ Return(c)
    BY <1>8 DEF RefreshLost
  <2>2. HubTyped'
    <3>1. held' \in [Caller -> [id : Nat, credential : Credentials, from : Credentials]]
      BY <1>3, <1>6, <2>1 DEF Return, Nothing
    <3>2. lost' \subseteq spent'
      BY <1>1, <2>1
    <3>3. /\ phase' \in [Caller -> Phases] /\ task' \in [Caller -> Tasks \cup {Idle}]
          /\ \A d \in Caller : phase'[d] # "idle" => task'[d] \in Tasks
      BY <1>1, <2>1 DEF Return
    <3> QED BY <1>1, <1>5, <2>1, <3>1, <3>2, <3>3
  <2>3. \A d \in Caller : phase'[d] \notin {"refreshing", "saving"}
    BY <1>2, <2>1 DEF Return
  <2> QED BY <1>1, <1>4, <2>1, <2>2, <2>3
<1> QED BY <1>7, <1>8

\* Whoever returns without a fresh credential leaves everything as it was.
LEMMA ReturnPreserves ==
    ASSUME HubInv, NEW c \in Caller, phase[c] # "saving", Return(c),
           refreshMu' = refreshMu \/ phase[c] = "refreshing",
           links' \in [Repository -> Nat],
           UNCHANGED <<connection, lastId, stored, granted, expired, spent, lost>>
    PROVE  HubInv'
<1>1. HubTyped'
  BY DEF Return, Idle, Nothing
<1>2. \A d \in Caller : phase'[d] # "idle" => d # c /\ phase'[d] = phase[d] /\ held'[d] = held[d]
  BY DEF Return
<1>3. Locked'
  BY <1>2, OneRefreshes
<1>4. RefreshSound'
  BY <1>2
<1>5. \A d \in Caller : phase[d] = "saving" => phase'[d] = "saving" /\ held'[d] = held[d]
  BY DEF Return
<1>6. StoredCredentialUsable'
  BY <1>5
<1> QED BY <1>1, <1>3, <1>4, <1>6

LEMMA SavePreserves ==
    ASSUME HubInv, NEW c \in Caller, SaveRefreshed(c) \/ SaveFails(c) PROVE HubInv'
<1>1. phase[c] = "saving" /\ UNCHANGED <<lastId, links, granted, expired, spent>>
  BY DEF SaveRefreshed, SaveFails, account, provider
<1>2. \A d \in Caller \ {c} : phase[d] \notin {"refreshing", "saving"}
  BY <1>1, OneRefreshes
<1>3. CASE SaveRefreshed(c)
  <2>1. /\ connection' = IF connection = None THEN held[c].id ELSE connection
        /\ stored' = held[c].credential /\ UNCHANGED lost
        /\ \/ Return(c)
           \/ /\ held' = [held EXCEPT ![c].id = connection', ![c].from = None]
              /\ phase' = [phase EXCEPT ![c] = "calling"]
              /\ UNCHANGED task
    BY <1>3 DEF SaveRefreshed, StoreNewCredential, Goto
  <2>2. connection' \in Nat /\ stored' \in Grants \ spent
    BY <1>1, <2>1
  <2>3. HubTyped'
    BY SMTT(20), <1>1, <2>1, <2>2 DEF Return, Idle, Nothing
  <2>4. \A d \in Caller : phase'[d] \notin {"refreshing", "saving"}
    BY <1>2, <2>1 DEF Return
  <2> QED BY <1>1, <2>2, <2>3, <2>4
<1>4. CASE SaveFails(c)
  <2>1. lost' = lost \cup {held[c].from} /\ Return(c) /\ UNCHANGED <<connection, stored>>
    BY <1>4 DEF SaveFails, account
  <2>2. HubTyped'
    BY <1>1, <2>1 DEF Return, Idle, Nothing
  <2>3. \A d \in Caller : phase'[d] \notin {"refreshing", "saving"}
    BY <1>2, <2>1 DEF Return
  <2> QED BY <1>1, <1>2, <2>1, <2>2, <2>3
<1> QED BY <1>3, <1>4

LEMMA CallPreserves ==
    ASSUME HubInv, NEW c \in Caller,
           RefreshRefused(c) \/ Answered(c) \/ ImportFails(c) \/ UpsertHubRepository(c)
    PROVE  HubInv'
<1>1. CASE RefreshRefused(c)
  BY <1>1, ReturnPreserves DEF RefreshRefused, account, provider
<1>2. CASE Answered(c)
  <2>1. /\ phase[c] = "calling"
        /\ UNCHANGED <<connection, lastId, stored, links, granted, expired, spent, lost, refreshMu>>
    BY <1>2 DEF Answered, account, provider
  <2>2. CASE Return(c)
    BY <2>1, <2>2, ReturnPreserves
  <2>3. ASSUME NEW now \in Nat, held' = [held EXCEPT ![c].id = now],
               phase' = [phase EXCEPT ![c] = "writing"], UNCHANGED task
        PROVE  HubInv'
    <3>1. HubTyped'
      BY <2>1, <2>3
    <3>2. \A d \in Caller : phase[d] \in {"refreshing", "saving"} <=> phase'[d] \in {"refreshing", "saving"}
      BY <2>1, <2>3
    <3>3. \A d \in Caller : d # c => phase'[d] = phase[d] /\ held'[d] = held[d]
      BY <2>3
    <3>4. Locked' /\ RefreshSound'
      BY <2>1, <3>2, <3>3
    <3> QED BY <2>1, <3>1, <3>3, <3>4
  <2>4. links[task[c].repository] \in Nat
    BY <2>1 DEF Tasks
  <2> QED BY <1>2, <2>2, <2>3, <2>4 DEF Answered, Goto
<1>3. CASE ImportFails(c)
  BY <1>3, ReturnPreserves DEF ImportFails, account, provider
<1>4. CASE UpsertHubRepository(c)
  <2>1. links' \in [Repository -> Nat]
    BY <1>4 DEF UpsertHubRepository, Writable
  <2> QED BY <1>4, <2>1, ReturnPreserves DEF UpsertHubRepository, account, provider
<1> QED BY <1>1, <1>2, <1>3, <1>4

LEMMA HubInvariant == Spec => []HubInv
<1>1. HubInv /\ [Next]_vars => HubInv'
  <2>1. HubInv /\ UNCHANGED vars => HubInv'
    BY DEF vars
  <2> QED BY <2>1, UserPreserves, RestartPreserves, BeginPreserves, LockPreserves, ExchangePreserves,
             SavePreserves, CallPreserves DEF Next, Step
<1> QED BY InitEstablishes, <1>1, PTL DEF Spec

-----------------------------------------------------------------------------
(* A credential whose refresh token was exchanged is presented again only    *)
(* when the answer to the exchange was lost, however many callers find the   *)
(* token expired at once (ProviderCredential's lock and second reading).     *)
THEOREM NoStaleToken == Spec => []StaleTokenOnlyAfterLoss
<1>1. HubInv => StaleTokenOnlyAfterLoss
  BY DEF StaleTokenOnlyAfterLoss
<1> QED BY <1>1, HubInvariant, PTL

(* The stored credential can be refreshed, or its replacement is on the way  *)
(* or was lost (ProviderCredential, SaveHubConnection).                      *)
THEOREM AccountStaysUsable == Spec => []StoredCredentialUsable
BY HubInvariant, PTL

(* Links belong to the connection that the account has now: the foreign key  *)
(* and UpsertHubRepository's check against calls that began earlier.         *)
THEOREM LinksAreOfTheConnection == Spec => []LinksFollowConnection
<1>1. Init => LinksFollowConnection
  BY DEF Init, LinksFollowConnection
<1>2. HubInv /\ LinksFollowConnection /\ [Next]_vars => LinksFollowConnection'
  <2> SUFFICES ASSUME HubInv, LinksFollowConnection, [Next]_vars PROVE LinksFollowConnection'
    OBVIOUS
  <2> USE DEF LinksFollowConnection
  <2>1. CASE Connect
    BY <2>1 DEF Connect
  <2>2. CASE DeleteConnection \/ Restart \/ AccessTokenExpires
    BY <2>2 DEF DeleteConnection, Restart, AccessTokenExpires, account
  <2>3. ASSUME NEW r \in Repository, UnlinkRepository(r) PROVE LinksFollowConnection'
    BY <2>3 DEF UnlinkRepository, account
  <2>4. ASSUME NEW c \in Caller, UpsertHubRepository(c) PROVE LinksFollowConnection'
    BY <2>4 DEF UpsertHubRepository, Writable, account
  <2>5. ASSUME NEW c \in Caller, SaveRefreshed(c) PROVE LinksFollowConnection'
    BY <2>5 DEF SaveRefreshed
  <2>6. ASSUME NEW c \in Caller, Step(c), ~UpsertHubRepository(c), ~SaveRefreshed(c)
        PROVE  LinksFollowConnection'
    BY <2>6 DEF Step, LockRefresh, RefreshAnswered, RefreshLost, RefreshRefused, SaveFails,
                Answered, ImportFails, account
  <2>7. ASSUME NEW c \in Caller, NEW t \in Tasks, Begin(c, t) PROVE LinksFollowConnection'
    BY <2>7 DEF Begin, account
  <2>8. CASE UNCHANGED vars
    BY <2>8 DEF vars
  <2> QED BY <2>1, <2>2, <2>3, <2>4, <2>5, <2>6, <2>7, <2>8 DEF Next
<1> QED BY <1>1, <1>2, HubInvariant, PTL DEF Spec

-----------------------------------------------------------------------------
(* The page of a linked repository                                         *)

Kinds == {"sync", "save", "pin", "unlink", "add", "remove", "delete", "create", "project"}

\* An operation and the repository it began at.
Operation ==
    [kind : Kinds, repo : Linkable \cup {NoOne}, note : Linkable \cup {NoOne}, mine : BOOLEAN]

Reload == [by : {"reader", "operation"},
           read : [linked : SUBSET Linkable, collection : BOOLEAN] \cup {NoOne}]

Panel == [route : Linkable, list : SUBSET Linkable, collections : BOOLEAN, filter : BOOLEAN,
          chosen : Linkable \cup {NoOne}, note : Linkable \cup {NoOne},
          links : Linkable \cup {NoOne}, loading : BOOLEAN]

HubKnown ==
    /\ hub \in [linked : SUBSET Linkable, note : [Linkable -> Linkable \cup {NoOne}],
                collection : BOOLEAN, members : SUBSET Linkable]
    /\ hub.members \subseteq hub.linked

OperationKnown ==
    op # NoOne =>
      /\ op \in Operation
      /\ op.kind = "add" => op.repo # NoOne

\* One reading at most for the reader and one for the operation under way.
ReloadsKnown ==
    /\ reloads \subseteq Reload
    /\ \A c, d \in reloads : c.by = d.by => c = d
    /\ \A c \in reloads : c.by = "operation" => op # NoOne

PanelKnown ==
    /\ panel \in Panel
    /\ asked \subseteq {"note", "links"}
    /\ asked # {} => panel.chosen # NoOne

WorkspaceInv == HubKnown /\ OperationKnown /\ ReloadsKnown /\ PanelKnown

\* What the panel is after it looked at the address.
LEMMA RoutedPanel ==
    ASSUME NEW p \in Panel
    PROVE  /\ Workspace!Routed(p) \in Panel /\ Workspace!InStep(Workspace!Routed(p))
           /\ Workspace!Routed(p).loading <=> p.loading
<1> DEFINE chosen == IF p.route \in p.list THEN p.route ELSE IF p.loading THEN p.chosen ELSE NoOne
           q == [p EXCEPT !.chosen = chosen]
<1>1. Workspace!Routed(p) = q
  BY Zenon DEF Workspace!Routed
<1>2. chosen \in Linkable \cup {NoOne} /\ (p.loading \/ chosen \in {p.route, NoOne})
  BY DEF Panel
<1> HIDE DEF chosen
<1>3. q \in Panel /\ q.chosen = chosen /\ q.route = p.route /\ (q.loading <=> p.loading)
  BY <1>2 DEF Panel
<1> HIDE DEF q
<1> QED BY <1>1, <1>2, <1>3 DEF Workspace!InStep

LEMMA ChosenPanel ==
    ASSUME PanelKnown, NEW p \in Panel, NEW again \in BOOLEAN, Workspace!Chosen(p, again)
    PROVE  PanelKnown' /\ (Workspace!InStep(p) => Workspace!InStep(panel'))
<1>1. /\ panel' \in Panel /\ panel'.chosen = p.chosen /\ panel'.route = p.route
      /\ panel'.loading <=> p.loading
  <2>1. CASE p.chosen = NoOne
    <3>1. panel' = [p EXCEPT !.note = NoOne, !.links = NoOne]
      BY <2>1 DEF Workspace!Chosen, Workspace!Forms
    <3> QED BY <3>1 DEF Panel
  <2>2. CASE p.chosen # NoOne
    BY <2>2 DEF Workspace!Chosen, Workspace!Forms
  <2> QED BY <2>1, <2>2
<1>2. asked' \subseteq {"note", "links"} /\ (asked' # {} => p.chosen # NoOne)
  BY DEF Workspace!Chosen, PanelKnown
<1> QED BY <1>1, <1>2 DEF PanelKnown, Workspace!InStep

\* A reading begins: the panel loads, so whatever it shows may change.
LEMMA ReloadStarts ==
    ASSUME WorkspaceInv, NEW p \in Panel, NEW by \in {"reader", "operation"},
           \A c \in reloads : c.by # by, by = "operation" => op # NoOne, op' = op,
           Workspace!StartReload(p, by)
    PROVE  PanelKnown' /\ ReloadsKnown' /\ Workspace!InStep(panel')
<1> DEFINE fresh == [by |-> by, read |-> NoOne]
           loaded == [p EXCEPT !.loading = TRUE]
           next == IF p.loading THEN p ELSE Workspace!Routed(loaded)
<1>1. reloads' = reloads \cup {fresh} /\ Workspace!Chosen(next, FALSE)
  BY Zenon DEF Workspace!StartReload
<1>2. fresh \in Reload /\ fresh.by = by
  BY DEF Reload
<1> HIDE DEF fresh
<1>3. ReloadsKnown'
  BY <1>1, <1>2 DEF WorkspaceInv, ReloadsKnown
<1>4. next \in Panel /\ Workspace!InStep(next)
  <2>1. CASE p.loading
    BY <2>1 DEF Workspace!InStep
  <2>2. CASE ~p.loading
    <3> DEFINE on == TRUE
    <3>1. loaded = [p EXCEPT !.loading = on] /\ on \in BOOLEAN
      OBVIOUS
    <3> HIDE DEF on, loaded
    <3>2. loaded \in Panel
      BY <3>1 DEF Panel
    <3> QED BY <2>2, <3>2, RoutedPanel
  <2> QED BY <2>1, <2>2
<1> HIDE DEF next
<1>5. PanelKnown' /\ Workspace!InStep(panel')
  BY <1>1, <1>4, ChosenPanel DEF WorkspaceInv
<1> QED BY <1>3, <1>5

LEMMA ReloadArrivesStep ==
    ASSUME WorkspaceInv, NEW c \in reloads, Workspace!ReloadArrives(c)
    PROVE  /\ PanelKnown' /\ ReloadsKnown' /\ (op' = op \/ op' = NoOne)
           /\ Workspace!RouteStep
<1> DEFINE synced == c.by = "operation" /\ op.kind = "sync"
           after(p) == IF synced THEN [p EXCEPT !.chosen = op.repo] ELSE p
           off == FALSE
           ok == [panel EXCEPT !.list = c.read.linked, !.collections = c.read.collection,
                     !.loading = off, !.chosen = IF panel.chosen \in c.read.linked THEN panel.chosen ELSE NoOne]
           failed == [panel EXCEPT !.loading = off]
<1>1. /\ c.read # NoOne
      /\ \/ Workspace!Chosen(Workspace!Routed(after(ok)), TRUE)
         \/ Workspace!Chosen(IF panel.loading THEN Workspace!Routed(after(failed)) ELSE after(failed), FALSE)
      /\ reloads' = reloads \ {c}
      /\ op' = IF c.by = "operation" THEN NoOne ELSE op
  BY Zenon DEF Workspace!ReloadArrives
<1>2. /\ panel \in Panel /\ c.read \in [linked : SUBSET Linkable, collection : BOOLEAN]
      /\ reloads \subseteq Reload /\ (c.by = "operation" => op \in Operation /\ op # NoOne)
  BY <1>1 DEF WorkspaceInv, PanelKnown, ReloadsKnown, OperationKnown, Reload
<1>3. ASSUME NEW p \in Panel
      PROVE  after(p) \in Panel /\ (after(p).loading <=> p.loading) /\ after(p).route = p.route
             /\ (~synced => after(p) = p)
  <2>1. CASE synced
    <3> DEFINE repo == op.repo
    <3>1. repo \in Linkable \cup {NoOne} /\ after(p) = [p EXCEPT !.chosen = repo]
      BY <1>2, <2>1 DEF Operation
    <3> HIDE DEF repo, after
    <3> QED BY <2>1, <3>1 DEF Panel
  <2>2. CASE ~synced
    BY <2>2
  <2> QED BY <2>1, <2>2
<1>4. ok \in Panel
  <2> DEFINE linked == c.read.linked
             collections == c.read.collection
             chosen == IF panel.chosen \in c.read.linked THEN panel.chosen ELSE NoOne
  <2>1. linked \in SUBSET Linkable /\ collections \in BOOLEAN /\ chosen \in Linkable \cup {NoOne}
        /\ off \in BOOLEAN
    BY <1>2 DEF Panel
  <2>2. ok = [panel EXCEPT !.list = linked, !.collections = collections, !.loading = off, !.chosen = chosen]
    OBVIOUS
  <2> HIDE DEF linked, collections, chosen, off, ok
  <2> QED BY <1>2, <2>1, <2>2 DEF Panel
<1>5. /\ failed \in Panel /\ failed.chosen = panel.chosen /\ failed.route = panel.route
      /\ ~failed.loading
  <2>1. off \in BOOLEAN /\ ~off
    OBVIOUS
  <2> HIDE DEF off
  <2> QED BY <1>2, <2>1 DEF Panel
<1> HIDE DEF after, ok, failed, off
<1>6. ReloadsKnown'
  <2>1. \A d \in reloads : d # c /\ d.by = "operation" => c.by # "operation"
    BY DEF WorkspaceInv, ReloadsKnown
  <2> QED BY <1>1, <2>1 DEF WorkspaceInv, ReloadsKnown
<1>7. ASSUME NEW p \in Panel, NEW again \in BOOLEAN, Workspace!Chosen(Workspace!Routed(p), again)
      PROVE  PanelKnown' /\ Workspace!InStep(panel')
  BY <1>7, RoutedPanel, ChosenPanel DEF WorkspaceInv
<1>8. CASE Workspace!Chosen(Workspace!Routed(after(ok)), TRUE)
  BY <1>1, <1>3, <1>4, <1>6, <1>7, <1>8 DEF Workspace!RouteStep
<1>9. CASE panel.loading /\ Workspace!Chosen(Workspace!Routed(after(failed)), FALSE)
  BY <1>1, <1>3, <1>5, <1>6, <1>7, <1>9 DEF Workspace!RouteStep
<1>10. CASE ~panel.loading /\ Workspace!Chosen(after(failed), FALSE)
  <2>1. after(failed) \in Panel
    BY <1>3, <1>5
  <2>2. PanelKnown' /\ (Workspace!InStep(after(failed)) => Workspace!InStep(panel'))
    BY <1>10, <2>1, ChosenPanel DEF WorkspaceInv
  <2>3. CASE synced
    BY <1>1, <1>2, <1>6, <1>10, <2>2, <2>3 DEF Workspace!RouteStep
  <2>4. CASE ~synced
    <3>1. after(failed) = failed
      BY <1>3, <1>5, <2>4
    <3>2. Workspace!InStep(panel) => Workspace!InStep(failed)
      BY <1>5, <1>10 DEF Workspace!InStep
    <3> QED BY <1>1, <1>6, <2>2, <3>1, <3>2 DEF Workspace!RouteStep
  <2> QED BY <2>3, <2>4
<1> QED BY <1>1, <1>8, <1>9, <1>10

\* The address is looked at: the panel shows its repository, another one or none.
LEMMA RoutedStep ==
    ASSUME WorkspaceInv, NEW p \in Panel, Workspace!Chosen(Workspace!Routed(p), FALSE)
    PROVE  PanelKnown' /\ Workspace!InStep(panel')
BY RoutedPanel, ChosenPanel DEF WorkspaceInv

\* What neither the server, the readings nor the operation sees.
LEMMA ReaderStep ==
    ASSUME WorkspaceInv, UNCHANGED <<hub, reloads, op>>,
           \/ Workspace!OpenTab \/ Workspace!EditNote \/ Workspace!ChooseCollection
           \/ \E r \in Linkable : Workspace!OpenRepository(r) \/ Workspace!GoTo(r)
    PROVE  WorkspaceInv' /\ Workspace!RouteStep
<1> USE DEF WorkspaceInv
<1>1. panel \in Panel
  BY DEF PanelKnown
<1>2. HubKnown' /\ OperationKnown' /\ ReloadsKnown'
  BY DEF HubKnown, OperationKnown, ReloadsKnown
<1>3. ASSUME PanelKnown', Workspace!InStep(panel) => Workspace!InStep(panel')
      PROVE  WorkspaceInv' /\ Workspace!RouteStep
  BY <1>2, <1>3 DEF Workspace!RouteStep
<1>4. CASE Workspace!OpenTab
  <2> DEFINE p == [panel EXCEPT !.route = panel.chosen]
  <2>1. Workspace!Chosen(Workspace!Routed(p), FALSE) /\ panel.chosen # NoOne
    BY <1>4 DEF Workspace!OpenTab
  <2>2. p \in Panel
    BY <1>1, <2>1 DEF Panel
  <2> QED BY <1>3, <2>1, <2>2, RoutedStep
<1>5. CASE Workspace!EditNote
  <2>1. panel' = [panel EXCEPT !.note = panel.chosen] /\ asked' = asked
    BY <1>5 DEF Workspace!EditNote
  <2>2. /\ panel' \in Panel /\ panel'.chosen = panel.chosen /\ panel'.route = panel.route
        /\ panel'.loading <=> panel.loading
    BY <1>1, <2>1 DEF Panel
  <2> QED BY <1>3, <2>1, <2>2 DEF PanelKnown, Workspace!InStep
<1>6. CASE Workspace!ChooseCollection
  <2>1. PICK filter \in BOOLEAN : panel' = [panel EXCEPT !.filter = filter]
    <3>1. panel' = [panel EXCEPT !.filter = ~panel.filter /\ panel.collections]
      BY <1>6 DEF Workspace!ChooseCollection
    <3> QED BY <3>1
  <2>2. /\ panel' \in Panel /\ panel'.chosen = panel.chosen /\ panel'.route = panel.route
        /\ panel'.loading <=> panel.loading
    BY <1>1, <2>1 DEF Panel
  <2>3. asked' = asked
    BY <1>6 DEF Workspace!ChooseCollection
  <2> QED BY <1>3, <2>2, <2>3 DEF PanelKnown, Workspace!InStep
<1>7. ASSUME NEW r \in Linkable, Workspace!OpenRepository(r)
      PROVE  WorkspaceInv' /\ Workspace!RouteStep
  <2> DEFINE p == [panel EXCEPT !.chosen = r, !.route = r]
  <2>1. Workspace!Chosen(Workspace!Routed(p), FALSE)
    BY <1>7 DEF Workspace!OpenRepository, Workspace!Moves
  <2>2. p \in Panel
    BY <1>1 DEF Panel
  <2> QED BY <1>3, <2>1, <2>2, RoutedStep
<1>8. ASSUME NEW r \in Linkable, Workspace!GoTo(r)
      PROVE  WorkspaceInv' /\ Workspace!RouteStep
  <2> DEFINE p == [panel EXCEPT !.route = r]
  <2>1. Workspace!Chosen(Workspace!Routed(p), FALSE)
    BY <1>8 DEF Workspace!GoTo, Workspace!Moves
  <2>2. p \in Panel
    BY <1>1 DEF Panel
  <2> QED BY <1>3, <2>1, <2>2, RoutedStep
<1> QED BY <1>4, <1>5, <1>6, <1>7, <1>8

\* Note and project links arrive, or do not.
LEMMA DetailsStep ==
    ASSUME WorkspaceInv, Workspace!PreferencesArrive \/ Workspace!LinksArrive
    PROVE  WorkspaceInv' /\ Workspace!RouteStep
<1> USE DEF WorkspaceInv
<1>1. panel \in Panel /\ HubKnown
  BY DEF PanelKnown
<1>2. UNCHANGED <<hub, reloads, op>> /\ asked' \subseteq asked
  BY DEF Workspace!PreferencesArrive, Workspace!LinksArrive
<1>3. HubKnown' /\ OperationKnown' /\ ReloadsKnown'
  BY <1>2 DEF HubKnown, OperationKnown, ReloadsKnown
<1>4. /\ panel' \in Panel /\ panel'.chosen = panel.chosen /\ panel'.route = panel.route
      /\ panel'.loading <=> panel.loading
  <2>1. CASE panel' = panel
    BY <1>1, <2>1
  <2>2. CASE "note" \in asked /\ panel' = [panel EXCEPT !.note = hub.note[panel.chosen]]
    <3> DEFINE note == hub.note[panel.chosen]
    <3>1. panel.chosen \in Linkable
      BY <2>2 DEF PanelKnown, Panel
    <3>2. note \in Linkable \cup {NoOne} /\ panel' = [panel EXCEPT !.note = note]
      BY <2>2, <3>1 DEF HubKnown
    <3> HIDE DEF note
    <3> QED BY <1>1, <3>2 DEF Panel
  <2>3. CASE panel' = [panel EXCEPT !.links = panel.chosen]
    BY <1>1, <2>3 DEF Panel
  <2> QED BY <2>1, <2>2, <2>3 DEF Workspace!PreferencesArrive, Workspace!LinksArrive
<1>5. PanelKnown'
  BY <1>2, <1>4 DEF PanelKnown
<1> QED BY <1>3, <1>4, <1>5 DEF Workspace!RouteStep, Workspace!InStep

\* The reader begins an operation.
LEMMA OperationBegins ==
    ASSUME WorkspaceInv, NEW kind \in Kinds, NEW r \in Linkable \cup {NoOne},
           kind = "add" => r # NoOne, Workspace!Performs(kind, r)
    PROVE  WorkspaceInv' /\ Workspace!RouteStep
<1> USE DEF WorkspaceInv
<1> DEFINE note == IF kind = "save" THEN panel.note ELSE NoOne
<1>1. PICK mine \in BOOLEAN : op' = [kind |-> kind, repo |-> r, note |-> note, mine |-> mine]
  BY DEF Workspace!Performs, PanelKnown, Panel
<1>2. op = NoOne /\ UNCHANGED <<hub, panel, asked, reloads>>
  BY DEF Workspace!Performs
<1>3. note \in Linkable \cup {NoOne}
  BY DEF PanelKnown, Panel
<1> HIDE DEF note
<1>4. OperationKnown'
  BY <1>1, <1>3 DEF OperationKnown, Operation
<1>5. HubKnown' /\ ReloadsKnown' /\ PanelKnown' /\ Workspace!RouteStep
  BY <1>2 DEF HubKnown, ReloadsKnown, PanelKnown, Workspace!RouteStep, Workspace!InStep
<1> QED BY <1>4, <1>5

LEMMA OperationsStep ==
    ASSUME WorkspaceInv,
           \/ Workspace!SyncMetadata \/ Workspace!SavePreferences \/ Workspace!AddToCollection
           \/ Workspace!DeleteCollection \/ Workspace!CreateCollection \/ Workspace!ProjectAction
           \/ \E r \in Linkable : \/ Workspace!ToggleRepositoryPinned(r)
                                  \/ Workspace!UnlinkRepository(r)
                                  \/ Workspace!RemoveFromCollection(r)
    PROVE  WorkspaceInv' /\ Workspace!RouteStep
<1>1. panel.chosen \in Linkable \cup {NoOne}
  BY DEF WorkspaceInv, PanelKnown, Panel
<1>2. PICK kind \in Kinds, r \in Linkable \cup {NoOne} :
         Workspace!Performs(kind, r) /\ (kind = "add" => r # NoOne)
  <2>1. CASE Workspace!SyncMetadata
    BY <1>1, <2>1 DEF Workspace!SyncMetadata, Kinds
  <2>2. CASE Workspace!SavePreferences
    BY <1>1, <2>2 DEF Workspace!SavePreferences, Kinds
  <2>3. CASE Workspace!AddToCollection
    BY <1>1, <2>3 DEF Workspace!AddToCollection, Kinds
  <2>4. CASE Workspace!DeleteCollection
    BY <2>4 DEF Workspace!DeleteCollection, Kinds
  <2>5. CASE Workspace!CreateCollection
    BY <2>5 DEF Workspace!CreateCollection, Kinds
  <2>6. CASE Workspace!ProjectAction
    BY <1>1, <2>6 DEF Workspace!ProjectAction, Kinds
  <2>7. ASSUME NEW r \in Linkable, Workspace!ToggleRepositoryPinned(r)
        PROVE  Workspace!Performs("pin", r)
    BY <2>7 DEF Workspace!ToggleRepositoryPinned
  <2>8. ASSUME NEW r \in Linkable, Workspace!UnlinkRepository(r)
        PROVE  Workspace!Performs("unlink", r)
    BY <2>8 DEF Workspace!UnlinkRepository
  <2>9. ASSUME NEW r \in Linkable, Workspace!RemoveFromCollection(r)
        PROVE  Workspace!Performs("remove", r)
    BY <2>9 DEF Workspace!RemoveFromCollection
  <2> QED BY <2>1, <2>2, <2>3, <2>4, <2>5, <2>6, <2>7, <2>8, <2>9 DEF Kinds
<1> QED BY <1>2, OperationBegins

\* An unlinked repository leaves the collections, and none joins them unlinked.
LEMMA WrittenHub ==
    ASSUME WorkspaceInv, op # NoOne, Workspace!Accepted, hub' = Workspace!Written
    PROVE  HubKnown'
<1> USE DEF WorkspaceInv
<1> DEFINE Notes == [Linkable -> Linkable \cup {NoOne}]
           Hub == [linked : SUBSET Linkable, note : Notes,
                   collection : BOOLEAN, members : SUBSET Linkable]
<1>1. /\ hub \in Hub /\ hub.members \subseteq hub.linked
      /\ op \in Operation /\ (op.kind = "add" => op.repo # NoOne)
  BY DEF HubKnown, OperationKnown
<1>2. op.repo \in hub.linked \cup {NoOne} /\ op.note \in Linkable \cup {NoOne}
  BY <1>1 DEF Workspace!Accepted, Operation
<1>3. hub' \in Hub /\ hub'.members \subseteq hub'.linked => HubKnown'
  BY DEF HubKnown
<1>4. ASSUME NEW repo, NEW value \in Linkable \cup {NoOne}
      PROVE  [hub.note EXCEPT ![repo] = value] \in Notes
  BY <1>1
<1> HIDE DEF Notes, Hub
<1>5. CASE op.kind = "save"
  <2> DEFINE note == [hub.note EXCEPT ![op.repo] = op.note]
  <2>1. note \in Notes
    BY <1>2, <1>4
  <2>2. hub' = [hub EXCEPT !.note = note]
    BY <1>5 DEF Workspace!Written
  <2> HIDE DEF note
  <2>3. hub' \in Hub /\ hub'.members = hub.members /\ hub'.linked = hub.linked
    BY <1>1, <2>1, <2>2 DEF Hub
  <2> QED BY <1>3, <1>1, <2>3
<1>6. CASE op.kind = "unlink"
  <2> DEFINE note == [hub.note EXCEPT ![op.repo] = NoOne]
             linked == hub.linked \ {op.repo}
             members == hub.members \ {op.repo}
  <2>1. note \in Notes
    BY <1>4
  <2>2. hub' = [hub EXCEPT !.linked = linked, !.members = members, !.note = note]
    BY <1>6 DEF Workspace!Written
  <2>3. linked \in SUBSET Linkable /\ members \in SUBSET linked
    BY <1>1 DEF Hub
  <2> HIDE DEF note, linked, members
  <2>4. hub' \in Hub /\ hub'.members = members /\ hub'.linked = linked
    BY <1>1, <2>1, <2>2, <2>3 DEF Hub
  <2> QED BY <1>3, <2>3, <2>4
<1>7. CASE op.kind \in {"add", "remove", "delete"}
  <2>1. PICK members \in SUBSET hub.linked, collection \in BOOLEAN :
           /\ hub' = [hub EXCEPT !.collection = collection, !.members = members]
           /\ members \subseteq hub.linked
    <3>1. CASE op.kind = "add"
      <4> DEFINE members == hub.members \cup IF hub.collection THEN {op.repo} ELSE {}
      <4>1. hub' = [hub EXCEPT !.members = members]
        BY <3>1 DEF Workspace!Written
      <4>2. members \in SUBSET hub.linked
        BY <1>1, <1>2, <3>1
      <4> HIDE DEF members
      <4>3. hub' = [hub EXCEPT !.collection = hub.collection, !.members = members]
        BY <1>1, <4>1 DEF Hub
      <4>4. hub.collection \in BOOLEAN
        BY <1>1 DEF Hub
      <4> QED BY <4>2, <4>3, <4>4
    <3>2. CASE op.kind = "remove"
      <4> DEFINE members == hub.members \ {op.repo}
      <4>1. hub' = [hub EXCEPT !.members = members]
        BY <3>2 DEF Workspace!Written
      <4>2. members \in SUBSET hub.linked
        BY <1>1
      <4> HIDE DEF members
      <4>3. hub' = [hub EXCEPT !.collection = hub.collection, !.members = members]
        BY <1>1, <4>1 DEF Hub
      <4>4. hub.collection \in BOOLEAN
        BY <1>1 DEF Hub
      <4> QED BY <4>2, <4>3, <4>4
    <3>3. CASE op.kind = "delete"
      <4>1. hub' = [hub EXCEPT !.collection = FALSE, !.members = {}]
        BY <3>3 DEF Workspace!Written
      <4> QED BY <4>1
    <3> QED BY <1>7, <3>1, <3>2, <3>3
  <2>2. /\ hub' \in Hub /\ hub'.members = members /\ hub'.linked = hub.linked
        /\ members \subseteq hub.linked
    BY <1>1, <2>1 DEF Hub
  <2>3. hub' \in Hub /\ hub'.members \subseteq hub'.linked
    BY <2>2
  <2> QED BY <1>3, <2>3
<1>8. CASE op.kind = "create"
  <2>1. PICK collection \in BOOLEAN : hub' = [hub EXCEPT !.collection = collection]
    BY <1>8 DEF Workspace!Written
  <2>2. hub' \in Hub /\ hub'.members = hub.members /\ hub'.linked = hub.linked
    BY <1>1, <2>1 DEF Hub
  <2> QED BY <1>3, <1>1, <2>2
<1>9. CASE op.kind \notin {"save", "unlink", "add", "remove", "delete", "create"}
  BY <1>9 DEF Workspace!Written, HubKnown
<1> QED BY <1>5, <1>6, <1>7, <1>8, <1>9

LEMMA AnswerStep ==
    ASSUME WorkspaceInv,
           \/ Workspace!OperationAnswers \/ Workspace!ProjectAnswers \/ Workspace!OperationFails
    PROVE  WorkspaceInv' /\ Workspace!RouteStep
<1> USE DEF WorkspaceInv
<1>1. panel \in Panel /\ op # NoOne /\ (\A c \in reloads : c.by # "operation") /\ op \in Operation
  BY DEF PanelKnown, OperationKnown, Workspace!OperationAnswers, Workspace!ProjectAnswers,
         Workspace!OperationFails, Workspace!Waits
<1>2. CASE Workspace!OperationAnswers
  <2> DEFINE p == Workspace!Answered(panel)
  <2>1. /\ hub' = Workspace!Written /\ Workspace!Accepted /\ op' = op
        /\ Workspace!StartReload(p, "operation")
    BY <1>2 DEF Workspace!OperationAnswers
  <2>2. p \in Panel
    <3>1. CASE op.kind = "save"
      <4> DEFINE note == op.note
      <4>1. p = [panel EXCEPT !.note = note] /\ note \in Linkable \cup {NoOne}
        BY <1>1, <3>1 DEF Workspace!Answered, Operation
      <4> HIDE DEF p, note
      <4> QED BY <1>1, <4>1 DEF Panel
    <3>2. CASE op.kind = "unlink"
      <4>1. p = [panel EXCEPT !.chosen = NoOne] \/ p = panel
        BY <3>2 DEF Workspace!Answered
      <4> HIDE DEF p
      <4> QED BY <1>1, <4>1 DEF Panel
    <3>3. CASE op.kind = "delete"
      <4>1. PICK filter \in BOOLEAN : p = [panel EXCEPT !.filter = filter] \/ p = panel
        BY <3>3 DEF Workspace!Answered
      <4> HIDE DEF p
      <4> QED BY <1>1, <4>1 DEF Panel
    <3>4. CASE op.kind \notin {"save", "unlink", "delete"}
      BY <1>1, <3>4 DEF Workspace!Answered
    <3> QED BY <3>1, <3>2, <3>3, <3>4
  <2> HIDE DEF p
  <2>3. PanelKnown' /\ ReloadsKnown' /\ Workspace!InStep(panel')
    BY <1>1, <2>1, <2>2, ReloadStarts
  <2>4. HubKnown' /\ OperationKnown'
    BY <1>1, <2>1, WrittenHub DEF OperationKnown
  <2> QED BY <2>3, <2>4 DEF Workspace!RouteStep
<1>3. CASE Workspace!ProjectAnswers \/ Workspace!OperationFails
  <2>1. /\ op' = NoOne /\ UNCHANGED <<hub, asked, reloads>>
        /\ panel' = panel \/ panel' = [panel EXCEPT !.links = op.repo]
    BY <1>3 DEF Workspace!ProjectAnswers, Workspace!OperationFails
  <2>2. /\ panel' \in Panel /\ panel'.chosen = panel.chosen /\ panel'.route = panel.route
        /\ panel'.loading <=> panel.loading
    <3> DEFINE target == op.repo
    <3>1. target \in Linkable \cup {NoOne}
      BY <1>1 DEF Operation
    <3>2. panel' = panel \/ panel' = [panel EXCEPT !.links = target]
      BY <2>1
    <3> HIDE DEF target
    <3> QED BY <1>1, <3>1, <3>2 DEF Panel
  <2>3. HubKnown' /\ OperationKnown' /\ ReloadsKnown'
    BY <1>1, <2>1 DEF HubKnown, OperationKnown, ReloadsKnown
  <2> QED BY <2>1, <2>2, <2>3 DEF PanelKnown, Workspace!RouteStep, Workspace!InStep
<1> QED BY <1>2, <1>3

LEMMA ReadingStep ==
    ASSUME WorkspaceInv,
           \/ Workspace!Refresh
           \/ \E c \in reloads : Workspace!ServerReads(c) \/ Workspace!ReloadArrives(c)
    PROVE  WorkspaceInv' /\ Workspace!RouteStep
<1> USE DEF WorkspaceInv
<1>1. CASE Workspace!Refresh
  <2>1. /\ Workspace!StartReload(panel, "reader") /\ UNCHANGED <<hub, op>>
        /\ \A c \in reloads : c.by # "reader"
    BY <1>1 DEF Workspace!Refresh
  <2>2. panel \in Panel
    BY DEF PanelKnown
  <2>3. PanelKnown' /\ ReloadsKnown' /\ Workspace!InStep(panel')
    BY <2>1, <2>2, ReloadStarts
  <2>4. HubKnown' /\ OperationKnown'
    BY <2>1 DEF HubKnown, OperationKnown
  <2> QED BY <2>3, <2>4 DEF Workspace!RouteStep
<1>2. ASSUME NEW c \in reloads, Workspace!ServerReads(c)
      PROVE  WorkspaceInv' /\ Workspace!RouteStep
  <2> DEFINE answer == [linked |-> hub.linked, collection |-> hub.collection]
             d == [c EXCEPT !.read = answer]
  <2>1. reloads' = (reloads \ {c}) \cup {d} /\ UNCHANGED <<hub, panel, asked, op>>
    BY <1>2 DEF Workspace!ServerReads
  <2>2. answer \in [linked : SUBSET Linkable, collection : BOOLEAN]
    BY DEF HubKnown
  <2> HIDE DEF answer
  <2>3. d \in Reload /\ d.by = c.by
    BY <2>2 DEF ReloadsKnown, Reload
  <2> HIDE DEF d
  <2>4. ReloadsKnown'
    BY <2>1, <2>3 DEF ReloadsKnown
  <2> QED BY <2>1, <2>4 DEF HubKnown, OperationKnown, PanelKnown, Workspace!RouteStep, Workspace!InStep
<1>3. ASSUME NEW c \in reloads, Workspace!ReloadArrives(c)
      PROVE  WorkspaceInv' /\ Workspace!RouteStep
  <2>1. UNCHANGED hub
    BY <1>3 DEF Workspace!ReloadArrives
  <2> QED BY <1>3, <2>1, ReloadArrivesStep DEF HubKnown, OperationKnown
<1> QED BY <1>1, <1>2, <1>3

LEMMA WorkspaceStep ==
    ASSUME WorkspaceInv, [Workspace!WorkspaceNext]_(Workspace!workspaceVars)
    PROVE  WorkspaceInv' /\ [Workspace!RouteStep]_(Workspace!workspaceVars)
<1>1. CASE UNCHANGED Workspace!workspaceVars
  <2>1. UNCHANGED <<hub, panel, asked, reloads, op, moves>>
    BY <1>1 DEF Workspace!workspaceVars
  <2> QED BY <1>1, <2>1 DEF WorkspaceInv, HubKnown, OperationKnown, ReloadsKnown, PanelKnown
<1>2. CASE \/ Workspace!Refresh
           \/ \E c \in reloads : Workspace!ServerReads(c) \/ Workspace!ReloadArrives(c)
  BY <1>2, ReadingStep
<1>3. CASE Workspace!PreferencesArrive \/ Workspace!LinksArrive
  BY <1>3, DetailsStep
<1>4. CASE \/ Workspace!OpenTab \/ Workspace!EditNote \/ Workspace!ChooseCollection
           \/ \E r \in Linkable : Workspace!OpenRepository(r) \/ Workspace!GoTo(r)
  <2>1. UNCHANGED <<hub, reloads, op>>
    BY <1>4 DEF Workspace!OpenTab, Workspace!EditNote, Workspace!ChooseCollection,
                Workspace!OpenRepository, Workspace!GoTo, Workspace!Moves
  <2> QED BY <1>4, <2>1, ReaderStep
<1>5. CASE \/ Workspace!SyncMetadata \/ Workspace!SavePreferences \/ Workspace!AddToCollection
           \/ Workspace!DeleteCollection \/ Workspace!CreateCollection \/ Workspace!ProjectAction
           \/ \E r \in Linkable : \/ Workspace!ToggleRepositoryPinned(r)
                                  \/ Workspace!UnlinkRepository(r)
                                  \/ Workspace!RemoveFromCollection(r)
  BY <1>5, OperationsStep
<1>6. CASE Workspace!OperationAnswers \/ Workspace!ProjectAnswers \/ Workspace!OperationFails
  BY <1>6, AnswerStep
<1> QED BY Zenon, <1>1, <1>2, <1>3, <1>4, <1>5, <1>6 DEF Workspace!WorkspaceNext

LEMMA WorkspaceBegins == Workspace!WorkspaceInit => WorkspaceInv
<1> SUFFICES ASSUME Workspace!WorkspaceInit PROVE WorkspaceInv
  OBVIOUS
<1> USE DEF Workspace!WorkspaceInit
<1>1. HubKnown
  BY DEF HubKnown
<1>2. OperationKnown /\ ReloadsKnown
  BY DEF OperationKnown, ReloadsKnown, Reload
<1>3. PanelKnown
  BY DEF PanelKnown, Panel
<1> QED BY <1>1, <1>2, <1>3 DEF WorkspaceInv

\* At most two readings: one for the reader and one for the operation.
LEMMA FewReloads == ASSUME ReloadsKnown PROVE Workspace!Cardinality(reloads) <= 2
<1> DEFINE mine == CHOOSE c \in reloads : c.by = "reader"
           its == CHOOSE c \in reloads : c.by = "operation"
           both == {mine} \cup {its}
<1>1. reloads \subseteq both
  <2> SUFFICES ASSUME NEW c \in reloads PROVE c \in both
    OBVIOUS
  <2>1. c.by = "reader" => c = mine
    BY DEF ReloadsKnown
  <2>2. c.by = "operation" => c = its
    BY DEF ReloadsKnown
  <2> QED BY <2>1, <2>2 DEF ReloadsKnown, Reload
<1> HIDE DEF mine, its
<1>2. IsFiniteSet({mine}) /\ Cardinality({mine}) = 1
  BY FS_Singleton
<1>3. IsFiniteSet(both) /\ Cardinality(both) <= 2
  BY <1>2, FS_AddElement
<1>4. IsFiniteSet(reloads) /\ Cardinality(reloads) <= Cardinality(both)
  BY <1>1, <1>3, FS_Subset
<1>5. Workspace!Cardinality(reloads) = Cardinality(reloads)
  BY Zenon DEF Cardinality, Workspace!Cardinality
<1>6. Cardinality(reloads) \in Nat /\ Cardinality(both) \in Nat
  BY <1>3, <1>4, FS_CardinalityType
<1> HIDE DEF both
<1> QED BY <1>3, <1>4, <1>5, <1>6

(* Once the list is read, the page of a linked repository shows the         *)
(* repository of its address or none, whatever is opened, unlinked or gone  *)
(* back to while readings and operations are under way; the exception is a  *)
(* synchronisation whose reading fails after another one has ended          *)
(* (applyRoute in RepositoryHubPanel.tsx).  For any linked repositories.    *)
THEOREM PageFollowsAddress ==
    Workspace!WorkspaceSpec => []Workspace!WorkspaceTypeOK /\ Workspace!RouteIsKept
<1>1. WorkspaceInv => Workspace!WorkspaceTypeOK
  <2> SUFFICES ASSUME WorkspaceInv PROVE Workspace!WorkspaceTypeOK
    OBVIOUS
  <2> USE DEF WorkspaceInv
  <2>1. hub.linked \subseteq Linkable /\ hub.members \subseteq hub.linked
    BY DEF HubKnown
  <2>2. /\ panel.list \subseteq Linkable /\ panel.route \in Linkable
        /\ {panel.chosen, panel.note, panel.links} \subseteq Linkable \cup {NoOne}
    BY DEF PanelKnown, Panel
  <2>3. asked \subseteq {"note", "links"} /\ (asked # {} => panel.chosen # NoOne)
    BY DEF PanelKnown
  <2> QED BY <2>1, <2>2, <2>3, FewReloads DEF Workspace!WorkspaceTypeOK
<1>2. Workspace!WorkspaceSpec => []WorkspaceInv
  BY WorkspaceBegins, WorkspaceStep, PTL DEF Workspace!WorkspaceSpec
<1> QED BY <1>1, <1>2, WorkspaceStep, PTL DEF Workspace!WorkspaceSpec, Workspace!RouteIsKept

-----------------------------------------------------------------------------
(* The lists of a linked repository                                        *)

Items == Linkable \X (1 .. Pages)

Shown == [repo : Linkable, tab : Lists!Tabs]
List == [items : Seq(Items), page : 1 .. Pages, more : BOOLEAN, loading : BOOLEAN]
Call == [of : Paged \cup {"details", "comparison"}, repo : Linkable, page : 0 .. Pages]
Commits == [expanded : Watched \cup {NoOne}, loading : Watched \cup {NoOne},
            known : SUBSET Watched, failed : SUBSET Watched]
Comparison == [chosen : BOOLEAN, result : Linkable \cup {NoOne}, loading : BOOLEAN]
Change == [step : {"create", "edit", "close", "comment", "list"}, form : BOOLEAN,
           tab : Lists!Edited, repo : Linkable]
Writing == [op : Change \cup {NoOne}, forms : SUBSET Lists!Edited, comment : Linkable \cup {NoOne}]

ListKnown ==
    /\ shown \in Shown
    /\ list \in List
    /\ list.more => list.page < Pages
    /\ first \in BOOLEAN

\* What is asked for later pages is a page of the list, and a watched commit.
CallsKnown ==
    /\ later \subseteq Call
    /\ \A c \in later : /\ c.of \in Paged => c.page \in 1 .. Pages
                        /\ c.of = "details" => <<c.repo, c.page>> \in Watched

Changing(w) == IF w.op = NoOne THEN 0 ELSE 1

CallsCounted ==
    IsFiniteSet(later) /\ Cardinality(later) + Changing(writing) <= MaxCalls

DetailsKnown == commits \in Commits /\ tags \in Comparison /\ writing \in Writing

ListsInv == Lists!ListsAssumption /\ ListKnown /\ CallsKnown /\ CallsCounted /\ DetailsKnown

ListsOwn == Lists!ReleasesAreOwn /\ Lists!ComparisonIsOwn /\ Lists!ListSpinnerIsWork

LEMMA ListsBounds ==
    ASSUME ListsInv
    PROVE  /\ Pages \in Nat \ {0} /\ MaxCalls \in Nat \ {0}
           /\ Paged \subseteq {"Commits", "Releases", "Tags"} /\ Watched \subseteq Items
BY DEF ListsInv, Lists!ListsAssumption, Items

\* Of what a list shows nothing but the appended page is new.
LEMMA AppendedItems ==
    ASSUME NEW S, NEW s \in Seq(S), NEW x \in S
    PROVE  /\ s \o <<x>> \in Seq(S)
           /\ \A i \in DOMAIN (s \o <<x>>) :
                 (s \o <<x>>)[i] = x \/ (i \in DOMAIN s /\ (s \o <<x>>)[i] = s[i])
<1> DEFINE t == <<x>>
<1>1. t \in Seq(S) /\ Len(t) = 1 /\ t[1] = x
  OBVIOUS
<1> HIDE DEF t
<1>2. Len(s) \in Nat /\ DOMAIN s = 1 .. Len(s)
  BY LenProperties
<1> DEFINE both == s \o t
<1>3. /\ both \in Seq(S) /\ Len(both) = Len(s) + 1
      /\ \A i \in 1 .. Len(s) + 1 : both[i] = IF i <= Len(s) THEN s[i] ELSE t[i - Len(s)]
  <2>1. /\ both \in Seq(S) /\ Len(both) = Len(s) + Len(t)
        /\ \A i \in 1 .. Len(s) + Len(t) : both[i] = IF i <= Len(s) THEN s[i] ELSE t[i - Len(s)]
    BY <1>1, ConcatProperties, Zenon
  <2> HIDE DEF both
  <2> QED BY <1>1, <2>1
<1> HIDE DEF both
<1>4. DOMAIN both = 1 .. Len(s) + 1
  BY <1>3, LenProperties
<1>5. ASSUME NEW i \in 1 .. Len(s) + 1
      PROVE  both[i] = x \/ (i \in DOMAIN s /\ both[i] = s[i])
  <2>1. CASE i <= Len(s)
    BY <1>2, <1>3, <2>1
  <2>2. CASE ~(i <= Len(s))
    <3>1. i - Len(s) = 1
      BY <1>2, <2>2
    <3> QED BY <1>1, <1>3, <2>2, <3>1
  <2> QED BY <2>1, <2>2
<1> QED BY <1>3, <1>4, <1>5 DEF both, t

\* A call is made, or answered, while room for it is counted.
LEMMA CallAsked ==
    ASSUME ListsInv, NEW call \in Call, Lists!Asks(call), writing' = writing
    PROVE  /\ later' = later \cup {call}
           /\ CallsCounted'
<1>1. /\ Lists!CallsUnderWay < MaxCalls /\ call \notin later /\ later' = later \cup {call}
  BY DEF Lists!Asks
<1>2. Lists!CallsUnderWay = Lists!Cardinality(later) + IF writing.op = NoOne THEN 0 ELSE 1
  BY Zenon DEF Lists!CallsUnderWay
<1>3. Lists!Cardinality(later) = Cardinality(later)
  BY Zenon DEF Cardinality, Lists!Cardinality
<1>4. IsFiniteSet(later) /\ Cardinality(later) \in Nat
  BY FS_CardinalityType DEF ListsInv, CallsCounted
<1>5. IsFiniteSet(later') /\ Cardinality(later') = Cardinality(later) + 1
  BY <1>1, <1>4, FS_AddElement
<1> DEFINE n == Changing(writing)
<1>6. n \in Nat /\ Cardinality(later) + n < MaxCalls
  BY <1>1, <1>2, <1>3 DEF Changing
<1>7. Changing(writing)' = n
  BY DEF Changing
<1> HIDE DEF n
<1>8. Cardinality(later)' + n <= MaxCalls
  BY <1>4, <1>5, <1>6, ListsBounds
<1> QED BY <1>1, <1>5, <1>7, <1>8 DEF CallsCounted

LEMMA CallAnswered ==
    ASSUME ListsInv, NEW c \in later, later' = later \ {c}, writing' = writing
    PROVE  CallsKnown' /\ CallsCounted'
<1>1. CallsKnown'
  BY DEF ListsInv, CallsKnown
<1>2. IsFiniteSet(later) /\ Cardinality(later) \in Nat
  BY FS_CardinalityType DEF ListsInv, CallsCounted
<1>3. IsFiniteSet(later') /\ Cardinality(later') = Cardinality(later) - 1
  BY <1>2, FS_RemoveElement
<1> DEFINE n == Changing(writing)
<1>4. n \in Nat /\ Cardinality(later) + n <= MaxCalls
  BY DEF ListsInv, CallsCounted, Changing
<1>5. Changing(writing)' = n
  BY DEF Changing
<1> HIDE DEF n
<1>6. Cardinality(later)' + n <= MaxCalls
  BY <1>2, <1>3, <1>4, ListsBounds
<1> QED BY <1>1, <1>3, <1>5, <1>6 DEF CallsCounted

\* Another repository or another tab: its list begins empty.
LEMMA ShowStep ==
    ASSUME ListsInv, NEW r \in Linkable, NEW t \in Lists!Tabs, Lists!Show(r, t)
    PROVE  ListsInv' /\ ListsOwn'
<1> DEFINE loads == Lists!Loads(r, t)
           loading == loads /\ t \in Paged
<1>1. /\ shown' = [repo |-> r, tab |-> t]
      /\ first' = loads
      /\ list' = [items |-> <<>>, page |-> 1, more |-> FALSE, loading |-> loading]
      /\ commits' = IF t = "Commits" THEN [commits EXCEPT !.expanded = NoOne] ELSE commits
      /\ tags' = IF t = "Tags" THEN [tags EXCEPT !.chosen = FALSE, !.result = NoOne] ELSE tags
      /\ UNCHANGED <<later, writing>>
  BY DEF Lists!Show, Lists!EmptyList
<1>2. loads \in BOOLEAN /\ loading \in BOOLEAN /\ (loading => loads)
  BY DEF Lists!Loads
<1> HIDE DEF loads, loading
<1>3. ListKnown'
  <2>1. shown' \in Shown
    BY <1>1 DEF Shown
  <2>2. list' \in List /\ ~list'.more
    <3>1. 1 \in 1 .. Pages /\ <<>> \in Seq(Items)
      BY ListsBounds
    <3> QED BY <1>1, <1>2, <3>1 DEF List
  <2> QED BY <1>1, <1>2, <2>1, <2>2 DEF ListKnown
<1>4. CallsKnown' /\ CallsCounted'
  BY <1>1 DEF ListsInv, CallsKnown, CallsCounted, Changing
<1>5. DetailsKnown'
  <2>1. commits' \in Commits
    BY <1>1 DEF ListsInv, DetailsKnown, Commits
  <2>2. tags' \in Comparison
    <3> DEFINE off == FALSE
    <3>1. off \in BOOLEAN /\ tags' = IF t = "Tags" THEN [tags EXCEPT !.chosen = off, !.result = NoOne] ELSE tags
      BY <1>1
    <3> HIDE DEF off
    <3> QED BY <3>1 DEF ListsInv, DetailsKnown, Comparison
  <2> QED BY <1>1, <2>1, <2>2 DEF ListsInv, DetailsKnown
<1>6. Lists!ReleasesAreOwn'
  BY <1>1 DEF Lists!ReleasesAreOwn
<1>7. Lists!ComparisonIsOwn'
  <2>1. t = "Tags" => tags'.result = NoOne
    BY <1>1 DEF ListsInv, DetailsKnown, Comparison
  <2> QED BY <1>1, <2>1 DEF Lists!ComparisonIsOwn
<1>8. Lists!ListSpinnerIsWork'
  BY <1>1, <1>2 DEF Lists!ListSpinnerIsWork
<1> QED BY <1>3, <1>4, <1>5, <1>6, <1>7, <1>8 DEF ListsInv, ListsOwn

\* A page of the list arrives, the first or a later one, or does not.
LEMMA FirstStep ==
    ASSUME ListsInv, ListsOwn, Lists!FirstArrives
    PROVE  ListsInv' /\ ListsOwn'
<1>1. /\ first' = FALSE /\ UNCHANGED <<shown, later, commits, tags, writing>>
      /\ list' \in {Lists!Page(shown.repo, 1), [list EXCEPT !.loading = FALSE]}
  BY DEF Lists!FirstArrives
<1>2. /\ list' \in List /\ ~list'.loading /\ (list'.more => list'.page < Pages)
      /\ \A i \in DOMAIN list'.items : list'.items[i][1] = shown.repo \/ list'.items = list.items
  <2>1. CASE list' = Lists!Page(shown.repo, 1)
    <3> DEFINE item == <<shown.repo, 1>>
               items == <<item>>
               more == 1 < Pages
               off == FALSE
    <3>1. list' = [items |-> items, page |-> 1, more |-> more, loading |-> off]
      BY <2>1 DEF Lists!Page
    <3>2. item \in Items /\ item[1] = shown.repo /\ 1 \in 1 .. Pages /\ more \in BOOLEAN /\ off \in BOOLEAN
      BY ListsBounds DEF ListsInv, ListKnown, Shown, Items
    <3>3. ~off /\ (more => 1 < Pages)
      OBVIOUS
    <3> HIDE DEF item, more, off
    <3>4. items \in Seq(Items) /\ \A i \in DOMAIN items : items[i][1] = shown.repo
      BY <3>2
    <3> HIDE DEF items
    <3> QED BY <3>1, <3>2, <3>3, <3>4 DEF List
  <2>2. CASE list' = [list EXCEPT !.loading = FALSE]
    <3>1. list \in List /\ (list.more => list.page < Pages)
      BY DEF ListsInv, ListKnown
    <3> DEFINE off == FALSE
    <3>2. list' = [list EXCEPT !.loading = off] /\ off \in BOOLEAN /\ ~off
      BY <2>2
    <3> HIDE DEF off
    <3> QED BY <3>1, <3>2 DEF List
  <2> QED BY <1>1, <2>1, <2>2
<1>3. ListKnown'
  BY <1>1, <1>2 DEF ListsInv, ListKnown
<1>4. CallsKnown' /\ CallsCounted' /\ DetailsKnown'
  BY <1>1 DEF ListsInv, CallsKnown, CallsCounted, Changing, DetailsKnown
<1>5. Lists!ReleasesAreOwn'
  BY <1>1, <1>2 DEF ListsOwn, Lists!ReleasesAreOwn
<1>6. Lists!ComparisonIsOwn' /\ Lists!ListSpinnerIsWork'
  BY <1>1, <1>2 DEF ListsOwn, Lists!ComparisonIsOwn, Lists!ListSpinnerIsWork
<1> QED BY <1>3, <1>4, <1>5, <1>6 DEF ListsInv, ListsOwn

LEMMA LoadMoreStep ==
    ASSUME ListsInv, ListsOwn, Lists!LoadMore
    PROVE  ListsInv' /\ ListsOwn'
<1> DEFINE page == list.page + 1
           call == [of |-> shown.tab, repo |-> shown.repo, page |-> page]
           on == TRUE
<1>1. /\ shown.tab \in Paged /\ list.more /\ Lists!Asks(call)
      /\ list' = [list EXCEPT !.loading = on]
      /\ UNCHANGED <<shown, first, commits, tags, writing>>
  BY DEF Lists!LoadMore
<1>2. page \in 1 .. Pages /\ on \in BOOLEAN
  BY <1>1, ListsBounds DEF ListsInv, ListKnown, List
<1>3. shown \in Shown /\ list \in List
  BY DEF ListsInv, ListKnown
<1> HIDE DEF page, on
<1>4. call \in Call /\ call.of = shown.tab /\ call.page = page
  BY <1>1, <1>2, <1>3 DEF Call, Shown
<1> HIDE DEF call
<1>5. later' = later \cup {call} /\ CallsCounted'
  BY <1>1, <1>4, CallAsked
<1>6. CallsKnown'
  BY <1>1, <1>2, <1>4, <1>5, ListsBounds DEF ListsInv, CallsKnown
<1>7. list' \in List /\ list'.items = list.items /\ list'.more = list.more /\ list'.page = list.page
  BY <1>1, <1>2, <1>3 DEF List
<1>8. ListKnown' /\ DetailsKnown'
  BY <1>1, <1>7 DEF ListsInv, ListKnown, DetailsKnown
<1>9. ListsOwn'
  BY <1>1, <1>4, <1>5, <1>7
     DEF ListsOwn, Lists!ReleasesAreOwn, Lists!ComparisonIsOwn, Lists!ListSpinnerIsWork
<1> QED BY <1>5, <1>6, <1>8, <1>9 DEF ListsInv

\* A later page is appended where it is still wanted.
LEMMA MoreStep ==
    ASSUME ListsInv, ListsOwn, NEW c \in later, Lists!MoreArrives(c)
    PROVE  ListsInv' /\ ListsOwn'
<1>1. /\ c.of \in Paged /\ later' = later \ {c}
      /\ UNCHANGED <<shown, first, commits, tags, writing>>
      /\ \/ /\ c.of = shown.tab
            /\ \/ /\ Lists!IsCurrent(c)
                  /\ list' = [Lists!Page(c.repo, c.page) EXCEPT !.items = list.items \o Lists!Page(c.repo, c.page).items]
               \/ list' = [list EXCEPT !.loading = FALSE]
         \/ c.of # shown.tab /\ UNCHANGED list
  BY DEF Lists!MoreArrives
<1>2. CallsKnown' /\ CallsCounted' /\ DetailsKnown'
  BY <1>1, CallAnswered DEF ListsInv, DetailsKnown
<1>3. /\ shown \in Shown /\ list \in List /\ (list.more => list.page < Pages) /\ first \in BOOLEAN
      /\ c \in Call /\ c.page \in 1 .. Pages
  BY <1>1 DEF ListsInv, ListKnown, CallsKnown
<1>4. /\ list' \in List /\ (list'.more => list'.page < Pages)
      /\ c.of = shown.tab => ~list'.loading
      /\ shown.tab \in {"Releases", "Tags"} /\ c.of = shown.tab =>
           \A i \in DOMAIN list'.items :
              list'.items[i][1] = shown.repo
              \/ (i \in DOMAIN list.items /\ list'.items[i] = list.items[i])
      /\ c.of # shown.tab => list' = list
  <2>1. CASE /\ c.of = shown.tab /\ Lists!IsCurrent(c)
             /\ list' = [Lists!Page(c.repo, c.page) EXCEPT !.items = list.items \o Lists!Page(c.repo, c.page).items]
    <3> DEFINE item == <<c.repo, c.page>>
               items == list.items \o <<item>>
               more == c.page < Pages
               off == FALSE
    <3>1. list' = [items |-> items, page |-> c.page, more |-> more, loading |-> off]
      BY <2>1 DEF Lists!Page
    <3>2. item \in Items /\ item[1] = c.repo
      BY <1>3 DEF Call, Items
    <3>3. list.items \in Seq(Items)
      BY <1>3 DEF List
    <3>4. more \in BOOLEAN /\ off \in BOOLEAN /\ ~off /\ (more => c.page < Pages)
      OBVIOUS
    <3> HIDE DEF item, more, off
    <3>5. /\ items \in Seq(Items)
          /\ \A i \in DOMAIN items : items[i] = item \/ (i \in DOMAIN list.items /\ items[i] = list.items[i])
      BY <3>2, <3>3, AppendedItems
    <3> HIDE DEF items
    <3>6. list' \in List /\ list'.items = items /\ ~list'.loading /\ (list'.more => list'.page < Pages)
      BY <1>3, <3>1, <3>4, <3>5 DEF List
    <3>7. shown.tab \in {"Releases", "Tags"} => c.repo = shown.repo
      BY <2>1 DEF Lists!IsCurrent
    <3> QED BY <2>1, <3>2, <3>5, <3>6, <3>7
  <2>2. CASE c.of = shown.tab /\ list' = [list EXCEPT !.loading = FALSE]
    <3> DEFINE off == FALSE
    <3>1. list' = [list EXCEPT !.loading = off] /\ off \in BOOLEAN /\ ~off
      BY <2>2
    <3> HIDE DEF off
    <3> QED BY <1>3, <2>2, <3>1 DEF List
  <2>3. CASE c.of # shown.tab /\ UNCHANGED list
    BY <1>3, <2>3
  <2> QED BY <1>1, <2>1, <2>2, <2>3
<1>5. ListKnown'
  BY <1>1, <1>3, <1>4 DEF ListKnown
<1>6. Lists!ReleasesAreOwn'
  BY <1>1, <1>4 DEF ListsOwn, Lists!ReleasesAreOwn
<1>7. Lists!ComparisonIsOwn' /\ Lists!ListSpinnerIsWork'
  BY <1>1, <1>4 DEF ListsOwn, Lists!ComparisonIsOwn, Lists!ListSpinnerIsWork
<1> QED BY <1>2, <1>5, <1>6, <1>7 DEF ListsInv, ListsOwn

\* What no list and no call knows of.
LEMMA DetailsOnly ==
    ASSUME ListsInv, ListsOwn, UNCHANGED <<shown, list, first>>,
           CallsKnown' /\ CallsCounted' /\ DetailsKnown',
           \A c \in later : c.of \in Paged => c \in later',
           tags'.result \in {tags.result, NoOne}
             \/ tags'.result = shown.repo
    PROVE  ListsInv' /\ ListsOwn'
<1>1. ListsInv'
  <2>1. Lists!ListsAssumption' /\ ListKnown'
    BY DEF ListsInv, ListKnown, Lists!ListsAssumption
  <2> QED BY <2>1 DEF ListsInv
<1>2. Lists!ReleasesAreOwn'
  BY DEF ListsOwn, Lists!ReleasesAreOwn
<1>3. Lists!ComparisonIsOwn'
  BY DEF ListsOwn, Lists!ComparisonIsOwn
<1>4. Lists!ListSpinnerIsWork'
  BY DEF ListsOwn, Lists!ListSpinnerIsWork
<1> QED BY <1>1, <1>2, <1>3, <1>4 DEF ListsOwn

\* The details of a commit.
LEMMA CommitAsked ==
    ASSUME ListsInv, NEW c \in Watched, Lists!LoadDetails(c), writing' = writing
    PROVE  CallsKnown' /\ CallsCounted' /\ (\A d \in later : d \in later')
<1> DEFINE call == [of |-> "details", repo |-> c[1], page |-> c[2]]
<1>1. Lists!Asks(call)
  BY DEF Lists!LoadDetails
<1>2. c \in Items /\ Pages \in Nat
  BY ListsBounds
<1>3. call \in Call /\ call.of = "details" /\ <<call.repo, call.page>> = c
  BY <1>2 DEF Items, Call
<1>4. "details" \notin Paged
  BY ListsBounds
<1> HIDE DEF call
<1>5. later' = later \cup {call} /\ CallsCounted'
  BY <1>1, <1>3, CallAsked
<1>6. CallsKnown'
  BY <1>3, <1>4, <1>5 DEF ListsInv, CallsKnown
<1> QED BY <1>5, <1>6

LEMMA CommitStep ==
    ASSUME ListsInv, ListsOwn,
           \/ \E c \in Watched : Lists!ToggleCommitDetails(c) \/ Lists!RetryDetails(c)
           \/ \E c \in later : Lists!DetailsArrive(c)
    PROVE  ListsInv' /\ ListsOwn'
<1>1. UNCHANGED <<shown, list, first, tags, writing>>
  BY DEF Lists!ToggleCommitDetails, Lists!RetryDetails, Lists!DetailsArrive
<1>2. ASSUME commits' \in Commits PROVE DetailsKnown'
  BY <1>1, <1>2 DEF ListsInv, DetailsKnown
<1>3. commits \in Commits
  BY DEF ListsInv, DetailsKnown
<1>4. later' = later => CallsKnown' /\ CallsCounted'
  BY <1>1 DEF ListsInv, CallsKnown, CallsCounted, Changing
<1>5. ASSUME NEW c \in Watched, Lists!ToggleCommitDetails(c)
      PROVE  ListsInv' /\ ListsOwn'
  <2>1. \/ commits' = [commits EXCEPT !.expanded = NoOne] /\ UNCHANGED later
        \/ commits' = [commits EXCEPT !.expanded = c] /\ UNCHANGED later
        \/ /\ Lists!LoadDetails(c)
           /\ commits' = [commits EXCEPT !.expanded = c, !.loading = c, !.failed = @ \ {c}]
    BY <1>5 DEF Lists!ToggleCommitDetails
  <2>2. commits' \in Commits
    BY <1>3, <2>1 DEF Commits
  <2>3. CallsKnown' /\ CallsCounted' /\ (\A d \in later : d \in later')
    BY <1>1, <1>4, <2>1, CommitAsked
  <2> QED BY <1>1, <1>2, <2>2, <2>3, DetailsOnly
<1>6. ASSUME NEW c \in Watched, Lists!RetryDetails(c)
      PROVE  ListsInv' /\ ListsOwn'
  <2>1. /\ Lists!LoadDetails(c)
        /\ commits' = [commits EXCEPT !.known = @ \ {c}, !.loading = c, !.failed = @ \ {c}]
    BY <1>6 DEF Lists!RetryDetails
  <2>2. commits' \in Commits
    BY <1>3, <2>1 DEF Commits
  <2>3. CallsKnown' /\ CallsCounted' /\ (\A d \in later : d \in later')
    BY <1>1, <2>1, CommitAsked
  <2> QED BY <1>1, <1>2, <2>2, <2>3, DetailsOnly
<1>7. ASSUME NEW c \in later, Lists!DetailsArrive(c)
      PROVE  ListsInv' /\ ListsOwn'
  <2> DEFINE commit == <<c.repo, c.page>>
             loading == IF commits.loading = commit THEN NoOne ELSE commits.loading
             done == [commits EXCEPT !.loading = loading]
  <2>1. /\ c.of = "details" /\ later' = later \ {c}
        /\ commits' \in {[done EXCEPT !.known = @ \cup {commit}], [done EXCEPT !.failed = @ \cup {commit}]}
    BY <1>7 DEF Lists!DetailsArrive
  <2>2. commit \in Watched
    BY <2>1 DEF ListsInv, CallsKnown
  <2>3. loading \in Watched \cup {NoOne}
    BY <1>3 DEF Commits
  <2> HIDE DEF commit, loading
  <2>4. done \in Commits
    BY <1>3, <2>3 DEF Commits
  <2> HIDE DEF done
  <2>5. commits' \in Commits
    BY <2>1, <2>2, <2>4 DEF Commits
  <2>6. CallsKnown' /\ CallsCounted'
    BY <1>1, <2>1, CallAnswered
  <2>7. c.of \notin Paged
    BY <2>1, ListsBounds
  <2> QED BY <1>1, <1>2, <2>1, <2>5, <2>6, <2>7, DetailsOnly
<1> QED BY <1>5, <1>6, <1>7

\* The comparison of two tags.
LEMMA TagsStep ==
    ASSUME ListsInv, ListsOwn,
           \/ Lists!ChooseTags \/ Lists!CompareSelectedTags
           \/ \E c \in later : Lists!ComparisonArrives(c)
    PROVE  ListsInv' /\ ListsOwn'
<1>1. UNCHANGED <<shown, list, first, commits, writing>>
  BY DEF Lists!ChooseTags, Lists!CompareSelectedTags, Lists!ComparisonArrives
<1>2. tags \in Comparison /\ shown \in Shown
  BY DEF ListsInv, DetailsKnown, ListKnown
<1>3. ASSUME tags' \in Comparison PROVE DetailsKnown'
  BY <1>1, <1>3 DEF ListsInv, DetailsKnown
<1>4. CASE Lists!ChooseTags
  <2> DEFINE on == TRUE
  <2>1. tags' = [tags EXCEPT !.chosen = on, !.result = NoOne] /\ later' = later /\ on \in BOOLEAN
    BY <1>4 DEF Lists!ChooseTags
  <2> HIDE DEF on
  <2>2. tags' \in Comparison /\ tags'.result = NoOne
    BY <1>2, <2>1 DEF Comparison
  <2>3. CallsKnown' /\ CallsCounted'
    BY <1>1, <2>1 DEF ListsInv, CallsKnown, CallsCounted, Changing
  <2> QED BY <1>1, <1>3, <2>1, <2>2, <2>3, DetailsOnly
<1>5. CASE Lists!CompareSelectedTags
  <2> DEFINE on == TRUE
             call == [of |-> "comparison", repo |-> shown.repo, page |-> 0]
  <2>1. /\ tags' = [tags EXCEPT !.loading = on, !.result = NoOne] /\ on \in BOOLEAN
        /\ Lists!Asks(call)
    BY <1>5 DEF Lists!CompareSelectedTags
  <2> HIDE DEF on
  <2>2. tags' \in Comparison /\ tags'.result = NoOne
    BY <1>2, <2>1 DEF Comparison
  <2>3. call \in Call /\ call.of = "comparison" /\ "comparison" \notin Paged
    BY <1>2, ListsBounds DEF Call, Shown
  <2> HIDE DEF call
  <2>4. later' = later \cup {call} /\ CallsCounted'
    BY <1>1, <2>1, <2>3, CallAsked
  <2>5. CallsKnown'
    BY <2>3, <2>4 DEF ListsInv, CallsKnown
  <2> QED BY <1>1, <1>3, <2>2, <2>4, <2>5, DetailsOnly
<1>6. ASSUME NEW c \in later, Lists!ComparisonArrives(c)
      PROVE  ListsInv' /\ ListsOwn'
  <2> DEFINE off == FALSE
             result == IF c.repo = shown.repo THEN c.repo ELSE tags.result
  <2>1. /\ c.of = "comparison" /\ later' = later \ {c} /\ off \in BOOLEAN
        /\ tags' \in {[tags EXCEPT !.loading = off, !.result = result], [tags EXCEPT !.loading = off]}
    BY <1>6 DEF Lists!ComparisonArrives
  <2>2. result \in Linkable \cup {NoOne} /\ result \in {shown.repo, tags.result}
    BY <1>2 DEF Comparison, Shown
  <2> HIDE DEF off, result
  <2>3. tags' \in Comparison /\ tags'.result \in {result, tags.result}
    BY <1>2, <2>1, <2>2 DEF Comparison
  <2>4. CallsKnown' /\ CallsCounted'
    BY <1>1, <2>1, CallAnswered
  <2>5. c.of \notin Paged
    BY <2>1, ListsBounds
  <2> QED BY <1>1, <1>3, <2>1, <2>2, <2>3, <2>4, <2>5, DetailsOnly
<1> QED BY <1>4, <1>5, <1>6

\* A change at the provider, its forms, and the list that is read after it.
LEMMA FormsStep ==
    ASSUME ListsInv, ListsOwn,
           Lists!OpenForm \/ Lists!CloseForm \/ Lists!OpenComment
    PROVE  ListsInv' /\ ListsOwn'
<1>1. UNCHANGED <<shown, list, first, later, commits, tags>>
  BY DEF Lists!OpenForm, Lists!CloseForm, Lists!OpenComment
<1>2. writing \in Writing /\ shown \in Shown /\ list \in List
  BY DEF ListsInv, DetailsKnown, ListKnown
<1>3. PICK forms \in SUBSET Lists!Edited, comment \in Linkable \cup {NoOne} :
         writing' = [writing EXCEPT !.forms = forms, !.comment = comment]
  <2>1. CASE Lists!OpenForm
    <3> DEFINE forms == writing.forms \cup {shown.tab}
    <3>1. writing' = [writing EXCEPT !.forms = forms] /\ shown.tab \in Lists!Edited
      BY <2>1 DEF Lists!OpenForm
    <3>2. forms \in SUBSET Lists!Edited
      BY <1>2, <3>1 DEF Writing
    <3> HIDE DEF forms
    <3>3. /\ writing' = [writing EXCEPT !.forms = forms, !.comment = writing.comment]
          /\ writing.comment \in Linkable \cup {NoOne}
      BY <1>2, <3>1 DEF Writing
    <3> QED BY <3>2, <3>3
  <2>2. CASE Lists!CloseForm
    <3> DEFINE forms == writing.forms \ {shown.tab}
    <3>1. writing' = [writing EXCEPT !.forms = forms]
      BY <2>2 DEF Lists!CloseForm
    <3>2. forms \in SUBSET Lists!Edited
      BY <1>2 DEF Writing
    <3> HIDE DEF forms
    <3>3. /\ writing' = [writing EXCEPT !.forms = forms, !.comment = writing.comment]
          /\ writing.comment \in Linkable \cup {NoOne}
      BY <1>2, <3>1 DEF Writing
    <3> QED BY <3>2, <3>3
  <2>3. CASE Lists!OpenComment
    <3> DEFINE item == Head(list.items)
               comment == item[1]
    <3>1. writing' = [writing EXCEPT !.comment = comment] /\ list.items # <<>>
      BY <2>3 DEF Lists!OpenComment
    <3>2. list.items \in Seq(Items)
      BY <1>2 DEF List
    <3>3. item \in Items
      BY <3>1, <3>2
    <3> HIDE DEF item
    <3>4. comment \in Linkable
      BY <3>3 DEF Items
    <3> HIDE DEF comment
    <3>5. /\ writing' = [writing EXCEPT !.forms = writing.forms, !.comment = comment]
          /\ writing.forms \in SUBSET Lists!Edited
      BY <1>2, <3>1 DEF Writing
    <3> QED BY <3>4, <3>5
  <2> QED BY <2>1, <2>2, <2>3
<1>4. writing' \in Writing /\ writing'.op = writing.op
  BY <1>2, <1>3 DEF Writing
<1>5. CallsKnown' /\ CallsCounted' /\ DetailsKnown'
  BY <1>1, <1>4 DEF ListsInv, CallsKnown, CallsCounted, Changing, DetailsKnown
<1> QED BY <1>1, <1>5, DetailsOnly

LEMMA PerformStep ==
    ASSUME ListsInv, ListsOwn, NEW step \in {"create", "edit", "close", "comment"},
           Lists!Perform(step)
    PROVE  ListsInv' /\ ListsOwn'
<1> DEFINE off == FALSE
           change == [step |-> step, form |-> off, tab |-> shown.tab, repo |-> shown.repo]
<1>1. /\ shown.tab \in Lists!Edited /\ writing.op = NoOne /\ Lists!CallsUnderWay < MaxCalls
      /\ writing' = [writing EXCEPT !.op = change] /\ off \in BOOLEAN
      /\ UNCHANGED <<shown, list, first, later, commits, tags>>
  BY DEF Lists!Perform
<1> HIDE DEF off
<1>2. change \in Change
  BY <1>1 DEF Change, ListsInv, ListKnown, Shown
<1> HIDE DEF change
<1>3. writing' \in Writing
  BY <1>1, <1>2 DEF ListsInv, DetailsKnown, Writing
<1>4. Cardinality(later) + 1 <= MaxCalls
  <2>1. Lists!CallsUnderWay = Lists!Cardinality(later) + IF writing.op = NoOne THEN 0 ELSE 1
    BY Zenon DEF Lists!CallsUnderWay
  <2>2. Lists!Cardinality(later) = Cardinality(later)
    BY Zenon DEF Cardinality, Lists!Cardinality
  <2>3. Cardinality(later) \in Nat
    BY FS_CardinalityType DEF ListsInv, CallsCounted
  <2> QED BY <1>1, <2>1, <2>2, <2>3, ListsBounds
<1>5. CallsCounted'
  <2>1. Changing(writing') \in {0, 1} /\ Cardinality(later) \in Nat /\ IsFiniteSet(later)
    BY FS_CardinalityType DEF Changing, ListsInv, CallsCounted
  <2>2. Cardinality(later) + Changing(writing') <= MaxCalls
    BY <1>4, <2>1, ListsBounds
  <2> QED BY <1>1, <2>1, <2>2 DEF CallsCounted, Changing
<1>6. CallsKnown' /\ DetailsKnown'
  BY <1>1, <1>3 DEF ListsInv, CallsKnown, DetailsKnown
<1> QED BY <1>1, <1>5, <1>6, DetailsOnly

\* A change under way takes the room of one call.
LEMMA ChangeUnderWay ==
    ASSUME ListsInv, writing.op # NoOne, UNCHANGED later, writing' \in Writing
    PROVE  CallsCounted'
<1>1. Changing(writing) = 1 /\ Changing(writing') \in {0, 1}
  BY DEF Changing
<1>2. IsFiniteSet(later) /\ Cardinality(later) + 1 <= MaxCalls /\ Cardinality(later) \in Nat
  BY <1>1, FS_CardinalityType DEF ListsInv, CallsCounted
<1>3. Cardinality(later) + Changing(writing') <= MaxCalls
  BY <1>1, <1>2, ListsBounds
<1> QED BY <1>2, <1>3 DEF CallsCounted, Changing

LEMMA ChangeStep ==
    ASSUME ListsInv, ListsOwn, Lists!ChangeArrives
    PROVE  ListsInv' /\ ListsOwn'
<1> DEFINE op0 == writing.op
           on == TRUE
           relist == [op0 EXCEPT !.step = "list"]
           created == [op0 EXCEPT !.step = "list", !.form = on]
<1>1. /\ op0 # NoOne /\ on \in BOOLEAN
      /\ \/ writing' = [writing EXCEPT !.op = NoOne]
         \/ writing' = [writing EXCEPT !.op = NoOne, !.comment = NoOne]
         \/ writing' = [writing EXCEPT !.op = created]
         \/ writing' = [writing EXCEPT !.op = relist]
      /\ UNCHANGED <<shown, list, first, later, commits, tags>>
  BY DEF Lists!ChangeArrives
<1>2. writing \in Writing /\ op0 \in Change
  BY <1>1 DEF ListsInv, DetailsKnown, Writing
<1> HIDE DEF op0, on
<1>3. relist \in Change /\ created \in Change
  BY <1>1, <1>2 DEF Change
<1> HIDE DEF relist, created
<1>4. writing' \in Writing
  BY <1>1, <1>2, <1>3 DEF Writing
<1>5. CallsCounted'
  BY <1>1, <1>4, ChangeUnderWay DEF op0
<1>6. CallsKnown' /\ DetailsKnown'
  BY <1>1, <1>4 DEF ListsInv, CallsKnown, DetailsKnown
<1> QED BY <1>1, <1>5, <1>6, DetailsOnly

LEMMA ListArrivesStep ==
    ASSUME ListsInv, ListsOwn, Lists!ListArrives
    PROVE  ListsInv' /\ ListsOwn'
<1> DEFINE op0 == writing.op
           item == <<op0.repo, 1>>
           items == <<item>>
           forms == IF op0.form THEN writing.forms \ {op0.tab} ELSE writing.forms
<1>1. /\ op0 # NoOne
      /\ \/ /\ list' = IF shown.tab = op0.tab THEN [list EXCEPT !.items = items] ELSE list
            /\ writing' = [writing EXCEPT !.op = NoOne, !.forms = forms]
         \/ writing' = [writing EXCEPT !.op = NoOne] /\ UNCHANGED list
      /\ UNCHANGED <<shown, first, later, commits, tags>>
  BY DEF Lists!ListArrives
<1>2. /\ writing \in Writing /\ op0 \in Change /\ shown \in Shown
      /\ list \in List /\ (list.more => list.page < Pages)
  BY <1>1 DEF ListsInv, DetailsKnown, ListKnown, Writing
<1>3. op0.tab \in Lists!Edited /\ op0.repo \in Linkable
  BY <1>2 DEF Change
<1>4. items \in Seq(Items)
  <2>1. item \in Items
    BY <1>3, ListsBounds DEF Items
  <2> HIDE DEF item
  <2> QED BY <2>1
<1>5. forms \in SUBSET Lists!Edited
  BY <1>2 DEF Writing
<1> HIDE DEF op0, items, forms
<1>6. writing' \in Writing
  BY <1>1, <1>2, <1>5 DEF Writing
<1>7. /\ list' \in List /\ (list'.more => list'.page < Pages)
      /\ list'.loading = list.loading
      /\ shown.tab # op0.tab => list' = list
  BY <1>1, <1>2, <1>4 DEF List
<1>8. CallsCounted'
  BY <1>1, <1>6, ChangeUnderWay DEF op0
<1>9. CallsKnown' /\ DetailsKnown' /\ ListKnown'
  BY <1>1, <1>2, <1>6, <1>7 DEF ListsInv, CallsKnown, DetailsKnown, ListKnown
<1>10. Lists!ListsAssumption'
  BY DEF ListsInv, Lists!ListsAssumption
<1>11. Lists!ReleasesAreOwn'
  <2>1. shown.tab \in {"Releases", "Tags"} => shown.tab # op0.tab
    BY <1>3 DEF Lists!Edited
  <2> QED BY <1>1, <1>7, <2>1 DEF ListsOwn, Lists!ReleasesAreOwn
<1>12. Lists!ComparisonIsOwn' /\ Lists!ListSpinnerIsWork'
  BY <1>1, <1>7 DEF ListsOwn, Lists!ComparisonIsOwn, Lists!ListSpinnerIsWork
<1> QED BY <1>8, <1>9, <1>10, <1>11, <1>12 DEF ListsInv, ListsOwn

LEMMA ListsStep ==
    ASSUME ListsInv, ListsOwn, [Lists!ListsNext]_(Lists!listsVars)
    PROVE  ListsInv' /\ ListsOwn'
<1>1. CASE UNCHANGED Lists!listsVars
  <2>1. UNCHANGED <<shown, list, first, later, commits, tags, writing>>
    BY <1>1 DEF Lists!listsVars
  <2>2. CallsKnown' /\ CallsCounted' /\ DetailsKnown'
    BY <2>1 DEF ListsInv, CallsKnown, CallsCounted, Changing, DetailsKnown
  <2> QED BY <2>1, <2>2, DetailsOnly
<1>2. CASE \E r \in Linkable, t \in Lists!Tabs : Lists!Show(r, t)
  BY <1>2, ShowStep
<1>3. CASE Lists!FirstArrives \/ Lists!LoadMore
  BY <1>3, FirstStep, LoadMoreStep
<1>4. CASE \E c \in later : Lists!MoreArrives(c) \/ Lists!DetailsArrive(c) \/ Lists!ComparisonArrives(c)
  BY <1>4, MoreStep, CommitStep, TagsStep
<1>5. CASE \E c \in Watched : Lists!ToggleCommitDetails(c) \/ Lists!RetryDetails(c)
  BY <1>5, CommitStep
<1>6. CASE Lists!ChooseTags \/ Lists!CompareSelectedTags
  BY <1>6, TagsStep
<1>7. CASE Lists!OpenForm \/ Lists!CloseForm \/ Lists!OpenComment
  BY <1>7, FormsStep
<1>8. CASE \/ Lists!CreateIssue \/ Lists!CreateChange \/ Lists!SaveIssueEdit \/ Lists!CloseItem
           \/ Lists!AddComment
  BY <1>8, PerformStep DEF Lists!CreateIssue, Lists!CreateChange, Lists!SaveIssueEdit,
                           Lists!CloseItem, Lists!AddComment
<1>9. CASE Lists!ChangeArrives \/ Lists!ListArrives
  BY <1>9, ChangeStep, ListArrivesStep
<1> QED BY Zenon, <1>1, <1>2, <1>3, <1>4, <1>5, <1>6, <1>7, <1>8, <1>9 DEF Lists!ListsNext

LEMMA EmptyKnown ==
    ASSUME Pages \in Nat \ {0}, NEW loading \in BOOLEAN
    PROVE  Lists!EmptyList(loading) \in List /\ ~Lists!EmptyList(loading).more
<1>1. 1 \in 1 .. Pages /\ <<>> \in Seq(Items)
  OBVIOUS
<1> QED BY <1>1 DEF Lists!EmptyList, List

LEMMA ListsBegin ==
    ASSUME Lists!ListsAssumption, Lists!ListsInit
    PROVE  ListsInv /\ ListsOwn
<1> USE DEF Lists!ListsInit
<1>1. Pages \in Nat \ {0} /\ MaxCalls \in Nat \ {0}
  BY DEF Lists!ListsAssumption
<1>2. ListKnown
  <2>1. shown \in Shown
    BY DEF Shown, Lists!Tabs
  <2>2. list \in List /\ ~list.more
    BY <1>1, EmptyKnown
  <2> QED BY <2>1, <2>2 DEF ListKnown
<1>3. CallsKnown /\ CallsCounted
  <2>1. IsFiniteSet({}) /\ Cardinality({}) = 0
    BY FS_EmptySet
  <2>2. Changing(writing) = 0
    BY DEF Changing
  <2> QED BY <1>1, <2>1, <2>2 DEF CallsKnown, CallsCounted
<1>4. DetailsKnown
  <2>1. commits \in Commits
    BY DEF Commits
  <2>2. tags \in Comparison
    <3> DEFINE off == FALSE
    <3>1. tags = [chosen |-> off, result |-> NoOne, loading |-> off] /\ off \in BOOLEAN
      BY DEF Lists!NoComparison
    <3> HIDE DEF off
    <3> QED BY <3>1 DEF Comparison
  <2>3. writing \in Writing
    BY DEF Writing
  <2> QED BY <2>1, <2>2, <2>3 DEF DetailsKnown
<1>5. ListsOwn
  BY DEF ListsOwn, Lists!ReleasesAreOwn, Lists!ComparisonIsOwn, Lists!ListSpinnerIsWork, Lists!EmptyList
<1> QED BY <1>2, <1>3, <1>4, <1>5 DEF ListsInv

(* Releases, tags and the comparison of tags on the screen are those of the *)
(* chosen repository, whichever page of whichever repository answers late,  *)
(* and a list that shows it is loading is being loaded, even after a change *)
(* of tab and back (loadMoreReleases, loadMoreTags, compareSelectedTags and *)
(* the tab's effect in RepositoryHubPanel.tsx).  For any repositories, any  *)
(* number of pages and any number of calls under way.                       *)
THEOREM ListsAreOwn ==
    ASSUME Lists!ListsAssumption
    PROVE  Lists!ListsSpec => [](/\ Lists!ListsTypeOK /\ Lists!ReleasesAreOwn
                                 /\ Lists!ComparisonIsOwn /\ Lists!ListSpinnerIsWork)
<1>1. ListsInv /\ ListsOwn => /\ Lists!ListsTypeOK /\ Lists!ReleasesAreOwn
                              /\ Lists!ComparisonIsOwn /\ Lists!ListSpinnerIsWork
  <2> SUFFICES ASSUME ListsInv PROVE Lists!ListsTypeOK
    BY DEF ListsOwn
  <2>1. /\ shown.repo \in Linkable /\ shown.tab \in Lists!Tabs /\ list \in List
    BY DEF ListsInv, ListKnown, Shown
  <2>2. Lists!Range(list.items) \subseteq Items /\ list.page \in 1 .. Pages
    <3>1. list.items \in Seq(Items) /\ list.page \in 1 .. Pages
      BY <2>1 DEF List
    <3>2. Lists!Range(list.items) = {list.items[i] : i \in DOMAIN list.items}
      BY Zenon DEF Lists!Range
    <3>3. \A i \in DOMAIN list.items : list.items[i] \in Items
      BY <3>1
    <3> QED BY <3>1, <3>2, <3>3
  <2>3. commits.known \cup commits.failed \subseteq Watched /\ tags.result \in Linkable \cup {NoOne}
    BY DEF ListsInv, DetailsKnown, Commits, Comparison
  <2>4. Lists!Cardinality(later) <= MaxCalls
    <3>1. Lists!Cardinality(later) = Cardinality(later)
      BY Zenon DEF Cardinality, Lists!Cardinality
    <3>2. Cardinality(later) \in Nat /\ Changing(writing) \in Nat
          /\ Cardinality(later) + Changing(writing) <= MaxCalls
      BY FS_CardinalityType DEF ListsInv, CallsCounted, Changing
    <3> QED BY <3>1, <3>2, ListsBounds
  <2> QED BY <2>1, <2>2, <2>3, <2>4 DEF Lists!ListsTypeOK, Items
<1>2. Lists!ListsInit => ListsInv /\ ListsOwn
  BY ListsBegin
<1> QED BY <1>1, <1>2, ListsStep, PTL DEF Lists!ListsSpec

-----------------------------------------------------------------------------
(* The overview of a linked repository                                     *)

Fetched == {"release", "tag", "readme"}
Found == {"text", "large", "refused"}
Verdicts == {"none yet", "unable", "too large", "refused", "failed", "no readme",
             "not in the first pages"}

Remote == [page : [Overview!Names -> 0 .. RootPages], kind : [Overview!Names -> Found]]
Readme == [repo : Linkable, rank : Overview!Names]
Seen == [selected : Linkable \cup {NoOne}, release : Linkable \cup {NoOne}, tag : Linkable \cup {NoOne},
         readme : Readme \cup {NoOne}, verdict : Verdicts, busy : SUBSET Fetched]
Fetch == [kind : Fetched, repo : Able, active : BOOLEAN, page : 0 .. RootPages,
          left : SUBSET Overview!Names, failed : BOOLEAN]

OverviewBounds ==
    /\ Ranks \in Nat \ {0} /\ RootPages \in Nat \ {0} /\ PageLimit \in Nat \ {0}
    /\ Able \subseteq Linkable

OverviewKnown ==
    /\ remote \in Remote
    /\ seen \in Seen
    /\ fetches \subseteq Fetch

\* A search of the root has pages left to search. One of the files tries names
\* that are within the searched part, and only after better ones were refused.
Sound(f) ==
    /\ f.left = {} => f.page < PageLimit
    /\ f.left # {} => /\ f.left \subseteq Overview!Within
                      /\ \A n \in Overview!Within \ f.left : remote.kind[n] = "refused"

Active == \A f \in fetches : f.active => f.repo = seen.selected

OverviewInv ==
    /\ OverviewBounds /\ OverviewKnown /\ Active
    /\ \A f \in fetches : f.kind = "readme" => Sound(f)
    /\ Overview!OverviewIsOwn /\ Overview!ReadmeIsPreferred

\* A set of natural numbers that is not empty has a least one.
LEMMA Least ==
    ASSUME NEW S \in SUBSET Nat, S # {}
    PROVE  Overview!Min(S) \in S /\ \A i \in S : Overview!Min(S) <= i
<1> DEFINE T == {1 .. n : n \in S}
           R == StrictSubsetOrdering(Nat)
<1>1. T \subseteq FiniteSubsetsOf(Nat) /\ T # {}
  <2>1. \A n \in S : IsFiniteSet(1 .. n) /\ 1 .. n \subseteq Nat
    BY FS_Interval
  <2> QED BY <2>1 DEF FiniteSubsetsOf
<1>2. PICK x \in T : \A y \in T : <<y, x>> \notin R
  <2>1. IsWellFoundedOn(R, FiniteSubsetsOf(Nat))
    BY FS_StrictSubsetOrderingWellFounded
  <2> HIDE DEF T, R
  <2> QED BY <1>1, <2>1, WFMin
<1>3. PICK n \in S : x = 1 .. n
  OBVIOUS
<1>4. ASSUME NEW i \in S, i < n PROVE FALSE
  <2>1. i \in Nat /\ n \in Nat
    OBVIOUS
  <2>2. 1 .. i \subseteq 1 .. n /\ n \in 1 .. n /\ n \notin 1 .. i
    BY <1>4, <2>1
  <2>3. <<1 .. i, 1 .. n>> \in R
    BY <2>1, <2>2 DEF StrictSubsetOrdering
  <2> QED BY <1>2, <1>3, <2>3
<1>5. \A i \in S : n <= i
  BY <1>4
<1>6. Overview!Min(S) = CHOOSE m \in S : \A i \in S : m =< i
  BY Zenon DEF Overview!Min
<1> QED BY <1>5, <1>6

\* A fetch ends, and what is shown of it is what was found.
LEMMA FetchEnds ==
    ASSUME OverviewInv, NEW f \in fetches, NEW found \in Seen, Overview!Ends(f, found),
           found.selected = seen.selected, found.busy = seen.busy,
           f.active => /\ {found.release, found.tag} \subseteq {found.selected, NoOne}
                       /\ found.readme # NoOne => found.readme.repo = found.selected,
           /\ found.readme # NoOne =>
                /\ found.readme.rank \in Overview!Within
                /\ \A n \in Overview!Within : n < found.readme.rank => remote.kind[n] = "refused"
           /\ found.verdict = "no readme" => Overview!Root = {}
           /\ found.verdict = "not in the first pages" => Overview!Within = {} /\ PageLimit < RootPages
    PROVE  OverviewInv'
<1> DEFINE busy == found.busy \ {f.kind}
           shown0 == [found EXCEPT !.busy = busy]
<1>1. /\ seen' = IF f.active THEN shown0 ELSE seen
      /\ fetches' = fetches \ {f} /\ UNCHANGED <<remote, visits>>
  BY DEF Overview!Ends, Overview!IsActive
<1>2. busy \in SUBSET Fetched
  BY DEF Seen
<1> DEFINE same(s) == /\ s.selected = found.selected /\ s.release = found.release /\ s.tag = found.tag
                      /\ s.readme = found.readme /\ s.verdict = found.verdict /\ s.busy = busy
<1> HIDE DEF busy
<1>3. shown0 \in Seen /\ same(shown0)
  BY <1>2 DEF Seen
<1> HIDE DEF shown0
<1>4. seen' \in Seen /\ seen'.selected = seen.selected
  BY <1>1, <1>3 DEF OverviewInv, OverviewKnown
<1>5. Overview!Within' = Overview!Within /\ Overview!Root' = Overview!Root
  BY <1>1 DEF Overview!Within, Overview!Root
<1>6. OverviewBounds' /\ OverviewKnown' /\ Active'
  BY <1>1, <1>4 DEF OverviewInv, OverviewBounds, OverviewKnown, Active
<1>7. \A g \in fetches' : g.kind = "readme" => Sound(g)'
  BY <1>1, <1>5 DEF OverviewInv, Sound
<1>8. Overview!OverviewIsOwn'
  <2>1. CASE f.active
    <3>1. \A k \in busy : \E g \in fetches \ {f} : g.active /\ g.kind = k
      BY DEF OverviewInv, Overview!OverviewIsOwn, busy
    <3> QED BY <1>1, <1>3, <2>1, <3>1 DEF Overview!OverviewIsOwn
  <2>2. CASE ~f.active
    BY <1>1, <2>2 DEF OverviewInv, Overview!OverviewIsOwn
  <2> QED BY <2>1, <2>2
<1>9. Overview!ReadmeIsPreferred'
  <2>1. CASE f.active
    BY <1>1, <1>3, <1>5, <2>1 DEF Overview!ReadmeIsPreferred
  <2>2. CASE ~f.active
    BY <1>1, <1>5, <2>2 DEF OverviewInv, Overview!ReadmeIsPreferred
  <2> QED BY <2>1, <2>2
<1> QED BY <1>6, <1>7, <1>8, <1>9 DEF OverviewInv

\* A search that goes on.
LEMMA FetchContinues ==
    ASSUME OverviewInv, NEW f \in fetches, NEW g \in Fetch, Overview!Continues(f, g),
           g.kind = f.kind, g.repo = f.repo, g.active <=> f.active, Sound(g)
    PROVE  OverviewInv'
<1>1. fetches' = (fetches \ {f}) \cup {g} /\ UNCHANGED <<remote, seen, visits>>
  BY DEF Overview!Continues
<1>2. Overview!Within' = Overview!Within /\ Overview!Root' = Overview!Root
  BY <1>1 DEF Overview!Within, Overview!Root
<1>3. OverviewBounds' /\ OverviewKnown' /\ Active'
  BY <1>1 DEF OverviewInv, OverviewBounds, OverviewKnown, Active
<1>4. \A h \in fetches' : h.kind = "readme" => Sound(h)'
  BY <1>1, <1>2 DEF OverviewInv, Sound
<1>5. Overview!OverviewIsOwn'
  BY <1>1 DEF OverviewInv, Overview!OverviewIsOwn
<1>6. Overview!ReadmeIsPreferred'
  BY <1>1, <1>2 DEF OverviewInv, Overview!ReadmeIsPreferred
<1> QED BY <1>3, <1>4, <1>5, <1>6 DEF OverviewInv

\* What the search has found after a page of the root.
LEMMA FoundSoFar ==
    ASSUME OverviewInv, NEW f \in fetches, f.kind = "readme", f.left = {}
    PROVE  LET page == f.page + 1
               found == {n \in Overview!Names : remote.page[n] \in 1 .. page}
           IN  /\ page \in Nat /\ page <= PageLimit
               /\ page = PageLimit => found = Overview!Within
               /\ page >= RootPages => found = Overview!Root
               /\ found \subseteq Overview!Within
               /\ Overview!Within \subseteq Overview!Root
<1> DEFINE page == f.page + 1
           found == {n \in Overview!Names : remote.page[n] \in 1 .. page}
<1>1. /\ f.page \in Nat /\ f.page < PageLimit /\ PageLimit \in Nat /\ RootPages \in Nat
      /\ \A n \in Overview!Names : remote.page[n] \in 0 .. RootPages
  BY DEF OverviewInv, OverviewBounds, OverviewKnown, Sound, Fetch, Remote
<1>2. page \in Nat /\ page <= PageLimit
  BY <1>1
<1> HIDE DEF page
<1>3. \A n \in Overview!Names : n \in Overview!Root <=> remote.page[n] # 0
  BY DEF Overview!Root
<1>4. \A n \in Overview!Names : n \in Overview!Within <=> remote.page[n] # 0 /\ remote.page[n] <= PageLimit
  BY DEF Overview!Root, Overview!Within
<1>5. Overview!Within \subseteq Overview!Root /\ Overview!Root \subseteq Overview!Names
  BY DEF Overview!Root, Overview!Within
<1>6. page = PageLimit => found = Overview!Within
  BY <1>1, <1>2, <1>4, <1>5
<1>7. page >= RootPages => found = Overview!Root
  BY <1>1, <1>2, <1>3, <1>5
<1>8. found \subseteq Overview!Within
  BY <1>1, <1>2, <1>4
<1> QED BY <1>2, <1>5, <1>6, <1>7, <1>8 DEF page

LEMMA VerdictEnds ==
    ASSUME OverviewInv, NEW f \in fetches, NEW v \in Verdicts,
           Overview!Ends(f, [seen EXCEPT !.verdict = v]),
           v = "no readme" => Overview!Root = {},
           v = "not in the first pages" => Overview!Within = {} /\ PageLimit < RootPages
    PROVE  OverviewInv'
<1> DEFINE found == [seen EXCEPT !.verdict = v]
<1>1. seen \in Seen
  BY DEF OverviewInv, OverviewKnown
<1>2. /\ found \in Seen /\ found.selected = seen.selected /\ found.busy = seen.busy
      /\ found.release = seen.release /\ found.tag = seen.tag /\ found.readme = seen.readme
      /\ found.verdict = v
  BY <1>1 DEF Seen
<1>3. Overview!Ends(f, found)
  OBVIOUS
<1> HIDE DEF found
<1>4. /\ {found.release, found.tag} \subseteq {found.selected, NoOne}
      /\ found.readme # NoOne => found.readme.repo = found.selected
  BY <1>2 DEF OverviewInv, Overview!OverviewIsOwn
<1>5. found.readme # NoOne =>
        /\ found.readme.rank \in Overview!Within
        /\ \A n \in Overview!Within : n < found.readme.rank => remote.kind[n] = "refused"
  BY <1>2 DEF OverviewInv, Overview!ReadmeIsPreferred
<1> QED BY <1>2, <1>3, <1>4, <1>5, FetchEnds

\* The release or the tag arrives; the search fails.
LEMMA LatestStep ==
    ASSUME OverviewInv, NEW f \in fetches, Overview!LatestArrives(f) \/ Overview!RootFails(f)
    PROVE  OverviewInv'
<1>1. seen \in Seen /\ f \in Fetch /\ (f.active => f.repo = seen.selected) /\ Able \subseteq Linkable
  BY DEF OverviewInv, OverviewKnown, OverviewBounds, Active
<1>2. /\ {seen.release, seen.tag} \subseteq {seen.selected, NoOne}
      /\ seen.readme # NoOne => seen.readme.repo = seen.selected
  BY DEF OverviewInv, Overview!OverviewIsOwn
<1>3. Overview!ReadmeIsPreferred
  BY DEF OverviewInv
<1>4. ASSUME NEW s \in {f.repo, NoOne}, Overview!Ends(f, [seen EXCEPT !.release = s])
      PROVE  OverviewInv'
  <2> DEFINE found == [seen EXCEPT !.release = s]
  <2>1. /\ found \in Seen /\ found.selected = seen.selected /\ found.busy = seen.busy
        /\ found.release = s /\ found.tag = seen.tag /\ found.readme = seen.readme
        /\ found.verdict = seen.verdict
    BY <1>1 DEF Seen, Fetch
  <2> HIDE DEF found
  <2>2. f.active => {found.release, found.tag} \subseteq {found.selected, NoOne}
    BY <1>1, <1>2, <2>1
  <2>3. Overview!Ends(f, found)
    BY <1>4 DEF found
  <2> QED BY <1>2, <1>3, <2>1, <2>2, <2>3, FetchEnds DEF Overview!ReadmeIsPreferred
<1>5. ASSUME NEW s \in {f.repo, NoOne}, Overview!Ends(f, [seen EXCEPT !.tag = s])
      PROVE  OverviewInv'
  <2> DEFINE found == [seen EXCEPT !.tag = s]
  <2>1. /\ found \in Seen /\ found.selected = seen.selected /\ found.busy = seen.busy
        /\ found.release = seen.release /\ found.tag = s /\ found.readme = seen.readme
        /\ found.verdict = seen.verdict
    BY <1>1 DEF Seen, Fetch
  <2> HIDE DEF found
  <2>2. f.active => {found.release, found.tag} \subseteq {found.selected, NoOne}
    BY <1>1, <1>2, <2>1
  <2>3. Overview!Ends(f, found)
    BY <1>5 DEF found
  <2> QED BY <1>2, <1>3, <2>1, <2>2, <2>3, FetchEnds DEF Overview!ReadmeIsPreferred
<1>6. CASE Overview!Ends(f, seen)
  BY <1>1, <1>2, <1>3, <1>6, FetchEnds DEF Overview!ReadmeIsPreferred
<1>7. ASSUME Overview!Ends(f, [seen EXCEPT !.verdict = "failed"]) PROVE OverviewInv'
  BY <1>7, VerdictEnds DEF Verdicts
<1> QED BY <1>4, <1>5, <1>6, <1>7 DEF Overview!LatestArrives, Overview!RootFails

\* A page of the root arrives.
LEMMA RootStep ==
    ASSUME OverviewInv, NEW f \in fetches, Overview!RootArrives(f)
    PROVE  OverviewInv'
<1> DEFINE page == f.page + 1
           found == {n \in Overview!Names : remote.page[n] \in 1 .. page}
           more == page < RootPages
<1>1. /\ f.kind = "readme" /\ f.left = {} /\ f.page < RootPages
      /\ IF more /\ page < PageLimit THEN Overview!Continues(f, [f EXCEPT !.page = page])
         ELSE IF found # {} THEN Overview!Continues(f, [f EXCEPT !.page = RootPages, !.left = found])
         ELSE Overview!Ends(f, [seen EXCEPT !.verdict = IF more THEN "not in the first pages" ELSE "no readme"])
  BY DEF Overview!RootArrives
<1>2. /\ page \in Nat /\ page <= PageLimit
      /\ page = PageLimit => found = Overview!Within
      /\ page >= RootPages => found = Overview!Root
      /\ found \subseteq Overview!Within
      /\ Overview!Within \subseteq Overview!Root
  BY <1>1, FoundSoFar
<1>3. found \subseteq Overview!Names
  OBVIOUS
<1>4. f \in Fetch /\ RootPages \in Nat \ {0} /\ PageLimit \in Nat \ {0}
  BY DEF OverviewInv, OverviewKnown, OverviewBounds
<1> HIDE DEF found, page
<1>5. CASE more /\ page < PageLimit
  <2> DEFINE g == [f EXCEPT !.page = page]
  <2>1. page \in 0 .. RootPages
    BY <1>2, <1>4, <1>5
  <2>2. /\ g \in Fetch /\ g.kind = f.kind /\ g.repo = f.repo /\ (g.active <=> f.active)
        /\ g.left = {} /\ g.page = page
    BY <1>1, <1>4, <2>1 DEF Fetch
  <2>3. Overview!Continues(f, g)
    BY <1>1, <1>5
  <2> HIDE DEF g
  <2>4. Sound(g)
    BY <1>5, <2>2 DEF Sound
  <2> QED BY <2>2, <2>3, <2>4, FetchContinues
<1>6. CASE ~(more /\ page < PageLimit) /\ found # {}
  <2> DEFINE g == [f EXCEPT !.page = RootPages, !.left = found]
  <2>0. RootPages \in 0 .. RootPages
    BY <1>4
  <2>1. /\ g \in Fetch /\ g.kind = f.kind /\ g.repo = f.repo /\ (g.active <=> f.active)
        /\ g.left = found
    BY <1>3, <1>4, <2>0 DEF Fetch
  <2>2. Overview!Continues(f, g)
    BY <1>1, <1>6
  <2> HIDE DEF g
  <2>3. Overview!Within \subseteq found
    BY <1>2, <1>4, <1>6
  <2>4. Sound(g)
    BY <1>2, <1>6, <2>1, <2>3 DEF Sound
  <2> QED BY <2>1, <2>2, <2>4, FetchContinues
<1>7. CASE ~(more /\ page < PageLimit) /\ found = {}
  <2> DEFINE v == IF more THEN "not in the first pages" ELSE "no readme"
  <2>1. Overview!Ends(f, [seen EXCEPT !.verdict = v])
    BY <1>1, <1>7
  <2>2. v \in Verdicts
    BY DEF Verdicts
  <2>3. v = "no readme" => Overview!Root = {}
    BY <1>2, <1>4, <1>7
  <2>4. v = "not in the first pages" => Overview!Within = {} /\ PageLimit < RootPages
    BY <1>2, <1>4, <1>7
  <2> HIDE DEF v
  <2> QED BY <2>1, <2>2, <2>3, <2>4, VerdictEnds
<1> QED BY <1>5, <1>6, <1>7

\* A file arrives: the best of the names that are left.
LEMMA FileStep ==
    ASSUME OverviewInv, NEW f \in fetches, Overview!FileArrives(f)
    PROVE  OverviewInv'
<1> DEFINE n == Overview!Min(f.left)
           text == Overview!Ends(f, [seen EXCEPT !.readme = [repo |-> f.repo, rank |-> n]])
           large == Overview!Ends(f, [seen EXCEPT !.verdict = "too large"])
           refused == Overview!Ends(f, [seen EXCEPT !.verdict = "refused"])
           next == Overview!Continues(f, [f EXCEPT !.left = f.left \ {n}])
           kind == remote.kind[n]
<1>0. /\ f.kind = "readme" /\ f.left # {}
      /\ CASE kind = "text"  -> text
           [] kind = "large" -> large
           [] f.left = {n}   -> refused
           [] OTHER          -> next
  BY Zenon DEF Overview!FileArrives
<1> HIDE DEF text, large, refused, next, n, kind
<1>1. /\ f.kind = "readme" /\ f.left # {}
      /\ \/ text \/ large \/ refused
         \/ kind \notin {"text", "large"} /\ f.left # {n} /\ next
  BY <1>0
<1>2. /\ f \in Fetch /\ seen \in Seen /\ remote \in Remote /\ Able \subseteq Linkable
      /\ Sound(f) /\ (f.active => f.repo = seen.selected)
  BY <1>1 DEF OverviewInv, OverviewKnown, OverviewBounds, Active
<1>3. n \in f.left /\ \A i \in f.left : n <= i
  <2>1. f.left \in SUBSET Nat
    BY <1>2 DEF Fetch, Overview!Names
  <2> QED BY <1>1, <2>1, Least DEF n
<1>4. /\ n \in Overview!Within /\ n \in Overview!Names /\ f.left \subseteq Overview!Within
      /\ \A m \in Overview!Within \ f.left : remote.kind[m] = "refused"
  BY <1>1, <1>2, <1>3 DEF Sound, Fetch
<1>5. remote.kind[n] \in Found
  BY <1>2, <1>4 DEF Remote
<1>6. \A m \in Overview!Within : m < n => remote.kind[m] = "refused"
  <2> SUFFICES ASSUME NEW m \in Overview!Within, m < n PROVE m \notin f.left
    BY <1>4
  <2>1. m \in Nat /\ n \in Nat
    BY <1>4 DEF Overview!Within, Overview!Root, Overview!Names
  <2> QED BY <1>3, <2>1
<1>7. CASE text
  <2> DEFINE readme == [repo |-> f.repo, rank |-> n]
             found == [seen EXCEPT !.readme = readme]
  <2>1. readme \in Readme /\ readme.repo = f.repo /\ readme.rank = n
    BY <1>2, <1>4 DEF Readme, Fetch
  <2> HIDE DEF readme
  <2>2. /\ found \in Seen /\ found.selected = seen.selected /\ found.busy = seen.busy
        /\ found.release = seen.release /\ found.tag = seen.tag /\ found.readme = readme
        /\ found.verdict = seen.verdict
    BY <1>2, <2>1 DEF Seen
  <2>3. Overview!Ends(f, found)
    BY <1>7 DEF readme, text
  <2> HIDE DEF found
  <2>4. f.active => /\ {found.release, found.tag} \subseteq {found.selected, NoOne}
                    /\ found.readme # NoOne => found.readme.repo = found.selected
    BY <1>2, <2>1, <2>2 DEF OverviewInv, Overview!OverviewIsOwn
  <2>5. found.readme # NoOne =>
          /\ found.readme.rank \in Overview!Within
          /\ \A m \in Overview!Within : m < found.readme.rank => remote.kind[m] = "refused"
    BY <1>4, <1>6, <2>1, <2>2
  <2>6. /\ found.verdict = "no readme" => Overview!Root = {}
        /\ found.verdict = "not in the first pages" => Overview!Within = {} /\ PageLimit < RootPages
    BY <2>2 DEF OverviewInv, Overview!ReadmeIsPreferred
  <2> QED BY <2>2, <2>3, <2>4, <2>5, <2>6, FetchEnds
<1>8. CASE large \/ refused
  BY <1>8, VerdictEnds DEF large, refused, Verdicts
<1>9. CASE kind \notin {"text", "large"} /\ f.left # {n} /\ next
  <2> DEFINE left == f.left \ {n}
             g == [f EXCEPT !.left = left]
  <2>1. left \in SUBSET Overview!Names /\ left # {} /\ left \subseteq Overview!Within
    BY <1>1, <1>2, <1>4, <1>9 DEF Fetch
  <2>2. \A m \in Overview!Within \ left : remote.kind[m] = "refused"
    BY <1>4, <1>5, <1>9 DEF Found, kind
  <2>3. Overview!Continues(f, g)
    BY <1>9 DEF next
  <2> HIDE DEF left
  <2>4. /\ g \in Fetch /\ g.kind = f.kind /\ g.repo = f.repo /\ (g.active <=> f.active)
        /\ g.left = left
    BY <1>2, <2>1 DEF Fetch
  <2> HIDE DEF g
  <2>5. Sound(g)
    BY <2>1, <2>2, <2>4 DEF Sound
  <2> QED BY <2>3, <2>4, <2>5, FetchContinues
<1> QED BY <1>1, <1>7, <1>8, <1>9

\* The reader goes to another repository: nothing that is under way is heard.
LEMMA SelectStep ==
    ASSUME OverviewInv, NEW r \in Linkable \cup {NoOne}, Overview!Select(r)
    PROVE  OverviewInv'
<1> DEFINE busy == IF r \in Able THEN Fetched ELSE {}
           verdict == IF r # NoOne /\ r \notin Able THEN "unable" ELSE "none yet"
           begun == IF r \in Able THEN Overview!Begun(r) ELSE {}
<1>1. /\ seen' = [selected |-> r, release |-> NoOne, tag |-> NoOne, readme |-> NoOne,
                  verdict |-> verdict, busy |-> busy]
      /\ fetches' = Overview!Left \cup begun /\ UNCHANGED remote
  BY DEF Overview!Select, Fetched
<1>2. OverviewBounds /\ fetches \subseteq Fetch /\ remote \in Remote
  BY DEF OverviewInv, OverviewKnown
<1>3. \A g \in Overview!Left : /\ g \in Fetch /\ ~g.active
                               /\ \E f \in fetches : g.kind = f.kind /\ g.left = f.left /\ g.page = f.page
  <2> SUFFICES ASSUME NEW f \in fetches, NEW g, g = [f EXCEPT !.active = FALSE]
               PROVE  g \in Fetch /\ ~g.active /\ g.kind = f.kind /\ g.left = f.left /\ g.page = f.page
    BY Zenon DEF Overview!Left
  <2> DEFINE off == FALSE
  <2>1. off \in BOOLEAN /\ ~off /\ g = [f EXCEPT !.active = off]
    OBVIOUS
  <2> HIDE DEF off
  <2>2. f \in Fetch
    BY <1>2
  <2> QED BY <2>1, <2>2 DEF Fetch
<1>4. \A g \in begun : /\ g \in Fetch /\ g.active /\ g.repo = r /\ g.left = {} /\ g.page = 0
  <2> SUFFICES ASSUME r \in Able, NEW k \in Fetched, NEW g,
                      g = [kind |-> k, repo |-> r, active |-> TRUE, page |-> 0, left |-> {}, failed |-> FALSE]
               PROVE  g \in Fetch /\ g.active /\ g.repo = r /\ g.left = {} /\ g.page = 0
    BY Zenon DEF Overview!Begun, Fetched
  <2> DEFINE on == TRUE
             off == FALSE
             none == {}
  <2>1. /\ g = [kind |-> k, repo |-> r, active |-> on, page |-> 0, left |-> none, failed |-> off]
        /\ on \in BOOLEAN /\ on /\ off \in BOOLEAN /\ none \in SUBSET Overview!Names /\ none = {}
    OBVIOUS
  <2>2. 0 \in 0 .. RootPages
    BY <1>2 DEF OverviewBounds
  <2> HIDE DEF on, off, none
  <2> QED BY <2>1, <2>2 DEF Fetch
<1>5. r \in Able => \A k \in Fetched : \E g \in begun : g.kind = k
  <2> SUFFICES ASSUME r \in Able, NEW k \in Fetched PROVE \E g \in begun : g.kind = k
    OBVIOUS
  <2> DEFINE g == [kind |-> k, repo |-> r, active |-> TRUE, page |-> 0, left |-> {}, failed |-> FALSE]
  <2>1. g \in begun
    BY Zenon DEF Overview!Begun, Fetched
  <2>2. g.kind = k
    OBVIOUS
  <2> QED BY <2>1, <2>2
<1>6. busy \in SUBSET Fetched /\ verdict \in Verdicts /\ verdict \in {"unable", "none yet"}
  BY DEF Verdicts
<1>7. r \notin Able => busy = {}
  OBVIOUS
<1> HIDE DEF begun, busy, verdict
<1>8. seen' \in Seen
  BY <1>1, <1>6 DEF Seen
<1>9. OverviewBounds' /\ OverviewKnown'
  BY <1>1, <1>2, <1>3, <1>4, <1>8 DEF OverviewBounds, OverviewKnown
<1>10. Active'
  BY <1>1, <1>3, <1>4 DEF Active
<1>11. \A g \in fetches' : g.kind = "readme" => Sound(g)'
  <2>1. Overview!Within' = Overview!Within
    BY <1>1 DEF Overview!Within, Overview!Root
  <2>2. ASSUME NEW g \in Overview!Left, g.kind = "readme" PROVE Sound(g)'
    BY <1>1, <1>3, <2>1, <2>2 DEF OverviewInv, Sound
  <2>3. ASSUME NEW g \in begun PROVE Sound(g)'
    BY <1>2, <1>4, <2>3 DEF OverviewBounds, Sound
  <2> QED BY <1>1, <2>2, <2>3
<1>12. Overview!OverviewIsOwn'
  BY <1>1, <1>4, <1>5, <1>6, <1>7 DEF Overview!OverviewIsOwn
<1>13. Overview!ReadmeIsPreferred'
  BY <1>1, <1>6 DEF Overview!ReadmeIsPreferred
<1> QED BY <1>9, <1>10, <1>11, <1>12, <1>13 DEF OverviewInv

LEMMA OverviewStep ==
    ASSUME OverviewInv, [Overview!OverviewNext]_(Overview!overviewVars)
    PROVE  OverviewInv'
<1>1. CASE UNCHANGED Overview!overviewVars
  <2>1. UNCHANGED <<remote, seen, fetches, visits>>
    BY <1>1 DEF Overview!overviewVars
  <2> QED BY <2>1 DEF OverviewInv, OverviewBounds, OverviewKnown, Active, Sound, Overview!Within,
                      Overview!Root, Overview!OverviewIsOwn, Overview!ReadmeIsPreferred
<1>2. ASSUME NEW f \in fetches, \/ Overview!LatestArrives(f) \/ Overview!RootArrives(f)
                                \/ Overview!FileArrives(f) \/ Overview!RootFails(f)
      PROVE  OverviewInv'
  BY <1>2, LatestStep, RootStep, FileStep
<1> QED BY <1>1, <1>2, SelectStep DEF Overview!OverviewNext

(* What the overview of a linked repository shows is of the selected        *)
(* repository, and it is busy only while something is fetched for it; the   *)
(* README is the best that the provider hands out of those in the searched  *)
(* part of the root, and "no README" is said only of a root, or of a        *)
(* searched part of it, that has none (the effects of the overview in       *)
(* RepositoryHubPanel.tsx).  For any root, any number of names and pages    *)
(* and any page limit.                                                      *)
THEOREM OverviewIsTrue ==
    ASSUME Overview!OverviewAssumption
    PROVE  Overview!OverviewSpec => [](/\ Overview!OverviewTypeOK /\ Overview!OverviewIsOwn
                                       /\ Overview!ReadmeIsPreferred)
<1>1. Overview!OverviewInit => OverviewInv
  <2> SUFFICES ASSUME Overview!OverviewInit PROVE OverviewInv
    OBVIOUS
  <2> DEFINE none == {}
             yet == "none yet"
  <2>1. /\ seen = [selected |-> NoOne, release |-> NoOne, tag |-> NoOne, readme |-> NoOne,
                  verdict |-> yet, busy |-> none]
        /\ fetches = {}
    BY Zenon DEF Overview!OverviewInit
  <2>6. remote \in Remote
    <3> DEFINE pages == [Overview!Names -> 0 .. RootPages]
               kinds == [Overview!Names -> Found]
    <3>1. PICK page \in pages, kind \in kinds : remote = [page |-> page, kind |-> kind]
      BY Zenon DEF Overview!OverviewInit, Found
    <3> HIDE DEF pages, kinds
    <3>2. remote \in [page : pages, kind : kinds]
      BY <3>1
    <3> QED BY <3>2 DEF Remote, pages, kinds
  <2>7. none \in SUBSET Fetched /\ (\A k \in none : FALSE) /\ yet \in Verdicts /\ yet = "none yet"
    BY DEF Verdicts
  <2>2. OverviewBounds
    BY DEF OverviewBounds, Overview!OverviewAssumption
  <2> HIDE DEF none, yet
  <2>3. seen \in Seen
    BY <2>1, <2>7 DEF Seen
  <2>4. OverviewKnown
    BY <2>1, <2>3, <2>6 DEF OverviewKnown
  <2>5. Active /\ Overview!OverviewIsOwn /\ Overview!ReadmeIsPreferred
    BY <2>1, <2>7 DEF Active, Overview!OverviewIsOwn, Overview!ReadmeIsPreferred
  <2> QED BY <2>1, <2>2, <2>4, <2>5 DEF OverviewInv
<1>2. OverviewInv => Overview!OverviewTypeOK /\ Overview!OverviewIsOwn /\ Overview!ReadmeIsPreferred
  <2> SUFFICES ASSUME OverviewInv PROVE Overview!OverviewTypeOK
    BY DEF OverviewInv
  <2>1. seen \in Seen /\ fetches \subseteq Fetch
    BY DEF OverviewInv, OverviewKnown
  <2>2. \A f \in fetches : f.repo \in Able /\ f.left \subseteq Overview!Names
    BY <2>1 DEF Fetch
  <2>3. /\ {seen.selected, seen.release, seen.tag} \subseteq Linkable \cup {NoOne}
        /\ seen.busy \subseteq {"release", "tag", "readme"}
    BY <2>1 DEF Seen, Fetched
  <2> QED BY <2>2, <2>3 DEF Overview!OverviewTypeOK
<1> QED BY <1>1, <1>2, OverviewStep, PTL DEF Overview!OverviewSpec

=============================================================================
