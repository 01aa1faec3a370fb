--------------------------- MODULE RepositoryHub ---------------------------
(***************************************************************************)
(* One provider account of the Repository Hub: its connection with the     *)
(* stored OAuth credential, the repositories linked through it, and the    *)
(* callers that import or synchronise a repository, refreshing an expired  *)
(* credential on the way (RepositoryHubService in                          *)
(* internal/application/repository_hub.go, its store in                    *)
(* internal/storage/sqlite/repository_hub.go).                             *)
(*                                                                         *)
(* A call reads the store, talks to the provider, and writes the store     *)
(* again without a transaction around them; each of these is one action.   *)
(* A credential is the number of its grant: an access token and a refresh  *)
(* token that the provider exchanges once; one that is not replaced by its *)
(* use needs none of this.  A link is known by its repository, not by the  *)
(* identifier of its row, so a call may also go on after its link was      *)
(* removed and made anew.  Encryption, metadata, account verification and  *)
(* the one-time OAuth state are left out.                                  *)
(***************************************************************************)
EXTENDS Naturals, FiniteSets

CONSTANTS
    Caller,        \* concurrent requests to the server
    Repository,    \* repositories of the account, by external identifier
    MaxIds,        \* bound: connection rows ever made
    MaxGrants,     \* bound: credentials ever granted
    Free           \* nobody holds refreshMu

ASSUME HubAssumption ==
    /\ Free \notin Caller
    /\ MaxIds \in Nat \ {0}
    /\ MaxGrants \in Nat \ {0}

None == 0   \* no connection, no credential

VARIABLES
    connection,    \* the identifier of the account's connection row, or None
    lastId,        \* identifiers are numbered; the last one made
    stored,        \* the credential in the row, or None
    links,         \* repository -> the connection its link belongs to, or None
    granted,       \* how many credentials the provider has granted
    expired,       \* credentials whose access token is out of date
    spent,         \* credentials whose refresh token was exchanged
    lost,          \* spent ones whose replacement never reached the store
    refreshMu,     \* the caller that holds the lock, or Free
    phase,         \* caller -> where it is
    task,          \* caller -> what it was asked to do
    held           \* caller -> connection and credential it has read

vars == <<connection, lastId, stored, links, granted, expired, spent, lost, refreshMu,
          phase, task, held>>

account == <<connection, lastId, stored>>

provider == <<granted, expired, spent>>

callers == <<phase, task, held>>

Idle == [kind |-> "none"]

Nothing == [id |-> None, credential |-> None, from |-> None]

Init ==
    /\ connection = None
    /\ lastId = 0
    /\ stored = None
    /\ links = [r \in Repository |-> None]
    /\ granted = 0
    /\ expired = {}
    /\ spent = {}
    /\ lost = {}
    /\ refreshMu = Free
    /\ phase = [c \in Caller |-> "idle"]
    /\ task = [c \in Caller |-> Idle]
    /\ held = [c \in Caller |-> Nothing]

-----------------------------------------------------------------------------
(* The user's own operations                                               *)

\* SaveHubConnection for a connection without an identifier: the account's row
\* is inserted under a new one, or keeps the one it has.
Connect ==
    /\ granted < MaxGrants
    /\ granted' = granted + 1
    /\ stored' = granted'
    /\ IF connection = None
       THEN /\ lastId < MaxIds
            /\ lastId' = lastId + 1
            /\ connection' = lastId'
       ELSE UNCHANGED <<connection, lastId>>
    /\ UNCHANGED <<links, expired, spent, lost, refreshMu, callers>>

\* The row goes, and by the foreign key every link with it.
DeleteConnection ==
    /\ connection # None
    /\ connection' = None
    /\ stored' = None
    /\ links' = [r \in Repository |-> None]
    /\ UNCHANGED <<lastId, provider, lost, refreshMu, callers>>

UnlinkRepository(r) ==
    /\ links[r] # None
    /\ links' = [links EXCEPT ![r] = None]
    /\ UNCHANGED <<account, provider, lost, refreshMu, callers>>

-----------------------------------------------------------------------------
(* ProviderCredential                                                      *)

Goto(c, p) == phase' = [phase EXCEPT ![c] = p]

\* The call returns, with its result or an error.
Return(c) ==
    /\ phase' = [phase EXCEPT ![c] = "idle"]
    /\ task' = [task EXCEPT ![c] = Idle]
    /\ held' = [held EXCEPT ![c] = Nothing]

\* The connection is read: that of the linked repository, or the one chosen.
Begin(c, t) ==
    /\ phase[c] = "idle"
    /\ connection # None
    /\ t.kind = "sync" => links[t.repository] = connection
    /\ task' = [task EXCEPT ![c] = t]
    /\ held' = [held EXCEPT ![c] = [id |-> connection, credential |-> stored, from |-> None]]
    /\ Goto(c, IF stored \in expired THEN "locking" ELSE "calling")
    /\ UNCHANGED <<account, links, provider, lost, refreshMu>>

\* Under the lock the connection is read again; somebody else may have
\* refreshed it, or removed it.
ReadOnce(c) == held[c].credential

ReadAgain(c) == stored

LockRefresh(c) ==
    /\ phase[c] = "locking"
    /\ refreshMu = Free
    /\ \/ /\ connection # held[c].id
          /\ Return(c)
          /\ UNCHANGED refreshMu
       \/ /\ connection = held[c].id
          /\ held' = [held EXCEPT ![c].credential = ReadAgain(c)]
          /\ IF held'[c].credential \in expired
             THEN Goto(c, "refreshing") /\ refreshMu' = c
             ELSE Goto(c, "calling") /\ UNCHANGED refreshMu
          /\ UNCHANGED task
    /\ UNCHANGED <<account, links, provider, lost>>

\* The provider exchanges the refresh token for a new credential.
Exchange(c) ==
    /\ phase[c] = "refreshing"
    /\ held[c].credential \notin spent
    /\ granted < MaxGrants
    /\ granted' = granted + 1
    /\ spent' = spent \cup {held[c].credential}
    /\ UNCHANGED expired

RefreshAnswered(c) ==
    /\ Exchange(c)
    /\ held' = [held EXCEPT ![c].credential = granted', ![c].from = held[c].credential]
    /\ Goto(c, "saving")
    /\ UNCHANGED <<account, links, lost, refreshMu, task>>

\* The answer does not arrive: the connection breaks or the client leaves.
RefreshLost(c) ==
    /\ Exchange(c)
    /\ lost' = lost \cup {held[c].credential}
    /\ refreshMu' = Free
    /\ Return(c)
    /\ UNCHANGED <<account, links>>

RefreshRefusedStillLocked(c) ==
    /\ phase[c] = "refreshing"
    /\ Return(c)
    /\ UNCHANGED <<account, links, provider, lost, refreshMu>>

RefreshRefused(c) ==
    /\ phase[c] = "refreshing"
    /\ refreshMu' = Free
    /\ Return(c)
    /\ UNCHANGED <<account, links, provider, lost>>

\* SaveHubConnection for the connection as it was read: the credential of the
\* account's row is replaced, or the row inserted again under that identifier.
\* A synchronisation gives up if its repository belongs to another connection.
StoreOldCredential(c) == held[c].from

StoreNewCredential(c) == held[c].credential

SaveRefreshed(c) ==
    /\ phase[c] = "saving"
    /\ connection' = IF connection = None THEN held[c].id ELSE connection
    /\ stored' = StoreNewCredential(c)
    /\ refreshMu' = Free
    /\ IF task[c].kind = "sync" /\ connection' # held[c].id
       THEN Return(c)
       ELSE /\ held' = [held EXCEPT ![c].id = connection', ![c].from = None]
            /\ Goto(c, "calling")
            /\ UNCHANGED task
    /\ UNCHANGED <<lastId, links, provider, lost>>

SaveFails(c) ==
    /\ phase[c] = "saving"
    /\ lost' = lost \cup {held[c].from}
    /\ refreshMu' = Free
    /\ Return(c)
    /\ UNCHANGED <<account, links, provider>>

-----------------------------------------------------------------------------
(* SyncHubRepository and ImportSelectedProviderRepository                  *)

\* After the provider's answer a synchronisation reads the link again, also to
\* note an error in it; an import reads the connection again.
Answered(c) ==
    /\ phase[c] = "calling"
    /\ LET now == IF task[c].kind = "sync" THEN links[task[c].repository]
                  ELSE IF connection = held[c].id THEN connection ELSE None
       IN  IF now = None
           THEN Return(c)
           ELSE /\ held' = [held EXCEPT ![c].id = now]
                /\ Goto(c, "writing")
                /\ UNCHANGED task
    /\ UNCHANGED <<account, links, provider, lost, refreshMu>>

\* An import ends with the provider's error.
ImportFails(c) ==
    /\ phase[c] = "calling"
    /\ task[c].kind = "import"
    /\ Return(c)
    /\ UNCHANGED <<account, links, provider, lost, refreshMu>>

\* UpsertHubRepository: inserted or updated, if the foreign key allows it.
WritableAlways(c) == TRUE

Writable(c) == connection = held[c].id

UpsertHubRepository(c) ==
    /\ phase[c] = "writing"
    /\ links' = IF Writable(c) THEN [links EXCEPT ![task[c].repository] = held[c].id]
                ELSE links
    /\ Return(c)
    /\ UNCHANGED <<account, provider, lost, refreshMu>>

-----------------------------------------------------------------------------

AccessTokenExpires ==
    /\ stored # None
    /\ expired' = expired \cup {stored}
    /\ UNCHANGED <<account, links, granted, spent, lost, refreshMu, callers>>

\* The server stops and starts again: calls and the lock are gone, and with
\* them a credential that was granted and not yet stored.
Restart ==
    /\ lost' = lost \cup {held[c].from : c \in {d \in Caller : phase[d] = "saving"}}
    /\ refreshMu' = Free
    /\ phase' = [c \in Caller |-> "idle"]
    /\ task' = [c \in Caller |-> Idle]
    /\ held' = [c \in Caller |-> Nothing]
    /\ UNCHANGED <<account, links, provider>>

Tasks == [kind : {"sync", "import"}, repository : Repository]

Step(c) ==
    \/ LockRefresh(c) \/ RefreshAnswered(c) \/ RefreshLost(c) \/ RefreshRefused(c)
    \/ SaveRefreshed(c) \/ SaveFails(c)
    \/ Answered(c) \/ ImportFails(c) \/ UpsertHubRepository(c)

Next ==
    \/ \E c \in Caller : Step(c) \/ \E t \in Tasks : Begin(c, t)
    \/ \E r \in Repository : UnlinkRepository(r)
    \/ Connect \/ DeleteConnection \/ AccessTokenExpires \/ Restart

Spec == Init /\ [][Next]_vars

\* Every request to a provider has a time-out of twenty seconds, the lock is
\* released on every way out, and a Go mutex lets nobody wait for ever.
Fairness ==
    \A c \in Caller : WF_vars(Step(c)) /\ SF_vars(LockRefresh(c))

FairSpec == Spec /\ Fairness

-----------------------------------------------------------------------------
(* Properties                                                              *)

\* A link belongs to the account's present connection, however a call that
\* began under an earlier connection ends (hub_repositories.connection_id with
\* its foreign key; remoteContext's and ImportRepository's checks).
LinksFollowConnection == \A r \in Repository : links[r] \in {None, connection}

\* "Serialize the refresh operation and re-read the stored envelope after
\* taking the lock so concurrent requests do not reuse a stale token": a refresh
\* token that was exchanged is presented again only if the provider's answer to
\* the exchange was lost (ProviderCredential).
StaleTokenOnlyAfterLoss ==
    \A c \in Caller : phase[c] = "refreshing" => held[c].credential \notin spent \ lost

\* The credential in the store can still be refreshed, unless its replacement
\* is on its way to the store or was lost: no interleaving of refreshes and new
\* connections leaves the account with a credential that was used up.
StoredCredentialUsable ==
    stored \in spent =>
        \/ stored \in lost
        \/ \E c \in Caller : phase[c] = "saving" /\ held[c].from = stored

\* Nobody is left behind the lock, although it is held across a request to the
\* provider.
EveryCallReturns == \A c \in Caller : phase[c] # "idle" ~> phase[c] = "idle"

\* "Disconnecting a provider removes the connection": a connection that was
\* removed does not return; one that appears was made by connecting anew, under
\* a new identifier.  A refresh in flight inserts the old one again
\* (ProviderCredential, SaveHubConnection).
DisconnectedStaysGone ==
    [][connection = None /\ connection' # None => connection' > lastId]_vars
=============================================================================
