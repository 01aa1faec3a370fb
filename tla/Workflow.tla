------------------------------ MODULE Workflow ------------------------------
(***************************************************************************)
(* The work-tracking core of an IDIOS workspace: local repositories with   *)
(* their workflow branches, issues with sub-issues and depends_on edges,   *)
(* pull requests covering one or more issues, and the completion records   *)
(* that accepting a pull request appends to a branch.                      *)
(*                                                                         *)
(* Every operation of internal/storage/sqlite ends in one BEGIN IMMEDIATE  *)
(* transaction (or one guarded UPDATE) that re-reads whatever it decides   *)
(* on.  The reads that application and store make before the transaction   *)
(* can only refuse earlier, on the conditions that the transaction checks  *)
(* again, so one action below is one such transaction with its guards;     *)
(* the one edit that does carry a value out of an early read is modelled   *)
(* in PullRequestEdits.                                                    *)
(*                                                                         *)
(* An identifier is a fresh UUID in the code: an element of a constant set *)
(* here, "absent" until it is created and never used again once deleted.   *)
(* Titles, numbers, dates, labels, activity rows and virtual files are     *)
(* left out.                                                               *)
(***************************************************************************)
EXTENDS Naturals

CONSTANTS
    Repo, Branch, Issue, PR,   \* identifiers
    RepoOf,                    \* the repository an issue is created in
    BranchRepo,                \* the repository a branch is created in
    DefaultBranch,             \* the branch created together with a repository
    None                       \* a NULL reference

ASSUME ConstantsAssumption ==
    /\ RepoOf \in [Issue -> Repo]
    /\ BranchRepo \in [Branch -> Repo]
    /\ DefaultBranch \in [Repo -> Branch]
    /\ \A r \in Repo : BranchRepo[DefaultBranch[r]] = r
    /\ None \notin Issue \cup PR \cup Branch

VARIABLES
    repositories,      \* repository -> "absent" | "live" | "deleted"
    branches,          \* the branches that exist
    status,            \* issue -> its status, or "absent" / "deleted"
    parent,            \* issue -> its parent issue, or None
    dependsOn,         \* the pairs <<issue, prerequisite>>
    prStatus,          \* pull request -> its status, or "absent" / "deleted"
    draft,             \* pull request -> is_draft
    members,           \* pull request -> the issues it covers
    target,            \* pull request -> its target branch, or None
    sequence,          \* pull request -> sequence of its completion, 0 if none
    parentCompletion   \* pull request -> pull request of the previous completion

vars == <<repositories, branches, status, parent, dependsOn, prStatus, draft,
          members, target, sequence, parentCompletion>>

repoVars  == <<repositories, branches>>
issueVars == <<status, parent, dependsOn>>
prVars    == <<prStatus, draft, members, target>>
completionVars == <<sequence, parentCompletion>>

-----------------------------------------------------------------------------
(* Reading the tables                                                      *)

Exists(i) == status[i] \notin {"absent", "deleted"}

PRExists(p) == prStatus[p] \notin {"absent", "deleted"}

\* A pull request belongs to the repository of its target branch.
PRRepo(p) == BranchRepo[target[p]]

ParentEdges == {<<c, parent[c]>> : c \in {i \in Issue : parent[i] # None}}

\* What the recursive common table expressions compute: everything reachable
\* from `from` along `edges`, that is, the least closed set that contains it.
Reachable(edges, from) ==
    {x \in Issue : \A S \in SUBSET Issue :
        (from \in S /\ \A e \in edges : e[1] \in S => e[2] \in S) => x \in S}

\* AddDependency's check: does `p` already wait, directly or not, on `i`?
WaitsDirectlyOn(p, i) == p = i \/ <<p, i>> \in dependsOn

WaitsOn(p, i) == i \in Reachable(dependsOn, p)

\* AssignIssueParent's check: is `q` a sub-issue, at any depth, of `i`?
IsChildOf(q, i) == parent[q] = i

IsDescendantOf(q, i) == q # i /\ i \in Reachable(ParentEdges, q)

\* blockersFor: unfinished prerequisites and sub-issues that are still open.
\* A cancelled prerequisite blocks; a cancelled sub-issue does not.
PrerequisiteBlockers(i) == {p \in Issue : <<i, p>> \in dependsOn /\ status[p] # "done"}

SubIssueBlockers(i) ==
    {c \in Issue : parent[c] = i /\ status[c] \in {"open", "in_progress"}}

Blockers(i) == PrerequisiteBlockers(i) \cup SubIssueBlockers(i)

\* A parent is accepted while it is open and in the same repository.
ParentAllowed(i, q) == status[q] = "open" /\ RepoOf[q] = RepoOf[i]

\* requireOpenDependent.
DependentExists(i) == Exists(i)

DependentOpen(i) == status[i] = "open"

\* The pull requests, open or accepted, that already cover an issue.
AcceptedCover(i) == {p \in PR : prStatus[p] = "accepted" /\ i \in members[p]}

ActiveCover(i) == {p \in PR : prStatus[p] \in {"open", "accepted"} /\ i \in members[p]}

\* A mistaken form of the check below, that overlooks open pull requests.
UncoveredByAccepted(i) == AcceptedCover(i) = {}

\* What CreatePullRequest asks of every issue before it inserts the row.
Uncovered(i) == ActiveCover(i) = {}

\* nextCompletion: one more than the latest sequence of the branch, and a link
\* to that latest record.
Completed(b) == {p \in PR : sequence[p] > 0 /\ target[p] = b}

Latest(b) == CHOOSE p \in Completed(b) : \A q \in Completed(b) : sequence[q] <= sequence[p]

NextSequenceSkips(b) == IF Completed(b) = {} THEN 1 ELSE sequence[Latest(b)] + 2

NextSequence(b) == IF Completed(b) = {} THEN 1 ELSE sequence[Latest(b)] + 1

NextParentNumber(b) == IF Completed(b) = {} THEN None ELSE sequence[Latest(b)]

NextParent(b) == IF Completed(b) = {} THEN None ELSE Latest(b)

-----------------------------------------------------------------------------
(* Repositories and branches                                               *)

Init ==
    /\ repositories = [r \in Repo |-> "absent"]
    /\ branches = {}
    /\ status = [i \in Issue |-> "absent"]
    /\ parent = [i \in Issue |-> None]
    /\ dependsOn = {}
    /\ prStatus = [p \in PR |-> "absent"]
    /\ draft = [p \in PR |-> FALSE]
    /\ members = [p \in PR |-> {}]
    /\ target = [p \in PR |-> None]
    /\ sequence = [p \in PR |-> 0]
    /\ parentCompletion = [p \in PR |-> None]

\* The repository row and its default branch are inserted together.
CreateRepository(r) ==
    /\ repositories[r] = "absent"
    /\ repositories' = [repositories EXCEPT ![r] = "live"]
    /\ branches' = branches \cup {DefaultBranch[r]}
    /\ UNCHANGED <<issueVars, prVars, completionVars>>

CreateBranch(b) ==
    /\ repositories[BranchRepo[b]] = "live"
    /\ b \notin branches
    /\ branches' = branches \cup {b}
    /\ UNCHANGED <<repositories, issueVars, prVars, completionVars>>

\* Dependencies with one end in a deleted repository; the mistaken version
\* keeps what other repositories' issues still wait for.
EdgesLeavingRepo(r) == {e \in dependsOn : RepoOf[e[1]] = r}

EdgesTouchingRepo(r) == {e \in dependsOn : RepoOf[e[1]] = r \/ RepoOf[e[2]] = r}

\* Deletes everything the repository owns, in one transaction: dependency
\* edges at either end, parent links, completions, pull requests, issues,
\* branches, the repository itself.
DeleteRepository(r) ==
    LET own   == {i \in Issue : RepoOf[i] = r}
        ownPR == {p \in PR : target[p] # None /\ PRRepo(p) = r}
    IN  /\ repositories[r] = "live"
        /\ repositories' = [repositories EXCEPT ![r] = "deleted"]
        /\ branches' = {b \in branches : BranchRepo[b] # r}
        /\ status' = [i \in Issue |->
                        IF i \in own /\ Exists(i) THEN "deleted" ELSE status[i]]
        /\ parent' = [i \in Issue |->
                        IF i \in own \/ parent[i] \in own THEN None ELSE parent[i]]
        /\ dependsOn' = dependsOn \ EdgesTouchingRepo(r)
        /\ prStatus' = [p \in PR |-> IF p \in ownPR THEN "deleted" ELSE prStatus[p]]
        /\ draft' = [p \in PR |-> IF p \in ownPR THEN FALSE ELSE draft[p]]
        /\ members' = [p \in PR |-> IF p \in ownPR THEN {} ELSE members[p]]
        /\ target' = [p \in PR |-> IF p \in ownPR THEN None ELSE target[p]]
        /\ sequence' = [p \in PR |-> IF p \in ownPR THEN 0 ELSE sequence[p]]
        /\ parentCompletion' =
             [p \in PR |-> IF p \in ownPR \/ parentCompletion[p] \in ownPR
                           THEN None ELSE parentCompletion[p]]

-----------------------------------------------------------------------------
(* Issues                                                                  *)

CreateIssue(i, q) ==
    /\ status[i] = "absent"
    /\ repositories[RepoOf[i]] = "live"
    /\ q # None => ParentAllowed(i, q)
    /\ status' = [status EXCEPT ![i] = "open"]
    /\ parent' = [parent EXCEPT ![i] = q]
    /\ UNCHANGED <<repoVars, dependsOn, prVars, completionVars>>

\* None clears the link.  The status of the sub-issue itself is not looked at.
AssignIssueParent(i, q) ==
    /\ Exists(i)
    /\ q # None => q # i /\ ParentAllowed(i, q) /\ ~IsDescendantOf(q, i)
    /\ parent' = [parent EXCEPT ![i] = q]
    /\ UNCHANGED <<repoVars, status, dependsOn, prVars, completionVars>>

\* CancelIssue through SetIssueStatus: one guarded UPDATE.  Pull requests that
\* cover the issue are left as they are.
CancelIssue(i) ==
    /\ status[i] \in {"open", "in_progress"}
    /\ status' = [status EXCEPT ![i] = "cancelled"]
    /\ UNCHANGED <<repoVars, parent, dependsOn, prVars, completionVars>>

\* Starting an issue that is already in progress is allowed and checks again.
StartIssueUnchecked(i) ==
    /\ status[i] \in {"open", "in_progress"}
    /\ status' = [status EXCEPT ![i] = "in_progress"]
    /\ UNCHANGED <<repoVars, parent, dependsOn, prVars, completionVars>>

StartIssue(i) ==
    /\ status[i] \in {"open", "in_progress"}
    /\ Blockers(i) = {}
    /\ status' = [status EXCEPT ![i] = "in_progress"]
    /\ UNCHANGED <<repoVars, parent, dependsOn, prVars, completionVars>>

\* The prerequisite may have any status and be in any repository; a second
\* identical edge is refused by the primary key.
AddDependency(i, p) ==
    /\ i # p
    /\ Exists(p)
    /\ DependentOpen(i)
    /\ ~WaitsOn(p, i)
    /\ <<i, p>> \notin dependsOn
    /\ dependsOn' = dependsOn \cup {<<i, p>>}
    /\ UNCHANGED <<repoVars, status, parent, prVars, completionVars>>

RemoveDependency(i, p) ==
    /\ DependentOpen(i)
    /\ <<i, p>> \in dependsOn
    /\ dependsOn' = dependsOn \ {<<i, p>>}
    /\ UNCHANGED <<repoVars, status, parent, prVars, completionVars>>

\* What stops the deletion of an issue: sub-issues, issues that wait on it, and
\* pull requests or completions that name it.  The query on pull_requests sees
\* only the first issue of each, the restricting foreign key of
\* pull_request_issues sees the others, so every membership counts.
Unreferenced(i) ==
    /\ \A c \in Issue : parent[c] # i
    /\ \A j \in Issue : <<j, i>> \notin dependsOn
    /\ \A p \in PR : i \notin members[p]

DeleteIssue(i) ==
    /\ Exists(i)
    /\ Unreferenced(i)
    /\ status' = [status EXCEPT ![i] = "deleted"]
    /\ parent' = [parent EXCEPT ![i] = None]
    /\ dependsOn' = {e \in dependsOn : e[1] # i}
    /\ UNCHANGED <<repoVars, prVars, completionVars>>

-----------------------------------------------------------------------------
(* Pull requests and completions                                           *)

\* The issues are one or more, of one repository, each in progress, unblocked
\* and in no other active pull request.  The source branch constrains only
\* itself (it must differ from the target) and is left out.
CreatePullRequest(p, issues, b, isDraft) ==
    /\ prStatus[p] = "absent"
    /\ issues # {}
    /\ b \in branches
    /\ \A i \in issues :
         /\ RepoOf[i] = BranchRepo[b]
         /\ status[i] = "in_progress"
         /\ Blockers(i) = {}
         /\ Uncovered(i)
    /\ prStatus' = [prStatus EXCEPT ![p] = "open"]
    /\ draft' = [draft EXCEPT ![p] = isDraft]
    /\ members' = [members EXCEPT ![p] = issues]
    /\ target' = [target EXCEPT ![p] = b]
    /\ UNCHANGED <<repoVars, issueVars, completionVars>>

MarkPullRequestReady(p) ==
    /\ prStatus[p] = "open"
    /\ draft[p]
    /\ draft' = [draft EXCEPT ![p] = FALSE]
    /\ UNCHANGED <<repoVars, issueVars, prStatus, members, target, completionVars>>

ClosePullRequest(p) ==
    /\ prStatus[p] = "open"
    /\ prStatus' = [prStatus EXCEPT ![p] = "closed"]
    /\ UNCHANGED <<repoVars, issueVars, draft, members, target, completionVars>>

\* The only way to "done": the pull request is accepted, its completion is
\* appended to the target branch and all its issues are closed together.
CanMergeFirstIssueOnly(p) ==
    /\ \E i \in members[p] : status[i] = "in_progress" /\ Blockers(i) = {}

CanMerge(p) ==
    /\ members[p] # {}
    /\ \A i \in members[p] : status[i] = "in_progress" /\ Blockers(i) = {}

AcceptPullRequest(p) ==
    /\ prStatus[p] = "open"
    /\ ~draft[p]
    /\ CanMerge(p)
    /\ prStatus' = [prStatus EXCEPT ![p] = "accepted"]
    /\ sequence' = [sequence EXCEPT ![p] = NextSequence(target[p])]
    /\ parentCompletion' = [parentCompletion EXCEPT ![p] = NextParent(target[p])]
    /\ status' = [i \in Issue |->
                    IF i \in members[p] /\ status[i] = "in_progress"
                    THEN "done" ELSE status[i]]
    /\ UNCHANGED <<repoVars, parent, dependsOn, draft, members, target>>

\* Refused once the pull request has completion history.
HasNoRecord(p) == TRUE

NoCompletion(p) == sequence[p] = 0

DeletePullRequest(p) ==
    /\ PRExists(p)
    /\ NoCompletion(p)
    /\ prStatus' = [prStatus EXCEPT ![p] = "deleted"]
    /\ draft' = [draft EXCEPT ![p] = FALSE]
    /\ members' = [members EXCEPT ![p] = {}]
    /\ target' = [target EXCEPT ![p] = None]
    /\ UNCHANGED <<repoVars, issueVars, completionVars>>

-----------------------------------------------------------------------------

RepositoryStep ==
    \/ \E r \in Repo : CreateRepository(r) \/ DeleteRepository(r)
    \/ \E b \in Branch : CreateBranch(b)

IssueStep ==
    \E i \in Issue :
        \/ CancelIssue(i) \/ StartIssue(i) \/ DeleteIssue(i)
        \/ \E q \in Issue \cup {None} : CreateIssue(i, q) \/ AssignIssueParent(i, q)
        \/ \E p \in Issue : AddDependency(i, p) \/ RemoveDependency(i, p)

PullRequestStep ==
    \E p \in PR :
        \/ \E issues \in SUBSET Issue, b \in Branch, isDraft \in BOOLEAN :
              CreatePullRequest(p, issues, b, isDraft)
        \/ MarkPullRequestReady(p) \/ ClosePullRequest(p)
        \/ AcceptPullRequest(p) \/ DeletePullRequest(p)

Next == RepositoryStep \/ IssueStep \/ PullRequestStep

Spec == Init /\ [][Next]_vars

-----------------------------------------------------------------------------
(* Properties                                                              *)

IssueStatus == {"absent", "open", "in_progress", "done", "cancelled", "deleted"}

PRStatus == {"absent", "open", "accepted", "closed", "deleted"}

\* Every table holds rows of its shape: in particular a completion's parent
\* link is a completion or NULL.
TypeOK ==
    /\ repositories \in [Repo -> {"absent", "live", "deleted"}]
    /\ branches \subseteq Branch
    /\ status \in [Issue -> IssueStatus]
    /\ parent \in [Issue -> Issue \cup {None}]
    /\ dependsOn \subseteq Issue \X Issue
    /\ prStatus \in [PR -> PRStatus]
    /\ draft \in [PR -> BOOLEAN]
    /\ members \in [PR -> SUBSET Issue]
    /\ target \in [PR -> Branch \cup {None}]
    /\ sequence \in [PR -> Nat]
    /\ parentCompletion \in [PR -> PR \cup {None}]

\* A relation on issues without a cycle: in every non-empty set of issues one
\* has no edge into the set.
Acyclic(edges) ==
    \A S \in SUBSET Issue : S # {} =>
        \E i \in S : \A j \in S : <<i, j>> \notin edges

\* However dependencies are added and removed by different callers, across
\* repositories too, no issue ever waits, at any distance, on itself
\* (AddDependency rejects the edge that would close a cycle).
DependenciesAcyclic == Acyclic(dependsOn)

\* Sub-issues form trees: reassigning parents in any order never makes an
\* issue its own ancestor, and a tree never leaves its repository
\* (CreateIssue and AssignIssueParent).
SubIssueTrees ==
    /\ Acyclic(ParentEdges)
    /\ \A i \in Issue : parent[i] # None => RepoOf[parent[i]] = RepoOf[i]

Started == {i \in Issue : status[i] \in {"in_progress", "done"}}

\* Work that has started never has an unfinished prerequisite: not at the
\* start (StartIssue) and not later, whatever edges are added, issues are
\* cancelled or repositories are deleted meanwhile.
StartedPrerequisitesDone ==
    \A i \in Started, p \in Issue : <<i, p>> \in dependsOn => status[p] = "done"

\* Work that has started never has an open sub-issue: none is left when it
\* starts, and none is created under it or moved under it afterwards
\* (CreateIssue, AssignIssueParent).
StartedSubIssuesClosed ==
    \A i \in Started, c \in Issue :
        parent[c] = i => status[c] \in {"done", "cancelled"}

\* An issue is in at most one pull request that is open or accepted: since
\* migration 0008 no index enforces it, only CreatePullRequest's check.
OneActivePullRequest ==
    \A i \in Issue : \A p, q \in ActiveCover(i) : p = q

\* AcceptPullRequest is the only path to "done": an issue is done exactly when
\* an accepted pull request with a completion record covers it.
DoneIffCompleted ==
    /\ \A i \in Issue : status[i] = "done" <=> AcceptedCover(i) # {}
    /\ \A p \in PR : prStatus[p] = "accepted" <=> sequence[p] > 0

\* The completions of a branch are numbered 1, 2, 3, ... without gap or
\* repetition and each links to the one before it, whatever pull requests
\* are deleted and in which order they are accepted (nextCompletion).
BranchHistoryChained ==
    \A b \in Branch : \A p \in Completed(b) :
        /\ \A q \in Completed(b) : sequence[p] = sequence[q] => p = q
        /\ IF sequence[p] = 1
           THEN parentCompletion[p] = None
           ELSE /\ parentCompletion[p] \in Completed(b)
                /\ sequence[p] = sequence[parentCompletion[p]] + 1

\* No row refers to a deleted one: parents, dependency ends, members, target
\* branches and owning repositories all exist (DeleteIssue's refusals,
\* DeleteRepository's detaching, the foreign keys behind them).
ReferencesResolve ==
    /\ \A i \in Issue : parent[i] # None => Exists(i) /\ Exists(parent[i])
    /\ \A e \in dependsOn : Exists(e[1]) /\ Exists(e[2])
    /\ \A p \in PR : \A i \in members[p] : PRExists(p) /\ Exists(i)
    /\ \A p \in PR : PRExists(p) => target[p] \in branches
    /\ \A b \in branches : repositories[BranchRepo[b]] = "live"
    /\ \A i \in Issue : Exists(i) => repositories[RepoOf[i]] = "live"

\* Completion history is append-only: while its repository lives, a completion
\* keeps its place, its predecessor, its accepted pull request and the
\* pull request's issues, all done (DeleteIssue, DeletePullRequest,
\* CancelIssue, StartIssue never touch them).
HistoryAppendOnly ==
    [][\A p \in PR : sequence[p] > 0 =>
         \/ repositories'[PRRepo(p)] = "deleted"
         \/ /\ sequence'[p] = sequence[p]
            /\ parentCompletion'[p] = parentCompletion[p]
            /\ prStatus'[p] = "accepted"
            /\ members'[p] = members[p]
            /\ \A i \in members[p] : status'[i] = "done"]_vars

\* What an issue waits for is settled when it starts: until it is deleted no
\* prerequisite is added, and one is dropped only when the deletion of its
\* repository takes it away (requireOpenDependent, DeleteIssue's refusal).
StartedDependenciesFrozen ==
    [][\A i \in Started : status'[i] # "deleted" =>
         \A p \in Issue :
            <<i, p>> \in dependsOn' <=> <<i, p>> \in dependsOn /\ status'[p] # "deleted"]_vars

\* The issues of the workspace live as IssueLifecycle promises: accepting a
\* pull request finishes its issues together, deleting a repository erases
\* its issues together, and pull requests, parents and branches are invisible.
Waits == [i \in Issue |-> {p \in Issue : <<i, p>> \in dependsOn}]

Lifecycle == INSTANCE IssueLifecycle WITH life <- status, waits <- Waits

ImplementsLifecycle == Lifecycle!LifecycleSpec
=============================================================================
