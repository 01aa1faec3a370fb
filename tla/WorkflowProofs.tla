--------------------------- MODULE WorkflowProofs ---------------------------
(***************************************************************************)
(* Proofs about Workflow for every set of repositories, branches, issues   *)
(* and pull requests, finite or not; of the edits of one pull request,     *)
(* that they leave records alone and lose a blank field only to an         *)
(* overlapping edit, for any callers and any texts; and of the graph that  *)
(* the workspace is drawn in, that its arrangement is stored as it is      *)
(* called saved, and stays reset, for any changes, resets and openings.    *)
(* The three share no variable.                                            *)
(***************************************************************************)
EXTENDS Workflow, PullRequestEdits, SequencesExt, SequenceTheorems, TLAPS

CONSTANTS MaxChanges, MaxResets, MaxMounts, MaxQueued, Nothing \* of the graph

VARIABLES canvas, load, queues, server, local, past             \* of the graph

Graph == INSTANCE GraphLayouts

\* A branch with completions has one with the largest sequence, so that
\* nextCompletion's ORDER BY sequence DESC LIMIT 1 has a row to return.
LatestExists ==
    \A b \in Branch : Completed(b) = {} \/
        \E p \in Completed(b) : \A q \in Completed(b) : sequence[q] <= sequence[p]

\* What nextCompletion returns.
LEMMA LatestIsLast ==
    ASSUME TypeOK, LatestExists, NEW b \in Branch, Completed(b) # {}
    PROVE  /\ Latest(b) \in Completed(b)
           /\ Latest(b) \in PR
           /\ sequence[Latest(b)] \in Nat
           /\ \A q \in Completed(b) : sequence[q] <= sequence[Latest(b)]
<1>1. \E p \in Completed(b) : \A q \in Completed(b) : sequence[q] <= sequence[p]
  BY DEF LatestExists
<1>2. /\ Latest(b) \in Completed(b)
      /\ \A q \in Completed(b) : sequence[q] <= sequence[Latest(b)]
  BY <1>1 DEF Latest
<1>3. Latest(b) \in PR
  BY <1>2 DEF Completed
<1> QED BY <1>2, <1>3 DEF TypeOK

LEMMA NextSequenceType ==
    ASSUME TypeOK, LatestExists, NEW b \in Branch
    PROVE  /\ NextSequence(b) \in Nat
           /\ NextSequence(b) > 0
           /\ NextParent(b) \in PR \cup {None}
           /\ \A q \in Completed(b) : sequence[q] < NextSequence(b)
<1>1. CASE Completed(b) = {}
  BY <1>1 DEF NextSequence, NextParent
<1>2. CASE Completed(b) # {}
  <2>1. /\ Latest(b) \in PR
        /\ sequence[Latest(b)] \in Nat
        /\ \A q \in Completed(b) : sequence[q] <= sequence[Latest(b)]
    BY <1>2, LatestIsLast
  <2>2. NextSequence(b) = sequence[Latest(b)] + 1 /\ NextParent(b) = Latest(b)
    BY <1>2 DEF NextSequence, NextParent
  <2>3. \A q \in Completed(b) : sequence[q] \in Nat
    BY DEF Completed, TypeOK
  <2> QED BY <2>1, <2>2, <2>3
<1> QED BY <1>1, <1>2

-----------------------------------------------------------------------------
(* Types                                                                   *)

LEMMA TypeInit == Init => TypeOK /\ LatestExists
<1> SUFFICES ASSUME Init PROVE TypeOK /\ LatestExists
  OBVIOUS
<1>1. TypeOK
  BY DEF Init, TypeOK, IssueStatus, PRStatus
<1>2. LatestExists
  BY DEF Init, LatestExists, Completed
<1> QED BY <1>1, <1>2

\* The tables keep their shape.
LEMMA TypeStep == TypeOK /\ LatestExists /\ ReferencesResolve /\ [Next]_vars => TypeOK'
<1> SUFFICES ASSUME TypeOK, LatestExists, ReferencesResolve, [Next]_vars
             PROVE  TypeOK'
  OBVIOUS
<1> USE DEF TypeOK, IssueStatus, PRStatus, repoVars, issueVars, prVars, completionVars
<1>1. ASSUME NEW r \in Repo, CreateRepository(r) PROVE TypeOK'
  <2>1. DefaultBranch[r] \in Branch
    BY ConstantsAssumption
  <2>2. /\ repositories' \in [Repo -> {"absent", "live", "deleted"}]
        /\ branches' \subseteq Branch
    BY <1>1, <2>1 DEF CreateRepository
  <2> QED BY <1>1, <2>2 DEF CreateRepository
<1>2. ASSUME NEW r \in Repo, DeleteRepository(r) PROVE TypeOK'
  <2>1. /\ repositories' \in [Repo -> {"absent", "live", "deleted"}]
        /\ branches' \subseteq Branch
        /\ dependsOn' \subseteq Issue \X Issue
    BY <1>2 DEF DeleteRepository
  <2>2. /\ status' \in [Issue -> IssueStatus]
        /\ parent' \in [Issue -> Issue \cup {None}]
    BY <1>2 DEF DeleteRepository
  <2>3. /\ prStatus' \in [PR -> PRStatus]
        /\ draft' \in [PR -> BOOLEAN]
        /\ members' \in [PR -> SUBSET Issue]
        /\ target' \in [PR -> Branch \cup {None}]
    BY <1>2 DEF DeleteRepository
  <2>4. /\ sequence' \in [PR -> Nat]
        /\ parentCompletion' \in [PR -> PR \cup {None}]
    BY <1>2 DEF DeleteRepository
  <2> QED BY <2>1, <2>2, <2>3, <2>4
<1>3. ASSUME NEW b \in Branch, CreateBranch(b) PROVE TypeOK'
  BY <1>3 DEF CreateBranch
<1>4. ASSUME NEW i \in Issue, CancelIssue(i) \/ StartIssue(i) \/ DeleteIssue(i)
      PROVE  TypeOK'
  BY <1>4 DEF CancelIssue, StartIssue, DeleteIssue
<1>5. ASSUME NEW i \in Issue, NEW q \in Issue \cup {None},
             CreateIssue(i, q) \/ AssignIssueParent(i, q)
      PROVE  TypeOK'
  BY <1>5 DEF CreateIssue, AssignIssueParent
<1>6. ASSUME NEW i \in Issue, NEW p \in Issue, AddDependency(i, p) \/ RemoveDependency(i, p)
      PROVE  TypeOK'
  BY <1>6 DEF AddDependency, RemoveDependency
<1>7. ASSUME NEW p \in PR, NEW issues \in SUBSET Issue, NEW b \in Branch,
             NEW isDraft \in BOOLEAN, CreatePullRequest(p, issues, b, isDraft)
      PROVE  TypeOK'
  BY <1>7 DEF CreatePullRequest
<1>8. ASSUME NEW p \in PR,
             MarkPullRequestReady(p) \/ ClosePullRequest(p) \/ DeletePullRequest(p)
      PROVE  TypeOK'
  BY <1>8 DEF MarkPullRequestReady, ClosePullRequest, DeletePullRequest
<1>9. ASSUME NEW p \in PR, AcceptPullRequest(p) PROVE TypeOK'
  <2>1. target[p] \in Branch
    BY <1>9 DEF AcceptPullRequest, ReferencesResolve, PRExists
  <2>2. NextSequence(target[p]) \in Nat /\ NextParent(target[p]) \in PR \cup {None}
    BY <2>1, NextSequenceType
  <2>3. /\ sequence' \in [PR -> Nat]
        /\ parentCompletion' \in [PR -> PR \cup {None}]
    BY <1>9, <2>2 DEF AcceptPullRequest
  <2>4. /\ status' \in [Issue -> IssueStatus]
        /\ prStatus' \in [PR -> PRStatus]
    BY <1>9 DEF AcceptPullRequest
  <2> QED BY <1>9, <2>3, <2>4 DEF AcceptPullRequest
<1>10. ASSUME UNCHANGED vars PROVE TypeOK'
  BY <1>10 DEF vars
<1> HIDE DEF TypeOK
<1>11. RepositoryStep => TypeOK'
  BY <1>1, <1>2, <1>3, Zenon DEF RepositoryStep
<1>12. IssueStep => TypeOK'
  BY <1>4, <1>5, <1>6, Zenon DEF IssueStep
<1>13. PullRequestStep => TypeOK'
  BY <1>7, <1>8, <1>9, Zenon DEF PullRequestStep
<1> QED BY <1>10, <1>11, <1>12, <1>13 DEF Next

-----------------------------------------------------------------------------
(* Dependencies and sub-issues stay free of cycles                         *)

\* Fewer edges, still no cycle.
LEMMA AcyclicSubset ==
    ASSUME NEW R, NEW Q, Acyclic(R), Q \subseteq R
    PROVE  Acyclic(Q)
BY DEF Acyclic

\* What the recursive queries compute contains its start and is closed.
LEMMA ReachableClosed ==
    ASSUME NEW R, NEW p \in Issue
    PROVE  /\ p \in Reachable(R, p)
           /\ \A e \in R : e[1] \in Reachable(R, p) /\ e[2] \in Issue => e[2] \in Reachable(R, p)
BY DEF Reachable

\* The check both operations make: an edge from i to p closes no cycle when p
\* does not reach i already.
LEMMA AcyclicAddEdge ==
    ASSUME NEW R \in SUBSET (Issue \X Issue), Acyclic(R),
           NEW i \in Issue, NEW p \in Issue, i \notin Reachable(R, p)
    PROVE  Acyclic(R \cup {<<i, p>>})
<1> DEFINE Q == R \cup {<<i, p>>}
<1> SUFFICES ASSUME NEW S \in SUBSET Issue, S # {},
                    \A x \in S : \E y \in S : <<x, y>> \in Q
             PROVE  FALSE
  BY DEF Acyclic
<1>1. \A x \in S : \E y \in S : <<x, y>> \in R \/ (x = i /\ y = p)
  OBVIOUS
<1>2. PICK z \in S : \A y \in S : <<z, y>> \notin R
  BY DEF Acyclic
<1>3. z = i /\ p \in S
  BY <1>1, <1>2
<1> DEFINE T == S \cap Reachable(R, p)
<1>4. T \in SUBSET Issue /\ p \in T /\ i \notin T
  BY <1>3, ReachableClosed
<1>5. PICK x \in T : \A y \in T : <<x, y>> \notin R
  BY <1>4 DEF Acyclic
<1>6. PICK y \in S : <<x, y>> \in R
  BY <1>1, <1>4, <1>5
<1>7. y \in Reachable(R, p)
  BY <1>5, <1>6, ReachableClosed
<1> QED BY <1>5, <1>6, <1>7

LEMMA DependenciesStep ==
    TypeOK /\ DependenciesAcyclic /\ [Next]_vars => DependenciesAcyclic'
<1> SUFFICES ASSUME TypeOK, DependenciesAcyclic, [Next]_vars
             PROVE  DependenciesAcyclic'
  OBVIOUS
<1>1. ASSUME NEW i \in Issue, NEW p \in Issue, AddDependency(i, p)
      PROVE  DependenciesAcyclic'
  <2>1. i \notin Reachable(dependsOn, p)
    BY <1>1 DEF AddDependency, WaitsOn
  <2>2. Acyclic(dependsOn \cup {<<i, p>>})
    BY <2>1, AcyclicAddEdge DEF TypeOK, DependenciesAcyclic
  <2> QED BY <1>1, <2>2 DEF AddDependency, DependenciesAcyclic, Acyclic
<1>2. ASSUME dependsOn' \subseteq dependsOn PROVE DependenciesAcyclic'
  BY <1>2 DEF DependenciesAcyclic, Acyclic
<1>3. RepositoryStep => dependsOn' \subseteq dependsOn
  BY DEF RepositoryStep, CreateRepository, CreateBranch, DeleteRepository, issueVars
<1>4. ASSUME NEW i \in Issue
      PROVE  /\ CancelIssue(i) \/ StartIssue(i) \/ DeleteIssue(i) => dependsOn' \subseteq dependsOn
             /\ \A q \in Issue \cup {None} :
                   CreateIssue(i, q) \/ AssignIssueParent(i, q) => dependsOn' \subseteq dependsOn
             /\ \A p \in Issue : RemoveDependency(i, p) => dependsOn' \subseteq dependsOn
  BY DEF CancelIssue, StartIssue, DeleteIssue, CreateIssue, AssignIssueParent, RemoveDependency
<1>5. PullRequestStep => dependsOn' \subseteq dependsOn
  BY DEF PullRequestStep, CreatePullRequest, MarkPullRequestReady, ClosePullRequest,
         AcceptPullRequest, DeletePullRequest, issueVars
<1>6. IssueStep => DependenciesAcyclic'
  BY <1>1, <1>2, <1>4, Zenon DEF IssueStep
<1>7. UNCHANGED vars => dependsOn' \subseteq dependsOn
  BY DEF vars
<1> QED BY <1>2, <1>3, <1>5, <1>6, <1>7 DEF Next

LEMMA SubIssueTreesStep ==
    TypeOK /\ ReferencesResolve /\ SubIssueTrees /\ [Next]_vars => SubIssueTrees'
<1> SUFFICES ASSUME TypeOK, ReferencesResolve, SubIssueTrees, [Next]_vars
             PROVE  SubIssueTrees'
  OBVIOUS
<1>1. ASSUME NEW i \in Issue, NEW q \in Issue, q # i, RepoOf[q] = RepoOf[i],
             i \notin Reachable(ParentEdges, q),
             parent' = [parent EXCEPT ![i] = q]
      PROVE  SubIssueTrees'
  <2>1. ParentEdges \in SUBSET (Issue \X Issue)
    BY DEF ParentEdges, TypeOK
  <2>2. Acyclic(ParentEdges \cup {<<i, q>>})
    BY <1>1, <2>1, AcyclicAddEdge DEF SubIssueTrees
  <2>3. ParentEdges' \subseteq ParentEdges \cup {<<i, q>>}
    BY <1>1 DEF ParentEdges, TypeOK
  <2>4. Acyclic(ParentEdges')
    BY <2>2, <2>3, AcyclicSubset
  <2>5. \A j \in Issue : parent'[j] # None => RepoOf[parent'[j]] = RepoOf[j]
    BY <1>1 DEF SubIssueTrees, TypeOK
  <2> QED BY <2>4, <2>5 DEF SubIssueTrees, Acyclic
<1>2. ASSUME \A j \in Issue : parent'[j] \in {parent[j], None}
      PROVE  SubIssueTrees'
  <2>1. ParentEdges' \subseteq ParentEdges
    BY <1>2 DEF ParentEdges, TypeOK
  <2>2. Acyclic(ParentEdges')
    BY <2>1, AcyclicSubset DEF SubIssueTrees
  <2> QED BY <1>2, <2>2 DEF SubIssueTrees, Acyclic
<1>3. ASSUME NEW i \in Issue, NEW q \in Issue \cup {None}, AssignIssueParent(i, q)
      PROVE  SubIssueTrees'
  <2>1. CASE q = None
    BY <1>2, <1>3, <2>1 DEF AssignIssueParent, TypeOK
  <2>2. CASE q # None
    BY <1>1, <1>3, <2>2 DEF AssignIssueParent, ParentAllowed, IsDescendantOf
  <2> QED BY <2>1, <2>2
<1>4. ASSUME NEW i \in Issue, NEW q \in Issue \cup {None}, CreateIssue(i, q)
      PROVE  SubIssueTrees'
  <2>1. CASE q = None
    BY <1>2, <1>4, <2>1 DEF CreateIssue, TypeOK
  <2>2. CASE q # None
    <3>1. q # i /\ RepoOf[q] = RepoOf[i]
      BY <1>4, <2>2 DEF CreateIssue, ParentAllowed
    <3>2. \A x \in Issue : <<x, i>> \notin ParentEdges
      BY <1>4 DEF CreateIssue, ReferencesResolve, Exists, ParentEdges, TypeOK
    <3>3. i \notin Reachable(ParentEdges, q)
      <4>1. \A e \in ParentEdges : e[1] \in Issue \ {i} => e[2] \in Issue \ {i}
        BY <3>2 DEF ParentEdges, TypeOK
      <4> QED BY <2>2, <3>1, <4>1 DEF Reachable
    <3> QED BY <1>1, <1>4, <2>2, <3>1, <3>3 DEF CreateIssue
  <2> QED BY <2>1, <2>2
<1>5. RepositoryStep => \A j \in Issue : parent'[j] \in {parent[j], None}
  <2>1. ASSUME NEW r \in Repo, DeleteRepository(r)
        PROVE  \A j \in Issue : parent'[j] \in {parent[j], None}
    <3>1. PICK own : parent' = [i \in Issue |-> IF i \in own \/ parent[i] \in own THEN None ELSE parent[i]]
      BY <2>1, Zenon DEF DeleteRepository
    <3> QED BY <3>1
  <2>2. ASSUME NEW r \in Repo, CreateRepository(r) PROVE parent' = parent
    BY <2>2 DEF CreateRepository, issueVars
  <2>3. ASSUME NEW b \in Branch, CreateBranch(b) PROVE parent' = parent
    BY <2>3 DEF CreateBranch, issueVars
  <2> QED BY <2>1, <2>2, <2>3 DEF RepositoryStep
<1>6. ASSUME NEW i \in Issue, CancelIssue(i) \/ StartIssue(i) \/ DeleteIssue(i)
      PROVE  SubIssueTrees'
  BY <1>2, <1>6 DEF CancelIssue, StartIssue, DeleteIssue, TypeOK
<1>7. ASSUME NEW i \in Issue, NEW p \in Issue, AddDependency(i, p) \/ RemoveDependency(i, p)
      PROVE  SubIssueTrees'
  BY <1>2, <1>7 DEF AddDependency, RemoveDependency
<1>8. PullRequestStep => parent' = parent
  BY DEF PullRequestStep, CreatePullRequest, MarkPullRequestReady, ClosePullRequest,
         AcceptPullRequest, DeletePullRequest, issueVars
<1>9. IssueStep => SubIssueTrees'
  BY <1>3, <1>4, <1>6, <1>7, Zenon DEF IssueStep
<1>10. UNCHANGED vars => parent' = parent
  BY DEF vars
<1> QED BY <1>2, <1>5, <1>8, <1>9, <1>10 DEF Next

-----------------------------------------------------------------------------
(* Tables that refer to each other                                         *)

\* A pull request covers issues of the repository of its target branch: what
\* DeleteRepository needs to take whole pull requests with it.
CoversOneRepo ==
    \A p \in PR : \A i \in members[p] : RepoOf[i] = PRRepo(p)

LEMMA CoversOneRepoStep ==
    TypeOK /\ ReferencesResolve /\ CoversOneRepo /\ [Next]_vars => CoversOneRepo'
<1> SUFFICES ASSUME TypeOK, ReferencesResolve, CoversOneRepo, [Next]_vars
             PROVE  CoversOneRepo'
  OBVIOUS
<1>1. ASSUME \A p \in PR : members'[p] = {} \/ (members'[p] = members[p] /\ target'[p] = target[p])
      PROVE  CoversOneRepo'
  BY <1>1 DEF CoversOneRepo, PRRepo
<1>2. RepositoryStep => CoversOneRepo'
  <2>1. ASSUME NEW r \in Repo, CreateRepository(r) \/ DeleteRepository(r)
        PROVE  CoversOneRepo'
    BY <1>1, <2>1 DEF CreateRepository, DeleteRepository, prVars, TypeOK
  <2>2. ASSUME NEW b \in Branch, CreateBranch(b) PROVE CoversOneRepo'
    BY <1>1, <2>2 DEF CreateBranch, prVars
  <2> QED BY <2>1, <2>2, Zenon DEF RepositoryStep
<1>3. IssueStep => UNCHANGED prVars
  BY DEF IssueStep, CancelIssue, StartIssue, DeleteIssue, CreateIssue, AssignIssueParent,
         AddDependency, RemoveDependency
<1>4. ASSUME NEW p \in PR, NEW issues \in SUBSET Issue, NEW b \in Branch,
             NEW isDraft \in BOOLEAN, CreatePullRequest(p, issues, b, isDraft)
      PROVE  CoversOneRepo'
  BY <1>4 DEF CreatePullRequest, CoversOneRepo, PRRepo, TypeOK
<1>5. ASSUME NEW p \in PR, MarkPullRequestReady(p) \/ ClosePullRequest(p)
                            \/ AcceptPullRequest(p) \/ DeletePullRequest(p)
      PROVE  CoversOneRepo'
  BY <1>1, <1>5 DEF MarkPullRequestReady, ClosePullRequest, AcceptPullRequest,
                    DeletePullRequest, TypeOK
<1>6. PullRequestStep => CoversOneRepo'
  BY <1>4, <1>5, Zenon DEF PullRequestStep
<1>7. UNCHANGED prVars => CoversOneRepo'
  BY <1>1 DEF prVars
<1>8. UNCHANGED vars => UNCHANGED prVars
  BY DEF vars, prVars
<1> QED BY <1>2, <1>3, <1>6, <1>7, <1>8 DEF Next

LEMMA ReferencesStep ==
    TypeOK /\ CoversOneRepo /\ SubIssueTrees /\ ReferencesResolve /\ [Next]_vars
        => ReferencesResolve'
<1> SUFFICES ASSUME TypeOK, CoversOneRepo, SubIssueTrees, ReferencesResolve, [Next]_vars
             PROVE  ReferencesResolve'
  OBVIOUS
<1> USE DEF ReferencesResolve, TypeOK, Exists, PRExists, IssueStatus, PRStatus,
            repoVars, issueVars, prVars, completionVars
<1>1. ASSUME NEW r \in Repo, CreateRepository(r) PROVE ReferencesResolve'
  BY <1>1, ConstantsAssumption DEF CreateRepository
<1>2. ASSUME NEW r \in Repo, DeleteRepository(r) PROVE ReferencesResolve'
  <2>1. \A i \in Issue : parent'[i] # None => Exists(i)' /\ Exists(parent[i])'
    BY <1>2 DEF DeleteRepository, SubIssueTrees
  <2>2. \A i \in Issue : parent'[i] # None => parent'[i] = parent[i]
    BY <1>2 DEF DeleteRepository
  <2>3. \A e \in dependsOn' : Exists(e[1])' /\ Exists(e[2])'
    BY <1>2 DEF DeleteRepository, EdgesTouchingRepo
  <2>4. \A p \in PR : \A i \in members'[p] : PRExists(p)' /\ Exists(i)'
    BY <1>2, ConstantsAssumption DEF DeleteRepository, CoversOneRepo, PRRepo
  <2>5. \A p \in PR : PRExists(p)' => target'[p] \in branches'
    BY <1>2, ConstantsAssumption DEF DeleteRepository, PRRepo
  <2>6. \A b \in branches' : repositories'[BranchRepo[b]] = "live"
    BY <1>2, ConstantsAssumption DEF DeleteRepository
  <2>7. \A i \in Issue : Exists(i)' => repositories'[RepoOf[i]] = "live"
    BY <1>2, ConstantsAssumption DEF DeleteRepository
  <2> QED BY <2>1, <2>2, <2>3, <2>4, <2>5, <2>6, <2>7
<1>3. ASSUME NEW b \in Branch, CreateBranch(b) PROVE ReferencesResolve'
  BY <1>3 DEF CreateBranch
<1>4. ASSUME NEW i \in Issue, CancelIssue(i) \/ StartIssue(i) PROVE ReferencesResolve'
  BY <1>4 DEF CancelIssue, StartIssue
<1>5. ASSUME NEW i \in Issue, DeleteIssue(i) PROVE ReferencesResolve'
  BY <1>5 DEF DeleteIssue, Unreferenced
<1>6. ASSUME NEW i \in Issue, NEW q \in Issue \cup {None},
             CreateIssue(i, q) \/ AssignIssueParent(i, q)
      PROVE  ReferencesResolve'
  BY <1>6 DEF CreateIssue, AssignIssueParent, ParentAllowed
<1>7. ASSUME NEW i \in Issue, NEW p \in Issue, AddDependency(i, p) \/ RemoveDependency(i, p)
      PROVE  ReferencesResolve'
  BY <1>7 DEF AddDependency, RemoveDependency, DependentOpen
<1>8. ASSUME NEW p \in PR, NEW issues \in SUBSET Issue, NEW b \in Branch,
             NEW isDraft \in BOOLEAN, CreatePullRequest(p, issues, b, isDraft)
      PROVE  ReferencesResolve'
  BY <1>8 DEF CreatePullRequest
<1>9. ASSUME NEW p \in PR, MarkPullRequestReady(p) \/ ClosePullRequest(p)
                            \/ AcceptPullRequest(p) \/ DeletePullRequest(p)
      PROVE  ReferencesResolve'
  BY <1>9 DEF MarkPullRequestReady, ClosePullRequest, AcceptPullRequest, DeletePullRequest
<1>10. ASSUME UNCHANGED vars PROVE ReferencesResolve'
  BY <1>10 DEF vars
<1> HIDE DEF ReferencesResolve
<1>11. RepositoryStep => ReferencesResolve'
  BY <1>1, <1>2, <1>3, Zenon DEF RepositoryStep
<1>12. IssueStep => ReferencesResolve'
  BY <1>4, <1>5, <1>6, <1>7, Zenon DEF IssueStep
<1>13. PullRequestStep => ReferencesResolve'
  BY <1>8, <1>9, Zenon DEF PullRequestStep
<1> QED BY <1>10, <1>11, <1>12, <1>13 DEF Next

-----------------------------------------------------------------------------
(* Started work is never waiting                                           *)

LEMMA StartedPrerequisitesStep ==
    TypeOK /\ ReferencesResolve /\ StartedPrerequisitesDone /\ [Next]_vars
        => StartedPrerequisitesDone'
<1> SUFFICES ASSUME TypeOK, ReferencesResolve, StartedPrerequisitesDone, [Next]_vars
             PROVE  StartedPrerequisitesDone'
  OBVIOUS
<1> USE DEF StartedPrerequisitesDone, Started, TypeOK

\* It is enough that no issue starts, no edge appears and no done issue that
\* is still waited for leaves that status.
<1>1. ASSUME \A i \in Issue : status'[i] \in {"in_progress", "done"} => i \in Started,
             dependsOn' \subseteq dependsOn,
             \A e \in dependsOn' : status[e[2]] = "done" => status'[e[2]] = "done"
      PROVE  StartedPrerequisitesDone'
  BY <1>1
<1>2. ASSUME NEW r \in Repo, CreateRepository(r) \/ DeleteRepository(r)
      PROVE  StartedPrerequisitesDone'
  <2>1. CASE CreateRepository(r)
    BY <2>1 DEF CreateRepository, issueVars
  <2>2. CASE DeleteRepository(r)
    <3>1. \A i \in Issue : status'[i] = IF RepoOf[i] = r /\ Exists(i) THEN "deleted" ELSE status[i]
      BY <2>2 DEF DeleteRepository
    <3>2. \A i, p \in Issue : <<i, p>> \in dependsOn' =>
             <<i, p>> \in dependsOn /\ RepoOf[i] # r /\ RepoOf[p] # r
      BY <2>2 DEF DeleteRepository, EdgesTouchingRepo
    <3> QED BY <3>1, <3>2
  <2> QED BY <1>2, <2>1, <2>2
<1>3. ASSUME NEW b \in Branch, CreateBranch(b) PROVE StartedPrerequisitesDone'
  BY <1>3 DEF CreateBranch, issueVars
<1>4. ASSUME NEW i \in Issue, CancelIssue(i) PROVE StartedPrerequisitesDone'
  BY <1>4 DEF CancelIssue
<1>5. ASSUME NEW i \in Issue, StartIssue(i) PROVE StartedPrerequisitesDone'
  BY <1>5 DEF StartIssue, Blockers, PrerequisiteBlockers
<1>6. ASSUME NEW i \in Issue, DeleteIssue(i) PROVE StartedPrerequisitesDone'
  BY <1>6 DEF DeleteIssue, Unreferenced
<1>7. ASSUME NEW i \in Issue, NEW q \in Issue \cup {None},
             CreateIssue(i, q) \/ AssignIssueParent(i, q)
      PROVE  StartedPrerequisitesDone'
  BY <1>7 DEF CreateIssue, AssignIssueParent
<1>8. ASSUME NEW i \in Issue, NEW p \in Issue, AddDependency(i, p) \/ RemoveDependency(i, p)
      PROVE  StartedPrerequisitesDone'
  BY <1>8 DEF AddDependency, RemoveDependency, DependentOpen
<1>9. ASSUME NEW p \in PR, NEW issues \in SUBSET Issue, NEW b \in Branch,
             NEW isDraft \in BOOLEAN, CreatePullRequest(p, issues, b, isDraft)
      PROVE  StartedPrerequisitesDone'
  BY <1>9 DEF CreatePullRequest, issueVars
<1>10. ASSUME NEW p \in PR, MarkPullRequestReady(p) \/ ClosePullRequest(p) \/ DeletePullRequest(p)
      PROVE  StartedPrerequisitesDone'
  BY <1>10 DEF MarkPullRequestReady, ClosePullRequest, DeletePullRequest, issueVars
<1>11. ASSUME NEW p \in PR, AcceptPullRequest(p) PROVE StartedPrerequisitesDone'
  BY <1>11 DEF AcceptPullRequest
<1>12. ASSUME UNCHANGED vars PROVE StartedPrerequisitesDone'
  BY <1>12 DEF vars
<1> HIDE DEF StartedPrerequisitesDone
<1>13. RepositoryStep => StartedPrerequisitesDone'
  BY <1>2, <1>3, Zenon DEF RepositoryStep
<1>14. IssueStep => StartedPrerequisitesDone'
  BY <1>4, <1>5, <1>6, <1>7, <1>8, Zenon DEF IssueStep
<1>15. PullRequestStep => StartedPrerequisitesDone'
  BY <1>9, <1>10, <1>11, Zenon DEF PullRequestStep
<1> QED BY <1>12, <1>13, <1>14, <1>15 DEF Next

LEMMA StartedSubIssuesStep ==
    TypeOK /\ ReferencesResolve /\ StartedSubIssuesClosed /\ [Next]_vars
        => StartedSubIssuesClosed'
<1> SUFFICES ASSUME TypeOK, ReferencesResolve, StartedSubIssuesClosed, [Next]_vars
             PROVE  StartedSubIssuesClosed'
  OBVIOUS
<1> USE DEF StartedSubIssuesClosed, Started, TypeOK
<1>1. None \notin Issue
  BY ConstantsAssumption
<1>2. ASSUME NEW r \in Repo, CreateRepository(r) \/ DeleteRepository(r)
      PROVE  StartedSubIssuesClosed'
  <2>1. CASE CreateRepository(r)
    BY <2>1 DEF CreateRepository, issueVars
  <2>2. CASE DeleteRepository(r)
    <3>1. \A i \in Issue : status'[i] = IF RepoOf[i] = r /\ Exists(i) THEN "deleted" ELSE status[i]
      BY <2>2 DEF DeleteRepository
    <3>2. \A c \in Issue : parent'[c] \in Issue => parent'[c] = parent[c] /\ RepoOf[c] # r
      BY <1>1, <2>2 DEF DeleteRepository
    <3> QED BY <3>1, <3>2
  <2> QED BY <1>2, <2>1, <2>2
<1>3. ASSUME NEW b \in Branch, CreateBranch(b) PROVE StartedSubIssuesClosed'
  BY <1>3 DEF CreateBranch, issueVars
<1>4. ASSUME NEW i \in Issue, CancelIssue(i) PROVE StartedSubIssuesClosed'
  BY <1>4 DEF CancelIssue
<1>5. ASSUME NEW i \in Issue, StartIssue(i) PROVE StartedSubIssuesClosed'
  \* A sub-issue that is neither open nor in progress is closed: it exists.
  <2>1. \A c \in Issue : parent[c] = i => status[c] \in {"done", "cancelled"}
    BY <1>1, <1>5 DEF StartIssue, Blockers, SubIssueBlockers, ReferencesResolve, Exists, IssueStatus
  \* The issue itself, if a sub-issue, has no started parent.
  <2>2. \A j \in Started : parent[i] # j
    BY <1>5 DEF StartIssue
  <2> QED BY <1>5, <2>1, <2>2 DEF StartIssue
<1>6. ASSUME NEW i \in Issue, DeleteIssue(i) PROVE StartedSubIssuesClosed'
  BY <1>1, <1>6 DEF DeleteIssue, Unreferenced
<1>7. ASSUME NEW i \in Issue, NEW q \in Issue \cup {None},
             CreateIssue(i, q) \/ AssignIssueParent(i, q)
      PROVE  StartedSubIssuesClosed'
  BY <1>1, <1>7 DEF CreateIssue, AssignIssueParent, ParentAllowed, ReferencesResolve, Exists
<1>8. ASSUME NEW i \in Issue, NEW p \in Issue, AddDependency(i, p) \/ RemoveDependency(i, p)
      PROVE  StartedSubIssuesClosed'
  BY <1>8 DEF AddDependency, RemoveDependency
<1>9. ASSUME NEW p \in PR, NEW issues \in SUBSET Issue, NEW b \in Branch,
             NEW isDraft \in BOOLEAN, CreatePullRequest(p, issues, b, isDraft)
      PROVE  StartedSubIssuesClosed'
  BY <1>9 DEF CreatePullRequest, issueVars
<1>10. ASSUME NEW p \in PR, MarkPullRequestReady(p) \/ ClosePullRequest(p) \/ DeletePullRequest(p)
      PROVE  StartedSubIssuesClosed'
  BY <1>10 DEF MarkPullRequestReady, ClosePullRequest, DeletePullRequest, issueVars
<1>11. ASSUME NEW p \in PR, AcceptPullRequest(p) PROVE StartedSubIssuesClosed'
  BY <1>11 DEF AcceptPullRequest
<1>12. ASSUME UNCHANGED vars PROVE StartedSubIssuesClosed'
  BY <1>12 DEF vars
<1> HIDE DEF StartedSubIssuesClosed
<1>13. RepositoryStep => StartedSubIssuesClosed'
  BY <1>2, <1>3, Zenon DEF RepositoryStep
<1>14. IssueStep => StartedSubIssuesClosed'
  BY <1>4, <1>5, <1>6, <1>7, <1>8, Zenon DEF IssueStep
<1>15. PullRequestStep => StartedSubIssuesClosed'
  BY <1>9, <1>10, <1>11, Zenon DEF PullRequestStep
<1> QED BY <1>12, <1>13, <1>14, <1>15 DEF Next

-----------------------------------------------------------------------------
(* Pull requests and completions                                           *)

LEMMA OneActiveStep ==
    TypeOK /\ OneActivePullRequest /\ [Next]_vars => OneActivePullRequest'
<1> SUFFICES ASSUME TypeOK, OneActivePullRequest, [Next]_vars
             PROVE  OneActivePullRequest'
  OBVIOUS
<1> USE DEF TypeOK, OneActivePullRequest, ActiveCover
<1>1. ASSUME \A i \in Issue : ActiveCover(i)' \subseteq ActiveCover(i)
      PROVE  OneActivePullRequest'
  BY <1>1
<1>2. ASSUME NEW r \in Repo, CreateRepository(r) \/ DeleteRepository(r)
      PROVE  OneActivePullRequest'
  <2>1. CASE CreateRepository(r)
    BY <2>1 DEF CreateRepository, prVars
  <2>2. CASE DeleteRepository(r)
    <3>1. \A p \in PR : members'[p] = {} \/ (members'[p] = members[p] /\ prStatus'[p] = prStatus[p])
      BY <2>2 DEF DeleteRepository
    <3> QED BY <1>1, <3>1
  <2> QED BY <1>2, <2>1, <2>2
<1>3. ASSUME NEW b \in Branch, CreateBranch(b) PROVE OneActivePullRequest'
  BY <1>3 DEF CreateBranch, prVars
<1>4. ASSUME UNCHANGED prVars PROVE OneActivePullRequest'
  BY <1>4 DEF prVars
<1>5. IssueStep => UNCHANGED prVars
  BY DEF IssueStep, CancelIssue, StartIssue, DeleteIssue, CreateIssue, AssignIssueParent,
         AddDependency, RemoveDependency
<1>6. ASSUME NEW p \in PR, NEW issues \in SUBSET Issue, NEW b \in Branch,
             NEW isDraft \in BOOLEAN, CreatePullRequest(p, issues, b, isDraft)
      PROVE  OneActivePullRequest'
  BY <1>6 DEF CreatePullRequest, Uncovered
<1>7. ASSUME NEW p \in PR, MarkPullRequestReady(p) \/ ClosePullRequest(p)
                            \/ AcceptPullRequest(p) \/ DeletePullRequest(p)
      PROVE  OneActivePullRequest'
  BY <1>1, <1>7 DEF MarkPullRequestReady, ClosePullRequest, AcceptPullRequest, DeletePullRequest
<1> HIDE DEF OneActivePullRequest
<1>8. RepositoryStep => OneActivePullRequest'
  BY <1>2, <1>3, Zenon DEF RepositoryStep
<1>9. PullRequestStep => OneActivePullRequest'
  BY <1>6, <1>7, Zenon DEF PullRequestStep
<1>10. UNCHANGED vars => UNCHANGED prVars
  BY DEF vars, prVars
<1> QED BY <1>4, <1>5, <1>8, <1>9, <1>10 DEF Next

LEMMA DoneStep ==
    TypeOK /\ ReferencesResolve /\ CoversOneRepo /\ OneActivePullRequest /\ LatestExists
        /\ DoneIffCompleted /\ [Next]_vars => DoneIffCompleted'
<1> SUFFICES ASSUME TypeOK, ReferencesResolve, CoversOneRepo, OneActivePullRequest,
                    LatestExists, DoneIffCompleted, [Next]_vars
             PROVE  DoneIffCompleted'
  OBVIOUS
<1> USE DEF TypeOK, DoneIffCompleted, AcceptedCover
<1>1. ASSUME UNCHANGED <<prVars, completionVars>>,
             \A i \in Issue : status'[i] = "done" <=> status[i] = "done"
      PROVE  DoneIffCompleted'
  BY <1>1 DEF prVars, completionVars
<1>2. ASSUME NEW r \in Repo, CreateRepository(r) PROVE DoneIffCompleted'
  BY <1>1, <1>2 DEF CreateRepository, issueVars
<1>3. ASSUME NEW r \in Repo, DeleteRepository(r) PROVE DoneIffCompleted'
  <2> DEFINE own(p) == target[p] # None /\ PRRepo(p) = r
  <2>1. \A p \in PR : /\ own(p) => prStatus'[p] = "deleted" /\ sequence'[p] = 0
                      /\ ~own(p) => /\ prStatus'[p] = prStatus[p]
                                    /\ sequence'[p] = sequence[p]
                                    /\ members'[p] = members[p]
    BY <1>3 DEF DeleteRepository
  <2>2. \A i \in Issue : status'[i] = IF RepoOf[i] = r /\ Exists(i) THEN "deleted" ELSE status[i]
    BY <1>3 DEF DeleteRepository
  <2>3. \A p \in PR : prStatus[p] = "accepted" => target[p] # None
    BY ConstantsAssumption DEF ReferencesResolve, PRExists
  <2>4. \A p \in PR : prStatus[p] = "accepted" =>
           \A i \in members[p] : RepoOf[i] = r <=> own(p)
    BY <2>3 DEF CoversOneRepo
  <2>5. \A p \in PR : prStatus'[p] = "accepted" <=> sequence'[p] > 0
    BY <2>1
  <2>6. ASSUME NEW i \in Issue PROVE status'[i] = "done" <=> AcceptedCover(i)' # {}
    <3>1. CASE RepoOf[i] = r
      <4>1. AcceptedCover(i)' = {}
        BY <2>1, <2>4, <3>1
      <4> QED BY <2>2, <3>1, <4>1 DEF Exists
    <3>2. CASE RepoOf[i] # r
      <4>1. AcceptedCover(i)' = AcceptedCover(i)
        BY <2>1, <2>4, <3>2
      <4> QED BY <2>2, <3>2, <4>1
    <3> QED BY <3>1, <3>2
  <2> QED BY <2>5, <2>6
<1>4. ASSUME NEW b \in Branch, CreateBranch(b) PROVE DoneIffCompleted'
  BY <1>1, <1>4 DEF CreateBranch, issueVars
<1>5. ASSUME NEW i \in Issue, CancelIssue(i) \/ StartIssue(i) PROVE DoneIffCompleted'
  BY <1>1, <1>5 DEF CancelIssue, StartIssue
<1>6. ASSUME NEW i \in Issue, DeleteIssue(i) PROVE DoneIffCompleted'
  BY <1>1, <1>6 DEF DeleteIssue, Unreferenced
<1>7. ASSUME NEW i \in Issue, NEW q \in Issue \cup {None},
             CreateIssue(i, q) \/ AssignIssueParent(i, q)
      PROVE  DoneIffCompleted'
  BY <1>1, <1>7 DEF CreateIssue, AssignIssueParent
<1>8. ASSUME NEW i \in Issue, NEW p \in Issue, AddDependency(i, p) \/ RemoveDependency(i, p)
      PROVE  DoneIffCompleted'
  BY <1>1, <1>8 DEF AddDependency, RemoveDependency
<1>9. ASSUME NEW p \in PR, NEW issues \in SUBSET Issue, NEW b \in Branch,
             NEW isDraft \in BOOLEAN, CreatePullRequest(p, issues, b, isDraft)
      PROVE  DoneIffCompleted'
  <2>1. \A i \in Issue : AcceptedCover(i)' = AcceptedCover(i)
    BY <1>9 DEF CreatePullRequest
  <2> QED BY <1>9, <2>1 DEF CreatePullRequest, issueVars, completionVars
<1>10. ASSUME NEW p \in PR, MarkPullRequestReady(p) PROVE DoneIffCompleted'
  BY <1>10 DEF MarkPullRequestReady, issueVars, completionVars
<1>11. ASSUME NEW p \in PR, ClosePullRequest(p) \/ DeletePullRequest(p)
      PROVE  DoneIffCompleted'
  <2>1. prStatus[p] # "accepted"
    BY <1>11 DEF ClosePullRequest, DeletePullRequest, NoCompletion
  <2>2. \A i \in Issue : AcceptedCover(i)' = AcceptedCover(i)
    BY <1>11, <2>1 DEF ClosePullRequest, DeletePullRequest
  <2> QED BY <1>11, <2>1, <2>2 DEF ClosePullRequest, DeletePullRequest, issueVars, completionVars
<1>12. ASSUME NEW p \in PR, AcceptPullRequest(p) PROVE DoneIffCompleted'
  <2>1. target[p] \in Branch
    BY <1>12 DEF AcceptPullRequest, ReferencesResolve, PRExists
  <2>2. NextSequence(target[p]) \in Nat /\ NextSequence(target[p]) > 0
    BY <2>1, NextSequenceType
  <2>3. \A q \in PR : prStatus'[q] = "accepted" <=> sequence'[q] > 0
    BY <1>12, <2>2 DEF AcceptPullRequest
  <2>4. \A i \in Issue : AcceptedCover(i)' = IF i \in members[p] THEN AcceptedCover(i) \cup {p}
                                                                 ELSE AcceptedCover(i)
    BY <1>12 DEF AcceptPullRequest
  <2>5. \A i \in Issue : status'[i] = IF i \in members[p] THEN "done" ELSE status[i]
    BY <1>12 DEF AcceptPullRequest, CanMerge
  <2> QED BY <2>3, <2>4, <2>5
<1>13. ASSUME UNCHANGED vars PROVE DoneIffCompleted'
  BY <1>13 DEF vars
<1> HIDE DEF DoneIffCompleted
<1>14. RepositoryStep => DoneIffCompleted'
  BY <1>2, <1>3, <1>4, Zenon DEF RepositoryStep
<1>15. IssueStep => DoneIffCompleted'
  BY <1>5, <1>6, <1>7, <1>8, Zenon DEF IssueStep
<1>16. PullRequestStep => DoneIffCompleted'
  BY <1>9, <1>10, <1>11, <1>12, Zenon DEF PullRequestStep
<1> QED BY <1>13, <1>14, <1>15, <1>16 DEF Next

\* The history of a branch after a step: as it was, gone with its repository,
\* or longer by the pull request just accepted.
LEMMA CompletedStep ==
    ASSUME TypeOK, ReferencesResolve, DoneIffCompleted, BranchHistoryChained, LatestExists,
           [Next]_vars, NEW b \in Branch
    PROVE  \/ Completed(b)' = {}
           \/ /\ Completed(b)' = Completed(b)
              /\ \A p \in Completed(b) : /\ sequence'[p] = sequence[p]
                                         /\ parentCompletion'[p] = parentCompletion[p]
           \/ \E p \in PR :
                 /\ p \notin Completed(b)
                 /\ Completed(b)' = Completed(b) \cup {p}
                 /\ sequence'[p] = NextSequence(b)
                 /\ parentCompletion'[p] = NextParent(b)
                 /\ \A q \in Completed(b) : /\ sequence'[q] = sequence[q]
                                            /\ parentCompletion'[q] = parentCompletion[q]
<1> DEFINE Same == /\ Completed(b)' = Completed(b)
                   /\ \A p \in Completed(b) : /\ sequence'[p] = sequence[p]
                                              /\ parentCompletion'[p] = parentCompletion[p]
           Longer(p) == /\ p \notin Completed(b)
                        /\ Completed(b)' = Completed(b) \cup {p}
                        /\ sequence'[p] = NextSequence(b)
                        /\ parentCompletion'[p] = NextParent(b)
                        /\ \A q \in Completed(b) :
                              /\ sequence'[q] = sequence[q]
                              /\ parentCompletion'[q] = parentCompletion[q]
           Goal == Completed(b)' = {} \/ Same \/ \E p \in PR : Longer(p)
<1> SUFFICES Goal
  BY Zenon
<1> USE DEF TypeOK, Completed
<1>1. ASSUME UNCHANGED <<target, completionVars>> PROVE Same
  BY <1>1 DEF completionVars
<1>2. ASSUME NEW r \in Repo, CreateRepository(r) PROVE Same
  BY <1>1, <1>2 DEF CreateRepository, prVars
<1>3. ASSUME NEW r \in Repo, DeleteRepository(r) PROVE Goal
  <2>1. b # None
    BY ConstantsAssumption
  <2>2. CASE BranchRepo[b] = r
    <3>1. \A p \in PR : target[p] = b => target'[p] = None
      BY <1>3, <2>1, <2>2 DEF DeleteRepository, PRRepo
    <3>2. \A p \in PR : target'[p] \in {None, target[p]}
      BY <1>3 DEF DeleteRepository
    <3>3. Completed(b)' = {}
      BY <2>1, <3>1, <3>2
    <3> QED BY <3>3
  <2>3. CASE BranchRepo[b] # r
    <3>1. \A p \in PR : target[p] = b =>
             /\ target'[p] = b
             /\ sequence'[p] = sequence[p]
             /\ parentCompletion'[p] = parentCompletion[p]
                  \/ (target[parentCompletion[p]] # b /\ parentCompletion[p] \in PR)
      BY <1>3, <2>3, ConstantsAssumption DEF DeleteRepository, PRRepo
    <3>2. \A p \in PR : target'[p] \in {None, target[p]}
      BY <1>3 DEF DeleteRepository
    <3>3. \A p \in Completed(b) : parentCompletion[p] = None \/ target[parentCompletion[p]] = b
      BY DEF BranchHistoryChained
    <3>4. None \notin PR
      BY ConstantsAssumption
    <3>5. Completed(b)' = Completed(b)
      BY <2>1, <3>1, <3>2
    <3> QED BY <3>1, <3>3, <3>4, <3>5
  <2> QED BY <2>2, <2>3
<1>4. ASSUME NEW c \in Branch, CreateBranch(c) PROVE Same
  BY <1>1, <1>4 DEF CreateBranch, prVars
<1>5. IssueStep => Same
  <2>1. IssueStep => UNCHANGED <<prVars, completionVars>>
    BY DEF IssueStep, CancelIssue, StartIssue, DeleteIssue, CreateIssue, AssignIssueParent,
           AddDependency, RemoveDependency
  <2> QED BY <1>1, <2>1 DEF prVars
<1>6. ASSUME NEW p \in PR, NEW issues \in SUBSET Issue, NEW c \in Branch,
             NEW isDraft \in BOOLEAN, CreatePullRequest(p, issues, c, isDraft)
      PROVE  Same
  <2>1. sequence[p] = 0
    BY <1>6 DEF CreatePullRequest, DoneIffCompleted
  <2> QED BY <1>6, <2>1 DEF CreatePullRequest, completionVars
<1>7. ASSUME NEW p \in PR, MarkPullRequestReady(p) \/ ClosePullRequest(p) PROVE Same
  BY <1>1, <1>7 DEF MarkPullRequestReady, ClosePullRequest
<1>8. ASSUME NEW p \in PR, DeletePullRequest(p) PROVE Same
  BY <1>8 DEF DeletePullRequest, NoCompletion, completionVars
<1>9. ASSUME NEW p \in PR, AcceptPullRequest(p) PROVE Goal
  <2>1. target[p] \in Branch /\ sequence[p] = 0
    BY <1>9 DEF AcceptPullRequest, ReferencesResolve, PRExists, DoneIffCompleted
  <2>2. NextSequence(target[p]) \in Nat /\ NextSequence(target[p]) > 0
    BY <2>1, NextSequenceType
  <2>3. CASE target[p] = b
    BY <1>9, <2>1, <2>2, <2>3 DEF AcceptPullRequest
  <2>4. CASE target[p] # b
    BY <1>9, <2>1, <2>4 DEF AcceptPullRequest
  <2> QED BY <2>3, <2>4
<1>10. ASSUME UNCHANGED vars PROVE Same
  BY <1>1, <1>10 DEF vars, completionVars
<1> HIDE DEF Same, Longer, Completed
<1>11. RepositoryStep => Goal
  BY <1>2, <1>3, <1>4, Zenon DEF RepositoryStep
<1>12. PullRequestStep => Goal
  BY <1>6, <1>7, <1>8, <1>9, Zenon DEF PullRequestStep
<1> QED BY <1>5, <1>10, <1>11, <1>12, Zenon DEF Next

LEMMA HistoryStep ==
    TypeOK /\ ReferencesResolve /\ DoneIffCompleted /\ LatestExists
        /\ BranchHistoryChained /\ [Next]_vars
        => LatestExists' /\ BranchHistoryChained'
<1> SUFFICES ASSUME TypeOK, ReferencesResolve, DoneIffCompleted, LatestExists,
                    BranchHistoryChained, [Next]_vars, NEW b \in Branch
    PROVE /\ \/ Completed(b)' = {}
             \/ \E p \in Completed(b)' : \A q \in Completed(b)' : sequence'[q] <= sequence'[p]
          /\ \A p \in Completed(b)' :
                /\ \A q \in Completed(b)' : sequence'[p] = sequence'[q] => p = q
                /\ IF sequence'[p] = 1
                   THEN parentCompletion'[p] = None
                   ELSE /\ parentCompletion'[p] \in Completed(b)'
                        /\ sequence'[p] = sequence'[parentCompletion'[p]] + 1
  BY DEF LatestExists, BranchHistoryChained
<1>1. CASE Completed(b)' = {}
  BY <1>1
<1>2. CASE /\ Completed(b)' = Completed(b)
           /\ \A p \in Completed(b) : /\ sequence'[p] = sequence[p]
                                      /\ parentCompletion'[p] = parentCompletion[p]
  BY <1>2 DEF LatestExists, BranchHistoryChained
<1>3. ASSUME NEW p \in PR,
             p \notin Completed(b),
             Completed(b)' = Completed(b) \cup {p},
             sequence'[p] = NextSequence(b),
             parentCompletion'[p] = NextParent(b),
             \A q \in Completed(b) : /\ sequence'[q] = sequence[q]
                                     /\ parentCompletion'[q] = parentCompletion[q]
      PROVE /\ \E m \in Completed(b)' : \A q \in Completed(b)' : sequence'[q] <= sequence'[m]
            /\ \A m \in Completed(b)' :
                /\ \A q \in Completed(b)' : sequence'[m] = sequence'[q] => m = q
                /\ IF sequence'[m] = 1
                   THEN parentCompletion'[m] = None
                   ELSE /\ parentCompletion'[m] \in Completed(b)'
                        /\ sequence'[m] = sequence'[parentCompletion'[m]] + 1
  <2>1. /\ NextSequence(b) \in Nat
        /\ \A q \in Completed(b) : sequence[q] < NextSequence(b) /\ sequence[q] \in Nat
    BY NextSequenceType DEF Completed, TypeOK
  <2>2. \A q \in Completed(b)' : sequence'[q] <= sequence'[p]
    BY <1>3, <2>1
  <2>3. IF sequence'[p] = 1
        THEN parentCompletion'[p] = None
        ELSE /\ parentCompletion'[p] \in Completed(b)'
             /\ sequence'[p] = sequence'[parentCompletion'[p]] + 1
    <3>1. CASE Completed(b) = {}
      BY <1>3, <3>1 DEF NextSequence, NextParent
    <3>2. CASE Completed(b) # {}
      <4>1. Latest(b) \in Completed(b) /\ sequence[Latest(b)] \in Nat /\ sequence[Latest(b)] > 0
        BY <3>2, LatestIsLast DEF Completed
      <4>2. sequence'[p] = sequence[Latest(b)] + 1 /\ parentCompletion'[p] = Latest(b)
        BY <1>3, <3>2 DEF NextSequence, NextParent
      <4> QED BY <1>3, <4>1, <4>2
    <3> QED BY <3>1, <3>2
  <2>4. \A m \in Completed(b) :
          /\ \A q \in Completed(b) : sequence[m] = sequence[q] => m = q
          /\ IF sequence[m] = 1
             THEN parentCompletion[m] = None
             ELSE /\ parentCompletion[m] \in Completed(b)
                  /\ sequence[m] = sequence[parentCompletion[m]] + 1
    BY DEF BranchHistoryChained
  <2>5. \A q \in Completed(b) : sequence'[q] # sequence'[p]
    BY <1>3, <2>1
  <2> QED BY <1>3, <2>2, <2>3, <2>4, <2>5
<1> QED BY <1>1, <1>2, <1>3, CompletedStep

-----------------------------------------------------------------------------
(* The inductive invariant and the theorems                                *)

IInv ==
    /\ TypeOK
    /\ ReferencesResolve
    /\ CoversOneRepo
    /\ DependenciesAcyclic
    /\ SubIssueTrees
    /\ StartedPrerequisitesDone
    /\ StartedSubIssuesClosed
    /\ OneActivePullRequest
    /\ DoneIffCompleted
    /\ LatestExists
    /\ BranchHistoryChained

LEMMA IInvInit == Init => IInv
<1> SUFFICES ASSUME Init PROVE IInv
  OBVIOUS
<1>1. TypeOK /\ LatestExists
  BY TypeInit
<1>2. ReferencesResolve /\ CoversOneRepo
  BY DEF Init, ReferencesResolve, CoversOneRepo, PRExists, Exists
<1>3. DependenciesAcyclic /\ SubIssueTrees
  BY DEF Init, DependenciesAcyclic, SubIssueTrees, Acyclic, ParentEdges
<1>4. StartedPrerequisitesDone /\ StartedSubIssuesClosed
  BY DEF Init, StartedPrerequisitesDone, StartedSubIssuesClosed, Started
<1>5. OneActivePullRequest /\ DoneIffCompleted /\ BranchHistoryChained
  BY DEF Init, OneActivePullRequest, ActiveCover, DoneIffCompleted, AcceptedCover,
         BranchHistoryChained, Completed
<1> QED BY <1>1, <1>2, <1>3, <1>4, <1>5 DEF IInv

LEMMA IInvStep == IInv /\ [Next]_vars => IInv'
BY TypeStep, ReferencesStep, CoversOneRepoStep, DependenciesStep, SubIssueTreesStep,
   StartedPrerequisitesStep, StartedSubIssuesStep, OneActiveStep, DoneStep, HistoryStep
DEF IInv

LEMMA IInvAlways == Spec => []IInv
BY IInvInit, IInvStep, PTL DEF Spec

\* Every table holds rows of its shape in every reachable state.
THEOREM TypeCorrect == Spec => []TypeOK
<1>1. IInv => TypeOK
  BY DEF IInv
<1> QED BY <1>1, IInvAlways, PTL

\* AddDependency's check keeps the dependency graph free of cycles, however
\* many issues and repositories it spans.
THEOREM DependenciesNeverCycle == Spec => []DependenciesAcyclic
<1>1. IInv => DependenciesAcyclic
  BY DEF IInv
<1> QED BY <1>1, IInvAlways, PTL

\* AssignIssueParent's check keeps the sub-issues trees of one repository.
THEOREM SubIssuesFormTrees == Spec => []SubIssueTrees
<1>1. IInv => SubIssueTrees
  BY DEF IInv
<1> QED BY <1>1, IInvAlways, PTL

\* No started or done issue has an unfinished prerequisite.
THEOREM StartedWorkIsReady == Spec => []StartedPrerequisitesDone
<1>1. IInv => StartedPrerequisitesDone
  BY DEF IInv
<1> QED BY <1>1, IInvAlways, PTL

\* No started or done issue has an open sub-issue.
THEOREM StartedWholesAreClosed == Spec => []StartedSubIssuesClosed
<1>1. IInv => StartedSubIssuesClosed
  BY DEF IInv
<1> QED BY <1>1, IInvAlways, PTL

\* No issue is ever in two pull requests that are open or accepted.
THEOREM OneActive == Spec => []OneActivePullRequest
<1>1. IInv => OneActivePullRequest
  BY DEF IInv
<1> QED BY <1>1, IInvAlways, PTL

\* An issue is done exactly when an accepted pull request, with its completion
\* record, covers it.
THEOREM DoneOnlyByAcceptance == Spec => []DoneIffCompleted
<1>1. IInv => DoneIffCompleted
  BY DEF IInv
<1> QED BY <1>1, IInvAlways, PTL

\* The completions of every branch are numbered without gap or repetition and
\* each links to its predecessor.
THEOREM HistoryChained == Spec => []BranchHistoryChained
<1>1. IInv => BranchHistoryChained
  BY DEF IInv
<1> QED BY <1>1, IInvAlways, PTL

\* Deleting issues, pull requests and repositories leaves no dangling
\* reference behind.
THEOREM NoDanglingReferences == Spec => []ReferencesResolve
<1>1. IInv => ReferencesResolve
  BY DEF IInv
<1> QED BY <1>1, IInvAlways, PTL
-----------------------------------------------------------------------------
(* Completion history is append-only                                       *)

\* One completion, over one step.
Kept(p) ==
    \/ repositories'[PRRepo(p)] = "deleted"
    \/ /\ sequence'[p] = sequence[p]
       /\ parentCompletion'[p] = parentCompletion[p]
       /\ prStatus'[p] = "accepted"
       /\ members'[p] = members[p]
       /\ \A i \in members[p] : status'[i] = "done"

LEMMA CompletionKept ==
    ASSUME IInv, [Next]_vars, NEW p \in PR, sequence[p] > 0
    PROVE  Kept(p)
<1> USE DEF IInv, TypeOK, Kept
<1>1. /\ prStatus[p] = "accepted"
      /\ target[p] \in Branch
      /\ \A i \in members[p] : status[i] = "done"
  BY DEF DoneIffCompleted, AcceptedCover, ReferencesResolve, PRExists
<1>2. ASSUME UNCHANGED <<prVars, completionVars>>,
             \A i \in members[p] : status'[i] = status[i]
      PROVE  Kept(p)
  BY <1>1, <1>2 DEF prVars, completionVars
<1>3. ASSUME NEW r \in Repo, CreateRepository(r) PROVE Kept(p)
  BY <1>2, <1>3 DEF CreateRepository, issueVars
<1>4. ASSUME NEW r \in Repo, DeleteRepository(r) PROVE Kept(p)
  <2>1. CASE PRRepo(p) = r
    BY <1>4, <2>1 DEF DeleteRepository
  <2>2. CASE PRRepo(p) # r
    <3>1. \A i \in members[p] : RepoOf[i] # r
      BY <2>2 DEF CoversOneRepo
    <3>2. /\ prStatus'[p] = prStatus[p]
          /\ sequence'[p] = sequence[p]
          /\ members'[p] = members[p]
          /\ \A i \in members[p] : status'[i] = status[i]
      BY <1>4, <2>2, <3>1 DEF DeleteRepository
    <3>3. parentCompletion[p] # None =>
             parentCompletion[p] \in PR /\ target[parentCompletion[p]] = target[p]
      BY <1>1 DEF BranchHistoryChained, Completed
    <3>4. parentCompletion'[p] = parentCompletion[p]
      BY <1>4, <2>2, <3>3 DEF DeleteRepository, PRRepo
    <3> QED BY <1>1, <3>2, <3>4
  <2> QED BY <2>1, <2>2
<1>5. ASSUME NEW b \in Branch, CreateBranch(b) PROVE Kept(p)
  BY <1>2, <1>5 DEF CreateBranch, issueVars
<1>6. ASSUME NEW i \in Issue, CancelIssue(i) \/ StartIssue(i) PROVE Kept(p)
  BY <1>1, <1>2, <1>6 DEF CancelIssue, StartIssue
<1>7. ASSUME NEW i \in Issue, DeleteIssue(i) PROVE Kept(p)
  BY <1>2, <1>7 DEF DeleteIssue, Unreferenced
<1>8. ASSUME NEW i \in Issue, NEW q \in Issue \cup {None},
             CreateIssue(i, q) \/ AssignIssueParent(i, q)
      PROVE  Kept(p)
  BY <1>1, <1>2, <1>8 DEF CreateIssue, AssignIssueParent
<1>9. ASSUME NEW i \in Issue, NEW q \in Issue, AddDependency(i, q) \/ RemoveDependency(i, q)
      PROVE  Kept(p)
  BY <1>2, <1>9 DEF AddDependency, RemoveDependency
<1>10. ASSUME NEW q \in PR, NEW issues \in SUBSET Issue, NEW b \in Branch,
              NEW isDraft \in BOOLEAN, CreatePullRequest(q, issues, b, isDraft)
       PROVE  Kept(p)
  BY <1>1, <1>10 DEF CreatePullRequest, issueVars, completionVars
<1>11. ASSUME NEW q \in PR,
              MarkPullRequestReady(q) \/ ClosePullRequest(q) \/ DeletePullRequest(q)
       PROVE  Kept(p)
  BY <1>1, <1>11 DEF MarkPullRequestReady, ClosePullRequest, DeletePullRequest, NoCompletion,
                     issueVars, completionVars
<1>12. ASSUME NEW q \in PR, AcceptPullRequest(q) PROVE Kept(p)
  BY <1>1, <1>12 DEF AcceptPullRequest
<1>13. ASSUME UNCHANGED vars PROVE Kept(p)
  BY <1>2, <1>13 DEF vars, prVars, completionVars
<1> HIDE DEF Kept
<1>14. RepositoryStep => Kept(p)
  BY <1>3, <1>4, <1>5, Zenon DEF RepositoryStep
<1>15. IssueStep => Kept(p)
  BY <1>6, <1>7, <1>8, <1>9, Zenon DEF IssueStep
<1>16. PullRequestStep => Kept(p)
  BY <1>10, <1>11, <1>12, Zenon DEF PullRequestStep
<1> QED BY <1>13, <1>14, <1>15, <1>16 DEF Next

\* Accepted work stays accepted, in its place, with its issues done, until
\* its whole repository is deleted.
THEOREM AcceptedWorkIsPermanent == Spec => HistoryAppendOnly
<1>1. IInv /\ [Next]_vars => \A p \in PR : sequence[p] > 0 => Kept(p)
  BY CompletionKept
<1> QED BY <1>1, IInvAlways, PTL DEF Spec, HistoryAppendOnly, Kept

-----------------------------------------------------------------------------
(* What a started issue waits for is settled                               *)

Settled(i) ==
    status'[i] # "deleted" =>
        \A p \in Issue :
            <<i, p>> \in dependsOn' <=> <<i, p>> \in dependsOn /\ status'[p] # "deleted"

LEMMA DependenciesSettled ==
    ASSUME IInv, [Next]_vars, NEW i \in Started
    PROVE  Settled(i)
<1> USE DEF IInv, TypeOK, Settled, Started
<1>1. \A p \in Issue : <<i, p>> \in dependsOn => status[p] # "deleted"
  BY DEF ReferencesResolve, Exists
<1>2. ASSUME dependsOn' = dependsOn,
             \A p \in Issue : status'[p] = "deleted" => status[p] = "deleted"
      PROVE  Settled(i)
  BY <1>1, <1>2
<1>3. ASSUME NEW r \in Repo, CreateRepository(r) PROVE Settled(i)
  BY <1>2, <1>3 DEF CreateRepository, issueVars
<1>4. ASSUME NEW r \in Repo, DeleteRepository(r) PROVE Settled(i)
  <2>1. \A j \in Issue : status'[j] = IF RepoOf[j] = r /\ Exists(j) THEN "deleted" ELSE status[j]
    BY <1>4 DEF DeleteRepository
  <2>2. \A p \in Issue : <<i, p>> \in dependsOn' <=>
           <<i, p>> \in dependsOn /\ RepoOf[i] # r /\ RepoOf[p] # r
    BY <1>4 DEF DeleteRepository, EdgesTouchingRepo
  <2>3. \A p \in Issue : <<i, p>> \in dependsOn => Exists(i) /\ Exists(p)
    BY DEF ReferencesResolve
  <2> QED BY <1>1, <2>1, <2>2, <2>3
<1>5. ASSUME NEW b \in Branch, CreateBranch(b) PROVE Settled(i)
  BY <1>2, <1>5 DEF CreateBranch, issueVars
<1>6. ASSUME NEW j \in Issue, CancelIssue(j) \/ StartIssue(j) PROVE Settled(i)
  BY <1>2, <1>6 DEF CancelIssue, StartIssue
<1>7. ASSUME NEW j \in Issue, DeleteIssue(j) PROVE Settled(i)
  BY <1>1, <1>7 DEF DeleteIssue, Unreferenced
<1>8. ASSUME NEW j \in Issue, NEW q \in Issue \cup {None},
             CreateIssue(j, q) \/ AssignIssueParent(j, q)
      PROVE  Settled(i)
  BY <1>2, <1>8 DEF CreateIssue, AssignIssueParent
<1>9. ASSUME NEW j \in Issue, NEW q \in Issue, AddDependency(j, q) \/ RemoveDependency(j, q)
      PROVE  Settled(i)
  BY <1>1, <1>9 DEF AddDependency, RemoveDependency, DependentOpen
<1>10. ASSUME NEW q \in PR, AcceptPullRequest(q) PROVE Settled(i)
  BY <1>2, <1>10 DEF AcceptPullRequest
<1>11. ASSUME UNCHANGED issueVars PROVE Settled(i)
  BY <1>2, <1>11 DEF issueVars
<1> HIDE DEF Settled
<1>12. RepositoryStep => Settled(i)
  BY <1>3, <1>4, <1>5, Zenon DEF RepositoryStep
<1>13. IssueStep => Settled(i)
  BY <1>6, <1>7, <1>8, <1>9, Zenon DEF IssueStep
<1>14. PullRequestStep => UNCHANGED issueVars \/ \E q \in PR : AcceptPullRequest(q)
  BY DEF PullRequestStep, CreatePullRequest, MarkPullRequestReady, ClosePullRequest,
         DeletePullRequest
<1>15. UNCHANGED vars => UNCHANGED issueVars
  BY DEF vars, issueVars
<1> QED BY <1>10, <1>11, <1>12, <1>13, <1>14, <1>15 DEF Next

\* After an issue starts nothing is added to what it waits for, and nothing
\* disappears from it except with a deleted repository.
THEOREM StartedWorkIsSettled == Spec => StartedDependenciesFrozen
<1>1. IInv /\ [Next]_vars => \A i \in Started : Settled(i)
  BY DependenciesSettled
<1> QED BY <1>1, IInvAlways, PTL DEF Spec, StartedDependenciesFrozen, Settled

-----------------------------------------------------------------------------
(* Workflow implements IssueLifecycle                                      *)

LifecycleStep == [Lifecycle!LifecycleNext]_(Lifecycle!lifecycleVars)

\* The two ways of saying that nobody waits in a circle.
LEMMA NobodyWaitsInACircle ==
    ASSUME DependenciesAcyclic
    PROVE  Lifecycle!NoCircularWait(Waits)
<1> SUFFICES ASSUME NEW S \in SUBSET Issue, S # {}
             PROVE  \E i \in S : Waits[i] \cap S = {}
  BY DEF Lifecycle!NoCircularWait
<1>1. PICK i \in S : \A j \in S : <<i, j>> \notin dependsOn
  BY DEF DependenciesAcyclic, Acyclic
<1>2. i \in Issue /\ Waits[i] = {p \in Issue : <<i, p>> \in dependsOn}
  BY DEF Waits
<1> QED BY <1>1, <1>2

LEMMA PlanningStep ==
    ASSUME IInv, DependenciesAcyclic', NEW i \in Issue, NEW p \in Issue,
           AddDependency(i, p) \/ RemoveDependency(i, p)
    PROVE  Lifecycle!Plan(i, Waits'[i])
<1> USE DEF AddDependency, RemoveDependency, DependentOpen
<1>1. status[i] = "open" /\ status' = status
  OBVIOUS
<1>2. \A q \in Waits'[i] : Lifecycle!Alive(q)
  <2>1. \A q \in Issue : <<i, q>> \in dependsOn' => Exists(q)
    BY DEF IInv, ReferencesResolve
  <2> QED BY <2>1 DEF Waits, Exists, Lifecycle!Alive
<1>3. Waits' = [Waits EXCEPT ![i] = Waits'[i]]
  <2>1. \A j \in Issue, q \in Issue : j # i => (<<j, q>> \in dependsOn' <=> <<j, q>> \in dependsOn)
    OBVIOUS
  <2>2. \A j \in Issue : j # i => {q \in Issue : <<j, q>> \in dependsOn'}
                                    = {q \in Issue : <<j, q>> \in dependsOn}
    BY <2>1
  <2> QED BY <2>2 DEF Waits
<1>4. Lifecycle!NoCircularWait(Waits')
  <2>1. DependenciesAcyclic => Lifecycle!NoCircularWait(Waits)
    BY NobodyWaitsInACircle
  <2>2. (DependenciesAcyclic => Lifecycle!NoCircularWait(Waits))'
    BY NobodyWaitsInACircle, PTL
  <2> QED BY <2>2
<1> QED BY <1>1, <1>2, <1>3, <1>4 DEF Lifecycle!Plan

\* A started issue waits only for finished ones.
LEMMA ReadyToStart ==
    ASSUME NEW i \in Issue, Blockers(i) = {}
    PROVE  Lifecycle!AllDone(Waits[i])
BY DEF Blockers, PrerequisiteBlockers, Waits, Lifecycle!AllDone

LEMMA DeletedTogether ==
    ASSUME IInv, NEW S \in SUBSET Issue, \A i \in S : Exists(i),
           status' = [i \in Issue |-> IF i \in S THEN "deleted" ELSE status[i]],
           \A i, p \in Issue : <<i, p>> \in dependsOn' <=>
              <<i, p>> \in dependsOn /\ i \notin S /\ p \notin S
    PROVE  Lifecycle!Erase(S)
<1>1. \A i \in S : Lifecycle!Alive(i)
  BY DEF Lifecycle!Alive, Exists
<1>2. \A i \in Issue : {p \in Issue : <<i, p>> \in dependsOn'} =
          IF i \in S THEN {} ELSE {p \in Issue : <<i, p>> \in dependsOn} \ S
  OBVIOUS
<1>3. Waits' = [i \in Issue |-> IF i \in S THEN {} ELSE Waits[i] \ S]
  BY <1>2 DEF Waits
<1> QED BY <1>1, <1>3 DEF Lifecycle!Erase

LEMMA StepRefines == IInv /\ IInv' /\ [Next]_vars => LifecycleStep
<1> SUFFICES ASSUME IInv, IInv', [Next]_vars PROVE LifecycleStep
  OBVIOUS
<1> USE DEF IInv, TypeOK
<1>0. ASSUME UNCHANGED <<status, dependsOn>> PROVE LifecycleStep
  BY <1>0 DEF LifecycleStep, Lifecycle!lifecycleVars, Waits
<1>1. ASSUME NEW r \in Repo, CreateRepository(r) PROVE LifecycleStep
  BY <1>0, <1>1 DEF CreateRepository, issueVars
<1>2. ASSUME NEW r \in Repo, DeleteRepository(r) PROVE LifecycleStep
  <2> DEFINE S == {i \in Issue : RepoOf[i] = r /\ Exists(i)}
  <2>1. status' = [i \in Issue |-> IF i \in S THEN "deleted" ELSE status[i]]
    BY <1>2 DEF DeleteRepository
  <2>2. \A i, p \in Issue : <<i, p>> \in dependsOn => Exists(i) /\ Exists(p)
    BY DEF ReferencesResolve
  <2>3. \A i, p \in Issue : <<i, p>> \in dependsOn' <=>
           <<i, p>> \in dependsOn /\ i \notin S /\ p \notin S
    BY <1>2, <2>2 DEF DeleteRepository, EdgesTouchingRepo
  <2>4. Lifecycle!Erase(S)
    BY <2>1, <2>3, DeletedTogether
  <2> QED BY <2>4 DEF LifecycleStep, Lifecycle!LifecycleNext
<1>3. ASSUME NEW b \in Branch, CreateBranch(b) PROVE LifecycleStep
  BY <1>0, <1>3 DEF CreateBranch, issueVars
<1>4. ASSUME NEW i \in Issue, CancelIssue(i) PROVE LifecycleStep
  <2>1. Lifecycle!Cancel(i)
    BY <1>4 DEF CancelIssue, Lifecycle!Cancel, Waits
  <2> QED BY <2>1 DEF LifecycleStep, Lifecycle!LifecycleNext
<1>5. ASSUME NEW i \in Issue, StartIssue(i) PROVE LifecycleStep
  <2>1. CASE status[i] = "open"
    <3>1. Lifecycle!Start(i)
      BY <1>5, <2>1, ReadyToStart DEF StartIssue, Lifecycle!Start, Waits
    <3> QED BY <3>1 DEF LifecycleStep, Lifecycle!LifecycleNext
  <2>2. CASE status[i] = "in_progress"
    BY <1>0, <1>5, <2>2 DEF StartIssue
  <2> QED BY <1>5, <2>1, <2>2 DEF StartIssue
<1>6. ASSUME NEW i \in Issue, DeleteIssue(i) PROVE LifecycleStep
  <2>1. \A j, p \in Issue : <<j, p>> \in dependsOn' <=>
           <<j, p>> \in dependsOn /\ j \notin {i} /\ p \notin {i}
    BY <1>6 DEF DeleteIssue, Unreferenced
  <2>2. status' = [j \in Issue |-> IF j \in {i} THEN "deleted" ELSE status[j]]
    BY <1>6 DEF DeleteIssue
  <2>3. {i} \in SUBSET Issue /\ \A j \in {i} : Exists(j)
    BY <1>6 DEF DeleteIssue
  <2>4. Lifecycle!Erase({i})
    BY <2>1, <2>2, <2>3, DeletedTogether
  <2> QED BY <2>4, <2>3 DEF LifecycleStep, Lifecycle!LifecycleNext
<1>7. ASSUME NEW i \in Issue, NEW q \in Issue \cup {None}, CreateIssue(i, q)
      PROVE  LifecycleStep
  <2>1. Lifecycle!Create(i)
    BY <1>7 DEF CreateIssue, Lifecycle!Create, Waits
  <2> QED BY <2>1 DEF LifecycleStep, Lifecycle!LifecycleNext
<1>8. ASSUME NEW i \in Issue, NEW q \in Issue \cup {None}, AssignIssueParent(i, q)
      PROVE  LifecycleStep
  BY <1>0, <1>8 DEF AssignIssueParent
<1>9. ASSUME NEW i \in Issue, NEW p \in Issue, AddDependency(i, p) \/ RemoveDependency(i, p)
      PROVE  LifecycleStep
  <2>1. Lifecycle!Plan(i, Waits'[i])
    BY <1>9, PlanningStep
  <2>2. Waits'[i] \in SUBSET Issue
    BY DEF Waits
  <2> QED BY <2>1, <2>2 DEF LifecycleStep, Lifecycle!LifecycleNext
<1>10. ASSUME NEW q \in PR, AcceptPullRequest(q) PROVE LifecycleStep
  <2>1. \A i \in members[q] : i \in Issue /\ status[i] = "in_progress" /\ Blockers(i) = {}
    BY <1>10 DEF AcceptPullRequest, CanMerge
  <2>2. \A i \in members[q] : Lifecycle!AllDone(Waits[i])
    BY <2>1, ReadyToStart
  <2>3. status' = [i \in Issue |-> IF i \in members[q] THEN "done" ELSE status[i]]
    BY <1>10, <2>1 DEF AcceptPullRequest
  <2>4. Waits' = Waits /\ members[q] # {}
    BY <1>10 DEF AcceptPullRequest, CanMerge, Waits
  <2>5. Lifecycle!Finish(members[q])
    BY <2>1, <2>2, <2>3, <2>4 DEF Lifecycle!Finish
  <2> QED BY <2>5 DEF LifecycleStep, Lifecycle!LifecycleNext
<1> HIDE DEF IInv, TypeOK
<1>11. RepositoryStep => LifecycleStep
  BY <1>1, <1>2, <1>3, Zenon DEF RepositoryStep
<1>12. IssueStep => LifecycleStep
  BY <1>4, <1>5, <1>6, <1>7, <1>8, <1>9, Zenon DEF IssueStep
<1>13. PullRequestStep => UNCHANGED issueVars \/ \E q \in PR : AcceptPullRequest(q)
  BY DEF PullRequestStep, CreatePullRequest, MarkPullRequestReady, ClosePullRequest,
         DeletePullRequest
<1>14. UNCHANGED issueVars => UNCHANGED <<status, dependsOn>>
  BY DEF issueVars
<1>15. UNCHANGED vars => UNCHANGED <<status, dependsOn>>
  BY DEF vars
<1> QED BY <1>0, <1>10, <1>11, <1>12, <1>13, <1>14, <1>15 DEF Next

\* Every behaviour of the workspace is, issue by issue, a behaviour of
\* IssueLifecycle.
THEOREM WorkspaceImplementsLifecycle == Spec => ImplementsLifecycle
<1>1. Init => Lifecycle!LifecycleInit
  BY DEF Init, Lifecycle!LifecycleInit, Waits
<1>2. IInv /\ IInv' /\ [Next]_vars => LifecycleStep
  BY StepRefines
<1> QED BY <1>1, <1>2, IInvAlways, PTL
        DEF Spec, ImplementsLifecycle, Lifecycle!LifecycleSpec, LifecycleStep

-----------------------------------------------------------------------------
(* The edits of a pull request                                             *)

EditsTyped ==
    /\ title \in Text /\ description \in Text
    /\ request \in [Caller -> Fields]
    /\ pending \in [Caller -> Fields]
    /\ writing \subseteq Caller

\* What an edit that was not overtaken is about to write is, where it was left
\* blank, what the pull request still holds.
BlanksAreCurrent ==
    \A c \in writing \ overtaken :
        /\ request[c].title = Blank => pending[c].title = title
        /\ request[c].description = Blank => pending[c].description = description

\* An edit that is under way has every field filled.
WritingFilled == \A c \in writing : pending[c] \in [title : Text, description : Text]

EditsInv == EditsTyped /\ WritingFilled /\ BlanksAreCurrent

LEMMA EditsBegin == EditsInit => EditsInv
BY DEF EditsInit, EditsInv, EditsTyped, WritingFilled, BlanksAreCurrent, Fields, NoFields

\* A filled edit has no blank field left.
LEMMA FilledHasNoBlank ==
    ASSUME EditsTyped, NEW f \in Fields
    PROVE  /\ Filled(f) \in [title : Text, description : Text]
           /\ f.title = Blank => Filled(f).title = title
           /\ f.description = Blank => Filled(f).description = description
BY DEF EditsTyped, Fields, Filled

LEMMA EditsStep == EditsInv /\ [EditsNext]_editVars => EditsInv'
<1> SUFFICES ASSUME EditsInv, [EditsNext]_editVars PROVE EditsInv'
  OBVIOUS
<1> USE DEF EditsInv, EditsTyped, WritingFilled, BlanksAreCurrent
<1>1. ASSUME NEW c \in Caller, NEW f \in Fields, ReadForUpdate(c, f) PROVE EditsInv'
  <2>1. /\ request' = [request EXCEPT ![c] = f]
        /\ pending' = [pending EXCEPT ![c] = Filled(f)]
        /\ writing' = writing \cup {c}
        /\ overtaken' = overtaken \ {c}
        /\ UNCHANGED <<title, description>>
    BY <1>1 DEF ReadForUpdate
  <2>2. /\ Filled(f) \in [title : Text, description : Text]
        /\ f.title = Blank => Filled(f).title = title
        /\ f.description = Blank => Filled(f).description = description
    BY FilledHasNoBlank
  <2>3. EditsTyped'
    BY <2>1, <2>2 DEF Fields
  <2>4. ASSUME NEW d \in writing' PROVE pending'[d] \in [title : Text, description : Text]
    BY <2>1, <2>2
  <2>5. ASSUME NEW d \in writing' \ overtaken'
        PROVE  /\ request'[d].title = Blank => pending'[d].title = title'
               /\ request'[d].description = Blank => pending'[d].description = description'
    <3>1. CASE d = c
      BY <2>1, <2>2, <3>1
    <3>2. CASE d # c
      BY <2>1, <3>2
    <3> QED BY <3>1, <3>2
  <2> QED BY <2>3, <2>4, <2>5
<1>2. ASSUME NEW c \in Caller, UpdatePullRequest(c) PROVE EditsInv'
  BY <1>2 DEF UpdatePullRequest, Writable
<1>3. CASE CloseEdited \/ AcceptEdited \/ DeleteEdited
  BY <1>3 DEF CloseEdited, AcceptEdited, DeleteEdited, Leave
<1>4. CASE UNCHANGED editVars
  BY <1>4 DEF editVars
<1> QED BY <1>1, <1>2, <1>3, <1>4 DEF EditsNext

LEMMA EditsInvariant == EditsSpec => []EditsInv
BY EditsBegin, EditsStep, PTL DEF EditsSpec

-----------------------------------------------------------------------------
(* An accepted, closed or deleted pull request is a record: no edit that     *)
(* read it while it was open changes it (the guard of the store's UPDATE).   *)
THEOREM RecordsStayFrozen == EditsSpec => RecordsAreFrozen
<1>1. [EditsNext]_editVars => [FrozenStep]_editVars
  <2> SUFFICES ASSUME EditsNext, editStatus # "open"
               PROVE  title' = title /\ description' = description
    BY DEF editVars, FrozenStep
  <2> QED BY DEF EditsNext, ReadForUpdate, UpdatePullRequest, Writable,
                 CloseEdited, AcceptEdited, DeleteEdited, Leave
<1> QED BY <1>1, PTL DEF EditsSpec, RecordsAreFrozen

(* A field that an edit left blank is changed by it only when another edit   *)
(* was written between its read and its write (UpdatePullRequest in the      *)
(* application layer and in the store).                                      *)
THEOREM BlankLostOnlyToOvertaking == EditsSpec => BlankKeptUnlessOvertaken
<1>1. EditsInv /\ [EditsNext]_editVars => [BlankStep]_editVars
  <2> SUFFICES ASSUME EditsInv, EditsNext, NEW c \in writing \ overtaken, c \notin writing'
               PROVE  /\ request[c].title = Blank => title' = title
                      /\ request[c].description = Blank => description' = description
    BY DEF editVars, BlankStep
  <2>1. ASSUME NEW d \in Caller, UpdatePullRequest(d)
        PROVE  d = c
    BY <2>1 DEF UpdatePullRequest
  <2>2. ASSUME NEW d \in Caller, UpdatePullRequest(d)
        PROVE  /\ request[c].title = Blank => title' = title
               /\ request[c].description = Blank => description' = description
    BY <2>1, <2>2 DEF UpdatePullRequest, EditsInv, BlanksAreCurrent
  <2>3. ~ \E d \in Caller, f \in Fields : ReadForUpdate(d, f)
    BY DEF ReadForUpdate
  <2>4. CASE CloseEdited \/ AcceptEdited \/ DeleteEdited
    BY <2>4 DEF CloseEdited, AcceptEdited, DeleteEdited, Leave
  <2> QED BY <2>2, <2>3, <2>4 DEF EditsNext
<1> QED BY <1>1, EditsInvariant, PTL DEF EditsSpec, BlankKeptUnlessOvertaken

-----------------------------------------------------------------------------
(* The arrangement of the graph                                              *)

\* What the canvas may hold and what may have happened to it.
Canvas == [open : BOOLEAN, ready : BOOLEAN, layout : Graph!Layout,
           status : {"loading", "saving", "saved", "local"}, dragging : BOOLEAN,
           timer : BOOLEAN, latest : Graph!Layout \cup {Nothing}]

LayoutPast == [changes : Nat, resets : Nat, mounts : Nat, stored : SUBSET Graph!Layout,
               floor : Nat, crossed : BOOLEAN]

ClearedLayout == {l \in Graph!Layout : l.places = 0 /\ l.view = 0}

\* A request to save, a reset that was asked for, and one that the server made.
LayoutRequest ==
    [kind : {"save"}, layout : Graph!Layout, upTo : Nat, done : BOOLEAN]
      \cup [kind : {"reset"}, layout : {Nothing}, upTo : Nat, done : {FALSE}]
      \cup [kind : {"reset"}, layout : ClearedLayout, upTo : Nat, done : {TRUE}]

\* The places and the view of an arrangement come from changes after f and up to c.
Between(n, f, c) == n = 0 \/ (f < n /\ n <= c)
After(l, f, c) == Between(l.places, f, c) /\ Between(l.view, f, c)

\* Requests in the order in which they are made: only the first may be done.
InTurn(s, p) ==
    /\ s \in Seq(LayoutRequest)
    /\ \A i \in DOMAIN s : /\ s[i].upTo <= p.changes
                           /\ s[i].done => i = 1
                           /\ s[i].done => s[i].layout \in p.stored

\* What is saved after a reset is of changes after it.
SavesAfter(s, p) ==
    /\ \A j \in DOMAIN s : s[j].kind = "save" => After(s[j].layout, p.floor, p.changes)
    /\ \A i, j \in DOMAIN s : i < j /\ s[i].kind = "reset" /\ s[j].kind = "save" =>
         After(s[j].layout, s[i].upTo, p.changes)

\* The server made the reset that is first.
ResetMade(s) == s # <<>> /\ s[1].kind = "reset" /\ s[1].done

\* A canvas that is closed shows and asks for nothing; a save is due for what is shown.
CanvasKnown ==
    /\ canvas \in Canvas
    /\ load \in {Nothing} \cup [answer : Graph!Layout \cup {Nothing}]
    /\ ~canvas.open => canvas = Graph!Closed /\ load = Nothing /\ queues.current = <<>>
    /\ canvas.timer => canvas.ready /\ ~canvas.dragging /\ canvas.latest = canvas.layout
    /\ load # Nothing => ~canvas.ready

\* What is stored, kept by the browser and waiting is well formed, and in turn.
KeptKnown ==
    /\ server \in Graph!Layout /\ local \in Graph!Layout
    /\ past \in LayoutPast /\ past.floor <= past.changes
    /\ queues \in [current : Seq(LayoutRequest), earlier : Seq(LayoutRequest)]
    /\ InTurn(queues.current, past) /\ InTurn(queues.earlier, past)

\* A canvas that is ready and has no save due has asked to save what it shows.
SaveFollows ==
    /\ canvas.open => queues.earlier = <<>>
    /\ ~canvas.ready => canvas.status = "loading" /\ queues.current = <<>>
    /\ queues.current # <<>> /\ queues.current[1].done => server = queues.current[1].layout
    /\ canvas.ready /\ ~canvas.timer /\ ~canvas.dragging =>
         /\ canvas.latest = canvas.layout
         /\ queues.current # <<>> =>
              /\ queues.current[Len(queues.current)].kind = "save"
              /\ queues.current[Len(queues.current)].layout = canvas.layout
         /\ canvas.status = "saved" =>
              /\ canvas.layout \in past.stored
              /\ queues.current = <<>> => server = canvas.layout

\* What is shown, stored, kept or about to be is of changes after the last reset made.
ResetFollows ==
    /\ After(server, past.floor, past.changes)
    /\ After(canvas.layout, past.floor, past.changes)
    /\ load # Nothing /\ load.answer # Nothing => After(load.answer, past.floor, past.changes)
    /\ SavesAfter(queues.current, past) /\ SavesAfter(queues.earlier, past)
    /\ \A i \in DOMAIN queues.current :
         queues.current[i].kind = "reset" =>
           After(canvas.layout, queues.current[i].upTo, past.changes)
    /\ After(local, past.floor, past.changes) \/ ResetMade(queues.current)
         \/ ResetMade(queues.earlier)

LayoutsInv ==
    /\ CanvasKnown /\ KeptKnown
    /\ ~past.crossed => SaveFollows /\ ResetFollows

LEMMA RescheduledCanvas ==
    ASSUME NEW c \in Canvas
    PROVE  /\ Graph!Rescheduled(c) \in Canvas
           /\ Graph!Rescheduled(c).open = c.open /\ Graph!Rescheduled(c).ready = c.ready
           /\ Graph!Rescheduled(c).layout = c.layout /\ Graph!Rescheduled(c).status = c.status
           /\ Graph!Rescheduled(c).dragging = c.dragging
           /\ Graph!Rescheduled(c).timer <=> c.ready /\ ~c.dragging
           /\ Graph!Rescheduled(c).timer => Graph!Rescheduled(c).latest = c.layout
<1>1. CASE c.ready /\ ~c.dragging
  BY <1>1 DEF Graph!Rescheduled, Canvas
<1>2. CASE ~(c.ready /\ ~c.dragging)
  BY <1>2 DEF Graph!Rescheduled, Canvas
<1> QED BY <1>1, <1>2

LEMMA OneLayoutRequest ==
    ASSUME NEW s \in Seq(LayoutRequest), NEW i \in DOMAIN s
    PROVE  /\ s[i] \in LayoutRequest /\ s[i].kind \in {"save", "reset"}
           /\ s[i].upTo \in Nat /\ s[i].done \in BOOLEAN
           /\ s[i].kind = "save" => s[i].layout \in Graph!Layout
           /\ s[i].kind = "reset" /\ s[i].done => s[i].layout \in ClearedLayout
<1>1. s[i] \in LayoutRequest
  OBVIOUS
<1> QED BY <1>1 DEF LayoutRequest

\* As time goes on the requests that wait stay in turn.
LEMMA StillInTurn ==
    ASSUME NEW s, NEW p \in LayoutPast, NEW r \in LayoutPast, InTurn(s, p), p.changes <= r.changes,
           p.stored \subseteq r.stored
    PROVE  InTurn(s, r)
<1>1. s \in Seq(LayoutRequest) /\ \A i \in DOMAIN s : s[i].upTo \in Nat
  BY OneLayoutRequest DEF InTurn
<1>2. p.changes \in Nat /\ r.changes \in Nat
  BY DEF LayoutPast
<1> QED BY <1>1, <1>2 DEF InTurn

LEMMA StillAfter ==
    ASSUME NEW s, NEW p \in LayoutPast, NEW r \in LayoutPast, SavesAfter(s, p), p.changes <= r.changes,
           s \in Seq(LayoutRequest), p.floor = r.floor
    PROVE  SavesAfter(s, r)
<1>1. \A i \in DOMAIN s : s[i] \in LayoutRequest
  OBVIOUS
<1>2. p.changes \in Nat /\ r.changes \in Nat /\ p.floor \in Nat
  BY DEF LayoutPast
<1>3. \A l \in Graph!Layout : l.places \in Nat /\ l.view \in Nat
  BY DEF Graph!Layout
<1>4. \A l \in Graph!Layout : \A f : After(l, f, p.changes) => After(l, f, r.changes)
  BY <1>2, <1>3 DEF After, Between
<1>5. \A i \in DOMAIN s : s[i].kind = "save" => s[i].layout \in Graph!Layout
  BY <1>1 DEF LayoutRequest
<1> QED BY <1>4, <1>5 DEF SavesAfter

\* A canvas that is changed, loaded or dragged, with the requests as they are.
LEMMA CanvasStep ==
    ASSUME LayoutsInv, NEW c \in Canvas, c.open, canvas.open, canvas' = Graph!Rescheduled(c),
           UNCHANGED <<queues, server, local>>,
           past' = past \/ past' = [past EXCEPT !.changes = @ + 1],
           load' = load \/ load' = Nothing, load' # Nothing => ~c.ready,
           c.ready \/ (~canvas.ready /\ c.status = canvas.status),
           ~past.crossed => /\ After(c.layout, past.floor, past'.changes)
                            /\ \A i \in DOMAIN queues.current :
                                 queues.current[i].kind = "reset" =>
                                   After(c.layout, queues.current[i].upTo, past'.changes)
    PROVE  LayoutsInv'
<1>1. /\ canvas' \in Canvas /\ canvas'.open /\ canvas'.ready = c.ready
      /\ canvas'.layout = c.layout /\ canvas'.status = c.status
      /\ canvas'.dragging = c.dragging /\ (canvas'.timer <=> c.ready /\ ~c.dragging)
      /\ canvas'.timer => canvas'.latest = c.layout
  BY RescheduledCanvas
<1>2. /\ past \in LayoutPast /\ past' \in LayoutPast /\ past.changes <= past'.changes
      /\ past'.floor = past.floor /\ past'.stored = past.stored
      /\ past'.crossed = past.crossed /\ past.floor <= past'.changes
  <2>1. past \in LayoutPast /\ past.floor <= past.changes
    BY DEF LayoutsInv, KeptKnown
  <2>2. past.changes \in Nat /\ past.floor \in Nat
    BY <2>1 DEF LayoutPast
  <2>3. /\ past' \in LayoutPast /\ past'.floor = past.floor /\ past'.stored = past.stored
        /\ past'.crossed = past.crossed /\ past'.changes \in {past.changes, past.changes + 1}
    BY <2>1, <2>2 DEF LayoutPast
  <2> QED BY <2>1, <2>2, <2>3
<1>3. CanvasKnown'
  BY <1>1 DEF LayoutsInv, CanvasKnown
<1>4. KeptKnown'
  BY <1>2, StillInTurn DEF LayoutsInv, KeptKnown
<1>5. ASSUME ~past'.crossed PROVE SaveFollows'
  BY <1>1, <1>2, <1>5 DEF LayoutsInv, SaveFollows
<1>6. ASSUME ~past'.crossed PROVE ResetFollows'
  <2>1. /\ past.changes \in Nat /\ past'.changes \in Nat /\ past.floor \in Nat
        /\ server \in Graph!Layout /\ local \in Graph!Layout
        /\ load \in {Nothing} \cup [answer : Graph!Layout \cup {Nothing}]
        /\ queues.current \in Seq(LayoutRequest) /\ queues.earlier \in Seq(LayoutRequest)
    BY <1>2 DEF LayoutPast, LayoutsInv, KeptKnown, CanvasKnown
  <2>2. \A l \in Graph!Layout : \A f : After(l, f, past.changes) => After(l, f, past'.changes)
    <3>1. \A l \in Graph!Layout : l.places \in Nat /\ l.view \in Nat
      BY DEF Graph!Layout
    <3> QED BY <1>2, <2>1, <3>1 DEF After, Between
  <2>3. SavesAfter(queues.current, past') /\ SavesAfter(queues.earlier, past')
    BY <1>2, <1>6, <2>1, StillAfter DEF LayoutsInv, ResetFollows
  <2>4. load' # Nothing /\ load'.answer # Nothing => After(load'.answer, past.floor, past'.changes)
    BY <1>2, <1>6, <2>1, <2>2 DEF LayoutsInv, ResetFollows
  <2>5. After(server, past.floor, past'.changes)
    BY <1>2, <1>6, <2>1, <2>2 DEF LayoutsInv, ResetFollows
  <2>6. After(local, past.floor, past'.changes) \/ ResetMade(queues.current)
         \/ ResetMade(queues.earlier)
    BY <1>2, <1>6, <2>1, <2>2 DEF LayoutsInv, ResetFollows
  <2> QED BY <1>1, <1>2, <1>6, <2>3, <2>4, <2>5, <2>6 DEF ResetFollows
<1> QED BY <1>3, <1>4, <1>5, <1>6 DEF LayoutsInv

\* t is s with the request r at its end.
Added(t, s, r, p) ==
    /\ InTurn(t, p) /\ t \in Seq(LayoutRequest) /\ t # <<>> /\ t[Len(t)] = r
    /\ Len(t) \in DOMAIN t /\ Len(t) \notin DOMAIN s
    /\ DOMAIN t = DOMAIN s \cup {Len(t)}
    /\ \A i \in DOMAIN s : t[i] = s[i]
    /\ \A i, j \in DOMAIN t : i < j => i \in DOMAIN s
    /\ t[1].done => s # <<>> /\ t[1] = s[1]
    /\ ResetMade(s) => ResetMade(t)

LEMMA RequestAdded ==
    ASSUME NEW s, NEW p, InTurn(s, p), NEW r \in LayoutRequest, r.upTo <= p.changes, ~r.done,
           NEW t, t = Append(s, r)
    PROVE  Added(t, s, r, p)
<1>1. s \in Seq(LayoutRequest) /\ Len(s) \in Nat /\ DOMAIN s = 1 .. Len(s)
  BY DEF InTurn
<1>2. t \in Seq(LayoutRequest) /\ Len(t) = Len(s) + 1 /\ DOMAIN t = 1 .. Len(s) + 1
      /\ t[Len(s) + 1] = r /\ \A i \in 1 .. Len(s) : t[i] = s[i]
  BY <1>1
<1>3. t # <<>> /\ (s # <<>> => 1 \in DOMAIN s) /\ (s = <<>> => Len(s) = 0)
  BY <1>1, <1>2
<1>4. InTurn(t, p)
  BY <1>1, <1>2 DEF InTurn
<1>5. t[1].done => s # <<>> /\ t[1] = s[1]
  BY <1>1, <1>2, <1>3
<1>6. ResetMade(s) => ResetMade(t)
  BY <1>1, <1>2, <1>3 DEF ResetMade
<1>7. \A i, j \in DOMAIN t : i < j => i \in DOMAIN s
  BY <1>1, <1>2
<1> QED BY <1>1, <1>2, <1>3, <1>4, <1>5, <1>6, <1>7 DEF Added

\* t is s without its first request, which was answered: none of those behind it is done.
Answered(t, s, p) ==
    /\ InTurn(t, p) /\ t \in Seq(LayoutRequest)
    /\ \A i \in DOMAIN t : t[i] = s[i + 1] /\ i + 1 \in DOMAIN s
    /\ ~ResetMade(t) /\ (t # <<>> => ~t[1].done /\ t[Len(t)] = s[Len(s)])
    /\ t = <<>> => Len(s) = 1
    /\ SavesAfter(s, p) => SavesAfter(t, p)

LEMMA RequestGone ==
    ASSUME NEW s, NEW p, InTurn(s, p), s # <<>>, NEW t, t = Tail(s)
    PROVE  /\ Answered(t, s, p)
           /\ Head(s) = s[1] /\ 1 \in DOMAIN s
<1>1. s \in Seq(LayoutRequest) /\ Len(s) \in Nat \ {0} /\ DOMAIN s = 1 .. Len(s) /\ Head(s) = s[1]
  BY DEF InTurn
<1>2. t \in Seq(LayoutRequest) /\ Len(t) = Len(s) - 1 /\ DOMAIN t = 1 .. Len(s) - 1
      /\ \A i \in 1 .. Len(s) - 1 : t[i] = s[i + 1]
  BY <1>1
<1>3. (t = <<>> => Len(t) = 0) /\ (t # <<>> => Len(t) # 0)
  BY <1>2
<1>4. \A i \in DOMAIN t : t[i] = s[i + 1] /\ i + 1 \in DOMAIN s /\ ~t[i].done /\ i + 1 # 1
  BY <1>1, <1>2 DEF InTurn
<1>5. InTurn(t, p)
  BY <1>2, <1>4 DEF InTurn
<1>6. t # <<>> => 1 \in DOMAIN t /\ t[Len(t)] = s[Len(s)]
  BY <1>1, <1>2, <1>3
<1>7. t = <<>> => Len(s) = 1
  <2>1. Len(t) = 0 => Len(s) = 1
    BY <1>1, <1>2
  <2> QED BY <1>3, <2>1, Zenon
<1>8. SavesAfter(s, p) => SavesAfter(t, p)
  <2>1. \A i, j \in DOMAIN t : i < j => i + 1 < j + 1
    BY <1>2
  <2> QED BY <1>4, <2>1 DEF SavesAfter
<1>9. ~ResetMade(t) /\ (t # <<>> => ~t[1].done)
  BY <1>4, <1>6 DEF ResetMade
<1>10. Head(s) = s[1] /\ 1 \in DOMAIN s
  BY <1>1
<1> QED BY <1>2, <1>4, <1>5, <1>6, <1>7, <1>8, <1>9, <1>10 DEF Answered

LEMMA FirstReplaced ==
    ASSUME NEW S, NEW s \in Seq(S), s # <<>>, NEW g \in S
    PROVE  LET t == [s EXCEPT ![1] = g]
           IN /\ t \in Seq(S) /\ Len(t) = Len(s) /\ DOMAIN t = DOMAIN s /\ t[1] = g
              /\ \A i \in DOMAIN s : i # 1 => t[i] = s[i]
<1>1. 1 \in 1 .. Len(s) /\ DOMAIN s = 1 .. Len(s)
  OBVIOUS
<1>2. [s EXCEPT ![1] = g] \in Seq(S) /\ Len([s EXCEPT ![1] = g]) = Len(s)
  BY <1>1, ExceptSeq
<1> QED BY <1>1, <1>2

\* t is s with its first request made by the server, which has l from then on.
Made(t, s, l) ==
    /\ t \in Seq(LayoutRequest) /\ t # <<>> /\ Len(t) = Len(s) /\ DOMAIN t = DOMAIN s
    /\ 1 \in DOMAIN s /\ Len(s) \in DOMAIN s
    /\ t[1].done /\ t[1].layout = l
    /\ \A i \in DOMAIN s : /\ t[i].kind = s[i].kind /\ t[i].upTo = s[i].upTo
                           /\ s[i].kind = "save" => t[i].layout = s[i].layout
    /\ s[1].kind = "reset" => ResetMade(t)

LEMMA RequestMade ==
    ASSUME NEW s, NEW p \in LayoutPast, InTurn(s, p), s # <<>>, NEW l \in Graph!Layout,
           s[1].kind = "save" => l = s[1].layout,
           s[1].kind = "reset" => l \in ClearedLayout,
           NEW r \in LayoutPast, r.changes = p.changes, p.stored \subseteq r.stored, l \in r.stored,
           NEW t, t = [s EXCEPT ![1] = [s[1] EXCEPT !.layout = l, !.done = TRUE]]
    PROVE  Made(t, s, l) /\ InTurn(t, r)
<1> DEFINE h == s[1]
           g == [h EXCEPT !.layout = l, !.done = TRUE]
<1>1. s \in Seq(LayoutRequest) /\ Len(s) \in Nat \ {0} /\ DOMAIN s = 1 .. Len(s)
  BY DEF InTurn
<1>2. h \in LayoutRequest /\ h = s[1]
  BY <1>1
<1>3. /\ g \in LayoutRequest /\ g.kind = h.kind /\ g.upTo = h.upTo /\ g.done /\ g.layout = l
  <2> HIDE DEF h
  <2>1. CASE h.kind = "save"
    BY <1>2, <2>1 DEF LayoutRequest
  <2>2. CASE h.kind = "reset"
    BY <1>2, <2>2 DEF LayoutRequest
  <2> QED BY <1>2, <2>1, <2>2 DEF LayoutRequest
<1>4. t = [s EXCEPT ![1] = g]
  BY Zenon
<1> HIDE DEF g, h
<1>5. t \in Seq(LayoutRequest) /\ Len(t) = Len(s) /\ DOMAIN t = DOMAIN s /\ t[1] = g
      /\ \A i \in DOMAIN s : i # 1 => t[i] = s[i]
  <2> DEFINE u == [s EXCEPT ![1] = g]
  <2>1. u \in Seq(LayoutRequest) /\ Len(u) = Len(s) /\ DOMAIN u = DOMAIN s /\ u[1] = g
        /\ \A i \in DOMAIN s : i # 1 => u[i] = s[i]
    BY <1>1, <1>3, FirstReplaced
  <2>2. t = u
    BY <1>4
  <2> HIDE DEF u
  <2> QED BY <2>1, <2>2, Zenon
<1>6. t # <<>> /\ 1 \in DOMAIN s /\ Len(s) \in DOMAIN s
  BY <1>1, <1>5
<1>7. \A i \in DOMAIN s : /\ t[i].kind = s[i].kind /\ t[i].upTo = s[i].upTo
                          /\ s[i].kind = "save" => t[i].layout = s[i].layout
  BY <1>2, <1>3, <1>5
<1>8. InTurn(t, r)
  BY <1>2, <1>3, <1>5, <1>6, <1>7 DEF InTurn
<1>9. s[1].kind = "reset" => ResetMade(t)
  BY <1>2, <1>3, <1>5, <1>6 DEF ResetMade
<1> QED BY <1>2, <1>3, <1>5, <1>6, <1>7, <1>8, <1>9 DEF Made

LEMMA LayoutsBegin == Graph!LayoutsAssumption /\ Graph!LayoutsInit => LayoutsInv
<1> SUFFICES ASSUME Graph!LayoutsInit PROVE LayoutsInv
  OBVIOUS
<1>1. Graph!EmptyLayout \in Graph!Layout /\ Graph!Closed \in Canvas
      /\ ~Graph!Closed.open /\ ~Graph!Closed.ready /\ ~Graph!Closed.timer
      /\ Graph!Closed.layout = Graph!EmptyLayout /\ Graph!Closed.status = "loading"
  BY DEF Graph!EmptyLayout, Graph!Layout, Graph!Closed, Canvas
<1>2. <<>> \in Seq(LayoutRequest) /\ DOMAIN <<>> = {}
  OBVIOUS
<1>3. /\ canvas = Graph!Closed /\ load = Nothing /\ server = Graph!EmptyLayout
      /\ local = Graph!EmptyLayout /\ queues = [current |-> <<>>, earlier |-> <<>>]
      /\ past \in LayoutPast /\ past.floor = 0 /\ past.changes = 0
  BY <1>1 DEF Graph!LayoutsInit, LayoutPast
<1>4. CanvasKnown
  BY <1>1, <1>3 DEF CanvasKnown
<1>5. KeptKnown
  BY <1>1, <1>2, <1>3 DEF KeptKnown, InTurn
<1>6. SaveFollows
  BY <1>1, <1>3 DEF SaveFollows
<1>7. After(Graph!EmptyLayout, 0, 0)
  BY DEF Graph!EmptyLayout, After, Between
<1>8. ResetFollows
  BY <1>1, <1>2, <1>3, <1>7 DEF ResetFollows, SavesAfter
<1> QED BY <1>4, <1>5, <1>6, <1>8 DEF LayoutsInv

\* What every step may rely on.
LEMMA LayoutsFacts ==
    ASSUME LayoutsInv
    PROVE  /\ canvas \in Canvas /\ past \in LayoutPast /\ past.changes \in Nat /\ past.floor \in Nat
           /\ canvas.layout \in Graph!Layout /\ server \in Graph!Layout /\ local \in Graph!Layout
           /\ load # Nothing => load.answer \in Graph!Layout \cup {Nothing}
           /\ queues.current \in Seq(LayoutRequest) /\ queues.earlier \in Seq(LayoutRequest)
           /\ queues \in [current : Seq(LayoutRequest), earlier : Seq(LayoutRequest)]
           /\ queues.current # <<>> => canvas.open
           /\ load # Nothing => canvas.open /\ ~canvas.ready
           /\ canvas.dragging \/ canvas.ready \/ canvas.timer => canvas.open
           /\ ~past.crossed => /\ canvas.ready \/ queues.current = <<>>
                               /\ canvas.open => queues.earlier = <<>>
                               /\ queues.current # <<>> => queues.earlier = <<>> /\ load = Nothing
                               /\ queues.earlier # <<>> => /\ ~canvas.open /\ load = Nothing
                                                           /\ queues.current = <<>>
                                                           /\ canvas.layout = Graph!EmptyLayout
<1>1. ~Graph!Closed.dragging /\ ~Graph!Closed.ready /\ ~Graph!Closed.timer
      /\ Graph!Closed.layout = Graph!EmptyLayout
  BY DEF Graph!Closed
<1>2. CanvasKnown /\ KeptKnown /\ (~past.crossed => SaveFollows)
  BY DEF LayoutsInv
<1>3. /\ canvas \in Canvas /\ past \in LayoutPast /\ server \in Graph!Layout /\ local \in Graph!Layout
      /\ queues.current \in Seq(LayoutRequest) /\ queues.earlier \in Seq(LayoutRequest)
      /\ queues \in [current : Seq(LayoutRequest), earlier : Seq(LayoutRequest)]
  BY <1>2 DEF CanvasKnown, KeptKnown
<1>4. past.changes \in Nat /\ past.floor \in Nat /\ canvas.layout \in Graph!Layout
  BY <1>3 DEF LayoutPast, Canvas
<1>5. load # Nothing => load.answer \in Graph!Layout \cup {Nothing}
  BY <1>2 DEF CanvasKnown
<1>6. /\ queues.current # <<>> => canvas.open
      /\ load # Nothing => canvas.open /\ ~canvas.ready
      /\ canvas.dragging \/ canvas.ready \/ canvas.timer => canvas.open
  BY <1>1, <1>2, Zenon DEF CanvasKnown
<1>7. ~canvas.open => canvas.layout = Graph!EmptyLayout
  BY <1>1, <1>2, Zenon DEF CanvasKnown
<1>8. ~past.crossed => /\ canvas.ready \/ queues.current = <<>>
                       /\ canvas.open => queues.earlier = <<>>
  BY <1>2, Zenon DEF SaveFollows
<1> QED BY <1>3, <1>4, <1>5, <1>6, <1>7, <1>8, Zenon

LEMMA OpenStep ==
    ASSUME LayoutsInv, Graph!Open
    PROVE  LayoutsInv'
<1>1. /\ ~canvas.open /\ canvas' = [Graph!Closed EXCEPT !.open = TRUE]
      /\ load' = [answer |-> Nothing] /\ UNCHANGED <<queues, server, local>>
      /\ past' = [past EXCEPT !.mounts = @ + 1, !.crossed = @ \/ queues.earlier # <<>>]
  BY DEF Graph!Open
<1>2. /\ canvas' \in Canvas /\ canvas'.open /\ ~canvas'.ready /\ ~canvas'.timer
      /\ canvas'.layout = Graph!EmptyLayout /\ canvas'.status = "loading"
  BY <1>1 DEF Graph!Closed, Canvas, Graph!EmptyLayout, Graph!Layout
<1>3. /\ past' \in LayoutPast /\ past'.changes = past.changes /\ past'.stored = past.stored
      /\ past'.floor = past.floor
      /\ past'.crossed <=> past.crossed \/ queues.earlier # <<>>
      /\ past.changes <= past'.changes
  <2> DEFINE crossing == past.crossed \/ queues.earlier # <<>>
             opened == past.mounts + 1
  <2>1. past' = [past EXCEPT !.mounts = opened, !.crossed = crossing]
    BY <1>1
  <2>2. past \in LayoutPast /\ opened \in Nat /\ crossing \in BOOLEAN
    BY LayoutsFacts DEF LayoutPast
  <2>3. crossing <=> past.crossed \/ queues.earlier # <<>>
    OBVIOUS
  <2> HIDE DEF crossing, opened
  <2>4. /\ past' \in LayoutPast /\ past'.changes = past.changes /\ past'.stored = past.stored
        /\ past'.floor = past.floor /\ past'.crossed = crossing
    BY <2>1, <2>2 DEF LayoutPast
  <2>5. past.changes <= past'.changes
    BY <2>4, LayoutsFacts
  <2>6. past'.crossed <=> past.crossed \/ queues.earlier # <<>>
    BY <2>3, <2>4, Zenon
  <2> QED BY <2>4, <2>5, <2>6, Zenon
<1>4. queues.current = <<>>
  BY <1>1, LayoutsFacts
<1>5. CanvasKnown'
  BY <1>1, <1>2 DEF CanvasKnown
<1>6. KeptKnown'
  BY <1>1, <1>3, LayoutsFacts, StillInTurn DEF KeptKnown, LayoutsInv
<1>7. ASSUME ~past'.crossed PROVE SaveFollows'
  BY <1>1, <1>2, <1>3, <1>4, <1>7 DEF SaveFollows
<1>8. ASSUME ~past'.crossed PROVE ResetFollows'
  <2>1. ~past.crossed /\ queues.earlier = <<>> /\ DOMAIN queues.current = {}
    BY <1>3, <1>4, <1>8
  <2>2. After(Graph!EmptyLayout, past.floor, past.changes)
    BY DEF Graph!EmptyLayout, After, Between
  <2>3. SavesAfter(queues.current, past') /\ SavesAfter(queues.earlier, past')
    BY <2>1, <1>4 DEF SavesAfter
  <2> QED BY <1>1, <1>2, <1>3, <2>1, <2>2, <2>3 DEF ResetFollows, LayoutsInv
<1> QED BY <1>5, <1>6, <1>7, <1>8 DEF LayoutsInv

LEMMA ServerReadsStep ==
    ASSUME LayoutsInv, Graph!ServerReads
    PROVE  LayoutsInv'
<1>1. /\ load # Nothing /\ load' = [answer |-> server] /\ load'.answer = server
      /\ UNCHANGED <<canvas, queues, server, local, past>>
  BY DEF Graph!ServerReads
<1>2. CanvasKnown'
  BY <1>1, LayoutsFacts DEF CanvasKnown, LayoutsInv
<1>3. KeptKnown' /\ (SaveFollows => SaveFollows')
  BY <1>1 DEF KeptKnown, LayoutsInv, SaveFollows, InTurn
<1>4. ResetFollows => ResetFollows'
  BY <1>1 DEF ResetFollows, SavesAfter, ResetMade
<1> QED BY <1>1, <1>2, <1>3, <1>4 DEF LayoutsInv

\* What is read is of after the last reset; so is the browser's copy when nothing is under way.
LEMMA LoadedStep ==
    ASSUME LayoutsInv, Graph!Loaded \/ Graph!LoadFails
    PROVE  LayoutsInv'
<1>1. load # Nothing /\ load' = Nothing /\ UNCHANGED <<queues, server, local, past>>
  BY DEF Graph!Loaded, Graph!LoadFails
<1>2. PICK l, result :
        /\ canvas' = Graph!Rescheduled([canvas EXCEPT !.layout = l, !.status = result, !.ready = TRUE])
        /\ result \in {"saved", "local"}
        /\ \/ l = local
           \/ l = load.answer /\ load.answer # Nothing
           \/ l = [local EXCEPT !.shapes = load.answer.shapes] /\ load.answer # Nothing
  <2>1. CASE Graph!Loaded
    BY <2>1, Zenon DEF Graph!Loaded
  <2>2. CASE Graph!LoadFails
    BY <2>2, Zenon DEF Graph!LoadFails
  <2> QED BY <2>1, <2>2
<1> DEFINE c == [canvas EXCEPT !.layout = l, !.status = result, !.ready = TRUE]
<1>3. /\ canvas \in Canvas /\ canvas.open /\ local \in Graph!Layout
      /\ load.answer \in Graph!Layout \cup {Nothing}
  BY <1>1, LayoutsFacts
<1>4. l \in Graph!Layout
  BY <1>2, <1>3 DEF Graph!Layout
<1>5. c \in Canvas /\ c.open /\ c.ready /\ c.layout = l
  BY <1>2, <1>3, <1>4 DEF Canvas
<1>6. canvas' = Graph!Rescheduled(c)
  BY <1>2
<1>7. ASSUME ~past.crossed
      PROVE  After(l, past.floor, past.changes) /\ DOMAIN queues.current = {}
  <2>1. queues.current = <<>> /\ queues.earlier = <<>>
    BY <1>1, <1>7, LayoutsFacts
  <2>2. After(local, past.floor, past.changes)
    BY <1>7, <2>1 DEF LayoutsInv, ResetFollows, ResetMade
  <2>3. load.answer # Nothing => After(load.answer, past.floor, past.changes)
    BY <1>1, <1>7 DEF LayoutsInv, ResetFollows
  <2>4. After([local EXCEPT !.shapes = load.answer.shapes], past.floor, past.changes)
    BY <1>3, <2>2 DEF After, Graph!Layout
  <2> QED BY <1>2, <2>1, <2>2, <2>3, <2>4
<1> HIDE DEF c
<1> QED BY <1>1, <1>3, <1>5, <1>6, <1>7, CanvasStep

LEMMA ChangedStep ==
    ASSUME LayoutsInv, Graph!UpdateView \/ Graph!SetNodeShape \/ Graph!MoveGesture
    PROVE  LayoutsInv'
<1> DEFINE n == past.changes + 1
<1>1. /\ canvas.open /\ past' = [past EXCEPT !.changes = @ + 1]
      /\ UNCHANGED <<load, queues, server, local>>
  BY DEF Graph!UpdateView, Graph!SetNodeShape, Graph!MoveGesture, Graph!Changes
<1>2. PICK l : /\ canvas' = Graph!Rescheduled([canvas EXCEPT !.layout = l])
               /\ \/ l = [canvas.layout EXCEPT !.view = n]
                  \/ l = [canvas.layout EXCEPT !.shapes = n]
                  \/ l = [canvas.layout EXCEPT !.places = n]
  BY Zenon DEF Graph!UpdateView, Graph!SetNodeShape, Graph!MoveGesture
<1> DEFINE c == [canvas EXCEPT !.layout = l]
<1>3. /\ canvas \in Canvas /\ canvas.layout \in Graph!Layout /\ past \in LayoutPast
      /\ past.changes \in Nat /\ past.floor \in Nat /\ n \in Nat
      /\ queues.current \in Seq(LayoutRequest)
  BY LayoutsFacts
<1>4. past'.changes = n
  BY <1>1, <1>3 DEF LayoutPast
<1>5. /\ l \in Graph!Layout /\ l.places \in {canvas.layout.places, n}
      /\ l.view \in {canvas.layout.view, n}
  BY <1>2, <1>3 DEF Graph!Layout
<1>6. /\ c \in Canvas /\ c.open /\ c.layout = l /\ c.ready = canvas.ready
      /\ c.status = canvas.status
  BY <1>1, <1>3, <1>5 DEF Canvas
<1>7. \A f \in Nat : f <= past.changes /\ After(canvas.layout, f, past.changes) => After(l, f, n)
  <2>1. /\ canvas.layout.places \in Nat /\ canvas.layout.view \in Nat
        /\ l.places \in Nat /\ l.view \in Nat
    BY <1>3, <1>5 DEF Graph!Layout
  <2>2. \A f, m \in Nat : f <= past.changes /\ Between(m, f, past.changes) => Between(m, f, n)
    BY <1>3 DEF Between
  <2>3. \A f \in Nat : f <= past.changes => Between(n, f, n)
    BY <1>3 DEF Between
  <2> HIDE DEF n
  <2> QED BY <1>5, <2>1, <2>2, <2>3 DEF After
<1>8. ASSUME ~past.crossed
      PROVE  /\ After(l, past.floor, n)
             /\ \A i \in DOMAIN queues.current :
                  queues.current[i].kind = "reset" => After(l, queues.current[i].upTo, n)
  <2>1. After(canvas.layout, past.floor, past.changes) /\ past.floor <= past.changes
    BY <1>8 DEF LayoutsInv, ResetFollows, KeptKnown
  <2>2. \A i \in DOMAIN queues.current :
          /\ queues.current[i].upTo \in Nat /\ queues.current[i].upTo <= past.changes
          /\ queues.current[i].kind = "reset" =>
               After(canvas.layout, queues.current[i].upTo, past.changes)
    BY <1>3, <1>8, OneLayoutRequest DEF LayoutsInv, ResetFollows, KeptKnown, InTurn
  <2> QED BY <1>3, <1>7, <2>1, <2>2
<1>9. canvas' = Graph!Rescheduled(c)
  BY <1>2
<1>10. (load' # Nothing => ~c.ready) /\ (c.ready \/ (~canvas.ready /\ c.status = canvas.status))
  BY <1>1, <1>6, LayoutsFacts
<1> HIDE DEF c, n
<1> QED BY <1>1, <1>4, <1>6, <1>8, <1>9, <1>10, CanvasStep

LEMMA DraggedStep ==
    ASSUME LayoutsInv, Graph!BeginGesture \/ Graph!EndGesture
    PROVE  LayoutsInv'
<1>1. canvas.open /\ UNCHANGED <<load, queues, server, local, past>>
  BY LayoutsFacts DEF Graph!BeginGesture, Graph!EndGesture
<1>2. PICK dragging \in BOOLEAN :
        canvas' = Graph!Rescheduled([canvas EXCEPT !.dragging = dragging])
  BY Zenon DEF Graph!BeginGesture, Graph!EndGesture
<1> DEFINE c == [canvas EXCEPT !.dragging = dragging]
<1>3. /\ c \in Canvas /\ c.open /\ c.layout = canvas.layout /\ c.ready = canvas.ready
      /\ c.status = canvas.status /\ canvas' = Graph!Rescheduled(c)
  BY <1>1, <1>2, LayoutsFacts DEF Canvas
<1>4. load # Nothing => ~canvas.ready
  BY LayoutsFacts
<1>5. ~past.crossed => /\ After(canvas.layout, past.floor, past.changes)
                       /\ \A i \in DOMAIN queues.current :
                            queues.current[i].kind = "reset" =>
                              After(canvas.layout, queues.current[i].upTo, past.changes)
  BY DEF LayoutsInv, ResetFollows
<1> HIDE DEF c
<1> QED BY <1>1, <1>3, <1>4, <1>5, CanvasStep

LEMMA LeaveStep ==
    ASSUME LayoutsInv, Graph!Leave
    PROVE  LayoutsInv'
<1>1. /\ canvas.open /\ queues.earlier = <<>> /\ canvas' = Graph!Closed /\ load' = Nothing
      /\ queues' = [current |-> <<>>, earlier |-> queues.current]
      /\ UNCHANGED <<server, local, past>>
  BY DEF Graph!Leave
<1>2. /\ Graph!Closed \in Canvas /\ ~Graph!Closed.open /\ ~Graph!Closed.ready
      /\ ~Graph!Closed.timer /\ Graph!Closed.status = "loading"
      /\ Graph!Closed.layout = Graph!EmptyLayout
  BY DEF Graph!Closed, Canvas, Graph!EmptyLayout, Graph!Layout
<1>3. queues'.current = <<>> /\ queues'.earlier = queues.current /\ DOMAIN queues'.current = {}
  BY <1>1
<1>4. CanvasKnown'
  BY <1>1, <1>2, <1>3 DEF CanvasKnown
<1>5. KeptKnown'
  <2>1. queues' \in [current : Seq(LayoutRequest), earlier : Seq(LayoutRequest)]
    BY <1>1, LayoutsFacts
  <2>2. InTurn(<<>>, past)
    BY DEF InTurn
  <2> QED BY <1>1, <1>3, <2>1, <2>2 DEF KeptKnown, LayoutsInv
<1>6. SaveFollows'
  BY <1>1, <1>2, <1>3 DEF SaveFollows
<1>7. ASSUME ~past.crossed PROVE ResetFollows'
  <2>1. After(Graph!EmptyLayout, past.floor, past.changes)
    BY DEF Graph!EmptyLayout, After, Between
  <2>2. SavesAfter(<<>>, past) /\ ~ResetMade(queues.earlier)
    BY <1>1 DEF SavesAfter, ResetMade
  <2> QED BY <1>1, <1>2, <1>3, <1>7, <2>1, <2>2 DEF ResetFollows, LayoutsInv
<1> QED BY <1>1, <1>4, <1>5, <1>6, <1>7 DEF LayoutsInv

LEMMA TimerStep ==
    ASSUME LayoutsInv, Graph!TimerFires
    PROVE  LayoutsInv'
<1> DEFINE s == queues.current
           r == Graph!Request("save", canvas.layout)
           t == Append(s, r)
<1>1. /\ canvas.timer /\ canvas' = [canvas EXCEPT !.timer = FALSE, !.status = "saving"]
      /\ queues' = [queues EXCEPT !.current = t]
      /\ UNCHANGED <<load, server, local, past>>
  BY DEF Graph!TimerFires, Graph!Enqueue
<1>2. /\ r \in LayoutRequest /\ r.upTo <= past.changes /\ r.upTo = past.changes /\ ~r.done /\ r.kind = "save"
      /\ r.layout = canvas.layout
  BY LayoutsFacts DEF Graph!Request, LayoutRequest
<1>3. s \in Seq(LayoutRequest) /\ InTurn(s, past) /\ past.changes \in Nat
  BY LayoutsFacts DEF LayoutsInv, KeptKnown
<1>4. /\ canvas.ready /\ ~canvas.dragging /\ canvas.latest = canvas.layout /\ canvas.open
      /\ canvas \in Canvas
  BY <1>1, LayoutsFacts DEF LayoutsInv, CanvasKnown
<1>5. /\ canvas' \in Canvas /\ canvas'.open /\ canvas'.ready /\ ~canvas'.dragging
      /\ canvas'.layout = canvas.layout /\ canvas'.latest = canvas.layout
      /\ canvas'.status = "saving" /\ ~canvas'.timer
  BY <1>1, <1>4 DEF Canvas
<1> HIDE DEF r
<1>6. /\ InTurn(t, past) /\ t \in Seq(LayoutRequest) /\ t # <<>> /\ t[Len(t)] = r
      /\ DOMAIN t = DOMAIN s \cup {Len(t)} /\ Len(t) \notin DOMAIN s
      /\ \A i \in DOMAIN s : t[i] = s[i]
      /\ \A i, j \in DOMAIN t : i < j => i \in DOMAIN s
      /\ t[1].done => s # <<>> /\ t[1] = s[1]
      /\ ResetMade(s) => ResetMade(t)
  <2>1. t = Append(s, r)
    OBVIOUS
  <2> HIDE DEF s, t
  <2>2. Added(t, s, r, past)
    BY <1>2, <1>3, <2>1, RequestAdded
  <2> QED BY <2>2, Zenon DEF Added
<1> HIDE DEF t
<1>7. queues'.current = t /\ queues'.earlier = queues.earlier
      /\ queues' \in [current : Seq(LayoutRequest), earlier : Seq(LayoutRequest)]
  BY <1>1, <1>6, LayoutsFacts
<1>8. CanvasKnown'
  BY <1>1, <1>5 DEF CanvasKnown, LayoutsInv
<1>9. KeptKnown'
  BY <1>1, <1>6, <1>7 DEF KeptKnown, LayoutsInv
<1>10. ASSUME ~past.crossed PROVE SaveFollows'
  BY <1>1, <1>2, <1>4, <1>5, <1>6, <1>7, <1>10 DEF SaveFollows, LayoutsInv
<1>11. ASSUME ~past.crossed PROVE ResetFollows'
  <2>1. SavesAfter(t, past)
    <3>1. SavesAfter(s, past) /\ After(canvas.layout, past.floor, past.changes)
          /\ \A i \in DOMAIN s : s[i].kind = "reset" =>
               After(canvas.layout, s[i].upTo, past.changes)
      BY <1>11 DEF LayoutsInv, ResetFollows
    <3>2. \A i, j \in DOMAIN t : i < j => i \in DOMAIN s
      BY <1>6
    <3> QED BY <1>2, <1>6, <3>1, <3>2 DEF SavesAfter
  <2>2. \A i \in DOMAIN t : t[i].kind = "reset" => i \in DOMAIN s /\ t[i] = s[i]
    BY <1>2, <1>6
  <2> QED BY <1>1, <1>5, <1>6, <1>7, <1>11, <2>1, <2>2 DEF LayoutsInv, ResetFollows
<1> QED BY <1>1, <1>8, <1>9, <1>10, <1>11 DEF LayoutsInv

LEMMA ClearedIsEmpty ==
    ASSUME NEW l \in Graph!Layout
    PROVE  /\ Graph!Cleared(l) \in Graph!Layout /\ Graph!Cleared(l) \in ClearedLayout
BY DEF Graph!Cleared, ClearedLayout, Graph!Layout

LEMMA EmptyIsAfter ==
    ASSUME NEW l \in ClearedLayout
    PROVE  l \in Graph!Layout /\ \A f, c : After(l, f, c)
BY DEF ClearedLayout, After, Between

LEMMA ResetLayoutStep ==
    ASSUME LayoutsInv, Graph!ResetLayout
    PROVE  LayoutsInv'
<1> DEFINE s == queues.current
           r == Graph!Request("reset", Nothing)
           t == Append(s, r)
           c == [canvas EXCEPT !.layout = Graph!Cleared(canvas.layout)]
           crossing == past.crossed \/ ~canvas.ready
           resets == past.resets + 1
<1>1. /\ canvas.open /\ canvas' = Graph!Rescheduled(c)
      /\ queues' = [queues EXCEPT !.current = t]
      /\ past' = [past EXCEPT !.resets = resets, !.crossed = crossing]
      /\ UNCHANGED <<load, server, local>>
  BY DEF Graph!ResetLayout, Graph!Enqueue
<1>2. /\ r \in LayoutRequest /\ r.upTo <= past.changes /\ r.upTo = past.changes /\ ~r.done /\ r.kind = "reset"
  BY LayoutsFacts DEF Graph!Request, LayoutRequest
<1>3. s \in Seq(LayoutRequest) /\ InTurn(s, past) /\ past.changes \in Nat
  BY LayoutsFacts DEF LayoutsInv, KeptKnown
<1>4. /\ c \in Canvas /\ c.open /\ c.layout \in ClearedLayout /\ c.ready = canvas.ready
      /\ c.dragging = canvas.dragging /\ c.status = canvas.status
  BY <1>1, LayoutsFacts, ClearedIsEmpty DEF Canvas
<1>5. /\ past' \in LayoutPast /\ past'.changes = past.changes /\ past'.stored = past.stored
      /\ past'.floor = past.floor /\ past.changes <= past'.changes
      /\ ~past'.crossed => ~past.crossed /\ canvas.ready
  <2>1. past \in LayoutPast /\ resets \in Nat /\ crossing \in BOOLEAN
    BY LayoutsFacts DEF LayoutPast
  <2>2. ~crossing => ~past.crossed /\ canvas.ready
    OBVIOUS
  <2> HIDE DEF crossing, resets
  <2>3. /\ past' \in LayoutPast /\ past'.changes = past.changes /\ past'.stored = past.stored
        /\ past'.floor = past.floor /\ past'.crossed = crossing
    BY <1>1, <2>1 DEF LayoutPast
  <2>4. past.changes <= past'.changes
    BY <1>3, <2>3
  <2> QED BY <2>2, <2>3, <2>4, Zenon
<1> HIDE DEF r, c, crossing, resets
<1>6. /\ InTurn(t, past) /\ t \in Seq(LayoutRequest) /\ t # <<>> /\ t[Len(t)] = r
      /\ DOMAIN t = DOMAIN s \cup {Len(t)} /\ Len(t) \notin DOMAIN s
      /\ \A i \in DOMAIN s : t[i] = s[i]
      /\ \A i, j \in DOMAIN t : i < j => i \in DOMAIN s
      /\ t[1].done => s # <<>> /\ t[1] = s[1]
      /\ ResetMade(s) => ResetMade(t)
  <2>1. t = Append(s, r)
    OBVIOUS
  <2> HIDE DEF s, t
  <2>2. Added(t, s, r, past)
    BY <1>2, <1>3, <2>1, RequestAdded
  <2> QED BY <2>2, Zenon DEF Added
<1> HIDE DEF t
<1>7. queues'.current = t /\ queues'.earlier = queues.earlier
      /\ queues' \in [current : Seq(LayoutRequest), earlier : Seq(LayoutRequest)]
  BY <1>1, <1>6, LayoutsFacts
<1>8. /\ canvas' \in Canvas /\ canvas'.open /\ canvas'.ready = canvas.ready
      /\ canvas'.layout \in ClearedLayout /\ canvas'.dragging = canvas.dragging
      /\ (canvas'.timer <=> canvas.ready /\ ~canvas.dragging)
      /\ canvas'.timer => canvas'.latest = canvas'.layout
  BY <1>1, <1>4, RescheduledCanvas
<1>9. CanvasKnown'
  BY <1>1, <1>8 DEF CanvasKnown, LayoutsInv
<1>10. KeptKnown'
  <2>1. InTurn(t, past') /\ InTurn(queues.earlier, past')
    BY <1>5, <1>6, StillInTurn, LayoutsFacts DEF LayoutsInv, KeptKnown
  <2> QED BY <1>1, <1>5, <1>7, <2>1 DEF KeptKnown, LayoutsInv
<1>11. ASSUME ~past'.crossed PROVE SaveFollows'
  BY <1>1, <1>2, <1>5, <1>6, <1>7, <1>8, <1>11 DEF SaveFollows, LayoutsInv
<1>12. ASSUME ~past'.crossed PROVE ResetFollows'
  <2>1. SavesAfter(s, past) /\ SavesAfter(queues.earlier, past)
    BY <1>5, <1>12 DEF LayoutsInv, ResetFollows
  <2>2. SavesAfter(t, past') /\ SavesAfter(queues.earlier, past')
    <3>1. \A j \in DOMAIN t : t[j].kind = "save" => j \in DOMAIN s
      BY <1>2, <1>6
    <3>2. \A i, j \in DOMAIN t : i < j => i \in DOMAIN s
      BY <1>6
    <3> QED BY <1>5, <1>6, <2>1, <3>1, <3>2 DEF SavesAfter
  <2>3. \A f, n : After(canvas'.layout, f, n)
    BY <1>8, EmptyIsAfter
  <2> QED BY <1>1, <1>5, <1>6, <1>7, <1>12, <2>2, <2>3 DEF LayoutsInv, ResetFollows
<1> QED BY <1>9, <1>10, <1>11, <1>12 DEF LayoutsInv

LEMMA ServerWritesStep ==
    ASSUME LayoutsInv, NEW q \in {"current", "earlier"}, Graph!ServerWrites(q)
    PROVE  LayoutsInv'
<1> DEFINE s == queues[q]
           h == s[1]
           l == IF h.kind = "save" THEN h.layout ELSE Graph!Cleared(server)
           t == [s EXCEPT ![1] = [h EXCEPT !.layout = l, !.done = TRUE]]
           floor == IF h.kind = "reset" THEN h.upTo ELSE past.floor
           kept == past.stored \cup {l}
<1>1. s # <<>> /\ s \in Seq(LayoutRequest) /\ InTurn(s, past) /\ UNCHANGED <<canvas, load, local>>
  BY LayoutsFacts DEF Graph!ServerWrites, LayoutsInv, KeptKnown
<1>2. Head(s) = h /\ 1 \in DOMAIN s
  BY <1>1
<1>3. /\ ~h.done /\ server' = l /\ queues' = [queues EXCEPT ![q] = t]
      /\ past' = [past EXCEPT !.stored = kept, !.floor = floor]
  BY <1>2 DEF Graph!ServerWrites
<1>4. /\ h.kind \in {"save", "reset"} /\ h.upTo \in Nat /\ h.upTo <= past.changes
      /\ h.kind = "save" => h.layout \in Graph!Layout
  BY <1>1, <1>2, OneLayoutRequest DEF InTurn
<1>5. /\ l \in Graph!Layout /\ (h.kind = "save" => l = h.layout)
      /\ h.kind = "reset" => l \in ClearedLayout
  BY <1>4, LayoutsFacts, ClearedIsEmpty
<1>6. /\ floor \in Nat /\ floor <= past.changes /\ (h.kind = "save" => floor = past.floor)
      /\ h.kind = "reset" => floor = h.upTo
  BY <1>4, LayoutsFacts DEF LayoutsInv, KeptKnown
<1>7. kept \in SUBSET Graph!Layout /\ l \in kept /\ past.stored \subseteq kept
  BY <1>5, LayoutsFacts DEF LayoutPast
<1> HIDE DEF l, floor, kept
<1>8. /\ past' \in LayoutPast /\ past'.changes = past.changes /\ past'.stored = kept
      /\ past'.floor = floor /\ past'.crossed = past.crossed
  BY <1>3, <1>6, <1>7, LayoutsFacts DEF LayoutPast
<1>9. Made(t, s, l) /\ InTurn(t, past')
  <2>1. t = [s EXCEPT ![1] = [s[1] EXCEPT !.layout = l, !.done = TRUE]]
    OBVIOUS
  <2>2. (s[1].kind = "save" => l = s[1].layout) /\ (s[1].kind = "reset" => l \in ClearedLayout)
    BY <1>5
  <2>3. past \in LayoutPast
    BY LayoutsFacts
  <2> HIDE DEF s, t
  <2> QED BY <1>1, <1>5, <1>7, <1>8, <2>1, <2>2, <2>3, RequestMade
<1> HIDE DEF t
<1>10. InTurn(queues.current, past') /\ InTurn(queues.earlier, past')
  BY <1>7, <1>8, StillInTurn, LayoutsFacts DEF LayoutsInv, KeptKnown
<1>11. \/ q = "current" /\ s = queues.current /\ queues'.current = t /\ queues'.earlier = queues.earlier
       \/ q = "earlier" /\ s = queues.earlier /\ queues'.current = queues.current /\ queues'.earlier = t
  BY <1>3, LayoutsFacts
<1>12. queues' \in [current : Seq(LayoutRequest), earlier : Seq(LayoutRequest)]
  <2>1. t \in Seq(LayoutRequest)
    BY <1>9 DEF Made
  <2> QED BY <1>3, <2>1, LayoutsFacts
<1> HIDE DEF s
<1>14. CanvasKnown'
  BY <1>1, <1>11 DEF CanvasKnown, LayoutsInv
<1>15. KeptKnown'
  BY <1>1, <1>3, <1>5, <1>6, <1>8, <1>9, <1>10, <1>11, <1>12 DEF KeptKnown, LayoutsInv
<1>16. ASSUME ~past.crossed PROVE SaveFollows'
  <2>1. CASE s = queues.current /\ queues'.current = t /\ queues'.earlier = queues.earlier
    BY <1>1, <1>3, <1>7, <1>8, <1>9, <1>16, <2>1 DEF SaveFollows, LayoutsInv, Made
  <2>2. CASE s = queues.earlier /\ queues'.current = queues.current /\ queues'.earlier = t
    <3>1. queues.current = <<>> /\ ~canvas.open /\ ~canvas.ready
      BY <1>1, <1>16, <2>2, LayoutsFacts
    <3> QED BY <1>1, <1>8, <1>16, <2>2, <3>1 DEF SaveFollows, LayoutsInv
  <2> QED BY <1>11, <2>1, <2>2
<1>17. ASSUME ~past.crossed PROVE ResetFollows'
  <2>0. SavesAfter(s, past) /\ After(server, past.floor, past.changes)
    BY <1>11, <1>17 DEF LayoutsInv, ResetFollows
  <2>1. SavesAfter(t, past') /\ After(l, floor, past.changes)
    <3>1. CASE h.kind = "save"
      BY <1>2, <1>4, <1>5, <1>6, <1>8, <1>9, <2>0, <3>1 DEF SavesAfter, Made, h
    <3>2. CASE h.kind = "reset"
      <4>1. After(l, floor, past.changes)
        BY <1>5, <3>2, EmptyIsAfter
      <4>2. \A j \in DOMAIN s : s[j].kind = "save" => 1 < j
        BY <1>1, <1>2, <3>2 DEF h
      <4> QED BY <1>2, <1>6, <1>8, <1>9, <2>0, <3>2, <4>1, <4>2 DEF SavesAfter, Made, h
    <3> QED BY <1>4, <3>1, <3>2
  <2>2. ~ResetMade(s)
    BY <1>3 DEF ResetMade, h
  <2>3. After(local, past.floor, past.changes) /\ h.kind = "save" => After(local, floor, past.changes)
    BY <1>6
  <2>4. h.kind = "reset" => ResetMade(t)
    BY <1>9 DEF Made, h
  <2>5. CASE s = queues.current /\ queues'.current = t /\ queues'.earlier = queues.earlier
    <3>1. queues.earlier = <<>> /\ load = Nothing
      BY <1>1, <1>17, <2>5, LayoutsFacts
    <3>2. SavesAfter(queues.earlier, past') /\ ~ResetMade(queues.earlier)
      BY <3>1 DEF SavesAfter, ResetMade
    <3>3. After(canvas.layout, floor, past.changes)
      BY <1>2, <1>4, <1>6, <1>17, <2>5 DEF LayoutsInv, ResetFollows, h
    <3>4. \A i \in DOMAIN t : t[i].kind = "reset" => After(canvas.layout, t[i].upTo, past.changes)
      BY <1>9, <1>17, <2>5 DEF LayoutsInv, ResetFollows, Made
    <3>5. After(local, floor, past.changes) \/ ResetMade(t)
      BY <1>4, <1>17, <2>2, <2>3, <2>4, <2>5, <3>2 DEF LayoutsInv, ResetFollows
    <3> QED BY <1>1, <1>3, <1>8, <2>1, <2>5, <3>1, <3>2, <3>3, <3>4, <3>5 DEF ResetFollows
  <2>6. CASE s = queues.earlier /\ queues'.current = queues.current /\ queues'.earlier = t
    <3>1. /\ queues.current = <<>> /\ load = Nothing /\ canvas.layout = Graph!EmptyLayout
          /\ DOMAIN queues.current = {}
      BY <1>1, <1>17, <2>6, LayoutsFacts
    <3>2. SavesAfter(queues.current, past') /\ ~ResetMade(queues.current)
      BY <3>1 DEF SavesAfter, ResetMade
    <3>3. After(canvas.layout, floor, past.changes)
      BY <3>1 DEF Graph!EmptyLayout, After, Between
    <3>5. After(local, floor, past.changes) \/ ResetMade(t)
      BY <1>4, <1>17, <2>2, <2>3, <2>4, <2>6, <3>2 DEF LayoutsInv, ResetFollows
    <3> QED BY <1>1, <1>3, <1>8, <2>1, <2>6, <3>1, <3>2, <3>3, <3>5 DEF ResetFollows
  <2> QED BY <1>11, <2>5, <2>6
<1> QED BY <1>8, <1>14, <1>15, <1>16, <1>17 DEF LayoutsInv

LEMMA SaveAnswersStep ==
    ASSUME LayoutsInv, NEW q \in {"current", "earlier"}, NEW result \in {"saved", "local"},
           Graph!SaveAnswers(q, result)
    PROVE  LayoutsInv'
<1> DEFINE s == queues[q]
           h == s[1]
           t == Tail(s)
<1>1. /\ s # <<>> /\ s \in Seq(LayoutRequest) /\ InTurn(s, past)
      /\ UNCHANGED <<load, server, past>> /\ queues' = [queues EXCEPT ![q] = t]
  BY LayoutsFacts DEF Graph!SaveAnswers, LayoutsInv, KeptKnown
<1>2. Answered(t, s, past) /\ Head(s) = h /\ 1 \in DOMAIN s
  <2>1. t = Tail(s) /\ h = s[1]
    OBVIOUS
  <2> HIDE DEF s, t, h
  <2> QED BY <1>1, <2>1, RequestGone
<1>3. /\ h.kind = "save" /\ local' = h.layout /\ (result = "saved" => h.done)
      /\ canvas' = IF q = "current" THEN Graph!Settled(h, result) ELSE canvas
  BY <1>2 DEF Graph!SaveAnswers
<1>4. h.layout \in Graph!Layout
  BY <1>1, <1>2, <1>3, OneLayoutRequest
<1> HIDE DEF t
<1>5. \/ q = "current" /\ s = queues.current /\ queues'.current = t /\ queues'.earlier = queues.earlier
      \/ q = "earlier" /\ s = queues.earlier /\ queues'.current = queues.current /\ queues'.earlier = t
  BY <1>1, LayoutsFacts
<1>6. queues' \in [current : Seq(LayoutRequest), earlier : Seq(LayoutRequest)]
  <2>1. t \in Seq(LayoutRequest)
    BY <1>2 DEF Answered
  <2> QED BY <1>1, <2>1, LayoutsFacts
<1> HIDE DEF s
<1>7. /\ canvas \in Canvas /\ canvas' \in Canvas /\ canvas'.open = canvas.open
      /\ canvas'.ready = canvas.ready /\ canvas'.layout = canvas.layout
      /\ canvas'.dragging = canvas.dragging /\ canvas'.timer = canvas.timer
      /\ canvas'.latest = canvas.latest
      /\ canvas' # canvas => s = queues.current
      /\ canvas'.status = IF q = "current" /\ canvas.latest = h.layout THEN result
                          ELSE canvas.status
  BY <1>3, <1>5, LayoutsFacts DEF Graph!Settled, Canvas
<1>8. CanvasKnown'
  <2>1. canvas' # canvas => canvas.open
    BY <1>1, <1>7, LayoutsFacts
  <2>2. ~canvas.open => canvas' = canvas /\ queues.current = <<>> /\ queues'.current = <<>>
    BY <1>1, <1>5, <2>1, LayoutsFacts
  <2> QED BY <1>1, <1>7, <2>2 DEF CanvasKnown, LayoutsInv
<1>9. KeptKnown'
  BY <1>1, <1>2, <1>3, <1>4, <1>5, <1>6 DEF KeptKnown, LayoutsInv, Answered
<1>10. ASSUME ~past.crossed PROVE SaveFollows'
  <2>1. CASE q = "current" /\ s = queues.current /\ queues'.current = t /\ queues'.earlier = queues.earlier
    <3>1. canvas.ready /\ queues.earlier = <<>>
      BY <1>1, <1>10, <2>1, LayoutsFacts
    <3>2. t # <<>> => ~t[1].done /\ t[Len(t)] = s[Len(s)]
      BY <1>2 DEF Answered
    <3>3. t = <<>> => s[Len(s)] = h
      BY <1>2 DEF Answered, h
    <3>4. h.done => server = h.layout /\ h.layout \in past.stored
      BY <1>1, <1>2, <1>10, <2>1 DEF LayoutsInv, SaveFollows, InTurn, h
    <3>5. ASSUME ~canvas.timer, ~canvas.dragging
          PROVE  /\ canvas.latest = canvas.layout
                 /\ s[Len(s)].kind = "save" /\ s[Len(s)].layout = canvas.layout
                 /\ canvas.status = "saved" => canvas.layout \in past.stored
      BY <1>1, <1>10, <2>1, <3>1, <3>5 DEF LayoutsInv, SaveFollows
    <3>6. ASSUME ~canvas.timer, ~canvas.dragging, canvas'.status = "saved"
          PROVE  /\ canvas.layout \in past.stored
                 /\ t = <<>> => server = canvas.layout
      BY <1>3, <1>7, <2>1, <3>3, <3>4, <3>5, <3>6
    <3> QED BY <1>1, <1>7, <2>1, <3>1, <3>2, <3>5, <3>6 DEF SaveFollows
  <2>2. CASE q = "earlier" /\ s = queues.earlier /\ queues'.current = queues.current /\ queues'.earlier = t
    <3>1. canvas' = canvas /\ queues.current = <<>> /\ ~canvas.open /\ ~canvas.ready
      BY <1>1, <1>3, <1>10, <2>2, LayoutsFacts
    <3> QED BY <1>1, <1>10, <2>2, <3>1 DEF SaveFollows, LayoutsInv
  <2> QED BY <1>5, <2>1, <2>2
<1>11. ASSUME ~past.crossed PROVE ResetFollows'
  <2>1. SavesAfter(s, past)
    BY <1>5, <1>11 DEF LayoutsInv, ResetFollows
  <2>2. SavesAfter(t, past) /\ After(h.layout, past.floor, past.changes)
    BY <1>2, <1>3, <2>1 DEF Answered, SavesAfter, h
  <2>3. SavesAfter(queues'.current, past) /\ SavesAfter(queues'.earlier, past)
    BY <1>5, <1>11, <2>2 DEF LayoutsInv, ResetFollows
  <2>4. \A i \in DOMAIN queues'.current :
          queues'.current[i].kind = "reset" =>
            After(canvas.layout, queues'.current[i].upTo, past.changes)
    <3>1. CASE s = queues.current /\ queues'.current = t
      BY <1>2, <1>11, <3>1 DEF LayoutsInv, ResetFollows, Answered
    <3>2. CASE queues'.current = queues.current
      BY <1>11, <3>2 DEF LayoutsInv, ResetFollows
    <3> QED BY <1>5, <3>1, <3>2
  <2> QED BY <1>1, <1>3, <1>7, <1>11, <2>2, <2>3, <2>4 DEF LayoutsInv, ResetFollows
<1> QED BY <1>1, <1>8, <1>9, <1>10, <1>11 DEF LayoutsInv

LEMMA ResetAnswersStep ==
    ASSUME LayoutsInv, NEW q \in {"current", "earlier"}, NEW result \in {"saved", "local"},
           Graph!ResetAnswers(q, result)
    PROVE  LayoutsInv'
<1> DEFINE s == queues[q]
           h == s[1]
           t == Tail(s)
           c == [canvas EXCEPT !.layout = local', !.status = result]
<1>1. /\ s # <<>> /\ s \in Seq(LayoutRequest) /\ InTurn(s, past)
      /\ UNCHANGED <<load, server, past>> /\ queues' = [queues EXCEPT ![q] = t]
  BY LayoutsFacts DEF Graph!ResetAnswers, LayoutsInv, KeptKnown
<1>2. Answered(t, s, past) /\ Head(s) = h /\ 1 \in DOMAIN s
  <2>1. t = Tail(s) /\ h = s[1]
    OBVIOUS
  <2> HIDE DEF s, t, h
  <2> QED BY <1>1, <2>1, RequestGone
<1>3. /\ h.kind = "reset" /\ (result = "saved" => h.done)
      /\ local' = IF result = "saved" THEN h.layout ELSE Graph!Cleared(local)
      /\ canvas' = IF q = "current" THEN Graph!Rescheduled(c) ELSE canvas
  BY <1>2 DEF Graph!ResetAnswers
<1>4. local' \in ClearedLayout /\ local' \in Graph!Layout
  BY <1>1, <1>2, <1>3, OneLayoutRequest, LayoutsFacts, ClearedIsEmpty, EmptyIsAfter
<1> HIDE DEF t
<1>5. \/ q = "current" /\ s = queues.current /\ queues'.current = t /\ queues'.earlier = queues.earlier
      \/ q = "earlier" /\ s = queues.earlier /\ queues'.current = queues.current /\ queues'.earlier = t
  BY <1>1, LayoutsFacts
<1>6. queues' \in [current : Seq(LayoutRequest), earlier : Seq(LayoutRequest)]
  <2>1. t \in Seq(LayoutRequest)
    BY <1>2 DEF Answered
  <2> QED BY <1>1, <2>1, LayoutsFacts
<1> HIDE DEF s
<1>7. c \in Canvas /\ c.layout = local' /\ c.open = canvas.open /\ c.ready = canvas.ready
      /\ c.dragging = canvas.dragging
  BY <1>4, LayoutsFacts DEF Canvas
<1> HIDE DEF c
<1>8. CASE q = "current" /\ s = queues.current /\ queues'.current = t /\ queues'.earlier = queues.earlier
  <2>1. /\ canvas' \in Canvas /\ canvas'.open = canvas.open /\ canvas.open
        /\ canvas'.ready = canvas.ready /\ canvas'.layout = local'
        /\ canvas'.dragging = canvas.dragging
        /\ (canvas'.timer <=> canvas.ready /\ ~canvas.dragging)
        /\ canvas'.timer => canvas'.latest = canvas'.layout
    BY <1>1, <1>3, <1>7, <1>8, RescheduledCanvas, LayoutsFacts
  <2>2. CanvasKnown'
    BY <1>1, <2>1 DEF CanvasKnown, LayoutsInv
  <2>3. KeptKnown'
    BY <1>1, <1>2, <1>4, <1>6, <1>8 DEF KeptKnown, LayoutsInv, Answered
  <2>4. ASSUME ~past.crossed PROVE SaveFollows'
    <3>1. canvas.ready /\ queues.earlier = <<>>
      BY <1>1, <1>8, <2>4, LayoutsFacts
    <3>2. t # <<>> => ~t[1].done
      BY <1>2 DEF Answered
    <3> QED BY <1>1, <1>8, <2>1, <3>1, <3>2 DEF SaveFollows
  <2>5. ASSUME ~past.crossed PROVE ResetFollows'
    <3>1. \A f, n : After(local', f, n)
      BY <1>4, EmptyIsAfter
    <3>2. SavesAfter(t, past) /\ SavesAfter(queues.earlier, past)
      BY <1>2, <1>8, <2>5 DEF LayoutsInv, ResetFollows, Answered
    <3> QED BY <1>1, <1>8, <2>1, <2>5, <3>1, <3>2 DEF LayoutsInv, ResetFollows
  <2> QED BY <1>1, <2>2, <2>3, <2>4, <2>5 DEF LayoutsInv
<1>9. CASE q = "earlier" /\ s = queues.earlier /\ queues'.current = queues.current /\ queues'.earlier = t
  <2>1. canvas' = canvas
    BY <1>3, <1>9
  <2>2. CanvasKnown'
    BY <1>1, <1>9, <2>1 DEF CanvasKnown, LayoutsInv
  <2>3. KeptKnown'
    BY <1>1, <1>2, <1>4, <1>6, <1>9 DEF KeptKnown, LayoutsInv, Answered
  <2>4. ASSUME ~past.crossed PROVE SaveFollows'
    <3>1. queues.current = <<>> /\ ~canvas.open /\ ~canvas.ready
      BY <1>1, <1>9, <2>4, LayoutsFacts
    <3> QED BY <1>1, <1>9, <2>1, <2>4, <3>1 DEF SaveFollows, LayoutsInv
  <2>5. ASSUME ~past.crossed PROVE ResetFollows'
    <3>1. \A f, n : After(local', f, n)
      BY <1>4, EmptyIsAfter
    <3>2. SavesAfter(t, past) /\ SavesAfter(queues.current, past)
      BY <1>2, <1>9, <2>5 DEF LayoutsInv, ResetFollows, Answered
    <3> QED BY <1>1, <1>9, <2>1, <2>5, <3>1, <3>2 DEF LayoutsInv, ResetFollows
  <2> QED BY <1>1, <2>2, <2>3, <2>4, <2>5 DEF LayoutsInv
<1> QED BY <1>5, <1>8, <1>9

LEMMA LayoutsStep == LayoutsInv /\ [Graph!LayoutsNext]_(Graph!layoutVars) => LayoutsInv'
<1> SUFFICES ASSUME LayoutsInv, [Graph!LayoutsNext]_(Graph!layoutVars) PROVE LayoutsInv'
  OBVIOUS
<1>1. CASE Graph!LayoutsNext
  BY <1>1, OpenStep, ServerReadsStep, LoadedStep, ChangedStep, DraggedStep, LeaveStep, TimerStep,
     ResetLayoutStep, ServerWritesStep, SaveAnswersStep, ResetAnswersStep, Zenon
     DEF Graph!LayoutsNext
<1>2. CASE UNCHANGED Graph!layoutVars
  BY <1>2 DEF Graph!layoutVars, LayoutsInv, CanvasKnown, KeptKnown, SaveFollows, ResetFollows,
              InTurn, SavesAfter, ResetMade
<1> QED BY <1>1, <1>2

(* What the graph's canvas calls saved was stored by the server and is what it   *)
(* has as soon as the requests under way are answered; and no place and no view  *)
(* from before a reset comes back once the server has made it (the timer, the    *)
(* queue of saves and the reset of the graph's arrangement).                     *)
THEOREM ArrangementIsKept ==
    ASSUME Graph!LayoutsAssumption
    PROVE  Graph!LayoutsSpec =>
             [](Graph!LayoutsTypeOK /\ Graph!SavedIsStored /\ Graph!ResetHolds)
<1>1. ASSUME LayoutsInv PROVE Graph!LayoutsTypeOK
  <2>1. canvas \in Canvas /\ past \in LayoutPast /\ server \in Graph!Layout /\ local \in Graph!Layout
    BY <1>1, LayoutsFacts
  <2>2. \A q \in {"current", "earlier"} : \A i \in DOMAIN queues[q] :
          queues[q][i].kind \in {"save", "reset"}
    BY <1>1, LayoutsFacts, OneLayoutRequest
  <2> QED BY <2>1, <2>2 DEF Graph!LayoutsTypeOK, Canvas, LayoutPast
<1>2. ASSUME LayoutsInv PROVE Graph!SavedIsStored
  <2> SUFFICES ASSUME canvas.status = "saved", ~canvas.timer, ~canvas.dragging, ~past.crossed
               PROVE  /\ canvas.layout \in past.stored
                      /\ server = canvas.layout
                           \/ (queues.current # <<>> /\ Graph!Last(queues.current).layout = canvas.layout)
    BY DEF Graph!SavedIsStored
  <2>1. canvas.ready
    BY <1>2 DEF LayoutsInv, SaveFollows
  <2> QED BY <1>2, <2>1 DEF LayoutsInv, SaveFollows, Graph!Last
<1>3. ASSUME LayoutsInv PROVE Graph!ResetHolds
  <2> SUFFICES ASSUME ~past.crossed
               PROVE  {server.places, server.view} \subseteq {0} \cup (past.floor + 1 .. past.changes)
    BY DEF Graph!ResetHolds
  <2>1. /\ After(server, past.floor, past.changes)
        /\ server.places \in Nat /\ server.view \in Nat
        /\ past.floor \in Nat /\ past.changes \in Nat
    BY <1>3, LayoutsFacts DEF LayoutsInv, ResetFollows, Graph!Layout
  <2> QED BY <2>1 DEF After, Between
<1> QED BY <1>1, <1>2, <1>3, LayoutsBegin, LayoutsStep, PTL DEF Graph!LayoutsSpec
=============================================================================
