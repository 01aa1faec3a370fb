----------------------------- MODULE MCWorkflow -----------------------------
(***************************************************************************)
(* Two small workspaces for Workflow.  Planning: enough issues, in two     *)
(* repositories, for cycles of length three and for mixed trees and edges. *)
(* History: enough pull requests for a chain of completions on one branch  *)
(* beside another branch, and to compare whole behaviours with             *)
(* IssueLifecycle.                                                         *)
(***************************************************************************)
EXTENDS Workflow, TLC

CONSTANTS r1, r2, b1, b2, i1, i2, i3, i4, p1, p2, p3

PlanningRepo == {r1, r2}
PlanningBranch == {b1, b2}
PlanningIssue == {i1, i2, i3, i4}
PlanningPR == {p1}
PlanningRepoOf == i1 :> r1 @@ i2 :> r1 @@ i3 :> r1 @@ i4 :> r2
PlanningBranchRepo == b1 :> r1 @@ b2 :> r2
PlanningDefaultBranch == r1 :> b1 @@ r2 :> b2

\* Issues of one repository are interchangeable.
PlanningSymmetry == Permutations({i1, i2, i3})

HistoryRepo == {r1}
HistoryBranch == {b1, b2}
HistoryIssue == {i1, i2, i3}
HistoryPR == {p1, p2, p3}
HistoryRepoOf == [i \in HistoryIssue |-> r1]
HistoryBranchRepo == [b \in HistoryBranch |-> r1]
HistoryDefaultBranch == r1 :> b1

\* Bound: no sub-issues, which the Planning instance has.
HistoryBound == \A i \in Issue : parent[i] = None

HistorySymmetry == Permutations(HistoryIssue) \cup Permutations(HistoryPR)
=============================================================================
