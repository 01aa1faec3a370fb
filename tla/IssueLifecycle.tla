--------------------------- MODULE IssueLifecycle ---------------------------
(***************************************************************************)
(* What the workspace promises about an issue, without repositories,       *)
(* sub-issues, pull requests or completions: an issue is planned while it  *)
(* is open, starts only when all it waits for is done, is finished only    *)
(* from in progress, possibly together with others, and is then done for   *)
(* good; it may be cancelled before, and issues may be erased together     *)
(* with every trace of them.  Workflow implements this specification.      *)
(***************************************************************************)
CONSTANT Issue

VARIABLES
    life,    \* issue -> its stage
    waits    \* issue -> the issues it waits for

lifecycleVars == <<life, waits>>

Alive(i) == life[i] \notin {"absent", "deleted"}

AllDone(S) == \A p \in S : life[p] = "done"

\* No set of issues in which everyone waits for someone of the set.
NoCircularWait(w) ==
    \A S \in SUBSET Issue : S # {} => \E i \in S : w[i] \cap S = {}

LifecycleInit ==
    /\ life = [i \in Issue |-> "absent"]
    /\ waits = [i \in Issue |-> {}]

Create(i) ==
    /\ life[i] = "absent"
    /\ life' = [life EXCEPT ![i] = "open"]
    /\ UNCHANGED waits

Plan(i, W) ==
    /\ life[i] = "open"
    /\ \A p \in W : Alive(p)
    /\ waits' = [waits EXCEPT ![i] = W]
    /\ NoCircularWait(waits')
    /\ UNCHANGED life

Start(i) ==
    /\ life[i] = "open"
    /\ AllDone(waits[i])
    /\ life' = [life EXCEPT ![i] = "in_progress"]
    /\ UNCHANGED waits

Finish(S) ==
    /\ S # {}
    /\ \A i \in S : life[i] = "in_progress" /\ AllDone(waits[i])
    /\ life' = [i \in Issue |-> IF i \in S THEN "done" ELSE life[i]]
    /\ UNCHANGED waits

Cancel(i) ==
    /\ life[i] \in {"open", "in_progress"}
    /\ life' = [life EXCEPT ![i] = "cancelled"]
    /\ UNCHANGED waits

Erase(S) ==
    /\ \A i \in S : Alive(i)
    /\ life' = [i \in Issue |-> IF i \in S THEN "deleted" ELSE life[i]]
    /\ waits' = [i \in Issue |-> IF i \in S THEN {} ELSE waits[i] \ S]

LifecycleNext ==
    \/ \E i \in Issue : Create(i) \/ Start(i) \/ Cancel(i)
    \/ \E i \in Issue, W \in SUBSET Issue : Plan(i, W)
    \/ \E S \in SUBSET Issue : Finish(S) \/ Erase(S)

LifecycleSpec == LifecycleInit /\ [][LifecycleNext]_lifecycleVars
=============================================================================
