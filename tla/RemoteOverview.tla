---------------------------- MODULE RemoteOverview ----------------------------
(***************************************************************************)
(* The overview of a linked repository: its latest release, its latest tag *)
(* and its README, which is looked for page by page in the root directory  *)
(* and then tried name by name in the order of preference.                 *)
(*                                                                         *)
(* A release or tag is named by its repository; a README is named by its   *)
(* repository and its rank in the order of preference.                     *)
(***************************************************************************)
EXTENDS FiniteSetsExt, Integers

CONSTANTS Repositories,
          Able,      \* which of them can read releases, tags and code
          Ranks,     \* bound: names a README may have, 1 is preferred
          RootPages, \* bound: pages of the root directory
          PageLimit, \* pages that are searched
          MaxVisits, \* bound: repositories the reader opens
          Nothing

OverviewAssumption ==
  /\ {Ranks, RootPages, PageLimit, MaxVisits} \subseteq Nat \ {0}
  /\ Able \subseteq Repositories

VARIABLES remote,  \* the provider: the page and the kind of each README
          seen,    \* the overview
          fetches, \* requests and searches under way
          visits   \* repositories opened so far

overviewVars == <<remote, seen, fetches, visits>>

Names == 1..Ranks
Root == {n \in Names : remote.page[n] # 0}
Within == {n \in Root : remote.page[n] <= PageLimit}

OverviewInit ==
  /\ \E page \in [Names -> 0..RootPages], kind \in [Names -> {"text", "large", "refused"}] :
       remote = [page |-> page, kind |-> kind]
  /\ seen = [selected |-> Nothing, release |-> Nothing, tag |-> Nothing, readme |-> Nothing,
             verdict |-> "none yet", busy |-> {}]
  /\ fetches = {}
  /\ visits = 0

\* a fetch of a repository that was left is not active any more
Left == {[f EXCEPT !.active = FALSE] : f \in fetches}

Begun(r) == {[kind |-> k, repo |-> r, active |-> TRUE, page |-> 0, left |-> {}, failed |-> FALSE] :
               k \in {"release", "tag", "readme"}}

Select(r) ==
  /\ visits < MaxVisits /\ r # seen.selected
  /\ visits' = visits + 1
  /\ seen' = [selected |-> r, release |-> Nothing, tag |-> Nothing, readme |-> Nothing,
              verdict |-> IF r # Nothing /\ r \notin Able THEN "unable" ELSE "none yet",
              busy |-> IF r \in Able THEN {"release", "tag", "readme"} ELSE {}]
  /\ fetches' = Left \cup IF r \in Able THEN Begun(r) ELSE {}
  /\ UNCHANGED remote

IsActive(f) == f.active

Ends(f, shown) ==
  /\ seen' = IF IsActive(f) THEN [shown EXCEPT !.busy = @ \ {f.kind}] ELSE seen
  /\ fetches' = fetches \ {f}
  /\ UNCHANGED <<remote, visits>>

LatestArrives(f) ==
  \/ f.kind = "release" /\ \E found \in {f.repo, Nothing} : Ends(f, [seen EXCEPT !.release = found])
  \/ f.kind = "tag" /\ \E found \in {f.repo, Nothing} : Ends(f, [seen EXCEPT !.tag = found])
  \/ f.kind \in {"release", "tag"} /\ Ends(f, seen)

Continues(f, g) ==
  /\ fetches' = (fetches \ {f}) \cup {g}
  /\ UNCHANGED <<remote, seen, visits>>

\* a page of the root: the search goes on while there are more and the limit is not reached
RootArrives(f) ==
  LET page == f.page + 1
      found == {n \in Names : remote.page[n] \in 1..page}
      more == page < RootPages
  IN /\ f.kind = "readme" /\ f.left = {} /\ f.page < RootPages
     /\ IF more /\ page < PageLimit THEN Continues(f, [f EXCEPT !.page = page])
        ELSE IF found # {} THEN Continues(f, [f EXCEPT !.page = RootPages, !.left = found])
        ELSE Ends(f, [seen EXCEPT !.verdict = IF more THEN "not in the first pages" ELSE "no readme"])

\* a file is shown, too large, or the next name is tried
FileArrives(f) ==
  LET n == Min(f.left)
  IN /\ f.kind = "readme" /\ f.left # {}
     /\ CASE remote.kind[n] = "text"  -> Ends(f, [seen EXCEPT !.readme = [repo |-> f.repo, rank |-> n]])
          [] remote.kind[n] = "large" -> Ends(f, [seen EXCEPT !.verdict = "too large"])
          [] f.left = {n}             -> Ends(f, [seen EXCEPT !.verdict = "refused"])
          [] OTHER                    -> Continues(f, [f EXCEPT !.left = @ \ {n}])

RootFails(f) ==
  /\ f.kind = "readme" /\ f.left = {}
  /\ Ends(f, [seen EXCEPT !.verdict = "failed"])

OverviewNext ==
  \/ \E r \in Repositories \cup {Nothing} : Select(r)
  \/ \E f \in fetches : LatestArrives(f) \/ RootArrives(f) \/ FileArrives(f) \/ RootFails(f)

OverviewSpec == OverviewInit /\ [][OverviewNext]_overviewVars

----------------------------------------------------------------------------

OverviewTypeOK ==
  /\ {seen.selected, seen.release, seen.tag} \subseteq Repositories \cup {Nothing}
  /\ seen.busy \subseteq {"release", "tag", "readme"}
  /\ \A f \in fetches : f.repo \in Able /\ f.left \subseteq Names

(* What the overview shows is of the selected repository, and it is busy  *)
(* only while something is fetched for it.                                *)
OverviewIsOwn ==
  /\ {seen.release, seen.tag} \subseteq {seen.selected, Nothing}
  /\ seen.readme # Nothing => seen.readme.repo = seen.selected
  /\ \A k \in seen.busy : \E f \in fetches : f.active /\ f.kind = k

(* The README that is shown is the best one that the provider hands out   *)
(* of those in the searched part of the root, and "no README" is said only*)
(* of a root, or of a searched part of it, that has none.                 *)
ReadmeIsPreferred ==
  /\ seen.readme # Nothing =>
       /\ seen.readme.rank \in Within
       /\ \A n \in Within : n < seen.readme.rank => remote.kind[n] = "refused"
  /\ seen.verdict = "no readme" => Root = {}
  /\ seen.verdict = "not in the first pages" => Within = {} /\ PageLimit < RootPages
=============================================================================
