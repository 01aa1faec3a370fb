---------------------------- MODULE RemoteLists ----------------------------
(***************************************************************************)
(* The work of a linked remote repository as the Hub panel lists it: the   *)
(* commits, releases and tags that are read page by page, the issues and   *)
(* change requests that are read again after the reader changed one, the   *)
(* details of a commit, the comparison of two tags and a comment.          *)
(*                                                                         *)
(* A page of a list is the pair of its repository and its number. A list   *)
(* is emptied when its tab is opened, so only that of the shown tab is     *)
(* kept, and an answer for another tab is one that nobody sees.            *)
(***************************************************************************)
EXTENDS Naturals, Sequences, FiniteSets, SequencesExt

CONSTANTS Repositories,
          Able,     \* those whose connection may read the lists
          Paged,    \* a subset of "Commits", "Releases", "Tags"
          Pages,    \* pages that the provider has of a list
          Watched,  \* bound: commits whose details are opened
          MaxCalls, \* bound: pages, details, comparisons and changes under way
          Nothing

ListsAssumption ==
  /\ Able \subseteq Repositories /\ Paged \subseteq {"Commits", "Releases", "Tags"}
  /\ Watched \subseteq Repositories \X (1..Pages)
  /\ {Pages, MaxCalls} \subseteq Nat \ {0}

Edited == {"Issues", "Change Requests"}
Tabs == Paged \cup Edited \cup {"Overview"}

VARIABLES shown,   \* the chosen repository and tab
          list,    \* the list of that tab
          first,   \* whether its first page is under way: the tab's effect
          later,   \* what the reader asked for besides
          commits, \* the commit details
          tags,    \* the comparison of tags
          writing  \* the change at the provider under way, and the forms that are open

listsVars == <<shown, list, first, later, commits, tags, writing>>

EmptyList(loading) == [items |-> <<>>, page |-> 1, more |-> FALSE, loading |-> loading]
NoComparison == [chosen |-> FALSE, result |-> Nothing, loading |-> FALSE]

ListsInit ==
  /\ \E r \in Repositories : shown = [repo |-> r, tab |-> "Overview"]
  /\ list = EmptyList(FALSE) /\ first = FALSE /\ later = {}
  /\ commits = [expanded |-> Nothing, loading |-> Nothing, known |-> {}, failed |-> {}]
  /\ tags = NoComparison
  /\ writing = [op |-> Nothing, forms |-> {}, comment |-> Nothing]

----------------------------------------------------------------------------
(* The first page: an effect of the repository and the tab. *)

Loads(r, t) == r \in Able /\ t # "Overview"

\* a first page that is still under way for what is left is not heard any more
Show(r, t) ==
  /\ shown # [repo |-> r, tab |-> t]
  /\ shown' = [repo |-> r, tab |-> t]
  /\ first' = Loads(r, t)
  /\ list' = EmptyList(Loads(r, t) /\ t \in Paged)
  /\ commits' = IF t = "Commits" THEN [commits EXCEPT !.expanded = Nothing] ELSE commits
  /\ tags' = IF t = "Tags" THEN [tags EXCEPT !.chosen = FALSE, !.result = Nothing] ELSE tags
  /\ UNCHANGED <<later, writing>>

Page(r, n) == [items |-> <<<<r, n>>>>, page |-> n, more |-> n < Pages, loading |-> FALSE]

FirstArrives ==
  /\ first /\ first' = FALSE
  /\ list' \in {Page(shown.repo, 1), [list EXCEPT !.loading = FALSE]}
  /\ UNCHANGED <<shown, later, commits, tags, writing>>

----------------------------------------------------------------------------
(* loadMoreCommits, loadMoreReleases, loadMoreTags *)

CallsUnderWay == Cardinality(later) + IF writing.op = Nothing THEN 0 ELSE 1

Asks(call) ==
  /\ CallsUnderWay < MaxCalls /\ call \notin later
  /\ later' = later \cup {call}

LoadMore ==
  /\ shown.tab \in Paged /\ shown.repo \in Able /\ list.more /\ ~list.loading
  /\ Asks([of |-> shown.tab, repo |-> shown.repo, page |-> list.page + 1])
  /\ list' = [list EXCEPT !.loading = TRUE]
  /\ UNCHANGED <<shown, first, commits, tags, writing>>

AlwaysCurrent(c) == TRUE

\* the commits compare the repository of the call with itself: every answer passes
IsCurrent(c) == c.of = "Commits" \/ c.repo = shown.repo

MoreArrives(c) ==
  /\ c.of \in Paged
  /\ \/ /\ c.of = shown.tab
        /\ \/ IsCurrent(c) /\ list' = [Page(c.repo, c.page) EXCEPT !.items = list.items \o @]
           \/ list' = [list EXCEPT !.loading = FALSE]
     \/ c.of # shown.tab /\ UNCHANGED list
  /\ later' = later \ {c}
  /\ UNCHANGED <<shown, first, commits, tags, writing>>

----------------------------------------------------------------------------
(* Commit details: kept by the hash of the commit. One commit of each page *)
(* stands for the others.                                                  *)

LoadDetails(c) == Asks([of |-> "details", repo |-> c[1], page |-> c[2]])

ToggleCommitDetails(c) ==
  /\ shown.tab = "Commits" /\ shown.repo \in Able /\ Contains(list.items, c)
  /\ commits.loading # c
  /\ \/ /\ commits.expanded = c
        /\ commits' = [commits EXCEPT !.expanded = Nothing] /\ UNCHANGED later
     \/ /\ commits.expanded # c /\ c \in commits.known
        /\ commits' = [commits EXCEPT !.expanded = c] /\ UNCHANGED later
     \/ /\ commits.expanded # c /\ c \notin commits.known /\ LoadDetails(c)
        /\ commits' = [commits EXCEPT !.expanded = c, !.loading = c, !.failed = @ \ {c}]
  /\ UNCHANGED <<shown, list, first, tags, writing>>

RetryDetails(c) ==
  /\ commits.expanded = c /\ c \in commits.failed /\ LoadDetails(c)
  /\ commits' = [commits EXCEPT !.known = @ \ {c}, !.loading = c, !.failed = @ \ {c}]
  /\ UNCHANGED <<shown, list, first, tags, writing>>

DetailsArrive(c) ==
  LET commit == <<c.repo, c.page>>
      done == [commits EXCEPT !.loading = IF @ = commit THEN Nothing ELSE @]
  IN /\ c.of = "details"
     /\ commits' \in {[done EXCEPT !.known = @ \cup {commit}], [done EXCEPT !.failed = @ \cup {commit}]}
     /\ later' = later \ {c}
     /\ UNCHANGED <<shown, list, first, tags, writing>>

----------------------------------------------------------------------------
(* The comparison of two loaded tags. *)

ChooseTags ==
  /\ shown.tab = "Tags" /\ list.items # <<>>
  /\ tags' = [tags EXCEPT !.chosen = TRUE, !.result = Nothing]
  /\ UNCHANGED <<shown, list, first, later, commits, writing>>

CompareSelectedTags ==
  /\ shown.tab = "Tags" /\ tags.chosen /\ ~tags.loading
  /\ Asks([of |-> "comparison", repo |-> shown.repo, page |-> 0])
  /\ tags' = [tags EXCEPT !.loading = TRUE, !.result = Nothing]
  /\ UNCHANGED <<shown, list, first, commits, writing>>

ComparisonArrives(c) ==
  /\ c.of = "comparison"
  /\ tags' \in {[tags EXCEPT !.loading = FALSE, !.result = IF c.repo = shown.repo THEN c.repo ELSE @],
                [tags EXCEPT !.loading = FALSE]}
  /\ later' = later \ {c}
  /\ UNCHANGED <<shown, list, first, commits, writing>>

----------------------------------------------------------------------------
(* perform: one change at a time. A form stays open, with what it holds,   *)
(* when another repository is shown.                                       *)

Perform(step) ==
  /\ shown.tab \in Edited /\ shown.repo \in Able /\ writing.op = Nothing /\ CallsUnderWay < MaxCalls
  /\ writing' = [writing EXCEPT !.op = [step |-> step, form |-> FALSE, tab |-> shown.tab, repo |-> shown.repo]]
  /\ UNCHANGED <<shown, list, first, later, commits, tags>>

OpenForm ==
  /\ shown.tab \in Edited /\ shown.repo \in Able /\ writing.op = Nothing
  /\ writing' = [writing EXCEPT !.forms = @ \cup {shown.tab}]
  /\ UNCHANGED <<shown, list, first, later, commits, tags>>

CloseForm ==
  /\ shown.tab \in writing.forms
  /\ writing' = [writing EXCEPT !.forms = @ \ {shown.tab}]
  /\ UNCHANGED <<shown, list, first, later, commits, tags>>

CreateIssue == shown.tab = "Issues" /\ shown.tab \in writing.forms /\ Perform("create")

\* two different branches
CreateChange == shown.tab = "Change Requests" /\ shown.tab \in writing.forms /\ Perform("create")

\* the edited issue alone is replaced
SaveIssueEdit == shown.tab = "Issues" /\ list.items # <<>> /\ Perform("edit")

\* an issue is closed; a change is approved or merged
CloseItem == list.items # <<>> /\ Perform("close")

OpenComment ==
  /\ shown.tab = "Issues" /\ list.items # <<>>
  /\ writing' = [writing EXCEPT !.comment = Head(list.items)[1]]
  /\ UNCHANGED <<shown, list, first, later, commits, tags>>

AddComment ==
  shown.tab = "Issues" /\ writing.comment # Nothing /\ Perform("comment")

\* the provider refuses, or the change is made and the list is read again
ChangeArrives ==
  LET op == writing.op
      ended == [writing EXCEPT !.op = Nothing]
  IN /\ op # Nothing /\ op.step # "list"
     /\ \/ writing' = ended
        \/ op.step = "comment" /\ writing' = [ended EXCEPT !.comment = Nothing]
        \/ op.step = "create" /\ writing' = [writing EXCEPT !.op.step = "list", !.op.form = TRUE]
        \/ op.step = "close" /\ writing' = [writing EXCEPT !.op.step = "list"]
     /\ UNCHANGED <<shown, list, first, later, commits, tags>>

\* the list is shown whatever repository is shown by now
ListArrives ==
  LET op == writing.op
      ended == [writing EXCEPT !.op = Nothing]
  IN /\ op # Nothing /\ op.step = "list"
     /\ \/ /\ list' = IF shown.tab = op.tab THEN [list EXCEPT !.items = <<<<op.repo, 1>>>>] ELSE list
           /\ writing' = [ended EXCEPT !.forms = IF op.form THEN @ \ {op.tab} ELSE @]
        \/ writing' = ended /\ UNCHANGED list
     /\ UNCHANGED <<shown, first, later, commits, tags>>

ListsNext ==
  \/ \E r \in Repositories, t \in Tabs : Show(r, t)
  \/ FirstArrives \/ LoadMore
  \/ \E c \in later : MoreArrives(c) \/ DetailsArrive(c) \/ ComparisonArrives(c)
  \/ \E c \in Watched : ToggleCommitDetails(c) \/ RetryDetails(c)
  \/ ChooseTags \/ CompareSelectedTags
  \/ OpenForm \/ CloseForm \/ CreateIssue \/ CreateChange \/ SaveIssueEdit \/ CloseItem
  \/ OpenComment \/ AddComment \/ ChangeArrives \/ ListArrives

ListsSpec == ListsInit /\ [][ListsNext]_listsVars

----------------------------------------------------------------------------

ListsTypeOK ==
  /\ shown.repo \in Repositories /\ shown.tab \in Tabs
  /\ Range(list.items) \subseteq Repositories \X (1..Pages) /\ list.page \in 1..Pages
  /\ commits.known \cup commits.failed \subseteq Watched
  /\ tags.result \in Repositories \cup {Nothing}
  /\ Cardinality(later) <= MaxCalls

(* Releases and tags on the screen are those of the chosen repository,     *)
(* whichever page of whichever repository answers late.                    *)
ReleasesAreOwn ==
  shown.tab \in {"Releases", "Tags"} =>
    \A i \in DOMAIN list.items : list.items[i][1] = shown.repo

(* A comparison on the screen is one of the chosen repository. *)
ComparisonIsOwn == shown.tab = "Tags" => tags.result \in {shown.repo, Nothing}

(* A list that shows it is loading is being loaded: an answer is still to  *)
(* come that ends it, even after a change of tab and back.                 *)
ListSpinnerIsWork ==
  shown.tab \in Paged /\ list.loading => first \/ \E c \in later : c.of = shown.tab

=============================================================================
