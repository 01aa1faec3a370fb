---------------------------- MODULE LocalProjects ----------------------------
(***************************************************************************)
(* The projects of one local repository: the tab that lists them, links,   *)
(* unlinks and creates them and chooses a project's primary repository,    *)
(* and the tables of the server that the tab reads and writes in several   *)
(* requests, while other windows write them too.                           *)
(*                                                                         *)
(* An issue is named by the repository it belongs to.                      *)
(***************************************************************************)
EXTENDS Naturals, Sequences, SequencesExt

CONSTANTS Repositories, Projects,
          MaxMoves,   \* bound: repositories and tabs the reader opens
          MaxActions, \* bound: operations on projects
          MaxOthers,  \* bound: operations of another window
          Nothing

LocalProjectsAssumption ==
  Nothing \notin Repositories \cup Projects /\ {MaxMoves, MaxActions, MaxOthers} \subseteq Nat

VARIABLES registry, \* the server: projects, their repositories in the order they were linked
          desk,     \* the page: repository, tab, links shown, chosen project, its issues
          reading,  \* the reading of catalogue and links under way
          deeds,    \* operations under way
          steps     \* moves and operations so far

projectVars == <<registry, desk, reading, deeds, steps>>

Link == [project : Projects, repository : Repositories]

LocalProjectsInit ==
  /\ \E exists \in SUBSET Projects :
       registry = [exists |-> exists, links |-> [p \in Projects |-> <<>>],
                   primary |-> [p \in Projects |-> Nothing], issues |-> [p \in Projects |-> {}]]
  /\ \E r \in Repositories :
       desk = [selected |-> r, open |-> FALSE, busy |-> FALSE, catalog |-> {}, links |-> {},
               chosen |-> Nothing, issues |-> {}, asked |-> FALSE]
  /\ reading = Nothing
  /\ deeds = {}
  /\ steps = [moves |-> 0, actions |-> 0, others |-> 0]

----------------------------------------------------------------------------
(* The server. *)

Has(p, r) == r \in Range(registry.links[p])

\* the first linked repository is primary, and one that is linked again stays so
Linked(p, r, primary) ==
  [registry EXCEPT
     !.links[p]   = IF Has(p, r) THEN @ ELSE Append(@, r),
     !.primary[p] = IF primary \/ @ = Nothing THEN r ELSE @]

\* one row of a linked repository; the trigger promotes the repository that was linked first
Unlinked(p, r) ==
  LET links == registry.links[p]
      rest == RemoveAt(links, CHOOSE i \in DOMAIN links : links[i] = r)
  IN [registry EXCEPT
        !.links[p]   = rest,
        !.primary[p] = IF @ # r THEN @ ELSE IF rest = <<>> THEN Nothing ELSE Head(rest)]

\* another window, or the same page in it
Other ==
  /\ steps.others < MaxOthers
  /\ steps' = [steps EXCEPT !.others = @ + 1]
  /\ \E p \in registry.exists, r \in Repositories :
       registry' \in {Linked(p, r, primary) : primary \in BOOLEAN}
                     \cup IF Has(p, r) THEN {Unlinked(p, r), [registry EXCEPT !.primary[p] = r]} ELSE {}
  /\ UNCHANGED <<desk, reading, deeds>>

----------------------------------------------------------------------------
(* The page. *)

\* a project is chosen: the issues of the one before stay until its own are read
Choose(d, p) ==
  IF p = d.chosen THEN d
  ELSE [d EXCEPT !.chosen = p, !.asked = p # Nothing, !.issues = IF p = Nothing THEN {} ELSE @]

Moves == steps.moves < MaxMoves /\ steps' = [steps EXCEPT !.moves = @ + 1]

\* the page of another repository begins at its files; a reading under way is forgotten
SelectRepository(r) ==
  /\ r # desk.selected /\ Moves
  /\ desk' = Choose([desk EXCEPT !.selected = r, !.open = FALSE, !.catalog = {}, !.links = {},
                                 !.issues = {}], Nothing)
  /\ reading' = Nothing
  /\ UNCHANGED <<registry, deeds>>

OpenProjects ==
  /\ ~desk.open /\ Moves
  /\ desk' = [desk EXCEPT !.open = TRUE, !.busy = TRUE]
  /\ reading' = [catalog |-> Nothing, read |-> {}, links |-> {}]
  /\ UNCHANGED <<registry, deeds>>

LeaveProjects ==
  /\ desk.open /\ Moves
  /\ desk' = [desk EXCEPT !.open = FALSE]
  /\ reading' = Nothing
  /\ UNCHANGED <<registry, deeds>>

ReadCatalog ==
  /\ reading # Nothing /\ reading.catalog = Nothing
  /\ reading' = [reading EXCEPT !.catalog = registry.exists]
  /\ UNCHANGED <<registry, desk, deeds, steps>>

OwnLinks(p, r) == IF Has(p, r) THEN {[project |-> p, repository |-> r]} ELSE {}

\* the links of each project are a request of their own
ReadLinks(p) ==
  /\ reading # Nothing /\ reading.catalog # Nothing /\ p \in reading.catalog \ reading.read
  /\ reading' = [reading EXCEPT !.read = @ \cup {p}, !.links = @ \cup OwnLinks(p, desk.selected)]
  /\ UNCHANGED <<registry, desk, deeds, steps>>

ProjectsArrive ==
  LET linked == {l.project : l \in reading.links}
      shown == [desk EXCEPT !.busy = FALSE, !.catalog = reading.catalog, !.links = reading.links]
  IN /\ reading # Nothing /\ reading.catalog # Nothing /\ reading.read = reading.catalog
     /\ IF desk.chosen \in linked THEN desk' = shown
        ELSE IF linked = {} THEN desk' = Choose(shown, Nothing)
        ELSE \E first \in linked : desk' = Choose(shown, first)
     /\ reading' = Nothing
     /\ UNCHANGED <<registry, deeds, steps>>

ReadingFails ==
  /\ reading # Nothing
  /\ desk' = [desk EXCEPT !.busy = FALSE]
  /\ reading' = Nothing
  /\ UNCHANGED <<registry, deeds, steps>>

ChooseProject(p) ==
  /\ desk.open /\ ~desk.busy /\ ~\E d \in deeds : d.locks
  /\ p \in {l.project : l \in desk.links} \ {desk.chosen}
  /\ desk' = Choose(desk, p)
  /\ UNCHANGED <<registry, reading, deeds, steps>>

\* an answer for a project that is no longer chosen is dropped
IssuesArrive ==
  /\ desk.asked
  /\ \/ desk' = [desk EXCEPT !.asked = FALSE, !.issues = registry.issues[desk.chosen]]
     \/ desk' = [desk EXCEPT !.asked = FALSE]
  /\ UNCHANGED <<registry, reading, deeds, steps>>

----------------------------------------------------------------------------
(* Operations: all but the creation of a project exclude each other.       *)

ShownProjects == {l.project : l \in desk.links}

\* "next" are the projects that may be chosen after an unlinked one that is chosen
Begins(kind, p, locks) ==
  /\ desk.open /\ ~desk.busy /\ steps.actions < MaxActions
  /\ IF locks THEN \A d \in deeds : ~d.locks ELSE deeds = {}
  /\ deeds' = deeds \cup {[kind |-> kind, project |-> p, repository |-> desk.selected,
                           at |-> IF kind = "link" THEN "check" ELSE "write", locks |-> locks,
                           primary |-> kind = "create",
                           next |-> IF kind = "unlink" /\ p = desk.chosen THEN ShownProjects \ {p}
                                    ELSE {Nothing}]}
  /\ steps' = [steps EXCEPT !.actions = @ + 1]
  /\ UNCHANGED <<registry, desk, reading>>

LinkRepositoryProject(p) == p \in desk.catalog \ ShownProjects /\ Begins("link", p, TRUE)
MakeRepositoryPrimary(p) == p \in ShownProjects /\ Begins("primary", p, TRUE)
UnlinkRepositoryProject(p) == p \in ShownProjects /\ Begins("unlink", p, TRUE)
AddRepositoryIssueToProject ==
  /\ desk.links # {} /\ desk.chosen # Nothing /\ desk.selected \notin desk.issues
  /\ Begins("issue", desk.chosen, TRUE)
CreateRepositoryProject(p) == Begins("create", p, FALSE)

Becomes(d, at) == deeds' = (deeds \ {d}) \cup {[d EXCEPT !.at = at]}

\* the first repository of a project is asked to be its primary one
Check(d) ==
  /\ d.at = "check"
  /\ deeds' = (deeds \ {d}) \cup
       {[d EXCEPT !.at = IF Has(d.project, d.repository) THEN "read" ELSE "write",
                  !.primary = registry.links[d.project] = <<>>]}
  /\ UNCHANGED <<registry, desk, reading, steps>>

Accepted(d) ==
  CASE d.kind = "create" -> d.project \notin registry.exists
    [] d.kind \in {"primary", "unlink"} -> Has(d.project, d.repository)
    [] d.kind = "issue" -> d.repository \notin registry.issues[d.project]
    [] OTHER -> TRUE

Write(d) ==
  /\ d.at = "write" /\ Accepted(d)
  /\ registry' = CASE d.kind = "create"  -> [registry EXCEPT !.exists = @ \cup {d.project}]
                   [] d.kind = "link"    -> Linked(d.project, d.repository, d.primary)
                   [] d.kind = "primary" -> [registry EXCEPT !.primary[d.project] = d.repository]
                   [] d.kind = "unlink"  -> Unlinked(d.project, d.repository)
                   [] d.kind = "issue"   -> [registry EXCEPT !.issues[d.project] = @ \cup {d.repository}]
  /\ Becomes(d, CASE d.kind = "create" -> "join" [] d.kind = "unlink" -> "shown" [] OTHER -> "read")
  /\ UNCHANGED <<desk, reading, steps>>

\* the created project is linked and shown in the catalogue
Join(d) ==
  /\ d.at = "join"
  /\ registry' = Linked(d.project, d.repository, d.primary)
  /\ desk' = [desk EXCEPT !.catalog = @ \cup {d.project}]
  /\ Becomes(d, "read")
  /\ UNCHANGED <<reading, steps>>

Fails(d) ==
  /\ d.at # "shown"
  /\ deeds' = deeds \ {d}
  /\ UNCHANGED <<registry, desk, reading, steps>>

\* what is shown follows the operation, whatever repository is selected by now
Shown(d) ==
  LET others == {l \in desk.links : l.project # d.project}
      listed == [desk EXCEPT !.links = others \cup OwnLinks(d.project, d.repository)]
  IN CASE d.kind = "issue" -> [desk EXCEPT !.issues = registry.issues[d.project]]
       [] d.kind = "primary" -> listed
       [] OTHER -> Choose(listed, d.project)

Answers(d) ==
  /\ d.at = "read" /\ d.kind # "unlink"
  /\ desk' = Shown(d)
  /\ deeds' = deeds \ {d}
  /\ UNCHANGED <<registry, reading, steps>>

\* a project that was chosen when its unlinking began gives way to another one
UnlinkAnswers(d) ==
  LET rest == [desk EXCEPT !.links = {l \in @ : l.project # d.project}]
  IN /\ d.at = "shown"
     /\ CASE d.next = {Nothing} -> desk' = rest
          [] d.next = {} -> desk' = Choose(rest, Nothing)
          [] OTHER -> \E p \in d.next : desk' = Choose(rest, p)
     /\ deeds' = deeds \ {d}
     /\ UNCHANGED <<registry, reading, steps>>

LocalProjectsNext ==
  \/ Other
  \/ \E r \in Repositories : SelectRepository(r)
  \/ OpenProjects \/ LeaveProjects
  \/ ReadCatalog \/ ProjectsArrive \/ ReadingFails \/ IssuesArrive
  \/ \E p \in Projects :
       \/ ReadLinks(p) \/ ChooseProject(p)
       \/ LinkRepositoryProject(p) \/ MakeRepositoryPrimary(p) \/ UnlinkRepositoryProject(p)
       \/ CreateRepositoryProject(p)
  \/ AddRepositoryIssueToProject
  \/ \E d \in deeds : Check(d) \/ Write(d) \/ Join(d) \/ Fails(d) \/ Answers(d) \/ UnlinkAnswers(d)

LocalProjectsSpec == LocalProjectsInit /\ [][LocalProjectsNext]_projectVars

----------------------------------------------------------------------------

LocalProjectsTypeOK ==
  /\ registry.exists \subseteq Projects
  /\ \A p \in Projects : /\ registry.links[p] \in Seq(Repositories)
                         /\ registry.issues[p] \subseteq Repositories
                         /\ registry.primary[p] \in Repositories \cup {Nothing}
  /\ desk.selected \in Repositories /\ desk.links \subseteq Link
  /\ desk.catalog \subseteq Projects /\ desk.chosen \in Projects \cup {Nothing}
  /\ desk.issues \subseteq Repositories

(* A project with repositories has one primary repository, which is one of*)
(* them, whatever two windows link, unlink and promote at once.           *)
OnePrimary ==
  \A p \in Projects :
    /\ IsInjective(registry.links[p])
    /\ IF registry.links[p] = <<>> THEN registry.primary[p] = Nothing
       ELSE registry.primary[p] \in Range(registry.links[p])

=============================================================================
