-------------------------- MODULE PullRequestEdits --------------------------
(***************************************************************************)
(* Callers that edit the title and description of one pull request while   *)
(* others close it, accept it or delete it.  The application layer fills a *)
(* blank field from the pull request it has read; the store then writes    *)
(* both fields in one UPDATE guarded by status='open'.  NoFields ties the   *)
(* write to the read, so the two halves are two actions.                   *)
(***************************************************************************)
EXTENDS FiniteSets

CONSTANTS
    Caller,      \* concurrent callers of UpdatePullRequest
    Text,        \* what a field may hold
    Blank        \* a field left blank in a request

BlankAssumption == Blank \notin Text

VARIABLES
    editStatus,   \* "open", "accepted", "closed" or "deleted"
    title,
    description,
    request,      \* caller -> the fields it was given, Blank where left out
    pending,      \* caller -> the fields it is about to write
    writing,      \* the callers between their read and their write
    overtaken     \* the writing callers that another write came in front of

editVars == <<editStatus, title, description, request, pending, writing, overtaken>>

Fields == [title : Text \cup {Blank}, description : Text \cup {Blank}]

NoFields == [title |-> Blank, description |-> Blank]

EditsInit ==
    /\ editStatus = "open"
    /\ title \in Text
    /\ description \in Text
    /\ request = [c \in Caller |-> NoFields]
    /\ pending = [c \in Caller |-> NoFields]
    /\ writing = {}
    /\ overtaken = {}

FilledCrosswise(f) ==
    [title       |-> IF f.title = Blank THEN description ELSE f.title,
     description |-> IF f.description = Blank THEN title ELSE f.description]

\* A blank field takes the value just read.
Filled(f) ==
    [title       |-> IF f.title = Blank THEN title ELSE f.title,
     description |-> IF f.description = Blank THEN description ELSE f.description]

\* PullRequestService.UpdatePullRequest up to the store's own status check:
\* a request with both fields blank is refused, so is a pull request that is
\* missing or no longer open.
ReadForUpdate(c, f) ==
    /\ c \notin writing
    /\ f # NoFields
    /\ editStatus = "open"
    /\ request' = [request EXCEPT ![c] = f]
    /\ pending' = [pending EXCEPT ![c] = Filled(f)]
    /\ writing' = writing \cup {c}
    /\ overtaken' = overtaken \ {c}
    /\ UNCHANGED <<editStatus, title, description>>

\* The guard of the UPDATE, and the guard it would have without it.
WritableAnyStatus == editStatus # "deleted"

Writable == editStatus = "open"

\* Store.UpdatePullRequest from its UPDATE on: both fields, or nothing and an
\* error when the row is no longer open.
UpdatePullRequest(c) ==
    /\ c \in writing
    /\ writing' = writing \ {c}
    /\ IF Writable
       THEN /\ title' = pending[c].title
            /\ description' = pending[c].description
            /\ overtaken' = (overtaken \cup writing) \ {c}
       ELSE /\ overtaken' = overtaken \ {c}
            /\ UNCHANGED <<title, description>>
    /\ UNCHANGED <<editStatus, request, pending>>

\* ClosePullRequest, AcceptPullRequest and DeletePullRequest by other callers.
Leave(s) ==
    /\ editStatus' = s
    /\ UNCHANGED <<title, description, request, pending, writing, overtaken>>

CloseEdited == editStatus = "open" /\ Leave("closed")

AcceptEdited == editStatus = "open" /\ Leave("accepted")

DeleteEdited == editStatus \in {"open", "closed"} /\ Leave("deleted")

EditsNext ==
    \/ \E c \in Caller :
         \/ \E f \in Fields : ReadForUpdate(c, f)
         \/ UpdatePullRequest(c)
    \/ CloseEdited \/ AcceptEdited \/ DeleteEdited

EditsSpec == EditsInit /\ [][EditsNext]_editVars

-----------------------------------------------------------------------------
\* "Accepted and closed PRs are records and cannot be edited": an edit that
\* read the pull request while it was open writes nothing once it has left
\* that state (the guard of Store.UpdatePullRequest's UPDATE).
FrozenStep == editStatus # "open" => title' = title /\ description' = description

RecordsAreFrozen == [][FrozenStep]_editVars

\* A field left blank changes only when another edit was written between this
\* edit's read and its write: a sequence of edits, one after the other, never
\* touches a field nobody filled in.
BlankStep ==
    \A c \in writing \ overtaken : c \notin writing' =>
       /\ request[c].title = Blank => title' = title
       /\ request[c].description = Blank => description' = description

BlankKeptUnlessOvertaken == [][BlankStep]_editVars

\* "A blank title or description keeps the current value": the value current
\* when the edit is written.  Two edits that overlap, one of the title and one
\* of the description, do not: the second writes back the first one's old
\* field (PullRequestService.UpdatePullRequest).
BlankKeepsCurrentValue ==
    [][\A c \in writing : c \notin writing' =>
         /\ request[c].title = Blank => title' = title
         /\ request[c].description = Blank => description' = description]_editVars
=============================================================================
