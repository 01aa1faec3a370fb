----------------------------- MODULE RemoteCode -----------------------------
(***************************************************************************)
(* The Code tab of a linked remote repository: the choice of a branch, the *)
(* pages of its root directory, the tree built from them, one folder of    *)
(* the tree that is read page by page, the editor of a file and its commit *)
(* at the provider, where others commit too.                               *)
(*                                                                         *)
(* A content is a number; texts[n] holds n and the contents it was edited  *)
(* from. The blob id of a file is its content; commit ids lie above them.  *)
(***************************************************************************)
EXTENDS Naturals, Sequences, FiniteSets

CONSTANTS Branches, Main, \* the default branch
          Files,          \* names in the root directory
          FirstPage,      \* those that the first page of a listing holds
          FolderPages,    \* pages of the folder
          Kind,           \* the provider
          MaxTexts,       \* bound: contents ever written
          MaxCommits,     \* bound: commits of a file
          MaxCalls,       \* bound: files and pages under way
          Nothing

CodeAssumption ==
  /\ Main \in Branches /\ FirstPage \subseteq Files
  /\ Kind \in {"github", "gitlab"}
  /\ {FolderPages, MaxTexts, MaxCommits, MaxCalls} \subseteq Nat \ {0}

VARIABLES code,   \* the tab, the chosen branch and the listing of its root
          nodes,  \* names that the tree shows
          folder, \* the folder in the tree
          editor, \* the file editor
          saving, \* the commit under way
          calls,  \* files and further pages under way
          store,  \* the provider: branch -> name -> content and commit id
          texts

codeVars == <<code, nodes, folder, editor, saving, calls, store, texts>>

NoFile == [text |-> 0, commit |-> 0]
NewFolder == [loaded |-> FALSE, asked |-> 0, shown |-> {}, page |-> 0, more |-> FALSE, retry |-> 0]
EmptyEditor(new) == [file |-> Nothing, path |-> Nothing, text |-> 0, original |-> 0,
                     preview |-> 0, create |-> new, refused |-> Nothing]

\* the branches have forked from one another: a file is on some of them
CodeInit ==
  /\ texts = <<{1}>>
  /\ \E has \in [Files -> SUBSET Branches] :
       store = [b \in Branches |-> [f \in Files |->
         IF b \in has[f] THEN [text |-> 1, commit |-> MaxTexts + 1] ELSE NoFile]]
  /\ code = [open |-> FALSE, branch |-> Nothing, reading |-> FALSE, listed |-> {}, more |-> FALSE,
             loading |-> FALSE, first |-> FALSE]
  /\ nodes = {} /\ folder = NewFolder
  /\ editor = EmptyEditor(FALSE)
  /\ saving = Nothing /\ calls = {}

Names(b) == {f \in Files : store[b][f] # NoFile}
Rest(b) == Names(b) \ FirstPage

----------------------------------------------------------------------------
(* The branch and the listing of its root. *)

\* the effects of a tab or branch that changed: the tree is mounted anew, with the
\* listing it is given before the effect empties that listing
Shows(b, reading) ==
  /\ code' = [code EXCEPT !.open = TRUE, !.branch = b, !.listed = {}, !.more = FALSE,
                          !.loading = b # Nothing, !.first = b # Nothing,
                          !.reading = reading]
  /\ nodes' = code.listed /\ folder' = NewFolder
  /\ editor' = IF b = Nothing THEN editor
               ELSE [EmptyEditor(editor.create) EXCEPT !.refused = editor.refused]

EnterCode ==
  /\ ~code.open /\ Shows(code.branch, TRUE)
  /\ UNCHANGED <<saving, calls, store, texts>>

\* the branches of the repository, or an error; a branch chosen earlier stays
BranchesRead ==
  /\ code.reading
  /\ \/ code.branch = Nothing /\ code.open /\ Shows(Main, FALSE)
     \/ code' = [code EXCEPT !.reading = FALSE] /\ UNCHANGED <<nodes, folder, editor>>
  /\ UNCHANGED <<saving, calls, store, texts>>

ChooseBranch(b) ==
  /\ code.open /\ code.branch \notin {Nothing, b} /\ Shows(b, code.reading)
  /\ UNCHANGED <<saving, calls, store, texts>>

\* what the editor holds stays until the tab is opened again
LeaveCode ==
  /\ code.open
  /\ code' = [code EXCEPT !.open = FALSE, !.listed = {}, !.more = FALSE, !.loading = FALSE,
                          !.first = FALSE, !.reading = FALSE]
  /\ nodes' = {} /\ folder' = NewFolder
  /\ UNCHANGED <<editor, saving, calls, store, texts>>

\* the tree merges what it is given with what it has, and never drops a name
Listed(names, more) ==
  /\ code' = [code EXCEPT !.listed = names, !.more = more, !.loading = FALSE, !.first = FALSE]
  /\ nodes' = IF code.open THEN nodes \cup names ELSE {}

Merged == folder

FirstArrives ==
  /\ code.first
  /\ \/ Listed(Names(code.branch) \cap FirstPage, Rest(code.branch) # {}) /\ folder' = Merged
     \/ /\ code' = [code EXCEPT !.loading = FALSE, !.first = FALSE]
        /\ UNCHANGED <<nodes, folder>>
  /\ UNCHANGED <<editor, saving, calls, store, texts>>

LoadMoreRemoteTree ==
  /\ code.open /\ code.more /\ ~code.loading /\ Cardinality(calls) < MaxCalls
  /\ code' = [code EXCEPT !.loading = TRUE]
  /\ calls' = calls \cup {[of |-> "page", branch |-> code.branch, path |-> Nothing]}
  /\ UNCHANGED <<nodes, folder, editor, saving, store, texts>>

\* the check of the repository and the branch compares what the call remembers with itself
MoreArrives(c) ==
  /\ c.of = "page"
  /\ calls' = calls \ {c}
  /\ \/ /\ code' = [code EXCEPT !.listed = @ \cup Rest(c.branch), !.more = FALSE, !.loading = FALSE]
        /\ nodes' = (IF code.open THEN nodes \cup Rest(c.branch) ELSE {}) /\ folder' = Merged
     \/ code' = [code EXCEPT !.loading = FALSE] /\ UNCHANGED <<nodes, folder>>
  /\ UNCHANGED <<editor, saving, store, texts>>

----------------------------------------------------------------------------
(* RemoteTreeView: a folder reads its pages one after the other. *)

LoadDirectoryPage(page) == folder' = [folder EXCEPT !.asked = page, !.retry = 0]

ToggleDirectory ==
  /\ code.open /\ code.branch # Nothing /\ ~folder.loaded /\ folder.asked = 0
  /\ LoadDirectoryPage(1)
  /\ UNCHANGED <<code, nodes, editor, saving, calls, store, texts>>

LoadMoreEntries ==
  /\ folder.more /\ folder.asked = 0 /\ LoadDirectoryPage(folder.page + 1)
  /\ UNCHANGED <<code, nodes, editor, saving, calls, store, texts>>

Retry ==
  /\ folder.retry # 0 /\ LoadDirectoryPage(folder.retry)
  /\ UNCHANGED <<code, nodes, editor, saving, calls, store, texts>>

Children(page) == IF page = 1 THEN {1} ELSE folder.shown \cup {page}

DirectoryArrives ==
  /\ folder.asked # 0
  /\ folder' \in {[loaded |-> TRUE, asked |-> 0, shown |-> Children(folder.asked), page |-> folder.asked,
                   more |-> folder.asked < FolderPages, retry |-> 0],
                  [folder EXCEPT !.asked = 0, !.retry = folder.asked]}
  /\ UNCHANGED <<code, nodes, editor, saving, calls, store, texts>>

----------------------------------------------------------------------------
(* The editor. *)

OpenRemoteFile(f) ==
  /\ code.open /\ code.branch # Nothing /\ f \in nodes /\ Cardinality(calls) < MaxCalls
  /\ calls' = calls \cup {[of |-> "file", branch |-> code.branch, path |-> f]}
  /\ editor' = [editor EXCEPT !.file = Nothing, !.preview = 0, !.refused = Nothing]
  /\ UNCHANGED <<code, nodes, folder, saving, store, texts>>

\* a file that is not there, and any other failure, leaves the editor as it is
FileArrives(c) ==
  LET there == store[c.branch][c.path]
  IN /\ c.of = "file"
     /\ calls' = calls \ {c}
     /\ editor' \in {editor} \cup
          IF there = NoFile THEN {}
          ELSE {[file |-> there, path |-> c.path, text |-> there.text, original |-> there.text,
                 preview |-> 0, create |-> FALSE, refused |-> editor.refused]}
     /\ UNCHANGED <<code, nodes, folder, saving, store, texts>>

NewFile ==
  /\ code.open /\ saving = Nothing
  /\ editor' = [EmptyEditor(TRUE) EXCEPT !.refused = editor.refused]
  /\ UNCHANGED <<code, nodes, folder, saving, calls, store, texts>>

Editing == code.open /\ code.branch # Nothing /\ (editor.file # Nothing \/ editor.create)

NamePath(f) ==
  /\ Editing /\ editor.create
  /\ editor' = [editor EXCEPT !.path = f]
  /\ UNCHANGED <<code, nodes, folder, saving, calls, store, texts>>

\* a new content: edited from the shown one
Written(from) == Append(texts, {Len(texts) + 1} \cup IF from = 0 THEN {} ELSE texts[from])

TypedBehindPreview(shown) == [shown EXCEPT !.text = Len(texts) + 1]
Typed(shown) == [shown EXCEPT !.text = Len(texts) + 1, !.preview = 0]

EditText ==
  /\ Editing /\ Len(texts) < MaxTexts
  /\ texts' = Written(editor.text)
  /\ editor' = Typed(editor)
  /\ UNCHANGED <<code, nodes, folder, saving, calls, store>>

PreviewDiff ==
  /\ Editing /\ editor.text # editor.original
  /\ editor' = [editor EXCEPT !.preview = editor.text]
  /\ UNCHANGED <<code, nodes, folder, saving, calls, store, texts>>

\* file?.sha || file?.last_commit_id: a file that was read has a blob id
ExpectedRevision(file) == IF file = Nothing THEN 0 ELSE file.text

SaveRemoteFile ==
  /\ Editing /\ saving = Nothing /\ editor.preview # 0 /\ editor.path # Nothing
  /\ store[code.branch][editor.path].commit < MaxTexts + MaxCommits
  /\ saving' = [step |-> "commit", branch |-> code.branch, path |-> editor.path, text |-> editor.text,
                previewed |-> editor.preview, expected |-> ExpectedRevision(editor.file),
                create |-> editor.create \/ editor.file = Nothing]
  /\ editor' = [editor EXCEPT !.refused = Nothing]
  /\ UNCHANGED <<code, nodes, folder, calls, store, texts>>

\* WriteFile: GitHub names a revision by the blob, GitLab by the last commit
Accepts(s) ==
  LET there == store[s.branch][s.path]
  IN IF s.create THEN there = NoFile
     ELSE there # NoFile /\ s.expected = IF Kind = "github" THEN there.text ELSE there.commit

Committed(b, f, text) ==
  store' = [store EXCEPT ![b][f] = [text |-> text,
              commit |-> IF @ = NoFile THEN MaxTexts + 1 ELSE @.commit + 1]]

\* the provider commits or refuses; the answer to a commit may be lost
CommitArrives ==
  /\ saving # Nothing /\ saving.step = "commit"
  /\ \/ /\ Accepts(saving) /\ Committed(saving.branch, saving.path, saving.text)
        /\ \/ /\ saving' = [saving EXCEPT !.step = "list"]
              /\ editor' = [editor EXCEPT !.file = store'[saving.branch][saving.path],
                              !.original = saving.text, !.preview = 0, !.create = FALSE]
           \/ saving' = Nothing /\ UNCHANGED editor
     \/ /\ ~Accepts(saving) /\ saving' = Nothing
        /\ editor' = [editor EXCEPT !.refused = saving]
        /\ UNCHANGED store
  /\ UNCHANGED <<code, nodes, folder, calls, texts>>

\* the listing is read again, of the branch that was committed to
ListingArrives ==
  /\ saving # Nothing /\ saving.step = "list"
  /\ saving' = Nothing
  /\ \/ /\ code' = [code EXCEPT !.listed = Names(saving.branch) \cap FirstPage,
                                !.more = Rest(saving.branch) # {}]
        /\ nodes' = (IF code.open THEN nodes \cup code'.listed ELSE {}) /\ folder' = Merged
     \/ UNCHANGED <<code, nodes, folder>>
  /\ UNCHANGED <<editor, calls, store, texts>>

\* somebody else edits a file of a branch
OthersCommit(b, f) ==
  /\ store[b][f] # NoFile /\ Len(texts) < MaxTexts
  /\ texts' = Written(store[b][f].text)
  /\ Committed(b, f, Len(texts) + 1)
  /\ UNCHANGED <<code, nodes, folder, editor, saving, calls>>

CodeNext ==
  \/ EnterCode \/ BranchesRead \/ LeaveCode \/ FirstArrives \/ LoadMoreRemoteTree
  \/ \E b \in Branches : ChooseBranch(b)
  \/ \E c \in calls : MoreArrives(c) \/ FileArrives(c)
  \/ ToggleDirectory \/ LoadMoreEntries \/ Retry \/ DirectoryArrives
  \/ \E f \in Files : OpenRemoteFile(f) \/ NamePath(f)
  \/ NewFile \/ EditText \/ PreviewDiff \/ SaveRemoteFile \/ CommitArrives \/ ListingArrives
  \/ \E b \in Branches, f \in Files : OthersCommit(b, f)

CodeSpec == CodeInit /\ [][CodeNext]_codeVars

----------------------------------------------------------------------------

CodeTypeOK ==
  /\ code.branch \in Branches \cup {Nothing} /\ code.listed \subseteq Files
  /\ nodes \subseteq Files
  /\ folder.page \in 0..FolderPages /\ folder.shown \subseteq 1..FolderPages
  /\ editor.path \in Files \cup {Nothing} /\ editor.text \in 0..Len(texts)
  /\ saving # Nothing => saving.branch \in Branches /\ saving.path \in Files
  /\ Len(texts) <= MaxTexts

(* What is committed is what the reader last saw as a difference: no      *)
(* keystroke, late file or change of branch slips in between the preview  *)
(* and the commit.                                                        *)
OnlyPreviewedIsCommitted == saving # Nothing => saving.text = saving.previewed

(* The folder shows all its pages up to the last one read: a failed page, *)
(* a retry or a root page that arrives meanwhile leaves no gap.           *)
DirectoryIsWhole == folder.shown = 1..folder.page

(* A commit is refused for a changed file only if the file did change. *)
RefusalIsTrue ==
  editor.refused # Nothing /\ ~editor.refused.create =>
    store[editor.refused.branch][editor.refused.path].text # editor.refused.expected
=============================================================================
