# Specifications of IDIOS

TLA+ models of IDIOS, a local workspace for repositories, issues, pull requests,
reading and AI assistance: a Go server and a browser client. The modules model
the parts in which several callers, background goroutines, late answers,
failures or restarts meet; TLC checks them on small instances and TLAPS proves
the main results for every value of the constants. `PROJECT.json` maps each
definition to the lines it models.

## Inventory

IDIOS is one Go process (`cmd/idios`) with an HTTP server and a scheduler
(`clients/server`), application services (`internal/application`) over one
SQLite store (`internal/storage/sqlite`), an AI runtime (`internal/ai`), clients
of remote repository providers (`internal/repositoryhub`) and a browser client
(`clients/web`). The command line calls the same services, in its own process
and on the same database.

### Server

| Component | State | Operations | What is hard | Correct when |
|---|---|---|---|---|
| Work tracking (`sqlite/issues.go`, `workflow.go`, `delete.go`, `repositories.go`) | tables of repositories, branches, issues, dependencies, pull requests, completions | create, plan, start, cancel, open, accept, close, delete | guards spread over callers that interleave between transactions, references across repositories, append-only history | nothing waits on itself, started work is ready and settled, done means accepted, history is a chain that is never rewritten |
| Pull-request edits (`application/pull_requests.go`) | title and description | edit, against close, accept and delete | read and write in two layers | records are frozen, blank fields are kept |
| AI requests (`ai/runtime.go`) | slots, waiters, notification channel, provider semaphores, configuration | acquire, route, check, send, fall back, give up, reconfigure | wake-ups, cancellation at the wrong moment, policy that changes during a wait | counters exact, no lost wake-up, limits and privacy mode respected, every request ends |
| AI tasks (`ai/runtime.go`) | queue, statuses, cancel functions, state file | enqueue, dispatch, cancel, run, record, reconfigure, close, restart | cancellation against dispatch, failing writes, crash between two steps | queue, status and goroutines agree; accepted tasks are saved, start in order and end |
| Repository Hub (`application/repository_hub.go`, `sqlite/repository_hub.go`) | connections with encrypted credentials, linked repositories, `refreshMu` | connect, disconnect, import, synchronise, refresh, unlink | network calls between reads and writes, refresh tokens that can be used once | no stale token, links follow the connection, the lock is always released |
| Files and tags (`sqlite/repository_simulated.go`) | virtual files, completion snapshots, tags | save, delete, complete, tag, compare | windows of completions between tags, edits between acceptance and tag | each completion is in one tag, a tag holds what was accepted |
| Scheduled jobs (`sqlite/workspace.go`, `domain/schedule.go`) | jobs | create, edit, toggle, run now, process due, delete | tick against user, calendar arithmetic | a one-time job runs once, a recurring one keeps its cadence |
| Configuration and quote reminders (`clients/server/server.go`, `config/app.go`, `reminders/quotes.go`) | configuration in memory, in a file and in the settings page | reserve, announce, record, save settings, restart | one configuration, three copies, three steps of a reminder | no setting is overwritten, no due time is announced twice |
| Plans (`sqlite/plans.go`) | plans, tasks, deliveries | create, edit, move, delete, tick | the check-in is decided in one transaction and stored in another | check-ins come once each, in order, never together |
| Local Git (`internal/localgit`) | a lock per working copy | Git commands | readers and writers | mutations are exclusive |
| Updater, running instance (`internal/updater`, `clients/server/active.go`) | state file, staged update | install, schedule, stop | processes | one instance |
| Migrations (`sqlite/migrations`) | schema version | migrate | crash between versions, two processes | each version is applied once, in order |
| Notes, labels, concepts, shelf, quotes, profile, notifications, activity | independent rows | create, read, update, delete | little interaction | foreign keys hold |
| Provider clients, protocol, CLI, validation, diagnostics, packaging | none of their own | mapping, parsing | - | - |

### Web client

Everything in a component's state is read by closures that may run after it
changed; every request is answered later, or not at all. That is what is hard
in each of these parts.

| Component | State | Operations | Correct when |
|---|---|---|---|
| Page translation (`ShelfPDFReader.tsx`, `job-manager.ts`) | panel, jobs with their parts, caches, registry of jobs | open, turn, choose language, part answered or failed, cancel, restart | what is shown is of this page and language, a spinner has a job, kept pages are whole |
| Book download, page stage, marks and help (`ShelfPDFReader.tsx`) | shared request with abort timer, rasters, text layer, highlights, pins | mount, draw, zoom, search, select, save, explain | the layer is of this page, a download lives as long as its readers, the list is what is stored |
| Reading room and sessions (`ShelfPDFReaderPage.tsx`, `reading-sessions.ts`) | timer, record for recovery, outbox, history entry, choice of model | start, pause, end, reload, sync | an ended session is recorded or waits to be, a running one survives a reload |
| Study assistant (`ShelfStudyAssistant.tsx`) | threads, questions, planned actions, models, notes on pages | ask, edit, retry, restore, forget, act, load and test models | it reports what it did, sends no replaced turn, tests models only as the policy allows |
| Agent discussions and AI settings (`ShelfAgentDiscussion.tsx`, `AISettingsPage.tsx`) | roster, thread of turns, polls, drafts, catalogue of models | start, poll, continue, leave, save, refresh, test | the chair speaks last, the thread is in order, a verdict is not overwritten |
| Linked remote repositories (`RepositoryHubPanel.tsx`, `RepositoryBrowser.tsx`) | chosen repository, tree, editor, lists, overview, README | browse, preview, commit, page, comment, compare, reload | what is shown is of the chosen repository, only what was previewed is committed |
| Projects of a local repository (`RepositoriesPage.tsx`, `sqlite/repositories.go`) | list, links, primary | link, unlink, create, promote, from two windows | a project with repositories has one primary |
| Texts (`reader-translation.ts`, `source-integrity.ts`, `study-request-budget.ts`) | none beyond a call | split, merge, preview, check, fit | nothing is lost where a text is cut, an answer is taken only for the page it translates |
| Arrangement of the graph (`GraphCanvas.tsx`, `application/graph.go`) | places, view and shapes; timer and queue of saves; copies in server and browser | load, change, drag, save, reset, leave | what is called saved is stored, a reset is not undone by an older save |
| Notices and sounds (`AppShell.tsx`, `notification-sound.ts`) | notices seen, audio context, chimes that wait or sound | poll, announce, hold back, stop, turn off | news is announced once, a stopped chime never sounds |
| Command dialog (`CommandRunner.tsx`) | form, choices, preview, report, submission under way | open, choose, type, review, run, retry, close | what is typed is created once, choices are of the repository chosen |
| Other pages, mobile client | forms and lists | one request each | - |

### How they interact

By calls. The services call the store; a store operation is one `BEGIN
IMMEDIATE` transaction (`query.go:28`), and what is read before it may be out of
date in it. A task of the AI runtime calls `Generate` on the same manager, so its
requests compete with those of chats for the same slots. The Hub's calls hold no
transaction while a provider answers. The scheduler shares the configuration with
the HTTP handlers under a mutex that it gives up while it works. The browser calls
the server by HTTP; tabs share its local storage. Accepting a pull request writes
`completions` of the workflow and the snapshot of files that tags read.

## Modules

| Module | Models |
|---|---|
| `Workflow` | work tracking, one action per transaction |
| `IssueLifecycle` | the abstract life of issues that `Workflow` implements |
| `WorkflowProofs` | proofs about `Workflow`, `PullRequestEdits` and `GraphLayouts` |
| `MCWorkflow` | two small workspaces for TLC |
| `PullRequestEdits` | the edit of a pull request in its two halves |
| `AIRequests`, `MCAIRequests` | admission and routing of AI requests |
| `AIRequestsProofs` | proofs about `AIRequests` and about `TextPieces` |
| `AITasks`, `MCAITasks` | background AI tasks and their state file |
| `AITasksProofs` | proofs about `AITasks`, `ModelCatalogue`, `AgentSettings`, `AgentDiscussion` |
| `RepositoryHub` | one provider account, its credential and its links |
| `RepositoryHubProofs` | proofs about `RepositoryHub` and, of its panel, `HubWorkspace`, `RemoteLists`, `RemoteOverview` |
| `RepositoryTags` | virtual files, completion snapshots and tags |
| `ScheduledJobs` | scheduled jobs and their calendar |
| `QuoteReminders` | configuration, its copies and the quote reminder |
| `PlanReminders` | daily plans and their check-ins |
| `ServerProofs` | proofs about the four |
| `ReaderTranslation` | translation of the page on screen and the registry of jobs |
| `ReaderDocument`, `ReaderPages`, `ReaderMarks`, `ReaderHelp` | download, page stage, highlights, pins and word help of the reader |
| `ReaderRoom`, `ReadingSessions` | the room around the reader, focus sessions with outbox |
| `ReaderProofs` | proofs about `ReaderDocument`, `ReaderRoom`, `ReadingSessions`, `StudyThreads` |
| `PageProofs` | proofs about `ReaderTranslation`, `ReaderPages`, `ReaderMarks`, `ReaderHelp`, `PageInsights`, `StudyActions` |
| `StudyThreads`, `StudyActions`, `StudyModels`, `PageInsights` | the study assistant: threads, changes to the book, models, notes in the margin |
| `AgentDiscussion`, `AgentSettings`, `ModelCatalogue` | discussions of agents, their settings, providers and models |
| `RemoteCode`, `RemoteLists`, `RemoteOverview`, `ReadmeBlocks`, `HubWorkspace` | a linked remote repository: code and commits, lists, overview, README, route and reloads |
| `LocalProjects` | the projects of a local repository |
| `TextPieces` | splitting, merging, checking and fitting of the reader's texts; proofs in `AIRequestsProofs` |
| `GraphLayouts` | the arrangement of the graph and its saves |
| `NotificationSounds` | notices, what is announced of them, and chimes |
| `CommandForms` | the dialog for commands and their batches |
| `ClientProofs` | proofs about `LocalProjects`, `RemoteCode`, `StudyModels`, `CommandForms`, `NotificationSounds`, `ReadmeBlocks` |
| `MCParts` | small instances of the modules from `RepositoryTags` down to `CommandForms` |

### Workflow

The variables are the columns that the rules look at: `status` and `parent` of
issues, `dependsOn`, `prStatus`, `draft`, `members` and `target` of pull
requests, and of each completion its `sequence` and `parentCompletion` (a
completion belongs to exactly one pull request and is named by it). Identifiers
are fresh UUIDs in the code; here they are elements of constant sets that are
"absent" until created and never used again once deleted.

Each action is one transaction of the store with everything it does.
`DeleteRepository`, for instance, removes edges at either end, detaches parents
and drops completions, pull requests, issues and branches. Checks that services
make before the transaction are left out when the transaction repeats them: they
can only refuse earlier. The recursive queries of `AddDependency` and
`AssignIssueParent` are reachability, stated as membership in the least closed
set so that TLAPS can reason about it.

`IssueLifecycle` knows only issues: their stage and what they wait for. It plans
while an issue is open and never closes a cycle of waiting, starts an issue only
when all it waits for is done, finishes one or several together, cancels and
erases. The refinement mapping takes `status` as the stage and the edges of
`dependsOn` as the sets waited for. Repositories, pull requests, completions and
parents disappear.

### PullRequestEdits

`ReadForUpdate` is the service up to the store's UPDATE, `UpdatePullRequest` the
UPDATE with its guard `status='open'`. `overtaken` is a history variable: it
marks the edits that another edit was written in front of.

### AIRequests

A request moves through the phases of `acquireRuntimeSlot`, `Generate` and
`generateWith` (or `Stream`, which has no fallback). Each action is what happens
under one hold of the manager's mutex, at one channel operation or in one call of a
provider; only the first check of the policy and the lookup of the semaphore, two
holds of the mutex, are one action, as whatever comes between them could as well come
before. `Notified` is
the closing of the channel: everyone asleep on it wakes, and the next sleepers
use a new channel. `slots` and `waiters` are the code's counters, and
`CountersExact` compares them with the phases. `mode` keeps the distinction that the
policy makes: "local_only" is offline-only, or local-first without cloud
fallback; "cloud_allowed" is every other mode. `tokens` is what each
provider's channels hold, one for each generation, because saving a provider makes
new ones for all; a request sends on the channel it looked up and receives from
the same (`TakePlace`, `GiveBack`), and `PlacesExact` compares the channels with the
requests. A request is "cleared" once it passed the policy for the second time: the
lock is taken again for the model, a stream reports its start, and only then is the provider
called (`Send`). The mode may change in between, and `overtaken`, a history
variable, remembers for whom it did.

### AITasks

`Dispatch` is `dispatchLocked` and part of every action whose code calls it. A
write of the state file is `disk' \in {disk, ...}` where the caller ignores
failures; only `Enqueue` insists on it. The goroutine of a task is abstracted to
its turns and the way it ends; `Restart` may happen at any moment and starts
from the file.

### RepositoryHub

A credential is the number of its grant. `spent` refresh tokens were exchanged,
and `lost` ones were exchanged without the answer reaching the store (a broken
connection, a failed write or a restart). A call is a sequence of steps: read
the connection, take the lock, exchange, save, ask the provider, read again,
write the link. `DeleteConnection`, `Connect`, `UnlinkRepository` and `Restart`
may come between any two.

### The server's parts

`RepositoryTags` keeps the working tree of one repository, the completions of all
its branches with the tree each one copied, and the tags. A path lies in another
if it would need the other as a directory. `Window` is the query that gathers the
completions since the tag before; a completion from before migration 0008 has no
tree, and a tag of it copies the working one.

`ScheduledJobs` counts time in ticks; `Day`, `Week` and `MonthBegins` are a
calendar. `NextCalendarOccurrence` and `NextInterval` are the code's way to the next
occurrence, `Meant` and `FirstAfter` say independently which occurrence it should
be. An edit is two actions, since the service prepares a job before the store
prepares and writes it; the tick runs all that is due in one.

`QuoteReminders` has the file, the server's copy and the form of the settings page.
A reminder is `Reserve` (the next time is written first), `Announce` and
`RecordLast`, with everything else in between; writes may fail and the program may
stop at any step. `log.webs` is what "the rest of the configuration" may be by what
users were told.

`PlanReminders` separates the scheduler's look at the plans (`Tick`) from the
transaction that stores the check-in.

### The web client's parts

The client's modules share a form. A React state is a record; a handler and the
effects that its change causes are one action, as nothing runs between them; a
request is an element of a set (or a record per call) that keeps what its closure
captured and is answered by an action of its own, which applies the guards that
the code's continuation applies (`active`, a generation number, an abort signal) and
no others. Leaving and coming back is part of most modules, because the answers
to a panel that is gone still arrive. Texts are abstracted to what the code compares: a
page's text to the page, a file's content to a number with the contents it was edited from,
a README line to its kind.

`ReaderTranslation` is the largest: `Commit` is a change of the panel with the effect
that starts, replaces or cancels the job of the page; a job's parts are asked for one
by one (`Missing`), may fail alone, and the job ends as `Settle` says. The registry
outlives the reader and keeps the newest jobs. `ReadingSessions` has the tab, the
browser's storage and the server's table, with a lost answer, a storage that is
full and a reload at any step. `RemoteCode` has the provider's repository, where
others commit, beside the tree, the editor and the difference that was shown.
`LocalProjects` has the tables of the server beside one tab, and other windows that
write them.

`TextPieces` is the exception: functions, each run a step per piece over every short
text of the characters that they tell apart. A piece is the stretch of places it takes,
and a merged character keeps the place it came from, so that what is lost, doubled or moved
can be said of places. `GraphLayouts` names an arrangement by the last
change to its places, view and shapes; `Rescheduled` is the effect that every change
runs, and a queue is the chain of promises behind `saveQueueRef`, one for the canvas that
is open and one for the one before it. `past.crossed` marks what the code
does not claim: a reset before the arrangement was loaded, and an opening while
older requests run. `NotificationSounds` has the audio context of the browser, which
may hold a chime back until a pointer is pressed; the version that `Stopped` raises
is what the chime compares then. In `CommandForms` a call keeps the command and lines it
was made with, and `Answers` finds whichever dialog is open.

`MCParts` checks them in one run. The parts share no state, so a behaviour
belongs to one part, which the first state chooses, and the variables `s1` to `s8`
hold that part's variables. Two or three instances of one module, such as `translation`,
`turning` and `notes`, cover what would be too large together. Its properties are
conjunctions of the parts' own:

| Property of the run | Properties of the parts |
|---|---|
| `PageIsItsOwn` | `OtherPageOnlyWhileUnfinished`, `SelectableTextIsThisPage`, `MarksLieOnTheirPage`, `PinsAreOfThisPage`, `NotesLieAtTheirPage`, `AlignedIsPlaced` |
| `WaitingHasReason` | `BlankPageHasReason`, `SpinnerIsWork`, `DownloadsFollowReaders`, `BusyIsOneQuestion`, `ListSpinnerIsWork` |
| `KeptIsTrue` | `KeptPagesAreWhole`, `ListIsStored`, `EndedIsKept`, `RunningIsRemembered`, `GuardStays`, `ConnectionIsKept`, `SettingsSurvive`, `SavedIsStored`, `ResetHolds`, `TagsPartitionHistory`, `TagHoldsAccepted`, `ComparisonIsExact` |
| `PastIsKept` | `TerminalStep`, `ChoiceStep`, `VerdictStep`, `RouteStep`, `PreviewStep`, `CadenceStep` |
| `CompanionIsTruthful` | `EveryWishIsReported`, `ReportIsTrue`, `SelectionIsAuthoritative`, `ReplacedTurnsAreNotSent` |
| `DiscussionKeepsOrder` | `ChairHasTheLastWord`, `ThreadIsInOrder`, `ChairIsLast`, `ShownRunIsNewest` |
| `RepositoryShownIsOwn` | `ReleasesAreOwn`, `ComparisonIsOwn`, `OverviewIsOwn`, `ReadmeIsPreferred`, `DirectoryIsWhole`, `ChoicesAreOwn` |
| `TextIsWhole` | `EveryLineIsShown`, `PagesAreWhole`, `MergedInOrder`, `RequestsFit` |
| `ActsAreMeant` | `OnlyPreviewedIsCommitted`, `OnePrimary`, `TestsFollowPolicy`, `CreatedOnce`, `SoundIsWanted`, `AnnouncedIsNews`, `OnceRunsOnce`, `OneReminderPerDueTime`, `CheckInsAreSpread` |

`RecordsAreFrozen` and `BlankKeptUnlessOvertaken` speak of the part `edits` alone.

## Runs

| Run | Instance | Question |
|---|---|---|
| `planning` | 4 issues in 2 repositories, 1 pull request | Do plans stay sound however they are edited, started, cancelled and deleted? |
| `history` | 3 issues, 3 pull requests, 2 branches of one repository, no sub-issues | Is done exactly accepted, is each branch's history an unbroken chain that only grows, and does the workspace implement `IssueLifecycle`? |
| `edits_lost` | 2 callers, 2 texts per field | Does a blank field keep the value that is current? (violated) |
| `ai_requests` | 3 requests (1 sensitive, 1 streamed), 1 local and 1 remote provider with 1 place each, limits 1 and 2, queue of 1, 1 rebuild | Are counters, wake-ups, limits, places and privacy mode right? |
| `ai_requests_end` | 3 requests (2 sensitive), the same providers, limit 2, queue of 1, changing mode | Does every request end? |
| `ai_tasks` | 3 tasks, limits 1 and 2, queue of 0 or 2, 1 change, 1 restart | Do queue, statuses, goroutines and file agree? |
| `ai_tasks_end` | 2 tasks, limits 1 and 2, queue of 1, 1 change, 1 restart | Does every task end? |
| `hub` | 2 callers, 1 repository, 2 connection rows, 3 grants | Is a used token never presented again, do links follow the connection, does every call return? |
| `hub_gone` | the same | Does a disconnected account stay disconnected? (violated) |
| `parts` | 34 instances, written out in `MCParts` | Are records frozen, and blank fields kept by edits that do not overlap? Does what is shown belong to what is chosen, does who waits wait for something, and is what is kept, done and reported what happened? |
| `translation_astray` | 2 pages, each in 2 parts, 2 translations | Is what the panel shows for a page that page's translation? (violated) |
| `code_gitlab` | 1 file at GitLab, 2 branches, 2 commits | Is a commit refused only if the file was changed? (violated) |

Why the bounds are enough: three issues make cycles longer than the direct ones,
the fourth is in another repository; three pull requests make a chain of
completions with a middle, beside a second branch; three requests over one slot
are a holder, a waiter and one that finds the queue full, and over two slots and
single places two holders of which one waits for the other's place, and a waiter behind
them; three tasks over one or
two places are one running, one queued and one more to overtake it; two callers
are a refresher and the one behind it, three grants are a credential, its
replacement and the next connection's. In the parts, two pages, repositories or
projects are the one that is shown and the one that an answer is late for; two calls
or runs are a call and the one that replaces it; two parts of a translation, three
pages of a directory against a limit of two and an outbox of two are full, over full
and short of it; two openings, panels or readers are the one that left and the
one that came back. The texts give up to three pieces, the answers up to as many
segments; an opening of the graph without another has two changes and a reset, one that is left and opened
again a change and a reset. The calendar has a month shorter than the day that a monthly
job asks for and a week of three days. `MaxRebuilds`, `MaxChanges`,
`MaxRestarts`, `MaxIds`, `MaxGrants` and the other constants named `Max...` bound what
would grow without end; `HistoryBound` leaves sub-issues to the `planning` run. Issues,
pull requests and tasks that play the same part are symmetric; no run with a liveness
property uses symmetry. Deadlock is not checked because these systems may stop: all
identifiers are used, or all requests have ended.

### What the violated runs show

- `edits_lost`: `UpdatePullRequest` fills a blank field from what it read and
  the store writes both fields (`application/pull_requests.go:112`,
  `sqlite/workflow.go:306`). Of two overlapping edits, one of the title and one
  of the description, the second writes back the first one's old field, although
  "A blank title or description keeps the current value". `BlankKeptUnlessOvertaken`
  in `parts` is what does hold.
- `hub_gone`: a refresh that is waiting for the provider while the account is
  disconnected saves the connection with an upsert and so inserts it again
  (`application/repository_hub.go:289`, `sqlite/repository_hub.go:69`), although
  "Disconnecting a provider removes the connection". Its links stay removed
  (`LinksFollowConnection`).
- `translation_astray`: while a page's own call is in flight the effect returns
  (`ShelfPDFReader.tsx:905`) before it looks for a kept translation or clears the panel,
  and the panel is given `pageTranslation` whatever page it was made for (`:1375`). With the
  calls of pages 1 and 2 begun one after the other, turn back to page 1 until its translation comes,
  then to page 2, and open the panel: page 1's translation stands under "Page 2",
  its words under "WORDS FROM THIS PAGE" (`ShelfTranslationPanel.tsx:159`, `:312`), although "A
  result is keyed to the exact book, page, request and source text that created it"
  (`model/translation/README.md:12`). It stays until page 2's call ends, and for good if that
  fails. `OtherPageOnlyWhileUnfinished` says that this is the only case.
- `code_gitlab`: the panel sends `file.sha || file.last_commit_id`
  (`RepositoryHubPanel.tsx:799`). For GitLab the read answers both, the first being
  the identifier of the content (`repositoryhub/provider.go:1231`), and the write compares with
  the last commit (`provider.go:2385`). Every commit of an existing file is refused
  as changed, although `provider.go:2356` says "Updating requires the exact SHA / last
  commit ID shown by the read API" and `docs/user/repository-hub.md:121` promises
  revision-checked commits for GitLab.

### Seen on the way

Behaviour that is no run's subject; the models allow it, or leave out the call it
needs.

- AI requests: between the last check of the policy and the call of the provider the lock is
  free, and a stream reports its start (`runtime.go:1218`, `:1347`, `:1353`). A mode set to offline-only
  in this window is not seen: the request is sent although `docs/reference/provider-refresh.md:27` says
  "no remote catalogue or inference request is sent". `OnlyOvertakenAtRemote` says that nobody else is.
  While requests hold places of an old semaphore, a provider may have as many again at work
  through the new one; nothing in the repository claims otherwise.
- Translation: "Resume translation" drops the parts that are complete
  (`ShelfPDFReader.tsx:846`), which the panel says are kept
  (`ShelfTranslationPanel.tsx:227`); job numbers start again with every reader (`:265`)
  while the registry outlives it, so that two jobs of a page share an identifier
  and the second may be refused as active (`:913`, `job-manager.ts:58`); a job that was
  superseded stays listed as running (`:923`); the answer for an older selection may be shown
  under a newer one (`:862`).
- Highlights: a list that was asked for before a highlight was saved hides it until the
  next reading (`ShelfPDFReader.tsx:361`). The tutor's answer looks a quote up in the text layer that
  is in the document then (`:971`) but saves the mark under the page that was open when
  it was asked (`:997`): turned meanwhile to a page with the same words, the mark gets that page's
  rectangles, although "A PDF annotation belongs to a selected passage and page"
  (`docs/user/shelf.md:45`). `turned` marks these in `MarksLieOnTheirPage`.
- Study and discussion: a forgotten thread comes back if its question was under way
  (`ShelfStudyAssistant.tsx:1137`); questions count as answered although the start of the
  discussion failed (`ShelfAgentDiscussion.tsx:350`).
- Hub panel: a reload resets drafts of preferences (`RepositoryHubPanel.tsx:336`), a
  comment begun in one repository can reach the issue of the same number in another
  (`:895`), the branch of one repository is kept for the commits of the next
  (`:416`), an import sends the connection that is chosen now with items that were found
  through another (`:570`).
- Projects: the link of repository A is appended to the list of B when the answer is late
  (`RepositoriesPage.tsx:325`); a project that was created and could not be linked cannot be
  created again (`:303`).
- Graph: what is changed while a reset runs is lost to its answer (`GraphCanvas.tsx:423`), as
  is a change made less than 450 ms before the page is left (`:208`); a canvas that is left
  keeps its requests, and one opened meanwhile may load what they are about to replace; a reset before the
  arrangement is loaded is undone by it (`:178`).
- Sounds: a browser that refuses to store the preference keeps the sound on after it
  was turned off (`notification-sound.ts:16`); with more than 50 notices, deleting one brings the
  51st into the answer and it chimes as new (`AppShell.tsx:149`); polls that cross chime twice.
- Command dialog: the answer for a dialog that was closed closes the next one, or shows its
  report there, where "Retry failed items" fills the other command's lines
  (`CommandRunner.tsx:168`, `:174`); until it comes the next dialog does not submit
  (`:141`). A branch stays in the form when another repository is chosen, and the
  server refuses it.
- Local working copy: in a repository without commits the log fails
  (`internal/localgit/engine.go:549`), so the reading as a whole does and the panel
  offers to initialise again (`LocalGitWorkspace.tsx:61`, `:187`), not the empty history it has a text for
  (`:284`); a reading that was overtaken still replaces what a later one showed (`:40`).
- Texts: a cut at the limit may split a surrogate pair (`reader-translation.ts:236`);
  an answer that repeats a sentence of its page is always refused as a duplicate
  (`source-integrity.ts:63`); the preference of a paragraph over a line has no effect, as
  the maximum of both places is the last line (`study-request-budget.ts:26`); an older
  message is kept where a newer, longer one did not fit (`:67`).
- Sessions: two tabs that write the outbox at the same time lose a session
  (`reading-sessions.ts:49`).
- Settings: a second settings page, or a save that was written but could not be read
  back (`handlers_settings.go:88`), may bring back a due time that has passed, and it is
  announced again; `log.unread` marks the latter in `OneReminderPerDueTime`. An
  edit of `config.json` by hand between `refreshConfig` and a reminder's save is overwritten.
- Jobs: an edit form opened before a one-time job ran schedules it again, since every
  edit clears `completed_at`; the models count that as scheduled by its user.

## Fairness

- `AIRequests`: weak fairness of each request's steps and of giving up a wait,
  and contexts expire. Goroutines run; every attempt has a time-out (`normalizedTimeout`,
  `runtime.go:1204`), the HTTP requests and tasks around them have deadlines or
  clients that leave, and `select` does not ignore an ended context for ever.
  Nothing is assumed about which of several waiters wins a free slot, so a request
  may lose every race; it still ends, by its deadline.
- `AITasks`: weak fairness of each goroutine and of recording its outcome; that a
  request made by a task ends is what `AIRequests` shows. Nothing is assumed about
  users, about deadlines, about restarts, or about writes succeeding.
- `RepositoryHub`: weak fairness of each call's steps, since every provider request
  has a time-out of twenty seconds (`repositoryhub/provider.go:392`), and strong
  fairness of taking `refreshMu`, since a Go mutex hands itself over to a waiter
  that has waited too long.
- The parts: none. A browser may be closed and a server may never answer, so they have
  safety properties only; `WaitingHasReason` says that what waits has a call
  whose end will release it.

## Proofs

`WorkflowProofs` proves `Spec => []IInv` for all sets of repositories, branches,
issues and pull requests, finite or not, from `ConstantsAssumption` alone. The
invariants of the runs are not inductive one by one: that started work keeps its
prerequisites done needs that "done" is never left, hence `DoneIffCompleted`;
that needs that the members of an accepted pull request are not erased while it
stays, hence `ReferencesResolve` and that a pull request covers issues of its own
repository only (`CoversOneRepo`); the chain of completions needs that a branch with
completions has a latest one (`LatestExists`), which for unbounded sets is not
obvious. `IInv` is their conjunction, with one lemma per conjunct and one step per
action. Acyclicity is "every non-empty set of issues has a member with no edge
into the set", which makes the step of `AddDependency` a case split: a set that
the new edge could spoil either contains the prerequisite's reachable set, which
does not contain the issue, or is unaffected.

From `IInv` follow the two action properties
(`HistoryAppendOnly`, `StartedDependenciesFrozen`) and the refinement, sub-issues
included: every step of `Workflow` is a step of `IssueLifecycle` under the mapping or
leaves it unchanged.

It also proves of the edits of a pull request `EditsInv`: of an edit that was not
overtaken, a field left blank is about to be written as it is.

And of the graph that the workspace is drawn in, `LayoutsInv`: of the requests that wait only
the first may be made (`InTurn`); a canvas with no save due has asked last to save what it
shows (`SaveFollows`); and whatever is shown, stored, read, waiting or kept by the browser
has its places and view from after the last reset that was made, the browser's copy only
once that reset is answered (`ResetFollows`). The last two hold while no canvas was opened
beside the requests of the one before, and no reset asked for before the arrangement was read.

`AIRequestsProofs` proves, for any finite set of requests and any providers,
limits and places (`RequestsAssumption`), that the counters are exact and that
nobody sleeps beside a free slot; the two are inductive together with the types.
The arithmetic is isolated in one lemma (`Counted`): a step that moves each
counter by the difference between the old and the new phase keeps both exact. From
the invariant follows `AdmittedWithinLimits`. Two more conjuncts are inductive beside
these. `PlacesExact` holds because a step moves a channel together with its holders, each
request at most one of them (`PlaceTaken`, `PlaceGivenBack`), and a rebuild touches neither
channels nor holders. `OnlyOvertakenAtRemote` holds because only
`CheckAgain` brings a request among those on the way (`StepAtRemote`), and a change of the
mode that forbids them finds all who are there overtaken.

It also takes the texts that such requests carry and bring (`TextPieces`), of any length
and over any limits (`PiecesAssumption`; a limit is positive, that of a piece above 1 and
that of a message takes its longest character). What the code computes by a loop is a step
for each round or a set's least or greatest member (`MinIs`, `MaxIs`), so no induction over
texts is needed; `PiecesInv` has one invariant for each of the functions.

- Cutting a page (`SplitInv`): a cut stands before a character that is not white, and each
  cut is ahead of the one before, because the window begins behind the start (`HalfIs`,
  `BoundaryIs`). `MergeStep` appends a separator and a piece and finds the break of every
  pair of neighbours that are kept again.
- Checking an answer (`JudgeInv`): the segments so far are placed, and no other way of placing
  them ends earlier (`Ahead`). A verdict against the answer then holds of every placement.
- Cutting a request (`BytesInv`, `FitInv`): `BytesStep` finds that at least one character
  fits; `AmountIs` adds up the messages.
- Showing an answer (`PreviewInv`): there is a table of what is shown from each place
  (`ShownExists`, filled from the last place to the first), and a character more only adds to
  what is shown from any of them (`TurnGrows`, `ShownGrows`).

`AITasksProofs` proves `TasksInv`: the types, that the queue is the pending tasks
without repetition (`IsQueueOf`), that what runs is what has status running,
`NoIdleCapacity` and `AcceptedIsSaved`. `Dispatch` takes as many from the front as
there is room; the lemmas about sequences (`FirstMembers`, `WithoutOne` and the rest
of a queue) count them, and the order of starting follows from the same step.

It also takes what the browser shows of the runtime's models and agents. What these modules
filter is what a sequence has at some of its places (`Picked`), which says the same as
`SelectSeq` without its recursion; `PickedFacts` counts the places. The agents and models are
assumed to be finitely many, and `Nothing` to be no number.

- `ModelCatalogue` (`CatalogueInv`): what is stored, read and found are tables of known models
  and verdicts, whatever refreshes and checks are under way. The step property then
  rests on the merge, which keeps a verdict that the provider's list has not (`MergedKeeps`,
  `KeptKeeps`).
- `AgentSettings` (`SettingsInv`): the chosen agents are a roster whatever list of agents
  is loaded (`IsRoster`, from `NormalizedIsRoster`), and every poll that is still heard is
  of the newest run (`NewestIsWatched`).
- `AgentDiscussion` (`DiscussionInv`): what a run has said is its order repeated, word by
  word (`SaidKnown`), and the chair is the last of that order (`OrderKnown`); quotients and
  remainders then say whose word is at which place (`Words`). The thread has no
  turn of a later run, and those of the run shown are what it said, without a gap, in rounds
  that go on from the last one of the runs before (`Follows`). A word that is known is told
  anew in its place and the others come after it (`MergedFollows`), a run only says more
  (`Continues`), and a reply begins a round of its own (`ReplyFollows`).

`RepositoryHubProofs` proves `HubInv`: who refreshes or saves holds the lock
(`Locked`); what is about to be exchanged is not used up and what is about to be stored
replaces a spent grant (`RefreshSound`); hence `StaleTokenOnlyAfterLoss` and
`StoredCredentialUsable`, for any number of callers. `LinksFollowConnection` has an invariant
of its own, since it does not need the lock.

It also takes three parts of the panel that shows the account's repositories:

- `HubWorkspace` (`WorkspaceInv`): the reader and the operation under way have at most one
  reading each, and an operation's reading has its operation (`ReloadsKnown`); what is
  looked up belongs to a chosen repository (`PanelKnown`). `RouteStep` follows
  step by step, since every handler ends by looking at the address (`RoutedPanel`).
- `RemoteLists` (`ListsInv`): the calls that may still append are for a known page, and they
  and a change under way fit in the room of calls (`CallsCounted`). That a list is of the
  chosen repository is inductive with it, because a late page is refused by its
  repository or its list (`ListsOwn`).
- `RemoteOverview` (`OverviewInv`): only fetches of the selected repository are heard
  (`Active`), and a search for the README has been refused every better name
  before the ones it has left (`Sound`). That there is a best one left is the least
  number of a set (`Least`).


`ServerProofs` proves of tags `TagsInv`, from `TagsAssumption`: the sequence numbers of
a branch grow and have a last one (`Numbered`; the maximum of an unbounded set is
not obvious either), the tags' histories are disjoint, cover everything up to the latest
tag and refer only to what is numbered below them (`TagsCover`), and trees are flat
wherever they are kept. That the histories partition what came before is then a count of a
singleton.

It proves of jobs that the number of runs since a job was written
agrees with its row (`Agree`); the calendar does not matter for it, so it holds of any.
The step property `CadenceStep` needs the calendar (`JobsAssumption`: months begin one after
another on whole days, minutes and days have a length, a job's clock time, weekday and day
of the month are those that `PrepareScheduledJob` of `internal/domain/schedule.go` accepts).
The model's next date is the first that qualifies, so the lemmas `NextDaily`, `NextWeekly`, `NextMonthly`
and `NextOfInterval` show that there is one, bound it, and show that none lies between; the least
number of a set (`Least`) comes from the well-founded order of finite sets, and remainders
(`Multiples`, `WeekLater`) and months (`MonthBefore`) have lemmas of their own. Of tags, a
path that differs from the tag before is added, modified or deleted, whatever the tags'
histories (`ComparisonsAreExact`).
Of the quotes: while every save was read back, the server's copy is the file, a form with a
due time has the server's schedule, and neither the time that is due nor the one that is
being sent was announced before (`DueIsNew`). Of the plans: every entry of the inbox is
the latest check-in due when the scheduler looked (`CheckIn`), is marked as delivered,
and is no later than the one being sent; of two such that differ, the later one begins
after the earlier one was sent (`Spread`), which is where the division by the day comes in.

`ClientProofs` takes six parts of the web client, each with an inductive invariant and
one lemma per action, from the assumption that the part's module names:

- `LocalProjects` (`LocalInv`): the rows of a project have no repository twice and its
  primary one is among them exactly if there is one (`PrimaryOf`); the page and its calls
  only read. That promotion finds the next row needs the rows to be a sequence
  without repetition.
- `RemoteCode` (`CodeInv`): a difference that is shown is that of the text in the editor
  (`ShowsItsText`), and a save carries the text and the difference of one moment; a folder
  shows every page up to the last one read, and the page that is asked for, or was refused,
  is the next one (`FolderInv`).
- `StudyModels` (`TutorInv`): a panel has at most one load that may still write to it
  (`Underway`), and what it has read, the list it began with and the list shown offer no
  model for a test that their policy forbids (`LoadFollows`, `WithinPolicy`).
- `CommandForms` (`FormsInv`): what may still be submitted is not created yet
  (`LinesAreNew`), and a reading that may still fill the choices is of the repository
  chosen (`ChoicesInv`).
- `NotificationSounds` (`SoundsInv`): a chime that sounds is of the current
  version and wanted, and one that waits was not silenced since (`InTune`); while nothing was deleted and no answers crossed, the answers on
  their way are windows over the newest notices, in the order in which they were asked for
  (`AnswersInOrder`), and nothing newer than the last one read was announced (`NewsOnce`).
- `ReadmeBlocks` (`ReadmeInv`): a block takes lines from the next one on, in their order, and
  leaves out only those that are not shown (`BlockAdded`); where its lines end there is one
  that does not belong with them, or no more (`EndIs`).

`ReaderProofs` takes four parts of the reader of books:

- `ReadingSessions` (`SessionsInv`): while a book is read its tab sends nothing again, so what
  is queued meets no outbox that is about to be replaced; a tab's timer is the one it has
  stored (`Orderly`); what is to be sent and what failed are different sessions (`Apart`).
  `KeptInv` adds that what is in the outbox while it is sent is recorded, to be sent
  or failed (`Held`). Ids that differ among the first `n` sessions are at most `n`
  (`WaitingFits`), so that an outbox that is large enough is never cut. That is proved
  for one tab (`OneTab`), since two tabs do lose sessions; the rest for any number.
- `ReaderDocument` (`DocumentInv`): at most one reader is mounted, every request counts it
  exactly if it is its own, and the request that is shared is the one under way (`Counts`).
- `ReaderRoom` (`RoomInv`): a session has its guard and an entry to go back to (`Guarded`).
- `StudyThreads` (`ThreadsInv`): the chat waits exactly while one question is under way
  (`OneUnderway`), and what is sent with one that replaces a turn is older than that turn
  (`Sound`).

`PageProofs` takes what lies on the page that is open, each part from its own assumption:

- `ReaderTranslation` (`TranslationInv`): the key in flight is that of a call of the reader
  that is mounted, runs and still owns it (`FlightIsCall`); a page that is shown is named by
  its own key, and a part that arrives by the key in flight (`PanelIsKeyed`); a call has no part
  that its reader does not keep, and misses one while it runs (`CallsAreKept`), so a page is
  kept, shown or handed to an analysis only whole (`PagesAreWhole`, `ShownIsWhole`,
  `AnalysisHolds`); what a reader that looks at a page sees is said by `PanelShows`, and
  the jobs have names of their own (`JobsAre`). `CommitSteps` takes the effect, after whatever
  changed; `SettleSteps` the end of a call, however it ends. That a job that is over stays as
  it is follows from `Follows`: every change of the registry picks, touches and adds jobs.
- `ReaderPages` (`StageInv`): the effect of the page runs anew at every turn and zoom, and only
  the last run may paint. What is on screen is said stage by stage of that run
  (`StageAgrees`): while it waits for the raster the old pixels and their text may stay but not
  be selected, from the raster on the pixels are its own, and at the end so is the text.
  The runs before it change nothing that is shown (`OtherRunMoves`).
- `ReaderMarks` (`MarksInv`): a selection that is not saved yet is of the open page, since
  turning drops it (`PlaceKnown`); until the page is turned the layer of a tutor's question is
  still the one in the document (`TutorKnown`); at most one list is read, and a list that was read in time
  is the store's, because what changes the store changes both (`ListFollows`).
- `ReaderHelp` (`HelpInv`): the pins found are those that drawing the marks on
  this layer would find now, whichever of page, layer and marks changed last.
- `PageInsights` (`InsightsInv`): a call for a note has the text of its own page, and the
  margin is busy exactly if a call of this opening is under way, of which there is one
  (`NotesKnown`). The history of the pages that were read is cut to its bound whenever one
  is remembered (`VisitedKnown`).
- `StudyActions` (`ActionsInv`): of every kind that is asked for there is a line or a write
  left, what is said to be saved is written, and of a kind that the selected phrase decides
  there is at most one act, written or left, and it is that phrase (`Saving`). What a plan
  holds is said by its kinds (`KindsOf`) and by `Sole`, which choosing, adding and joining
  keep (`OfKindsFacts`, `AppendedAct`, `JoinedActs`); `CompletedIs` follows the plan through
  its completion.

| Theorem | Property |
|---|---|
| `WorkflowProofs!TypeCorrect` | `TypeOK` |
| `WorkflowProofs!DependenciesNeverCycle` | `DependenciesAcyclic` |
| `WorkflowProofs!SubIssuesFormTrees` | `SubIssueTrees` |
| `WorkflowProofs!StartedWorkIsReady` | `StartedPrerequisitesDone` |
| `WorkflowProofs!StartedWholesAreClosed` | `StartedSubIssuesClosed` |
| `WorkflowProofs!OneActive` | `OneActivePullRequest` |
| `WorkflowProofs!DoneOnlyByAcceptance` | `DoneIffCompleted` |
| `WorkflowProofs!HistoryChained` | `BranchHistoryChained` |
| `WorkflowProofs!NoDanglingReferences` | `ReferencesResolve` |
| `WorkflowProofs!AcceptedWorkIsPermanent` | `HistoryAppendOnly` |
| `WorkflowProofs!StartedWorkIsSettled` | `StartedDependenciesFrozen` |
| `WorkflowProofs!WorkspaceImplementsLifecycle` | `ImplementsLifecycle` |
| `WorkflowProofs!ArrangementIsKept` | `SavedIsStored`, `ResetHolds` of `KeptIsTrue`, `LayoutsTypeOK` |
| `AIRequestsProofs!CountersAlwaysExact` | `CountersExact` |
| `AIRequestsProofs!NoLostWakeup` | `NobodySleepsBesideAFreeSlot` |
| `AIRequestsProofs!AdmissionRespectsLimits` | `AdmittedWithinLimits` |
| `AIRequestsProofs!NobodyNewAtRemote` | `OnlyOvertakenAtRemote` |
| `AIRequestsProofs!PlacesAlwaysExact` | `PlacesExact` |
| `AIRequestsProofs!TextsStayWhole` | `PagesAreWhole`, `MergedInOrder`, `RequestsFit` of `TextIsWhole` |
| `AIRequestsProofs!AnswersAreShownAndChecked` | `AlignedIsPlaced` of `PageIsItsOwn`, `PreviewStep` of `PastIsKept` |
| `WorkflowProofs!RecordsStayFrozen` | `RecordsAreFrozen` |
| `WorkflowProofs!BlankLostOnlyToOvertaking` | `BlankKeptUnlessOvertaken` |
| `AITasksProofs!QueueAndStatusesAgree` | `QueueMatchesStatus` |
| `AITasksProofs!CapacityIsUsed` | `NoIdleCapacity` |
| `AITasksProofs!AcceptedSurvives` | `AcceptedIsSaved` |
| `AITasksProofs!QueueIsServedInOrder` | `StartsInOrderWithinLimit` |
| `AITasksProofs!FinishedStaysFinished` | `FinishedForGood` |
| `AITasksProofs!VerdictsStay` | `VerdictStep` of `PastIsKept`, `CatalogueTypeOK` |
| `AITasksProofs!RosterEndsWithChair` | `ChairIsLast`, `ShownRunIsNewest` of `DiscussionKeepsOrder`, `AgentSettingsTypeOK` |
| `AITasksProofs!DiscussionsKeepOrder` | `ChairHasTheLastWord`, `ThreadIsInOrder` of `DiscussionKeepsOrder`, `DiscussionTypeOK` |
| `RepositoryHubProofs!NoStaleToken` | `StaleTokenOnlyAfterLoss` |
| `RepositoryHubProofs!AccountStaysUsable` | `StoredCredentialUsable` |
| `RepositoryHubProofs!LinksAreOfTheConnection` | `LinksFollowConnection` |
| `RepositoryHubProofs!PageFollowsAddress` | `RouteStep` of `PastIsKept`, `WorkspaceTypeOK` |
| `RepositoryHubProofs!ListsAreOwn` | `ReleasesAreOwn`, `ComparisonIsOwn` of `RepositoryShownIsOwn`, `ListSpinnerIsWork` of `WaitingHasReason`, `ListsTypeOK` |
| `RepositoryHubProofs!OverviewIsTrue` | `OverviewIsOwn`, `ReadmeIsPreferred` of `RepositoryShownIsOwn`, `OverviewTypeOK` |
| `ServerProofs!TagsPartition` | `TagsPartitionHistory`, a conjunct of `KeptIsTrue` |
| `ServerProofs!TagsHoldAccepted` | `TagHoldsAccepted`, a conjunct of `KeptIsTrue` |
| `ServerProofs!OnceIsOnce` | `OnceRunsOnce`, a conjunct of `ActsAreMeant` |
| `ServerProofs!ComparisonsAreExact` | `ComparisonIsExact`, a conjunct of `KeptIsTrue` |
| `ServerProofs!CadenceIsKept` | `CadenceStep`, a conjunct of `PastIsKept` |
| `ServerProofs!RemindersAreSound` | `SettingsSurvive` of `KeptIsTrue`, `OneReminderPerDueTime` of `ActsAreMeant` |
| `ServerProofs!CheckInsStaySpread` | `CheckInsAreSpread` of `ActsAreMeant` |
| `ClientProofs!ProjectsKeepOnePrimary` | `OnePrimary` of `ActsAreMeant`, `LocalProjectsTypeOK` of `PartsTypeOK` |
| `ClientProofs!CommitsArePreviewed` | `OnlyPreviewedIsCommitted` of `ActsAreMeant`, `DirectoryIsWhole` of `RepositoryShownIsOwn`, `CodeTypeOK` |
| `ClientProofs!TutorKeepsToPolicy` | `TestsFollowPolicy` of `ActsAreMeant`, `ConnectionIsKept` of `KeptIsTrue`, `ModelsTypeOK` |
| `ClientProofs!TypedIsCreatedOnce` | `CreatedOnce` of `ActsAreMeant`, `ChoicesAreOwn` of `RepositoryShownIsOwn`, `FormsTypeOK` |
| `ClientProofs!ChimesAreWanted` | `SoundIsWanted`, `AnnouncedIsNews` of `ActsAreMeant`, `SoundsTypeOK` |
| `ClientProofs!ReadmeIsShownWhole` | `EveryLineIsShown` of `TextIsWhole` |
| `ReaderProofs!RoomKeepsItsPromises` | `ChoiceStep` of `PastIsKept`, `GuardStays` of `KeptIsTrue`, `RoomTypeOK` |
| `ReaderProofs!DocumentDownloads` | `DownloadsFollowReaders` of `WaitingHasReason`, `DocumentTypeOK` |
| `ReaderProofs!RunningSessionsAreRemembered` | `RunningIsRemembered` of `KeptIsTrue`, `SessionsTypeOK` |
| `ReaderProofs!EndedSessionsAreKept` | `EndedIsKept` of `KeptIsTrue`, for one tab |
| `ReaderProofs!QuestionsAreKeptApart` | `BusyIsOneQuestion` of `WaitingHasReason`, `ReplacedTurnsAreNotSent` of `CompanionIsTruthful`, `ThreadsTypeOK` |
| `PageProofs!TranslatedPageIsItsOwn` | `OtherPageOnlyWhileUnfinished` of `PageIsItsOwn`, `BlankPageHasReason` of `WaitingHasReason`, `KeptPagesAreWhole` of `KeptIsTrue`, `TerminalStep` of `PastIsKept`, `TranslationTypeOK` |
| `PageProofs!PageIsShownWhole` | `SelectableTextIsThisPage` of `PageIsItsOwn`, `SpinnerIsWork` of `WaitingHasReason`, `PagesTypeOK` |
| `PageProofs!MarksBelongToTheirPage` | `MarksLieOnTheirPage` of `PageIsItsOwn`, `ListIsStored` of `KeptIsTrue`, `MarksTypeOK` |
| `PageProofs!PinsFollowThePage` | `PinsAreOfThisPage` of `PageIsItsOwn`, `HelpTypeOK` |
| `PageProofs!NotesFollowThePage` | `NotesLieAtTheirPage` of `PageIsItsOwn`, `InsightsTypeOK` |
| `PageProofs!ChangesAreReported` | `EveryWishIsReported`, `ReportIsTrue`, `SelectionIsAuthoritative` of `CompanionIsTruthful`, `ActionsTypeOK` |

With these every conjunct of `ActsAreMeant`, `WaitingHasReason`, `CompanionIsTruthful`,
`DiscussionKeepsOrder`, `RepositoryShownIsOwn`, `PageIsItsOwn`, `TextIsWhole`, `PastIsKept` and
`KeptIsTrue` is proved of its own part for all constants, `EndedIsKept` for one tab. The
composition in `MCParts`, where a behaviour is one of a single part, is TLC's.

Only model-checked: the liveness properties (`EveryRequestEnds`, `EveryTaskEnds`,
`EveryCallReturns`), which are beyond TLAPS's reach here as ENABLED and fairness
are; and `EndedIsKept` for several tabs, which does not hold of tabs that share an outbox.

## Not modelled

In the modelled components:

- `Workflow`: numbers, titles, priorities, due dates, labels, milestones,
  activity, the branch of an issue (`AssignIssueBranch`), the source branch of a pull
  request; setting an issue back to open, which the store could do and no service
  calls; issues written by the legacy import in a later status. Files and tags are in
  `RepositoryTags`, which has its own completions.
- `AIRequests`: catalogue refresh and health probes (they take and give back a slot
  as a request without a route does), deleting a provider, which waiting requests
  do not notice because they hold a copy of its configuration.
- `AITasks`: retention. Memory keeps 200 finished tasks and the file the newest 100
  of all tasks, so with more than 100 tasks `AcceptedIsSaved` does not speak for the
  program.
- `RepositoryHub`: encryption and keys, the one-time OAuth state, a second account,
  preferences, collections, relations, releases. A link is identified by its
  repository, not by its row.
- `ScheduledJobs`: what a run notifies, a job's branch, changes of the wall clock and
  of daylight saving time, a second edit while the first is between service and store.
- `QuoteReminders`: the choice of the quote, edits of the file by other programs, a
  second settings page. `PlanReminders`: texts, links, changes of the check-in
  times.
- `RepositoryTags`: names and messages of tags, and the deletion of completions, which
  happens only with their repository.
- The web client: layout, wording, prompts, keyboard, themes, the geometry of
  selections; extraction of text from a PDF, parsing and repair of answers; the recognition of
  wishes in free text; choices of a form that depend on an issue or an owner; a second window on the
  graph, or a browser that refuses to store its copy; volume, banners and a context that
  is suspended again; the `translate` tool of the room, which nothing opens;
  un-ticking the last agent of a roster; more unsent sessions than the outbox keeps;
  two tabs over one outbox; a file of a repository that is refused once and given later;
  discovery and import forms, OAuth windows; inline markup of a README.

Components left out altogether are in `PROJECT.json` with the reason: pure I/O,
presentation, stateless mapping, independent rows, or not reached.

## Plan

Written, in this order: `Workflow` with its abstract specification and proofs,
`PullRequestEdits`, `AIRequests`, `AITasks`, `RepositoryHub` with their proofs, the
web client's parts, then jobs, reminders, plans and tags of the server, and texts,
the graph, sounds and the command dialog of the client.

Left, in this order:

1. The lock per working copy of `localgit/engine.go`, and the updater with the state file
   of the running server.
2. Migrations: versions applied once and in order by two processes, with crashes
   between them.
3. Composition of `AITasks` with `AIRequests` through the requests of a task, with a
   scaled bound for retention.
4. Liveness of the parts whose calls have time-outs, under fairness of those calls.
