------------------------------ MODULE MCParts ------------------------------
(***************************************************************************)
(* Small instances of the parts of the web client, and of the parts of the *)
(* server that stand beside the workflow, the AI runtime and the Hub: the  *)
(* editing of a pull request is one of them.  They share no state but what *)
(* each of them models as far as it uses it; so a behaviour is one of a    *)
(* single part, which the first state chooses.                             *)
(*                                                                         *)
(* s1 to s8 hold the variables of the part, in the order in which it       *)
(* declares them, and 0 where it has fewer.                                *)
(***************************************************************************)
EXTENDS Naturals, Sequences

CONSTANTS Parts,  \* the parts that are checked
          Nothing

VARIABLES part, s1, s2, s3, s4, s5, s6, s7, s8

vars == <<part, s1, s2, s3, s4, s5, s6, s7, s8>>

----------------------------------------------------------------------------
(* The reader of books. *)

\* two pages in two languages, of which one has text: each of two jobs can be replaced, stopped,
\* fail and be asked for again, by two readers one after the other
Translation == INSTANCE ReaderTranslation WITH
  reader <- s1, view <- s2, kept <- s3, analysis <- s4, runs <- s5, registry <- s6,
  Pages <- 1..2, TextPages <- {1}, Settings <- {"fa", "en"}, Parts <- 2, RetainedJobs <- 1,
  KeptPages <- 1, MaxRuns <- 2, MaxReaders <- 2, MaxAnalyses <- 0

\* two pages with text in one language, both kept: the panel is turned back to a kept page while
\* the call for the other one is in flight
Turning == INSTANCE ReaderTranslation WITH
  reader <- s1, view <- s2, kept <- s3, analysis <- s4, runs <- s5, registry <- s6,
  Pages <- 1..2, TextPages <- 1..2, Settings <- {"fa"}, Parts <- 2, RetainedJobs <- 1,
  KeptPages <- 2, MaxRuns <- 2, MaxReaders <- 1, MaxAnalyses <- 0

\* one job of one reader, and the notes on the language of a page, asked for twice
Notes == INSTANCE ReaderTranslation WITH
  reader <- s1, view <- s2, kept <- s3, analysis <- s4, runs <- s5, registry <- s6,
  Pages <- 1..2, TextPages <- 1..2, Settings <- {"fa", "en"}, Parts <- 2, RetainedJobs <- 2,
  KeptPages <- 1, MaxRuns <- 1, MaxReaders <- 1, MaxAnalyses <- 2

Document == INSTANCE ReaderDocument WITH
  downloads <- s1, sharing <- s2, mounts <- s3, MaxMounts <- 4

Stage == INSTANCE ReaderPages WITH
  screen <- s1, rasters <- s2, turns <- s3, texts <- s4, search <- s5, progress <- s6,
  NumPages <- 2, Scales <- {1, 2}, Queries <- {{}, {1}}, MaxTurns <- 2, MaxFlights <- 1

Marks == INSTANCE ReaderMarks WITH
  place <- s1, listed <- s2, stored <- s3, calls <- s4,
  BookPages <- 1..2, Quotes <- {{1, 2}}, MaxMarks <- 1, MaxCalls <- 2, MaxAsked <- 1

Help == INSTANCE ReaderHelp WITH
  sheet <- s1, pins <- s2, words <- s3, passage <- s4, asked <- s5,
  BookPages <- 1..2, Words <- {{1, 2}, {1}}, MaxCalls <- 1

Insights == INSTANCE PageInsights WITH
  margin <- s1, noted <- s2, visited <- s3, noteCalls <- s4,
  BookPages <- 1..3, TextPages <- 1..2, Phrases <- {{1}, {1, 2}}, KeptPages <- 2,
  MaxOpenings <- 2, MaxNotes <- 2

Sessions == INSTANCE ReadingSessions WITH
  tabs <- s1, outbox <- s2, table <- s3, clock <- s4, ended <- s5,
  Tabs <- {"tab"}, KeptPending <- 2, MaxSessions <- 3, MaxTime <- 3

Room == INSTANCE ReaderRoom WITH
  choice <- s1, shared <- s2, trail <- s3,
  Models <- {"m1", "m2"}, MaxVisits <- 2, MaxEntries <- 2

----------------------------------------------------------------------------
(* The study assistant, the agents and the models. *)

Threads == INSTANCE StudyThreads WITH
  chat <- s1, saved <- s2, asks <- s3,
  KeptMessages <- 4, RecentMessages <- 3, KeptThreads <- 1, MaxQuestions <- 2, MaxOpenings <- 2

Actions == INSTANCE StudyActions WITH
  request <- s1, written <- s2, MaxRequests <- 1, MaxPageMarks <- 1

Tutor == INSTANCE StudyModels WITH
  panel <- s1, loads <- s2, tests <- s3, legacy <- s4,
  Models <- {"near", "far"}, LocalModels <- {"near"}, MaxOpenings <- 2, MaxLoads <- 2, MaxTests <- 1

Discussion == INSTANCE AgentDiscussion WITH
  room <- s1, roster <- s2, runs <- s3,
  Agents <- {"a", "chair"}, Chair <- "chair", Core <- <<"a">>, MaxAgents <- 2, KeptTurns <- 3,
  Rounds <- 1, MaxRuns <- 2, MaxPanels <- 1

\* one run, whose panel is left while it goes on
Departure == INSTANCE AgentDiscussion WITH
  room <- s1, roster <- s2, runs <- s3,
  Agents <- {"a", "chair"}, Chair <- "chair", Core <- <<"a">>, MaxAgents <- 2, KeptTurns <- 3,
  Rounds <- 1, MaxRuns <- 1, MaxPanels <- 2

Settings == INSTANCE AgentSettings WITH
  settings <- s1, kernel <- s2, pending <- s3,
  Agents <- {"a", "chair"}, Chair <- "chair", Defaults <- <<"a", "chair">>, Limits <- {2},
  MaxCalls <- 1, MaxRuns <- 2

Catalogue == INSTANCE ModelCatalogue WITH
  catalogue <- s1, stock <- s2, refresh <- s3, checks <- s4,
  Providers <- {"ollama", "cloud"}, Local <- {"ollama"}, Models <- {"near", "far"},
  Of <- [m \in {"near", "far"} |-> IF m = "near" THEN "ollama" ELSE "cloud"],
  MaxRefreshes <- 2, MaxChanges <- 1

----------------------------------------------------------------------------
(* Repositories. *)

Code == INSTANCE RemoteCode WITH
  code <- s1, nodes <- s2, folder <- s3, editor <- s4, saving <- s5, calls <- s6, store <- s7,
  texts <- s8,
  Branches <- {"main", "topic"}, Main <- "main", Files <- {"f"}, FirstPage <- {}, FolderPages <- 2,
  Kind <- "github", MaxTexts <- 2, MaxCommits <- 1, MaxCalls <- 1

\* one branch and a text more: a file is changed again after its difference was shown
Typing == INSTANCE RemoteCode WITH
  code <- s1, nodes <- s2, folder <- s3, editor <- s4, saving <- s5, calls <- s6, store <- s7,
  texts <- s8,
  Branches <- {"main"}, Main <- "main", Files <- {"f"}, FirstPage <- {}, FolderPages <- 2,
  Kind <- "github", MaxTexts <- 3, MaxCommits <- 1, MaxCalls <- 1

Lists == INSTANCE RemoteLists WITH
  shown <- s1, list <- s2, first <- s3, later <- s4, commits <- s5, tags <- s6, writing <- s7,
  Repositories <- {"r1", "r2"}, Able <- {"r1"}, Paged <- {"Commits", "Tags"}, Pages <- 2,
  Watched <- {<<"r1", 1>>}, MaxCalls <- 1

Workspace == INSTANCE HubWorkspace WITH
  hub <- s1, panel <- s2, asked <- s3, reloads <- s4, op <- s5, moves <- s6,
  Repositories <- {"r1", "r2"}, MaxMoves <- 1, MaxOps <- 1

Projects == INSTANCE LocalProjects WITH
  registry <- s1, desk <- s2, reading <- s3, deeds <- s4, steps <- s5,
  Repositories <- {"r1", "r2"}, Projects <- {"p", "q"}, MaxMoves <- 2, MaxActions <- 2, MaxOthers <- 1

Overview == INSTANCE RemoteOverview WITH
  remote <- s1, seen <- s2, fetches <- s3, visits <- s4,
  Repositories <- {"r1", "r2"}, Able <- {"r1"}, Ranks <- 2, RootPages <- 3, PageLimit <- 2,
  MaxVisits <- 2

Readme == INSTANCE ReadmeBlocks WITH
  text <- s1, parser <- s2, index <- s3, blocks <- s4, MaxLines <- 3

----------------------------------------------------------------------------
(* The rest of the web client. *)

\* texts of up to three pieces
Pieces == INSTANCE TextPieces WITH
  kind <- s1, input <- s2, work <- s3,
  Limit <- 3, HexDigits <- 2, MaxBytes <- 5, Total <- 5, KeptMessages <- 2, MaxText <- 7,
  MaxAnswer <- 5, MaxSegments <- 3

Graph == INSTANCE GraphLayouts WITH
  canvas <- s1, load <- s2, queues <- s3, server <- s4, local <- s5, past <- s6,
  MaxChanges <- 2, MaxResets <- 1, MaxMounts <- 1, MaxQueued <- 2

\* one change, and the graph is left and opened again
Return == INSTANCE GraphLayouts WITH
  canvas <- s1, load <- s2, queues <- s3, server <- s4, local <- s5, past <- s6,
  MaxChanges <- 1, MaxResets <- 1, MaxMounts <- 2, MaxQueued <- 1

Sounds == INSTANCE NotificationSounds WITH
  inbox <- s1, seen <- s2, polls <- s3, sound <- s4, history <- s5,
  Limit <- 1, MaxNotices <- 2, MaxPolls <- 2, MaxChimes <- 2, MaxStops <- 1

Forms == INSTANCE CommandForms WITH
  dialog <- s1, options <- s2, fetches <- s3, submitting <- s4, calls <- s5, created <- s6, past <- s7,
  Batches <- {"issues"}, Singles <- {"issue"}, Repositories <- {"r1", "r2"},
  MaxOpenings <- 2, MaxTyped <- 1, MaxFetches <- 2

----------------------------------------------------------------------------

(* The server. *)

\* three days to a week, whose first month ends before a day that a schedule asks for
Jobs == INSTANCE ScheduledJobs WITH
  now <- s1, table <- s2, editing <- s3, history <- s4,
  Jobs <- {"job"},
  Schedules <- {[type |-> "interval", minutes |-> 2], [type |-> "once"], [type |-> "daily", clock |-> 1],
                [type |-> "weekly", clock |-> 0, weekday |-> 2], [type |-> "monthly", clock |-> 1, day |-> 3]},
  Day <- 2, Week <- 3, MonthBegins <- <<0, 2, 5, 8>>, MaxTime <- 6, MaxRuns <- 1, MaxEdits <- 2

Reminders == INSTANCE QuoteReminders WITH
  time <- s1, file <- s2, server <- s3, window <- s4, log <- s5,
  Ranges <- {{1}, {2}}, Webs <- {"w1", "w2"}, MaxTime <- 2, MaxSaves <- 1, MaxRestarts <- 1

Plans == INSTANCE PlanReminders WITH
  time <- s1, plans <- s2, sending <- s3, delivered <- s4, inbox <- s5, changes <- s6,
  Plans <- {"p", "q"}, MaxTasks <- 2, Day <- 3, CheckIns <- <<0, 1, 2>>, MaxTime <- 5, MaxMoves <- 3

\* a file, and one whose path makes the first a directory
Tags == INSTANCE RepositoryTags WITH
  files <- s1, completions <- s2, tags <- s3,
  Paths <- {"a", "a/b"}, Inside <- {<<"a/b", "a">>}, Contents <- {"x", "y"},
  Branches <- {"main", "topic"}, Default <- "main", MaxCompletions <- 2, MaxTags <- 3

\* two callers with two values for each field
Edits == INSTANCE PullRequestEdits WITH
  editStatus <- s1, title <- s2, description <- s3, request <- s4, pending <- s5, writing <- s6,
  overtaken <- s7,
  Caller <- {"c1", "c2"}, Text <- {"old", "new"}, Blank <- Nothing

----------------------------------------------------------------------------

ASSUME PartsAssumption ==
  /\ Translation!TranslationAssumption /\ Turning!TranslationAssumption
  /\ Notes!TranslationAssumption
  /\ Document!DocumentAssumption /\ Stage!PagesAssumption
  /\ Marks!MarksAssumption /\ Help!HelpAssumption /\ Insights!InsightsAssumption
  /\ Sessions!SessionsAssumption /\ Room!RoomAssumption /\ Threads!ThreadsAssumption
  /\ Actions!ActionsAssumption /\ Tutor!ModelsAssumption /\ Discussion!DiscussionAssumption
  /\ Departure!DiscussionAssumption
  /\ Settings!SettingsAssumption /\ Catalogue!CatalogueAssumption /\ Code!CodeAssumption
  /\ Typing!CodeAssumption
  /\ Lists!ListsAssumption /\ Workspace!WorkspaceAssumption
  /\ Projects!LocalProjectsAssumption /\ Overview!OverviewAssumption /\ Readme!ReadmeAssumption
  /\ Jobs!JobsAssumption /\ Reminders!RemindersAssumption /\ Plans!PlansAssumption
  /\ Tags!TagsAssumption
  /\ Pieces!PiecesAssumption /\ Graph!LayoutsAssumption /\ Return!LayoutsAssumption
  /\ Sounds!SoundsAssumption /\ Forms!FormsAssumption /\ Edits!BlankAssumption

IdleFrom3 == s3 = 0 /\ s4 = 0 /\ s5 = 0 /\ s6 = 0 /\ s7 = 0 /\ s8 = 0
IdleFrom4 == s4 = 0 /\ s5 = 0 /\ s6 = 0 /\ s7 = 0 /\ s8 = 0
IdleFrom5 == s5 = 0 /\ s6 = 0 /\ s7 = 0 /\ s8 = 0
IdleFrom6 == s6 = 0 /\ s7 = 0 /\ s8 = 0
IdleFrom7 == s7 = 0 /\ s8 = 0
IdleFrom8 == s8 = 0

Init ==
  /\ part \in Parts
  /\ \/ part = "translation" /\ Translation!TranslationInit /\ IdleFrom7
     \/ part = "turning" /\ Turning!TranslationInit /\ IdleFrom7
     \/ part = "notes" /\ Notes!TranslationInit /\ IdleFrom7
     \/ part = "document" /\ Document!DocumentInit /\ IdleFrom4
     \/ part = "stage" /\ Stage!PagesInit /\ IdleFrom7
     \/ part = "marks" /\ Marks!MarksInit /\ IdleFrom5
     \/ part = "help" /\ Help!HelpInit /\ IdleFrom6
     \/ part = "insights" /\ Insights!InsightsInit /\ IdleFrom5
     \/ part = "sessions" /\ Sessions!SessionsInit /\ IdleFrom6
     \/ part = "room" /\ Room!RoomInit /\ IdleFrom4
     \/ part = "threads" /\ Threads!ThreadsInit /\ IdleFrom4
     \/ part = "actions" /\ Actions!ActionsInit /\ IdleFrom3
     \/ part = "tutor" /\ Tutor!ModelsInit /\ IdleFrom5
     \/ part = "discussion" /\ Discussion!DiscussionInit /\ IdleFrom4
     \/ part = "departure" /\ Departure!DiscussionInit /\ IdleFrom4
     \/ part = "settings" /\ Settings!AgentSettingsInit /\ IdleFrom4
     \/ part = "catalogue" /\ Catalogue!CatalogueInit /\ IdleFrom5
     \/ part = "code" /\ Code!CodeInit
     \/ part = "typing" /\ Typing!CodeInit
     \/ part = "lists" /\ Lists!ListsInit /\ IdleFrom8
     \/ part = "workspace" /\ Workspace!WorkspaceInit /\ IdleFrom7
     \/ part = "projects" /\ Projects!LocalProjectsInit /\ IdleFrom6
     \/ part = "overview" /\ Overview!OverviewInit /\ IdleFrom5
     \/ part = "readme" /\ Readme!ReadmeInit /\ IdleFrom5
     \/ part = "pieces" /\ Pieces!PiecesInit /\ IdleFrom4
     \/ part = "graph" /\ Graph!LayoutsInit /\ IdleFrom7
     \/ part = "return" /\ Return!LayoutsInit /\ IdleFrom7
     \/ part = "sounds" /\ Sounds!SoundsInit /\ IdleFrom6
     \/ part = "forms" /\ Forms!FormsInit /\ IdleFrom8
     \/ part = "jobs" /\ Jobs!JobsInit /\ IdleFrom5
     \/ part = "reminders" /\ Reminders!RemindersInit /\ IdleFrom6
     \/ part = "plans" /\ Plans!PlansInit /\ IdleFrom7
     \/ part = "tags" /\ Tags!TagsInit /\ IdleFrom4
     \/ part = "edits" /\ Edits!EditsInit /\ IdleFrom8

Next ==
  \/ part = "translation" /\ Translation!TranslationNext /\ UNCHANGED <<part, s7, s8>>
  \/ part = "turning" /\ Turning!TranslationNext /\ UNCHANGED <<part, s7, s8>>
  \/ part = "notes" /\ Notes!TranslationNext /\ UNCHANGED <<part, s7, s8>>
  \/ part = "document" /\ Document!DocumentNext /\ UNCHANGED <<part, s4, s5, s6, s7, s8>>
  \/ part = "stage" /\ Stage!PagesNext /\ UNCHANGED <<part, s7, s8>>
  \/ part = "marks" /\ Marks!MarksNext /\ UNCHANGED <<part, s5, s6, s7, s8>>
  \/ part = "help" /\ Help!HelpNext /\ UNCHANGED <<part, s6, s7, s8>>
  \/ part = "insights" /\ Insights!InsightsNext /\ UNCHANGED <<part, s5, s6, s7, s8>>
  \/ part = "sessions" /\ Sessions!SessionsNext /\ UNCHANGED <<part, s6, s7, s8>>
  \/ part = "room" /\ Room!RoomNext /\ UNCHANGED <<part, s4, s5, s6, s7, s8>>
  \/ part = "threads" /\ Threads!ThreadsNext /\ UNCHANGED <<part, s4, s5, s6, s7, s8>>
  \/ part = "actions" /\ Actions!ActionsNext /\ UNCHANGED <<part, s3, s4, s5, s6, s7, s8>>
  \/ part = "tutor" /\ Tutor!ModelsNext /\ UNCHANGED <<part, s5, s6, s7, s8>>
  \/ part = "discussion" /\ Discussion!DiscussionNext /\ UNCHANGED <<part, s4, s5, s6, s7, s8>>
  \/ part = "departure" /\ Departure!DiscussionNext /\ UNCHANGED <<part, s4, s5, s6, s7, s8>>
  \/ part = "settings" /\ Settings!AgentSettingsNext /\ UNCHANGED <<part, s4, s5, s6, s7, s8>>
  \/ part = "catalogue" /\ Catalogue!CatalogueNext /\ UNCHANGED <<part, s5, s6, s7, s8>>
  \/ part = "code" /\ Code!CodeNext /\ UNCHANGED part
  \/ part = "typing" /\ Typing!CodeNext /\ UNCHANGED part
  \/ part = "lists" /\ Lists!ListsNext /\ UNCHANGED <<part, s8>>
  \/ part = "workspace" /\ Workspace!WorkspaceNext /\ UNCHANGED <<part, s7, s8>>
  \/ part = "projects" /\ Projects!LocalProjectsNext /\ UNCHANGED <<part, s6, s7, s8>>
  \/ part = "overview" /\ Overview!OverviewNext /\ UNCHANGED <<part, s5, s6, s7, s8>>
  \/ part = "readme" /\ Readme!ReadmeNext /\ UNCHANGED <<part, s5, s6, s7, s8>>
  \/ part = "pieces" /\ Pieces!PiecesNext /\ UNCHANGED <<part, s4, s5, s6, s7, s8>>
  \/ part = "graph" /\ Graph!LayoutsNext /\ UNCHANGED <<part, s7, s8>>
  \/ part = "return" /\ Return!LayoutsNext /\ UNCHANGED <<part, s7, s8>>
  \/ part = "sounds" /\ Sounds!SoundsNext /\ UNCHANGED <<part, s6, s7, s8>>
  \/ part = "forms" /\ Forms!FormsNext /\ UNCHANGED <<part, s8>>
  \/ part = "jobs" /\ Jobs!JobsNext /\ UNCHANGED <<part, s5, s6, s7, s8>>
  \/ part = "reminders" /\ Reminders!RemindersNext /\ UNCHANGED <<part, s6, s7, s8>>
  \/ part = "plans" /\ Plans!PlansNext /\ UNCHANGED <<part, s7, s8>>
  \/ part = "tags" /\ Tags!TagsNext /\ UNCHANGED <<part, s4, s5, s6, s7, s8>>
  \/ part = "edits" /\ Edits!EditsNext /\ UNCHANGED <<part, s8>>

Spec == Init /\ [][Next]_vars

----------------------------------------------------------------------------

(* What each part keeps has the shape the code gives it. *)
PartsTypeOK ==
  /\ part \in Parts
  /\ part = "translation" => Translation!TranslationTypeOK
  /\ part = "turning" => Turning!TranslationTypeOK
  /\ part = "notes" => Notes!TranslationTypeOK
  /\ part = "document" => Document!DocumentTypeOK
  /\ part = "stage" => Stage!PagesTypeOK
  /\ part = "marks" => Marks!MarksTypeOK
  /\ part = "help" => Help!HelpTypeOK
  /\ part = "insights" => Insights!InsightsTypeOK
  /\ part = "sessions" => Sessions!SessionsTypeOK
  /\ part = "room" => Room!RoomTypeOK
  /\ part = "threads" => Threads!ThreadsTypeOK
  /\ part = "actions" => Actions!ActionsTypeOK
  /\ part = "tutor" => Tutor!ModelsTypeOK
  /\ part = "discussion" => Discussion!DiscussionTypeOK
  /\ part = "departure" => Departure!DiscussionTypeOK
  /\ part = "settings" => Settings!AgentSettingsTypeOK
  /\ part = "catalogue" => Catalogue!CatalogueTypeOK
  /\ part = "code" => Code!CodeTypeOK
  /\ part = "typing" => Typing!CodeTypeOK
  /\ part = "lists" => Lists!ListsTypeOK
  /\ part = "workspace" => Workspace!WorkspaceTypeOK
  /\ part = "projects" => Projects!LocalProjectsTypeOK
  /\ part = "overview" => Overview!OverviewTypeOK
  /\ part = "graph" => Graph!LayoutsTypeOK
  /\ part = "return" => Return!LayoutsTypeOK
  /\ part = "sounds" => Sounds!SoundsTypeOK
  /\ part = "forms" => Forms!FormsTypeOK
  /\ part = "jobs" => Jobs!JobsTypeOK
  /\ part = "reminders" => Reminders!RemindersTypeOK
  /\ part = "plans" => Plans!PlansTypeOK
  /\ part = "tags" => Tags!TagsTypeOK

(* What the reader sees on a page, can select on it or has saved under it      *)
(* belongs to that page: the selectable text, the marks, the companion's pins  *)
(* and notes.  Every one of them arrives late, from a renderer, a model or the *)
(* server, when the page may have been turned.  Two things may be another      *)
(* page's, in one situation each: the translation, until the page's own call   *)
(* has brought its parts, and a mark of the tutor, if the page was turned      *)
(* since the question.  And a model's answer passes for the translation of a   *)
(* page exactly if its segments lie in that page.                              *)
PageIsItsOwn ==
  /\ part = "translation" => Translation!OtherPageOnlyWhileUnfinished
  /\ part = "turning" => Turning!OtherPageOnlyWhileUnfinished
  /\ part = "notes" => Notes!OtherPageOnlyWhileUnfinished
  /\ part = "stage" => Stage!SelectableTextIsThisPage
  /\ part = "marks" => Marks!MarksLieOnTheirPage
  /\ part = "help" => Help!PinsAreOfThisPage
  /\ part = "insights" => Insights!NotesLieAtTheirPage
  /\ part = "pieces" => Pieces!AlignedIsPlaced

(* Who waits, waits for something: a spinner over a page, a translation or a   *)
(* list stands for a call that still runs and will end it, a download runs     *)
(* for exactly the readers that wait for it, and the tutor is busy exactly     *)
(* while it answers.                                                           *)
WaitingHasReason ==
  /\ part = "translation" => Translation!BlankPageHasReason
  /\ part = "turning" => Turning!BlankPageHasReason
  /\ part = "notes" => Notes!BlankPageHasReason
  /\ part = "stage" => Stage!SpinnerIsWork
  /\ part = "document" => Document!DownloadsFollowReaders
  /\ part = "threads" => Threads!BusyIsOneQuestion
  /\ part = "lists" => Lists!ListSpinnerIsWork

(* What is kept is what happened: a page is kept as translated only with all   *)
(* its parts, the highlights listed are the stored ones, a reading session     *)
(* that ended is recorded or waits to be, one that runs is remembered over a   *)
(* reload and is not left by the browser's button, the connection of the old   *)
(* tutor is kept until it is on the server, no setting is overwritten by a     *)
(* reminder that was under way, an arrangement of the graph that is called     *)
(* saved was stored and one that was reset does not come back, and the tags of *)
(* a repository gather every completion of its default branch once, with the   *)
(* files as accepted.                                                          *)
KeptIsTrue ==
  /\ part = "translation" => Translation!KeptPagesAreWhole
  /\ part = "turning" => Turning!KeptPagesAreWhole
  /\ part = "notes" => Notes!KeptPagesAreWhole
  /\ part = "marks" => Marks!ListIsStored
  /\ part = "sessions" => Sessions!EndedIsKept /\ Sessions!RunningIsRemembered
  /\ part = "room" => Room!GuardStays
  /\ part = "tutor" => Tutor!ConnectionIsKept
  /\ part = "reminders" => Reminders!SettingsSurvive
  /\ part = "graph" => Graph!SavedIsStored /\ Graph!ResetHolds
  /\ part = "return" => Return!SavedIsStored /\ Return!ResetHolds
  /\ part = "tags" => Tags!TagsPartitionHistory /\ Tags!TagHoldsAccepted /\ Tags!ComparisonIsExact

(* Nothing late undoes what was settled: the end of a translation job, the     *)
(* reader's choice of a model, the verdict of a model's test, the repository   *)
(* that the address names, the part of an answer that is shown already, and the*)
(* cadence of a recurring job.                                                 *)
PastIsKept ==
  [][/\ part = "translation" => Translation!TerminalStep
     /\ part = "turning" => Turning!TerminalStep
     /\ part = "notes" => Notes!TerminalStep
     /\ part = "room" => Room!ChoiceStep
     /\ part = "catalogue" => Catalogue!VerdictStep
     /\ part = "workspace" => Workspace!RouteStep
     /\ part = "pieces" => Pieces!PreviewStep
     /\ part = "jobs" => Jobs!CadenceStep]_vars

(* "Accepted and closed PRs are records and cannot be edited": an edit that    *)
(* read the pull request while it was open writes nothing once it has left     *)
(* that state (the guard of Store.UpdatePullRequest's UPDATE).                 *)
RecordsAreFrozen == [][part = "edits" => Edits!FrozenStep]_vars

(* A field left blank changes only when another edit was written between this  *)
(* edit's read and its write (PullRequestService.UpdatePullRequest).           *)
BlankKeptUnlessOvertaken == [][part = "edits" => Edits!BlankStep]_vars

(* The study assistant tells the truth: it reports what became of every change *)
(* that was asked for, claims no write that was not made, keeps to the         *)
(* selected passage, and sends the model no turn that an edit replaced.        *)
CompanionIsTruthful ==
  /\ part = "actions" =>
       Actions!EveryWishIsReported /\ Actions!ReportIsTrue /\ Actions!SelectionIsAuthoritative
  /\ part = "threads" => Threads!ReplacedTurnsAreNotSent

(* A discussion of agents keeps its order: the chair has the last word of      *)
(* every round and is last in every roster, the thread goes on from run to     *)
(* run, and the run that is shown is the newest.                               *)
DiscussionKeepsOrder ==
  /\ part = "discussion" => Discussion!ChairHasTheLastWord /\ Discussion!ThreadIsInOrder
  /\ part = "departure" => Departure!ChairHasTheLastWord /\ Departure!ThreadIsInOrder
  /\ part = "settings" => Settings!ChairIsLast /\ Settings!ShownRunIsNewest

(* What is shown of a repository is its own: the releases, comparison and      *)
(* overview of a linked one, the preferred README, a directory without gaps,   *)
(* and the branches that a form offers, whichever page of whichever repository *)
(* answers late.                                                               *)
RepositoryShownIsOwn ==
  /\ part = "lists" => Lists!ReleasesAreOwn /\ Lists!ComparisonIsOwn
  /\ part = "overview" => Overview!OverviewIsOwn /\ Overview!ReadmeIsPreferred
  /\ part = "code" => Code!DirectoryIsWhole
  /\ part = "forms" => Forms!ChoicesAreOwn

(* No text is lost, doubled or out of order where it is cut: no line of a      *)
(* README, no word of a page that is translated in pieces, no translation of   *)
(* one, and nothing of a request to the tutor, which fits the AI runtime.      *)
TextIsWhole ==
  /\ part = "readme" => Readme!EveryLineIsShown
  /\ part = "pieces" => Pieces!PagesAreWhole /\ Pieces!MergedInOrder /\ Pieces!RequestsFit

(* Only what was meant is done, and once: a file is committed as its           *)
(* difference was last shown, a project with repositories keeps exactly one    *)
(* primary one, whatever two windows link, unlink and promote, a model of the  *)
(* cloud is tested only under a policy that allows it, what is typed into a    *)
(* form is created once, a chime announces only news and sounds only while it  *)
(* is wanted, a one-time job runs once, a due time of the quotes is announced  *)
(* once, and the check-ins of a day come once each, in order and never together*)
ActsAreMeant ==
  /\ part = "code" => Code!OnlyPreviewedIsCommitted
  /\ part = "typing" => Typing!OnlyPreviewedIsCommitted
  /\ part = "projects" => Projects!OnePrimary
  /\ part = "tutor" => Tutor!TestsFollowPolicy
  /\ part = "forms" => Forms!CreatedOnce
  /\ part = "sounds" => Sounds!SoundIsWanted /\ Sounds!AnnouncedIsNews
  /\ part = "jobs" => Jobs!OnceRunsOnce
  /\ part = "reminders" => Reminders!OneReminderPerDueTime
  /\ part = "plans" => Plans!CheckInsAreSpread
=============================================================================
