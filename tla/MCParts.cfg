SPECIFICATION Spec
CONSTANTS
    Parts = {"translation", "turning", "notes", "document", "stage", "marks", "help", "insights", "sessions",
             "room", "threads", "actions", "tutor", "discussion", "departure", "settings", "catalogue",
             "code", "typing", "lists", "workspace", "projects", "overview", "readme", "pieces",
             "graph", "return", "sounds", "forms", "jobs", "reminders", "plans", "tags",
             "edits"}
    Nothing = Nothing
CHECK_DEADLOCK FALSE
INVARIANTS
    PartsTypeOK
    PageIsItsOwn
    WaitingHasReason
    KeptIsTrue
    CompanionIsTruthful
    DiscussionKeepsOrder
    RepositoryShownIsOwn
    TextIsWhole
    ActsAreMeant
PROPERTIES
    PastIsKept
    RecordsAreFrozen
    BlankKeptUnlessOvertaken
