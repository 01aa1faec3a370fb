SPECIFICATION TranslationSpec
CONSTANTS
    Pages = {1, 2}
    TextPages = {1, 2}
    Settings = {fa}
    Parts = 2
    RetainedJobs = 1
    KeptPages = 2
    MaxRuns = 2
    MaxReaders = 1
    MaxAnalyses = 0
    Nothing = Nothing
CHECK_DEADLOCK FALSE
INVARIANT PanelShowsThisPage
