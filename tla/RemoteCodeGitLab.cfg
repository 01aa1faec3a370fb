SPECIFICATION CodeSpec
CONSTANTS
    Branches = {main}
    Main = main
    Files = {f}
    FirstPage = {f}
    FolderPages = 1
    Kind = "gitlab"
    MaxTexts = 2
    MaxCommits = 2
    MaxCalls = 1
    Nothing = Nothing
CHECK_DEADLOCK FALSE
INVARIANT RefusalIsTrue
