SPECIFICATION Spec
CONSTANTS
    Nothing = Nothing
    Cells <- MCCells
    MaxScript = 5
    Context = 1
    PaddingLines = 1
    LineDistance = 2
    Day = 2
    DayLength = 2
    MaxCommits = 2
    Names = {"a", "b"}
    MaxDepth = 4
INVARIANTS
    FileIsCompared ReportsAreTrue HistoryIsTrue RequestsAreAnswered
CHECK_DEADLOCK FALSE
