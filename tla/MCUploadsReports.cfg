SPECIFICATION Spec
CONSTANTS
    Workers = {w1, w2}
    Commits = {a, b}
    MaxPerCommit = 1
    Monthly = 1
    Budget <- BudgetReports
SYMMETRY Sym
INVARIANT OneReport
CHECK_DEADLOCK FALSE
