SPECIFICATION Spec
CONSTANTS
    Workers = {w1, w2}
    Commits = {a, b, c}
    MaxPerCommit = 1
    Monthly = 1
    Budget <- BudgetAll
SYMMETRY Sym
INVARIANTS TypeOK WithinCommitLimit WithinPlan NothingForgotten DeletedIsGone
CHECK_DEADLOCK FALSE
