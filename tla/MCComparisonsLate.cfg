SPECIFICATION Spec
CONSTANTS
    Workers = {w1, w2}
    Commits = {"a", "b", "c"}
    Keys <- Line
    Late = {"c"}
    None = None
    Budget <- BudgetLate
INVARIANT PendingIsServed
CHECK_DEADLOCK FALSE
