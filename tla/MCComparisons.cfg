SPECIFICATION FairSpec
CONSTANTS
    Workers = {w1, w2}
    Commits = {"a", "b", "c"}
    Keys <- Line
    Late <- NoLate
    None = None
    Budget <- BudgetSmall
INVARIANTS TypeOK PendingIsServed StaleIsDetected
PROPERTY ImplementsQueue
CHECK_DEADLOCK FALSE
