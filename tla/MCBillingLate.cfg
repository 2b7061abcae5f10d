SPECIFICATION FairSpec
CONSTANTS
    Workers = {w1}
    Subs = {s1}
    None = None
    Wants <- WantsCore
    StaffPlans <- NoStaff
    Ordered = FALSE
    Overlap = FALSE
    Budget <- BudgetLate
INVARIANTS QuietReposOff
PROPERTY EndedIsForgotten
CHECK_DEADLOCK FALSE
