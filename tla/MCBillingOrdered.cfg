SPECIFICATION OrderedSpec
CONSTANTS
    Workers = {w1}
    Subs = {s1, s2}
    None = None
    Wants <- WantsOrdered
    StaffPlans <- StaffLegacy
    Ordered = TRUE
    Overlap = FALSE
    Budget <- BudgetOrdered
INVARIANTS
    TypeOK QuietInSync QuietForgetsEnded PaidPlanNamesSubscription
    CustomerMatches QuietDelinquency
PROPERTY TrialOnce
CHECK_DEADLOCK FALSE
