SPECIFICATION Spec
CONSTANTS
    Workers = {w1, w2}
    Subs = {s1, s2}
    None = None
    Wants <- WantsRace
    StaffPlans <- NoStaff
    Ordered = FALSE
    Overlap = TRUE
    Budget <- BudgetRace
INVARIANTS OnlyBoughtTerms SubscriptionHasCustomer
CHECK_DEADLOCK FALSE
SYMMETRY Sym
