SPECIFICATION MCSpec
CONSTANTS
    Workers = {w1, w2}
    Users = {u1, u2, u3}
    None = None
    Free = 1
    Counts <- TwoOrThree
    Viewers = {u1}
INVARIANTS TypeOK SeatsCovered QuietHoldersAreMembers
CHECK_DEADLOCK FALSE
SYMMETRY Sym
