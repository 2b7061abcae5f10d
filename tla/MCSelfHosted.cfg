SPECIFICATION MCSpec
CONSTANTS
    Workers = {w1, w2}
    Orgs = {o1, o2}
    Users = {u1, u2, u3}
    None = None
    Limit = 1
INVARIANTS TypeOK  
PROPERTY ImplementsPool
SYMMETRY Sym
CHECK_DEADLOCK FALSE
