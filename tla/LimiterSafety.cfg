SPECIFICATION Spec
CONSTANTS
    r1 = r1  r2 = r2  r3 = r3  r4 = r4  c1 = c1  c2 = c2
    Requests = {r1, r2, r3, r4}
    Clients = {c1, c2}
    Routes <- MCRoutes
    Limit <- MCLimit
    Window = 2
    MaxDelay = 1
    MaxTime = 4
    None = None
SYMMETRY Symmetry
CHECK_DEADLOCK FALSE
INVARIANTS
    AtMostLimit
    IInv
