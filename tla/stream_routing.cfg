CONSTANTS
    p1 = p1
    p2 = p2
    p3 = p3
    r1 = r1
    r2 = r2
    r3 = r3
    None = None
    Posts = {p1, p2, p3}
    Runs = {r1, r2, r3}
    RunOf <- OwnRuns
    Last = 3
    PendingCap = 2
    Overlap = TRUE
SPECIFICATION RoutingSpec
SYMMETRY Symmetry
CHECK_DEADLOCK FALSE
INVARIANTS RoutingTypeOK StartedFirst EachFrameOnce
PROPERTIES LatestRunKeepsItsTopic
