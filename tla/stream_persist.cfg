CONSTANTS
    p1 = p1
    p2 = p2
    g1 = g1
    r1 = r1
    None = None
    Posts = {p1, p2}
    Gets = {}
    Runs = {r1}
    RunOf <- OneRun
    Last = 2
    QueueCap = 1
    RingCap = 20
    PendingCap = 2
    Overlap = FALSE
    Warm = TRUE
    CanIdle = TRUE
    DbFaults = TRUE
SPECIFICATION StreamSpec
SYMMETRY Symmetry
CHECK_DEADLOCK FALSE
INVARIANTS TypeOK StoredWhole StoredOnce
