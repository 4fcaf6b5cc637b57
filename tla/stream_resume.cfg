CONSTANTS
    p1 = p1
    p2 = p2
    p3 = p3
    g1 = g1
    g2 = g2
    r1 = r1
    r2 = r2
    r3 = r3
    None = None
    Posts = {p1}
    Gets = {g1, g2}
    Runs = {r1}
    RunOf <- OneRun
    Mine = {p1}
    Last = 3
    QueueCap = 2
    RingCap = 3
    PendingCap = 2
    Overlap = FALSE
    Warm = TRUE
    CanIdle = TRUE
    DbFaults = TRUE
SPECIFICATION Spec
CHECK_DEADLOCK FALSE
INVARIANTS ClientTypeOK NoGap
PROPERTIES NoLeakedQueue
