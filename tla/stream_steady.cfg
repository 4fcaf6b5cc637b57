CONSTANTS
    p1 = p1
    p2 = p2
    p3 = p3
    g1 = g1
    g2 = g2
    r1 = r1
    r2 = r2
    r3 = r3
    None = None
    Posts = {p1, p2}
    Gets = {}
    Runs = {r1, r2}
    RunOf <- OwnRuns
    Mine = {p1, p2}
    Last = 3
    QueueCap = 10
    RingCap = 20
    PendingCap = 2
    Overlap = FALSE
    Warm = TRUE
    CanIdle = FALSE
    DbFaults = TRUE
SPECIFICATION FairSpec
CHECK_DEADLOCK FALSE
PROPERTIES KeepsThePromise RunEndsForBrowser
