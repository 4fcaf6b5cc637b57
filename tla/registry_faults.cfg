CONSTANTS
    p1 = p1
    p2 = p2
    p3 = p3
    s1 = s1
    s2 = s2
    None = None
    Posts = {p1, p2}
    Tasks = {1, 2}
    Sessions = {s1}
    SessionOf <- OneSession
    ToolUsers = {p1}
    Overlap = TRUE
    CanCrash = FALSE
    CanExpire = TRUE
    Caching = FALSE
    DockerFaults = {"spawn", "show"}
SPECIFICATION FairSpec
CHECK_DEADLOCK FALSE
INVARIANTS TypeOK CrashedWereAllowed
PROPERTIES EveryPostSettles KilledRunnerLeaves
