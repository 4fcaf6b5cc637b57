CONSTANTS
    p1 = p1
    p2 = p2
    p3 = p3
    s1 = s1
    s2 = s2
    None = None
    Posts = {p1, p2, p3}
    Tasks = {1, 2}
    Sessions = {s1}
    SessionOf <- OneSession
    ToolUsers = {}
    Overlap = TRUE
    CanCrash = TRUE
    CanExpire = FALSE
    Caching = FALSE
    DockerFaults = {}
SPECIFICATION Spec
CHECK_DEADLOCK FALSE
INVARIANTS OneSpawner
