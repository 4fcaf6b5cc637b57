CONSTANTS
    p1 = p1
    p2 = p2
    c1 = c1
    c2 = c2
    None = None
    Posts = {p1, p2}
    Containers = {c1, c2}
    MaxRestarts = 1
    MaxLosses = 1
SPECIFICATION FairSpec
CHECK_DEADLOCK FALSE
INVARIANTS InboxTypeOK MessagesSurvive ExclusiveTurn ColdTurnSeesConversation
PROPERTIES QueuedMessageServed
