CONSTANTS
    p1 = p1
    p2 = p2
    r1 = r1
    r2 = r2
    None = None
    Posts = {p1, p2}
    Runs = {r1, r2}
    RunOf <- OwnRuns
    Last = 2
    PendingCap = 2
    Prompts <- TwoPrompts
    Oversize <- BigFrames
    Refusable <- BadFrames
    QueueCap = 2
    MaxEvents = 2
SPECIFICATION FairSpec
CHECK_DEADLOCK FALSE
INVARIANTS ChannelTypeOK NothingLostSilently FirstArrivalsInOrder OwnRing
PROPERTIES EveryFrameArrives
