CONSTANTS
    t1 = t1
    t2 = t2
    None = None
    Calls = {t1, t2}
    Shapes <- ThreeShapes
    AfterCap = 1
SPECIFICATION FairSpec
CHECK_DEADLOCK FALSE
INVARIANTS RunsOnlyRecorded RecordEndsWithCall
PROPERTIES EveryCallSettles
