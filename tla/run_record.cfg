CONSTANTS
    t1 = t1
    u1 = u1
    None = None
    Calls = {t1}
    Users = {u1}
    MaxSeqRetries = 2
    MaxText = 3
SPECIFICATION Spec
CHECK_DEADLOCK FALSE
INVARIANTS SeqsContiguous StoredTextHasNoHole ReloadMatchesLive
