SPECIFICATION FairSpec
CONSTANTS
    c1 = c1
    c2 = c2
    o1 = o1
    o2 = o2
    o3 = o3
    o4 = o4
    None = None
    Callers = {c1, c2}
    Objects = {o1, o2, o3, o4}
    MaxRefusals = 1
    MaxSignOuts = 1
INVARIANTS CacheIsCurrent ResendIsFresh SignedOut
PROPERTIES RequestsEnd
CHECK_DEADLOCK FALSE
