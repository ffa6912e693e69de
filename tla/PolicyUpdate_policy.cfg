SPECIFICATION FairSpec
CONSTANTS
    a = a
    b = b
    Members = {a, b}
    Initial <- OnlyA
    Handlers = {h1, h2}
    Reconciler = reconciler
    LateUnavailable = FALSE
    MaxRequests = 2
    MaxEdits = 1
    MaxCrashes = 1
    MaxFaults = 1
INVARIANTS PairAgrees WritesUnderCheckpoint
PROPERTIES ChangesAsPair CheckpointSettles
CHECK_DEADLOCK FALSE
