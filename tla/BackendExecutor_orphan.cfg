SPECIFICATION Spec
CONSTANTS
    N = 2
    Reused = {}
    Shared = {2}
    Policies = {}
    Teardowns = {}
    MaxFaults = 1
    MaxCrashes = 1
INVARIANT NothingStays
CHECK_DEADLOCK FALSE
