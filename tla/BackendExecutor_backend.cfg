SPECIFICATION FairSpec
CONSTANTS
    N = 4
    Reused = {1}
    Shared = {2}
    Policies = {3}
    Teardowns = {t1, t2}
    MaxFaults = 3
    MaxCrashes = 2
INVARIANTS NoOrphan SendsOnce ReportsTrue OneWorker
PROPERTIES LifecycleEnds
CHECK_DEADLOCK FALSE
