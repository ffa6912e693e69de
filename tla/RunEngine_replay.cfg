SPECIFICATION FairSpec
CONSTANTS
    N = 2
    Kind <- UnmarkedMarked
    Owned = {2}
    MAX_ATTEMPTS = 2
    MaxCrashes = 1
    MaxResumes = 1
INVARIANT NoOrphan
PROPERTIES ForeignUntouched RunSettles
CHECK_DEADLOCK FALSE
