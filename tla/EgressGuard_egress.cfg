SPECIFICATION FairSpec
CONSTANTS
    Paths = {p1, p2}
    Contents = {"allow", "warn", "block"}
    Verdict <- OneOfEach
    None = none
    MaxWrites = 3
    MaxFaults = 1
    MaxDeaths = 1
    MaxExpiries = 1
INVARIANTS BaselineVouches KeepsRead
PROPERTY BlockedLeaves
CHECK_DEADLOCK FALSE
