SPECIFICATION FairSpec
CONSTANTS
    ou1 = ou1
    group1 = group1
    customer = customer
    unit = unit
    other = other
    ingroup = ingroup
    Jobs = {1}
    Requests = {unit, other, ingroup}
    Scopes = {ou1, group1, customer}
    Groups = {group1}
    Keys <- RequestKeys
    Creates <- RequestCreates
    Handlers = {h1, h2}
    LeaseTime = 2
    FlightTime = 1
    MaxFaults = 2
INVARIANTS SharedSlot NoDuplicate OutcomeKept
PROPERTIES LeaseClears
CHECK_DEADLOCK FALSE
