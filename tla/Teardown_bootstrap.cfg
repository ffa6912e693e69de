SPECIFICATION Spec
CONSTANTS
    Resources = {1, 2}
    Retained <- Nothing
    Rank <- DigestRank
    Needs <- ChainOfNeeds
    Handlers = {h1, h2}
    MaxRequests = 1
    MaxCrashes = 0
    MaxRestores = 1
INVARIANT CallerHoldsSlot
CHECK_DEADLOCK FALSE
