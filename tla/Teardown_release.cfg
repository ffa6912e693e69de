SPECIFICATION FairSpec
CONSTANTS
    Resources = {1, 2, 3}
    Retained <- OneReused
    Rank <- DigestRank
    Needs <- Nothing
    Handlers = {h1, h2}
    MaxRequests = 3
    MaxCrashes = 2
    MaxRestores = 1
INVARIANTS SlotExclusive TypeOK RowUntilGone SucceededMeansGone NothingSkipped
PROPERTIES OutcomeIsFinal KeepsPromise TeardownSettles
CHECK_DEADLOCK FALSE
