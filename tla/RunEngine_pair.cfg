SPECIFICATION Spec
CONSTANTS
    N = 2
    Kind <- MarkedIam
    Owned = {1}
    MAX_ATTEMPTS = 2
    MaxCrashes = 1
    MaxResumes = 1
INVARIANTS IntentBeforeSend SucceededMeansPresent SlotHeldDuringCalls FailuresHandled
PROPERTIES ReverseOrder OutcomeIsFinal
CHECK_DEADLOCK FALSE
