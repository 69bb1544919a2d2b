SPECIFICATION Spec
CONSTANTS
    File = {f1, f2}
    ProviderError = {"invalid_api_key", "Reqwest"}
    QUEUE_DEPTH = 1
    PIPE = 1
    MaxRequests = 2
    MaxDrops = 1
INVARIANTS
    TokensMatchWork
    ExitTellsOutcome
    SliceTellsOutcome
PROPERTIES
    EachEndsOnce
    AcceptedEnds
CHECK_DEADLOCK FALSE
