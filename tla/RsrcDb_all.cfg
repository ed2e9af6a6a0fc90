SPECIFICATION Spec
CONSTANTS
    Pids <- TwoPids
    Width = 4
    PoolSize = 5
    Seeds <- LowSeed
    CreateSets <- LowRanges
    RequestSets <- LowRequests
INVARIANTS  PoolConserved GrantMeetsRequest RefusalChangesNothing
PROPERTY NoAddressLost
CHECK_DEADLOCK FALSE
