SPECIFICATION FairSpec
CONSTANTS
    N = 4
    RawAccounts <- RawLast
    MaxTries = 3
    MaxFallback = 3
CHECK_DEADLOCK FALSE
INVARIANTS
    EndIsRecorded
    AllTried
PROPERTIES
    ImplementsSingleOrder
    SignalEnds
