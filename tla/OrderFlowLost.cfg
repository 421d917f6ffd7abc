SPECIFICATION Spec
CONSTANTS
    N = 2
    RawAccounts <- RawLast
    MaxTries = 3
    MaxFallback = 2
CHECK_DEADLOCK FALSE
INVARIANTS
    ExhaustedMeansRejected
