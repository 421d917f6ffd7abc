SPECIFICATION FairSpec
CONSTANTS
    a1 = a1
    MaxRecs = 2
    Accounts <- OneAccount
    Amounts <- TwoAmounts
    Periods <- OnePeriod
    Window = 1
    Latency = 1
    Buffer = 1
    MaxSettle = 2
    Day = 3
    MinGap = 3
    MaxId = 2
    MaxTime = 4
    Rows = 2
    MaxPages = 2
    MaxEntries = 5
    Numbers <- SomeNumbers
INVARIANTS
    WinsArePaid
    LossIsLate
    StatsCoverWindow
    FetchIsFaithful
    OnlyBareNumbersDiffer
PROPERTIES
    ResultsOnlyImprove
    WinsAreFound
