SPECIFICATION Spec
CONSTANTS
    upstream = upstream
    pushed = pushed
    Percents <- SomePercents
    Limits <- SomeLimits
    Amounts <- SomeAmounts
    Balances <- SomeBalances
    Accounts <- ThreeAccounts
    Groups <- ThreeGroups
    Priority <- FallbackThird
    SkipSignals <- ThirdSkipsTwo
    Binding <- OneOfEach
    ResetAfter = 1
    Workers <- TwoWorkers
    MaxSignals = 3
    MaxTime = 2
    Unusable = Unusable
    Infos <- SomeInfos
    bnc = bnc
    tfl = tfl
    hbt = hbt
    Bound <- ThreeBound
    OwnSizes <- FourSizes
    SignalAmounts <- WithAndWithout
    NoAmount = NoAmount
    MaxAttempts = 5
SYMMETRY Alike
CHECK_DEADLOCK FALSE
INVARIANTS
    RoundRobinEven
    NearestAllowed
    WeightsAreFair
    OwnUnlessFlat
PROPERTIES
    QuotaFirst
