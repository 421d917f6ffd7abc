SPECIFICATION FairSpec
CONSTANTS
    Upstreams <- MCUpstreams
    Handlers <- TwoHandlers
    Urls <- OneUrl
    MaxUpdates = 3
    MaxConns = 3
    MaxLoops = 3
CHECK_DEADLOCK FALSE
INVARIANTS
    OneLoopPerConn
    OneFeedPerUpstream
    NoZombie
    SyncApplied
PROPERTIES
    KeepsConnecting
