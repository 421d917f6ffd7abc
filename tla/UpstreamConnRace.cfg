SPECIFICATION Spec
CONSTANTS
    Upstreams <- MCUpstreams
    Handlers <- TwoHandlers
    Urls <- OneUrl
    MaxUpdates = 3
    MaxConns = 3
    MaxLoops = 3
CHECK_DEADLOCK FALSE
INVARIANTS
    DisconnectDisconnects
