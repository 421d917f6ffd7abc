SPECIFICATION FairSpec
CONSTANTS
    order = order
    Waiters <- OneWaiter
    Minimums <- TwoMinimums
    Rates <- TwoRates
    MaxRuns = 2
    MaxPushes = 2
INVARIANTS
    OwnerIsAlive
    PublishedIsOpen
    BlockedMeansLow
    PlacedOnce
PROPERTIES
    WaitEnds
