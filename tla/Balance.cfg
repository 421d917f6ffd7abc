SPECIFICATION BalanceSpec
CONSTANTS
    N = 2
    Values <- TwoValues
    Hours = 2
    MaxDay = 2
    MaxChanges = 2
    MaxDays = 2
CHECK_DEADLOCK FALSE
INVARIANTS
    ProfitsAddUp
PROPERTIES
    SnapshotIsFresh
    SnapshotIsComplete
