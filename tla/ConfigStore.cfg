SPECIFICATION Spec
CONSTANTS
    s0 = s0
    s1 = s1
    s2 = s2
    Settings <- ThreeSettings
    DefaultSettings <- FirstSettings
    Ports <- TwoPorts
    FilePort = 9946
    MaxUpdates = 3
    btc = btc
    BlankId = BlankId
    Names <- OneName
    Numbers <- TwoNumbers
    MaxTasks = 3
    Day = 6
    Half = 2
    MaxRanges = 2
    Inputs <- ShortLists
CHECK_DEADLOCK FALSE
INVARIANTS
    MemoryAndDiskAgree
    RestartKeepsSettings
    OverrideStaysOut
    IdsAreKept
    RangesAsEntered
