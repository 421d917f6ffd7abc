SPECIFICATION LogFairSpec
CONSTANTS
    panel1 = panel1
    panel2 = panel2
    Streams <- TwoPanels
    MaxEntries = 2
    Buffer = 2
    MaxLogs = 4
INVARIANTS
    NoGap
PROPERTIES
    EveryEntryShown
