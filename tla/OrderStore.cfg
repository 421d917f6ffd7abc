SPECIFICATION Spec
CONSTANTS
    MaxRecs = 2
    MaxId = 3
    Hosts <- TwoHosts
    Outcomes <- OneOutcome
    SetResults <- OneResult
INVARIANTS
    IdsIncrease
    CleanMeansSaved
PROPERTIES
    SavedUntilEvicted
