SPECIFICATION FairSpec
CONSTANTS
    MaxAttempts = 2
    Factor = 2
    MaxParallel = 2
    Presentations <- Kinds
    MaxCancels = 1
    MaxRuns = 1
INVARIANT TypeOK
PROPERTIES
    NothingGivenUpEarly
    BlacklistIsFair
    CancelledIsQuiet
    InitUnlessWithheld
    BatchEnds
CHECK_DEADLOCK FALSE
