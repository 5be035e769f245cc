SPECIFICATION Spec
CONSTANTS
    NoVal = NoVal
    Failed = Failed
    Endless = Endless
    MixSeed = 7
    MixTag = 5
    Second = 1
    DefaultDepth = 8
    MaxExpansion = 20
    HeaderSize = 2
    Sites <- AllSites
    Media <- Held
    IndexFile <- FileOf
    Published <- PublishedAt
    Steerings <- SomeSteerings
    Seeks <- SomeSeeks
    Start = 0
    MaxNow = 12
INVARIANT IndexedRangeIsRight
CHECK_DEADLOCK FALSE
