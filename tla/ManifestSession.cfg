SPECIFICATION FairSpec
CONSTANTS
    NoRef = NoRef
    NoTime = NoTime
    ToZero = ToZero
    Entity <- Entities
    Histories <- AllHistories
    Dcsms <- SteeringServers
    Origin = "origin"
    Here = Here
    MaxNow = 6
INVARIANT DocumentInv
PROPERTIES
    PatchesComeFirst
    SteeringFollowsDocument
    RefreshEnds
