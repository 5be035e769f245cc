SPECIFICATION FairSpec
CONSTANTS
    NoTime = NoTime
    NoId = NoId
    NoUrl = NoUrl
    Tracks = {audio, video}
    TrackSet <- SameSet
    Presentations <- Kinds
    SyncDepth = 1
    SeekTimes = {0, 3}
    MaxSeeks = 1
    MaxNow = 4
    Failing = {1, 2}
    Commands = {"stop", "leave"}

    
    
PROPERTY Ends
CHECK_DEADLOCK FALSE
