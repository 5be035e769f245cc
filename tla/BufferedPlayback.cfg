SPECIFICATION Spec
CONSTANTS
    audio = audio
    video = video
    Tracks = {audio, video}
    NoTime = NoTime
    MinBuffer = 1
    HealthyBuffer = 1
    LatencyTarget = 1
    LatencyMax = 2
    Presentations <- LevelShows
    DefaultMaxBuffer = 2
    CapacitySegments = 1
    MaxParallel = 2
    MaxSince = 1
    MaxCommands = 3
INVARIANT PacingInv
PROPERTY TracksFinish
CHECK_DEADLOCK FALSE
