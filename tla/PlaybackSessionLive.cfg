SPECIFICATION Spec
CONSTANTS
    Tracks = {audio, video}
    NoTime = NoTime
    MinBuffer = 1
    HealthyBuffer = 2
    LatencyTarget = 1
    LatencyMax = 2
    SeekTimes = {}
    Spans <- LiveSpans
    Reports = {}
    Elapsed = {1}
    Policies = {}
    Live = TRUE
    MaxTime = 4
    MaxInterrupts = 1
    MaxCancels = 0
PROPERTY LatencyControlIsSound
CHECK_DEADLOCK FALSE
