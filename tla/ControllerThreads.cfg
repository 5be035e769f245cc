SPECIFICATION Spec
CONSTANTS
    engine = engine
    app = app
    video = video
    Engine = engine
    Callers = {app}
    Nobody = Nobody
    Tracks = {video}
    NoTime = NoTime
    MinBuffer = 1
    HealthyBuffer = 1
    LatencyTarget = 1
    LatencyMax = 2
    Policies <- StrictPause
    SeekTimes = {1}
    Reports = {1}
    MaxTime = 2
    MaxCommands = 2
INVARIANT ThreadsInv
CHECK_DEADLOCK FALSE
