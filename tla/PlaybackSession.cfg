SPECIFICATION Spec
CONSTANTS
    Tracks = {audio, video}
    NoTime = NoTime
    MinBuffer = 2
    HealthyBuffer = 2
    LatencyTarget = 1
    LatencyMax = 2
    SeekTimes = {0, 2}
    Spans <- SmallSpans
    Reports = {0, 2}
    Elapsed = {1, 2}
    Policies <- AllPolicies
    Live = FALSE
    MaxTime = 3
    MaxInterrupts = 2
    MaxCancels = 1
INVARIANTS
    ClockInv
    IdleStaysIdle
    PlayingHasMedia
PROPERTY ClockFrozen
CHECK_DEADLOCK FALSE
