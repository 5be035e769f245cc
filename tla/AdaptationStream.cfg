SPECIFICATION FairSpec
CONSTANTS
    NoUrl = NoUrl
    NoTime = NoTime
    Kinds <- AllKinds
    MaxParallel = 2
INVARIANTS
    DeliveryInv
    OnlyPauseLoses
    RestartsAtTarget
PROPERTIES
    DeliverySpec
    GetsToItsEnd
CHECK_DEADLOCK FALSE
