SPECIFICATION Spec
CONSTANTS
    Sites <- AllSites
    Selections <- OneEach
    Users <- SomeUsers
    Algorithms = {"bola", "lol"}
    Buffers = {0, 2, 8}
    Samples <- SomeSamples
    Counters <- Pushes
    Duration = 2
    Full = 28
    Reserve = 1
    Enough = 10
    Share = 15
    Batch = 2
    Length = 3
    MaxEntries = 2
    MaxCommands = 2
INVARIANT QualityInv

    
    
    
CHECK_DEADLOCK FALSE
