SPECIFICATION FairSpec
CONSTANTS
    Tracks = {1, 2}
    Pssh = {"p1", "p2", "p3"}
    KeysOf <- Keys
    Presentations <- Signalled
    Policies <- SomePolicies
    Fallback = TRUE
    Lead = 2
    NoTime = NoTime
    MaxNow = 4
    MaxFailures = 2
 
PROPERTIES
    
    
    PollIsComplete
    SessionEnds
