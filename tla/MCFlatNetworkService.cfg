SPECIFICATION FairSpec
CONSTANTS
    Pod = {1, 2}
    Specs <- MCSpecs
    Backends <- MCBackends
    InitialPods <- OnePod
    MaxPort = 2
    MaxEvents = 3
INVARIANTS
    NoServiceOfService
PROPERTIES
    FlatServiceFollows
    DisabledIsRemoved
    
CHECK_DEADLOCK FALSE
