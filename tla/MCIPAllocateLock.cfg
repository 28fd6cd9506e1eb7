SPECIFICATION FairSpec
CONSTANTS
    p1 = p1
    p2 = p2
    p3 = p3
    s1 = s1
    s2 = s2
    Procs <- MCProcs
    Subnets <- MCSubnets
INVARIANTS
    MutualExclusion
    FlagHasOwner
    
PROPERTIES
    EveryCallReturns
    ImplementsSubnetLock
