SPECIFICATION OperatorSpec
CONSTANTS
    p1 = p1
    p2 = p2
    Name <- OneName
    Addr = {1}
    Request <- Auto
    Gateway = {0, 1}
    MaxUID = 1
    SubnetLag = 1
    CacheLag = FALSE
    Failures = TRUE

    
PROPERTIES
    ImplementsAllocator
CHECK_DEADLOCK FALSE
