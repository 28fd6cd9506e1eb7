SPECIFICATION Spec
CONSTANTS
    p1 = p1
    Name <- OneName
    Addr = {1}
    Request <- Auto
    Gateway = {0}
    MaxUID = 2
    SubnetLag = 0
    CacheLag = TRUE
    Failures = TRUE
INVARIANTS
    TypeOK
    ReservedUnlessFault
    
CHECK_DEADLOCK FALSE
