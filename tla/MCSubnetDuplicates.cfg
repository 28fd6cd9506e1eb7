SPECIFICATION OperatorSpec
CONSTANTS
    p1 = p1
    p2 = p2
    Name <- TwoNames
    Addr = {1}
    Request <- Auto
    Gateway = {0}
    MaxUID = 2
    SubnetLag = 1
    CacheLag = FALSE
    Failures = FALSE
SYMMETRY Symmetry
INVARIANTS
    UniqueUnlessFault
CHECK_DEADLOCK FALSE
